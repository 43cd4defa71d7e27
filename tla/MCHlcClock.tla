------------------------------ MODULE MCHlcClock ------------------------------
(* Instances of HlcClock for TLC. *)
EXTENDS HlcClock, TLC

\* A remote clock behind, one ahead with a counter that is used up, one within
\* the tolerated drift, and one far beyond it whose counter exceeds 16 bits.
MCRemotes == {Time(0, 1), Time(1, 1), Time(2, 0), Time(9, 3)}

=============================================================================
