--------------------------- MODULE MCSinkInspector ---------------------------
(* Instances of SinkInspector for TLC. *)
EXTENDS SinkInspector, TLC

MCSymmetry == Permutations(Inspectors)
=============================================================================
