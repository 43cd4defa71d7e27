----------------------------- MODULE ConfigPlane -----------------------------
(***************************************************************************)
(* The dynamic configuration: DynamicGatewayState behind an ArcSwap        *)
(* (src/gateway/composite_service.rs), replaced by the admin API           *)
(* (src/admin/mod.rs) and the DNS refresher thread, and persisted by the   *)
(* file backend of ConfigStore (src/core/config_store.rs), from which      *)
(* build_composite_service (src/lib.rs) reads it at the next start.        *)
(*                                                                         *)
(* Nobody holds a lock: a task loads the state, works for a while (file    *)
(* I/O, name resolution) and stores another one.  A step is what a task    *)
(* does between two of those.  A configuration is its content and stands   *)
(* for everything that is derived from it, but for the addresses of its    *)
(* upstreams, which come from DNS: one host and one address here.          *)
(***************************************************************************)
EXTENDS Integers

CONSTANTS
  Contents,    \* configurations that parse
  Startup,     \* the one the process is started with
  HostOf,      \* HostOf[c]: the host name of c's upstream
  DnsEnabled,  \* the configurations with dns.enabled
  Admins,      \* requests to the admin API
  Refresher,   \* the thread of spawn_dns_refresher
  MaxDns,      \* bound: changes of a DNS record
  MaxCrashes,  \* bound: restarts of the process
  Torn,        \* a file that is empty, cut off or mixed, and does not parse
  None         \* no file, no content

ASSUME ConfigAssumption ==
  /\ Startup \in Contents /\ DnsEnabled \subseteq Contents
  /\ DOMAIN HostOf = Contents
  /\ Refresher \notin Admins /\ Startup \notin Admins
  /\ Torn \notin Contents /\ None \notin Contents \union {Torn}
  /\ None \notin Admins \union {Refresher}
  /\ MaxDns \in Nat /\ MaxCrashes \in Nat

VARIABLES
  live,     \* *dynamic_state
  dns,      \* dns[h]: the address host h has now, numbered
  file,     \* the inode at the store's path
  tmp,      \* the inode at its temporary path, or None
  data,     \* data[i]: what inode i holds
  task,     \* task[t]: what task t is doing
  crashes,  \* restarts so far
  saved,    \* the content of the last save_config that returned Ok
  acked,    \* the content of the last update answered "saved and hot-reloaded"
  raced     \* two saves have overlapped

vars == <<live, dns, file, tmp, data, task, crashes, saved, acked, raced>>
fileVars == <<file, tmp, data, saved, raced>>

Tasks  == Admins \union {Refresher}
Hosts  == {HostOf[c] : c \in Contents}
Inodes == Admins \union {Startup}    \* every save may create one

Addr(h) == [host |-> h, at |-> dns[h]]
Resolved(c, v) == [cfg |-> c, version |-> v, addr |-> Addr(HostOf[c])]

States == [cfg: Contents, version: Nat \ {0},
           addr: [host: Hosts, at: 0..MaxDns]]

\* A task: the content it installs, the inode it writes, the state it loaded.
TaskStates ==
  [at:    {"idle", "opened", "written", "load", "build", "resolve", "swap", "done"},
   op:    {"none", "update", "save", "reload", "rescan"},
   doc:   Contents \union {None},
   fd:    Inodes \union {None},
   state: States \union {None}]

IdleTask == [at |-> "idle", op |-> "none", doc |-> None, fd |-> None, state |-> None]

TypeOK ==
  /\ live \in States
  /\ dns \in [Hosts -> 0..MaxDns]
  /\ file \in Inodes /\ tmp \in Inodes \union {None}
  /\ data \in [Inodes -> Contents \union {Torn, None}]
  /\ task \in [Tasks -> TaskStates]
  /\ crashes \in 0..MaxCrashes
  /\ saved \in Contents /\ acked \in Contents \union {None}
  /\ raced \in BOOLEAN

\* The first start: the store was empty and has been seeded.
Init ==
  /\ dns = [h \in Hosts |-> 0]
  /\ live = Resolved(Startup, 1)
  /\ file = Startup /\ tmp = None
  /\ data = [i \in Inodes |-> IF i = Startup THEN Startup ELSE None]
  /\ task = [t \in Tasks |-> IdleTask]
  /\ crashes = 0
  /\ saved = Startup /\ acked = None /\ raced = FALSE

-----------------------------------------------------------------------------
\* An admin request is over; the refresher goes back to sleep.
Ended(t) == IF t = Refresher THEN IdleTask ELSE [IdleTask EXCEPT !.at = "done"]

Saving(t) == task[t].at \in {"opened", "written"}

-----------------------------------------------------------------------------
(* Faulty variants of the actions below, each a mistake this code invites. *)

\* The file is written in place.
OpenTmp_InPlace(t, c, op) ==
  /\ t \in Admins /\ task[t].at = "idle"
  /\ data' = [data EXCEPT ![file] = Torn]
  /\ task' = [task EXCEPT ![t] = [IdleTask EXCEPT !.at = "opened", !.op = op, !.doc = c, !.fd = file]]
  /\ raced' = (raced \/ \E u \in Tasks : Saving(u))
  /\ tmp' = file
  /\ UNCHANGED <<live, dns, file, crashes, saved, acked>>

\* The new addresses are put into the state of the moment.
Swap_LoadsAgain(t) ==
  /\ task[t].at = "swap"
  /\ live' = IF task[t].op = "rescan" THEN [live EXCEPT !.addr = task[t].state.addr]
             ELSE task[t].state
  /\ acked' = IF task[t].op = "update" THEN task[t].doc ELSE acked
  /\ task' = [task EXCEPT ![t] = Ended(t)]
  /\ UNCHANGED <<dns, fileVars, crashes>>

\* A rescan reports a changed address and does not store it.
Resolve_NoStore(t) ==
  /\ task[t].at = "resolve"
  /\ task' = [task EXCEPT ![t] = Ended(t)]
  /\ UNCHANGED <<live, dns, fileVars, crashes, acked>>

-----------------------------------------------------------------------------
(* The environment *)

\* An upstream is redeployed under another address.
DnsChanges(h) ==
  /\ dns[h] < MaxDns
  /\ dns' = [dns EXCEPT ![h] = @ + 1]
  /\ UNCHANGED <<live, fileVars, task, crashes, acked>>

\* The process dies and is started again: the stored configuration, or the
\* startup one if it does not parse.  What the requests did in memory is lost.
Restart ==
  /\ crashes < MaxCrashes
  /\ crashes' = crashes + 1
  /\ live' = Resolved(IF data[file] = Torn THEN Startup ELSE data[file], 1)
  /\ task' = [t \in Tasks |-> IF task[t].at = "idle" THEN task[t] ELSE Ended(t)]
  /\ acked' = None
  /\ UNCHANGED <<dns, fileVars>>
-----------------------------------------------------------------------------
(* handle_config_update: save_config, then the hot reload if asked for *)

\* "update" asks for the hot reload, "save" does not.
\* The content parses; the temporary file is created, or an existing one is
\* truncated.  Contents that do not parse are answered 400 before this.
OpenTmp(t, c, op) ==
  LET i == IF tmp = None THEN t ELSE tmp IN
  /\ t \in Admins /\ task[t].at = "idle"
  /\ tmp' = i
  /\ data' = [data EXCEPT ![i] = Torn]
  /\ task' = [task EXCEPT ![t] = [IdleTask EXCEPT !.at = "opened", !.op = op, !.doc = c, !.fd = i]]
  /\ raced' = (raced \/ \E u \in Tasks : Saving(u))
  /\ UNCHANGED <<live, dns, file, crashes, saved, acked>>

\* Over the content of another writer the shorter one leaves a tail.
WriteTmp(t) ==
  /\ task[t].at = "opened"
  /\ \E d \in {task[t].doc} \union (IF data[task[t].fd] \in {Torn, task[t].doc} THEN {} ELSE {Torn}) :
       data' = [data EXCEPT ![task[t].fd] = d]
  /\ task' = [task EXCEPT ![t] = [task[t] EXCEPT !.at = "written"]]
  /\ UNCHANGED <<live, dns, file, tmp, crashes, saved, acked, raced>>

\* Whatever is at the temporary path by now replaces the file.
RenameTmp(t) ==
  /\ task[t].at = "written" /\ tmp # None
  /\ file' = tmp /\ tmp' = None
  /\ saved' = task[t].doc
  /\ task' = [task EXCEPT ![t] = IF task[t].op = "update" THEN [task[t] EXCEPT !.at = "load"]
                                 ELSE Ended(t)]
  /\ UNCHANGED <<live, dns, data, crashes, acked, raced>>

\* 500: an I/O error, or another save has taken the temporary file away.
SaveFails(t) ==
  /\ Saving(t)
  /\ task' = [task EXCEPT ![t] = Ended(t)]
  /\ UNCHANGED <<live, dns, fileVars, crashes, acked>>

(* handle_config_reload: the stored content, if it can be read and parses *)

LoadStore(t) ==
  /\ t \in Admins /\ task[t].at = "idle"
  /\ task' = [task EXCEPT ![t] =
       IF data[file] = Torn THEN Ended(t)
       ELSE [IdleTask EXCEPT !.at = "load", !.op = "reload", !.doc = data[file]]]
  /\ UNCHANGED <<live, dns, fileVars, crashes, acked>>

(* both, and reload_config *)

\* prev = dynamic_state.load(), for its version.
Load(t) ==
  /\ task[t].at = "load"
  /\ task' = [task EXCEPT ![t] = [task[t] EXCEPT !.at = "build", !.state = live]]
  /\ UNCHANGED <<live, dns, fileVars, crashes, acked>>

\* new_from_config resolves the upstreams ...
Build(t) ==
  /\ task[t].at = "build"
  /\ task' = [task EXCEPT ![t] = [task[t] EXCEPT !.at = "swap",
       !.state = Resolved(task[t].doc, task[t].state.version + 1)]]
  /\ UNCHANGED <<live, dns, fileVars, crashes, acked>>

\* ... or fails.  What update saved stays saved.
BuildFails(t) ==
  /\ task[t].at = "build"
  /\ task' = [task EXCEPT ![t] = Ended(t)]
  /\ UNCHANGED <<live, dns, fileVars, crashes, acked>>

\* dynamic_state.store: whatever it holds by now is replaced.
Swap(t) ==
  /\ task[t].at = "swap"
  /\ live' = task[t].state
  /\ acked' = IF task[t].op = "update" THEN task[t].doc ELSE acked
  /\ task' = [task EXCEPT ![t] = Ended(t)]
  /\ UNCHANGED <<dns, fileVars, crashes>>
-----------------------------------------------------------------------------
(* rescan_dns, for the admin API or in the refresher's loop *)

Rescan(t) ==
  /\ task[t].at = "idle"
  /\ t = Refresher => Startup \in DnsEnabled /\ live.cfg \in DnsEnabled
  /\ task' = [task EXCEPT ![t] = [IdleTask EXCEPT !.at = "resolve", !.op = "rescan", !.state = live]]
  /\ UNCHANGED <<live, dns, fileVars, crashes, acked>>

\* A changed address makes a changed copy of the state that was loaded.
Resolve(t) ==
  LET s == task[t].state
      a == Addr(HostOf[s.cfg])
  IN  /\ task[t].at = "resolve"
      /\ task' = [task EXCEPT ![t] = IF a = s.addr THEN Ended(t)
                                     ELSE [task[t] EXCEPT !.at = "swap", !.state = [s EXCEPT !.addr = a]]]
      /\ UNCHANGED <<live, dns, fileVars, crashes, acked>>

\* The name does not resolve: the previous address is retained.
ResolveFails(t) ==
  /\ task[t].at = "resolve"
  /\ task' = [task EXCEPT ![t] = Ended(t)]
  /\ UNCHANGED <<live, dns, fileVars, crashes, acked>>

\* The next step of a call under way.
Continue(t) ==
  \/ WriteTmp(t) \/ RenameTmp(t) \/ SaveFails(t) \/ Load(t)
  \/ Build(t) \/ BuildFails(t) \/ Swap(t) \/ Resolve(t) \/ ResolveFails(t)

Next ==
  \/ \E h \in Hosts : DnsChanges(h)
  \/ Restart
  \/ \E t \in Tasks : Continue(t) \/ LoadStore(t) \/ Rescan(t)
  \/ \E t \in Tasks, c \in Contents, op \in {"update", "save"} : OpenTmp(t, c, op)

Spec == Init /\ [][Next]_vars

\* The refresher's loop never ends and tasks are runnable; a name that exists
\* resolves again and again, if not every time.
Fairness ==
  /\ \A t \in Tasks : WF_vars(Continue(t))
  /\ WF_vars(Rescan(Refresher))
  /\ SF_vars(Resolve(Refresher))

FairSpec == Spec /\ Fairness
-----------------------------------------------------------------------------
(* Properties *)

\* A state, as one load of dynamic_state yields it, never has the routes of one
\* configuration with the addresses of another, however updates, reloads and
\* rescans overlap: states are replaced whole, and a rescan puts its addresses
\* into the state it resolved them for.  (A request loads it anew in each phase,
\* composite_service.rs:723, 826; for what it meets then, see Routing.)
Coherent == live.addr.host = HostOf[live.cfg]

\* Saves that do not overlap are atomic and durable: the file always holds the
\* last content saved, whole, also when the process dies at any step of a save
\* and leaves a temporary file behind.
StoreHoldsLastSave == ~raced => data[file] = saved

\* What the record r of task t carries fits where t is: a content to save or to
\* build, a state to resolve or to store, which belongs together.
TaskInv(t, r) ==
  /\ r.at \in {"opened", "written", "load", "build"} => r.doc \in Contents
  /\ r.at \in {"opened", "written"} => t \in Admins /\ r.fd \in Inodes
  /\ r.at \in {"build", "resolve", "swap"} => r.state \in States
  /\ r.at \in {"resolve", "swap"} => r.state.addr.host = HostOf[r.state.cfg]
  /\ r.at = "swap" /\ r.op = "update" => r.doc \in Contents
  /\ r.at = "resolve" => r.op = "rescan"

\* Without overlapping saves, the one under way owns the temporary path, which
\* is never the file's inode, and an admin request's inode is new to both.
StoreInv ==
  /\ data[file] # None /\ (tmp # None => data[tmp] # None)
  /\ ~raced =>
      /\ data[file] = saved /\ tmp # file
      /\ \A t, u \in Tasks : Saving(t) /\ Saving(u) => t = u
      /\ \A t \in Tasks : Saving(t) => tmp = task[t].fd
      /\ \A t \in Tasks : task[t].at = "opened" => data[task[t].fd] = Torn
      /\ \A t \in Tasks : task[t].at = "written" => data[task[t].fd] = task[t].doc
      /\ \A a \in Admins : task[a].at = "idle" => file # a /\ tmp # a

\* The inductive invariant behind Coherent and StoreHoldsLastSave.
ConfigInv == TypeOK /\ Coherent /\ (\A t \in Tasks : TaskInv(t, task[t])) /\ StoreInv

\* Once the DNS records stop changing, requests are sent to the addresses they
\* give: whatever stale state an overlapping update or rescan stores, a later
\* round of the refresher mends the address.
DnsConverges == <>[](live.cfg \in DnsEnabled => live.addr = Addr(HostOf[live.cfg]))

=============================================================================
