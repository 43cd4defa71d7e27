-------------------------- MODULE ConfigPlaneProofs --------------------------
(***************************************************************************)
(* Proofs about ConfigPlane, for any configurations, hosts and number of   *)
(* admin requests: ConfigInv is inductive, and Coherent and                *)
(* StoreHoldsLastSave follow from it; and, at the end, about the admin     *)
(* API's event-sink inspector.                                             *)
(***************************************************************************)
EXTENDS ConfigPlane, SinkInspector, TLAPS

-----------------------------------------------------------------------------
(* What the operators yield *)

\* A freshly resolved state has its configuration's host and its type.
LEMMA ResolvedState ==
  ASSUME TypeOK, NEW c \in Contents, NEW v \in Nat \ {0}
  PROVE  /\ Resolved(c, v) \in States
         /\ Resolved(c, v).addr.host = HostOf[Resolved(c, v).cfg]
         /\ Resolved(c, v).version = v
BY ConfigAssumption DEF TypeOK, Resolved, Addr, States, Hosts

LEMMA EndedTask ==
  ASSUME NEW t \in Tasks
  PROVE  /\ Ended(t) \in TaskStates /\ IdleTask \in TaskStates
         /\ Ended(t).at \in {"idle", "done"} /\ IdleTask.at = "idle"
         /\ t \in Admins => Ended(t).at = "done"
BY ConfigAssumption DEF Ended, IdleTask, TaskStates, Tasks

\* The ways in which a step edits its task.
LEMMA TaskEdits ==
  ASSUME NEW r \in TaskStates,
         NEW a \in {"idle", "opened", "written", "load", "build", "resolve", "swap", "done"},
         NEW op \in {"none", "update", "save", "reload", "rescan"},
         NEW c \in Contents
  PROVE  /\ [r EXCEPT !.at = a, !.op = op, !.doc = c] \in TaskStates
         /\ \A i \in Inodes : [r EXCEPT !.at = a, !.op = op, !.doc = c, !.fd = i] \in TaskStates
         /\ \A s \in States : /\ [r EXCEPT !.at = a, !.state = s] \in TaskStates
                              /\ [r EXCEPT !.at = a, !.op = op, !.state = s] \in TaskStates
BY DEF TaskStates

\* A step of one task leaves the others' records alone.
LEMMA TaskFrame ==
  ASSUME TypeOK, NEW t \in Tasks, NEW q \in TaskStates, task' = [task EXCEPT ![t] = q]
  PROVE  /\ task' \in [Tasks -> TaskStates] /\ task'[t] = q
         /\ \A u \in Tasks : u # t => task'[u] = task[u]
BY DEF TypeOK

\* A step that stays off the file and ends in no save keeps what StoreInv says.
LEMMA StoreFrame ==
  ASSUME TypeOK, StoreInv, NEW t \in Tasks, NEW q \in TaskStates, task' = [task EXCEPT ![t] = q],
         q.at \notin {"opened", "written"}, t \in Admins => q.at # "idle", UNCHANGED fileVars
  PROVE  StoreInv'
<1>1. task'[t] = q /\ \A u \in Tasks : u # t => task'[u] = task[u]
  BY TaskFrame
<1>2. /\ \A u \in Tasks : Saving(u)' => u # t /\ Saving(u)
      /\ \A u \in Tasks : task'[u].at \in {"opened", "written"} => task'[u] = task[u]
      /\ \A u \in Admins : task'[u].at = "idle" => task'[u] = task[u]
  BY <1>1 DEF Saving, Tasks
<1> QED BY <1>2 DEF StoreInv, fileVars, Tasks

\* A step of one task that works in memory only.
LEMMA MemoryStep ==
  ASSUME ConfigInv, NEW t \in Tasks, NEW q \in TaskStates, task' = [task EXCEPT ![t] = q],
         q.at \notin {"opened", "written"}, t \in Admins => q.at # "idle", TaskInv(t, q),
         UNCHANGED <<dns, fileVars, crashes>>, acked' \in Contents \union {None},
         live' \in States, Coherent'
  PROVE  ConfigInv'
<1>1. task' \in [Tasks -> TaskStates] /\ task'[t] = q /\ \A u \in Tasks : u # t => task'[u] = task[u]
  BY TaskFrame DEF ConfigInv
<1>2. TypeOK'
  BY <1>1 DEF ConfigInv, TypeOK, fileVars
<1>3. \A u \in Tasks : TaskInv(u, task'[u])
  BY <1>1 DEF ConfigInv
<1>4. StoreInv'
  BY StoreFrame DEF ConfigInv
<1> QED BY <1>2, <1>3, <1>4 DEF ConfigInv
-----------------------------------------------------------------------------
(* The invariant *)

LEMMA InitConfigInv == Init => ConfigInv
<1> SUFFICES ASSUME Init PROVE ConfigInv OBVIOUS
<1> USE ConfigAssumption
<1>1. IdleTask \in TaskStates /\ IdleTask.at = "idle"
  BY DEF IdleTask, TaskStates
<1>2. \A t \in Tasks : task[t] = IdleTask
  BY DEF Init
<1>3. /\ live = [cfg |-> Startup, version |-> 1, addr |-> [host |-> HostOf[Startup], at |-> 0]]
      /\ HostOf[Startup] \in Hosts
  BY DEF Init, Resolved, Addr, Hosts
<1>4. TypeOK
  <2>1. live \in States
    BY <1>3 DEF States
  <2>2. /\ dns \in [Hosts -> 0..MaxDns] /\ data \in [Inodes -> Contents \union {Torn, None}]
        /\ task \in [Tasks -> TaskStates]
    BY <1>1 DEF Init
  <2>3. file \in Inodes /\ tmp \in Inodes \union {None} /\ crashes \in 0..MaxCrashes
    BY DEF Init, Inodes
  <2>4. saved \in Contents /\ acked \in Contents \union {None} /\ raced \in BOOLEAN
    BY DEF Init
  <2> QED BY <2>1, <2>2, <2>3, <2>4 DEF TypeOK
<1>5. Coherent
  BY <1>3 DEF Coherent
<1>6. \A t \in Tasks : TaskInv(t, task[t])
  BY <1>1, <1>2 DEF TaskInv
<1>7. StoreInv
  <2>1. file = Startup /\ tmp = None /\ data[Startup] = Startup /\ saved = Startup
    BY DEF Init, Inodes
  <2> QED BY <1>1, <1>2, <2>1 DEF StoreInv, Saving
<1> QED BY <1>4, <1>5, <1>6, <1>7 DEF ConfigInv

\* Starting to save: either somebody else is saving, and `raced` notes it, or the
\* temporary path is this request's alone.
LEMMA OpenTmpStep ==
  ASSUME ConfigInv, NEW t \in Tasks, NEW c \in Contents, NEW op \in {"update", "save"}, OpenTmp(t, c, op)
  PROVE  ConfigInv'
<1> USE ConfigAssumption
<1> DEFINE i == IF tmp = None THEN t ELSE tmp
           q == [IdleTask EXCEPT !.at = "opened", !.op = op, !.doc = c, !.fd = i]
<1>0. TypeOK /\ Coherent /\ StoreInv
  BY DEF ConfigInv
<1>1. i \in Inodes /\ t \in Admins
  BY <1>0 DEF OpenTmp, TypeOK, Inodes
<1>2. /\ task[t].at = "idle" /\ tmp' = i /\ data' = [data EXCEPT ![i] = Torn]
      /\ task' = [task EXCEPT ![t] = q] /\ raced' = (raced \/ \E u \in Tasks : Saving(u))
      /\ UNCHANGED <<live, dns, file, crashes, saved, acked>>
  BY DEF OpenTmp
<1> HIDE DEF i
<1>3. q \in TaskStates
  BY <1>1, EndedTask, TaskEdits
<1>4. q.at = "opened" /\ q.op = op /\ q.doc = c /\ q.fd = i
  BY DEF IdleTask
<1> HIDE DEF q
<1>5. task' \in [Tasks -> TaskStates] /\ task'[t] = q /\ \A u \in Tasks : u # t => task'[u] = task[u]
  BY <1>0, <1>2, <1>3, TaskFrame
<1>6. TypeOK'
  <2>1. data' \in [Inodes -> Contents \union {Torn, None}]
    BY <1>0, <1>1, <1>2 DEF TypeOK
  <2>2. raced' \in BOOLEAN
    BY <1>2
  <2> QED BY <1>0, <1>1, <1>2, <1>5, <2>1, <2>2 DEF TypeOK
<1>7. Coherent'
  BY <1>0, <1>2 DEF Coherent
<1>8. \A u \in Tasks : TaskInv(u, task'[u])
  <2>1. TaskInv(t, q)
    BY <1>1, <1>4 DEF TaskInv
  <2> QED BY <2>1, <1>5 DEF ConfigInv
<1>9. StoreInv'
  <2>1. data'[i] = Torn /\ \A j \in Inodes : j # i => data'[j] = data[j]
    BY <1>0, <1>1, <1>2 DEF TypeOK
  <2>2. data'[file'] # None /\ data'[tmp'] # None
    BY <1>0, <1>2, <2>1 DEF StoreInv, TypeOK
  <2>3. CASE raced'
    BY <2>2, <2>3 DEF StoreInv
  <2>4. CASE ~raced'
    <3>1. ~raced /\ \A u \in Tasks : ~Saving(u)
      BY <1>2, <2>4
    <3>2. file # i
      BY <1>0, <1>1, <1>2, <3>1 DEF StoreInv, i
    <3>3. data'[file'] = saved' /\ tmp' # file'
      BY <1>0, <1>2, <2>1, <3>1, <3>2 DEF StoreInv, TypeOK
    <3>4. \A u \in Tasks : task'[u].at \in {"opened", "written"} => u = t /\ task'[u] = q
      BY <1>5, <3>1 DEF Saving
    <3>5. \A a \in Admins : task'[a].at = "idle" => file' # a /\ tmp' # a
      <4> SUFFICES ASSUME NEW a \in Admins, task'[a].at = "idle" PROVE file # a /\ i # a
        BY <1>2
      <4>1. a # t /\ task[a].at = "idle"
        BY <1>4, <1>5 DEF Tasks
      <4> QED BY <1>0, <3>1, <4>1 DEF StoreInv, i
    <3> QED BY <1>2, <1>4, <2>1, <2>2, <3>3, <3>4, <3>5 DEF StoreInv, Saving
  <2> QED BY <2>3, <2>4
<1> QED BY <1>6, <1>7, <1>8, <1>9 DEF ConfigInv

\* Writing: with no other save, over the empty file this request created.
LEMMA WriteTmpStep == ASSUME ConfigInv, NEW t \in Tasks, WriteTmp(t) PROVE ConfigInv'
<1> USE ConfigAssumption
<1> DEFINE q == [task[t] EXCEPT !.at = "written"]
           i == task[t].fd
<1>0. TypeOK /\ Coherent /\ StoreInv /\ TaskInv(t, task[t]) /\ task[t] \in TaskStates
  BY DEF ConfigInv, TypeOK
<1>1. /\ task[t].at = "opened" /\ task' = [task EXCEPT ![t] = q]
      /\ UNCHANGED <<live, dns, file, tmp, crashes, saved, acked, raced>>
  BY DEF WriteTmp
<1>2. PICK d \in {task[t].doc} \union (IF data[i] \in {Torn, task[t].doc} THEN {} ELSE {Torn}) :
        data' = [data EXCEPT ![i] = d]
  BY DEF WriteTmp
<1>3. t \in Admins /\ i \in Inodes /\ task[t].doc \in Contents /\ d \in Contents \union {Torn}
  BY <1>0, <1>1, <1>2 DEF TaskInv
<1>4. q \in TaskStates /\ q.at = "written" /\ q.doc = task[t].doc /\ q.fd = i
  BY <1>0 DEF TaskStates
<1> HIDE DEF q, i
<1>5. task' \in [Tasks -> TaskStates] /\ task'[t] = q /\ \A u \in Tasks : u # t => task'[u] = task[u]
  BY <1>0, <1>1, <1>4, TaskFrame
<1>6. TypeOK'
  <2>1. data' \in [Inodes -> Contents \union {Torn, None}]
    BY <1>0, <1>2, <1>3 DEF TypeOK
  <2> QED BY <1>0, <1>1, <1>5, <2>1 DEF TypeOK
<1>7. Coherent'
  BY <1>0, <1>1 DEF Coherent
<1>8. \A u \in Tasks : TaskInv(u, task'[u])
  <2>1. TaskInv(t, q)
    BY <1>3, <1>4 DEF TaskInv
  <2> QED BY <2>1, <1>5 DEF ConfigInv
<1>9. StoreInv'
  <2>1. data'[i] = d /\ \A j \in Inodes : j # i => data'[j] = data[j]
    BY <1>0, <1>2, <1>3 DEF TypeOK
  <2>2. data'[file'] # None /\ (tmp' # None => data'[tmp'] # None)
    BY <1>0, <1>1, <1>3, <2>1 DEF StoreInv, TypeOK
  <2>3. CASE raced
    BY <1>1, <2>2, <2>3 DEF StoreInv
  <2>4. CASE ~raced
    <3>1. tmp = i /\ tmp # file /\ data[i] = Torn /\ data[file] = saved
      BY <1>0, <1>1, <2>4 DEF StoreInv, Saving, i
    <3>2. d = task[t].doc
      BY <1>2, <3>1
    <3>3. \A u \in Tasks : task'[u].at \in {"opened", "written"} => u = t /\ task'[u] = q
      BY <1>0, <1>1, <1>5, <2>4 DEF StoreInv, Saving
    <3>4. data'[file'] = saved' /\ tmp' # file'
      BY <1>0, <1>1, <2>1, <3>1 DEF TypeOK
    <3>5. \A a \in Admins : task'[a].at = "idle" => file' # a /\ tmp' # a
      BY <1>0, <1>1, <1>4, <1>5, <2>4 DEF StoreInv, Tasks
    <3> QED BY <1>1, <1>4, <2>1, <2>2, <3>1, <3>2, <3>3, <3>4, <3>5 DEF StoreInv, Saving
  <2> QED BY <2>3, <2>4
<1> QED BY <1>6, <1>7, <1>8, <1>9 DEF ConfigInv

\* Renaming: what takes the file's place is what this request wrote, whole.
LEMMA RenameTmpStep == ASSUME ConfigInv, NEW t \in Tasks, RenameTmp(t) PROVE ConfigInv'
<1> USE ConfigAssumption
<1> DEFINE q == IF task[t].op = "update" THEN [task[t] EXCEPT !.at = "load"] ELSE Ended(t)
<1>0. TypeOK /\ Coherent /\ StoreInv /\ TaskInv(t, task[t]) /\ task[t] \in TaskStates
  BY DEF ConfigInv, TypeOK
<1>1. /\ task[t].at = "written" /\ tmp # None /\ file' = tmp /\ tmp' = None
      /\ saved' = task[t].doc /\ task' = [task EXCEPT ![t] = q]
      /\ UNCHANGED <<live, dns, data, crashes, acked, raced>>
  BY DEF RenameTmp
<1>2. t \in Admins /\ task[t].doc \in Contents
  BY <1>0, <1>1 DEF TaskInv
<1>3. q \in TaskStates /\ q.at \in {"load", "done"} /\ (q.at = "load" => q.doc = task[t].doc)
  BY <1>0, <1>2, EndedTask DEF TaskStates
<1> HIDE DEF q
<1>4. task' \in [Tasks -> TaskStates] /\ task'[t] = q /\ \A u \in Tasks : u # t => task'[u] = task[u]
  BY <1>0, <1>1, <1>3, TaskFrame
<1>5. TypeOK'
  BY <1>0, <1>1, <1>2, <1>4 DEF TypeOK
<1>6. Coherent'
  BY <1>0, <1>1 DEF Coherent
<1>7. \A u \in Tasks : TaskInv(u, task'[u])
  <2>1. TaskInv(t, q)
    BY <1>2, <1>3 DEF TaskInv
  <2> QED BY <2>1, <1>4 DEF ConfigInv
<1>8. StoreInv'
  <2>1. data'[file'] # None /\ tmp' = None
    BY <1>0, <1>1 DEF StoreInv
  <2>2. CASE raced
    BY <1>1, <2>1, <2>2 DEF StoreInv
  <2>3. CASE ~raced
    <3>1. tmp = task[t].fd /\ data[tmp] = task[t].doc
      BY <1>0, <1>1, <2>3 DEF StoreInv, Saving
    <3>2. \A u \in Tasks : task'[u].at \notin {"opened", "written"}
      BY <1>0, <1>1, <1>3, <1>4, <2>3 DEF StoreInv, Saving
    <3>3. tmp' # file'
      BY <1>1
    <3>4. \A a \in Admins : task'[a].at = "idle" => file' # a /\ tmp' # a
      BY <1>0, <1>1, <1>3, <1>4, <2>3 DEF StoreInv, Tasks
    <3> QED BY <1>1, <2>1, <3>1, <3>2, <3>3, <3>4 DEF StoreInv, Saving
  <2> QED BY <2>2, <2>3
<1> QED BY <1>5, <1>6, <1>7, <1>8 DEF ConfigInv

\* The steps in memory: whatever a task stores was resolved for one
\* configuration.
LEMMA MemoryStepsKeep ==
  ASSUME ConfigInv, NEW t \in Tasks,
         \/ SaveFails(t) \/ LoadStore(t) \/ Load(t) \/ Build(t) \/ BuildFails(t)
         \/ Swap(t) \/ Rescan(t) \/ Resolve(t) \/ ResolveFails(t)
  PROVE  ConfigInv'
<1> USE ConfigAssumption
<1>0. /\ TypeOK /\ Coherent /\ StoreInv /\ TaskInv(t, task[t]) /\ task[t] \in TaskStates
      /\ live \in States /\ acked \in Contents \union {None} /\ Startup \in Contents
  BY DEF ConfigInv, TypeOK
<1>a. live' = live => live' \in States /\ Coherent'
  BY <1>0 DEF Coherent
<1>b. /\ Ended(t) \in TaskStates /\ Ended(t).at \in {"idle", "done"}
      /\ t \in Admins => Ended(t).at # "idle"
  BY EndedTask
<1>c. TaskInv(t, Ended(t)) /\ Ended(t).at \notin {"opened", "written"}
  BY <1>b DEF TaskInv
<1>1. ASSUME task' = [task EXCEPT ![t] = Ended(t)], UNCHANGED <<live, dns, fileVars, crashes, acked>>
      PROVE  ConfigInv'
  BY <1>0, <1>a, <1>b, <1>c, <1>1, MemoryStep
<1>2. CASE SaveFails(t) \/ BuildFails(t) \/ ResolveFails(t)
  BY <1>1, <1>2 DEF SaveFails, BuildFails, ResolveFails
<1>3. CASE LoadStore(t)
  <2> DEFINE q == [IdleTask EXCEPT !.at = "load", !.op = "reload", !.doc = data[file]]
  <2>1. CASE data[file] = Torn
    BY <1>1, <1>3, <2>1 DEF LoadStore
  <2>2. CASE data[file] # Torn
    <3>1. data[file] \in Contents
      BY <1>0, <2>2 DEF TypeOK, StoreInv
    <3>2. q \in TaskStates
      BY <3>1, EndedTask, TaskEdits
    <3>3. q.at = "load" /\ q.doc = data[file]
      BY DEF IdleTask
    <3>4. task' = [task EXCEPT ![t] = q] /\ UNCHANGED <<live, dns, fileVars, crashes, acked>>
      BY <1>3, <2>2 DEF LoadStore
    <3> HIDE DEF q
    <3>5. TaskInv(t, q)
      BY <3>1, <3>3 DEF TaskInv
    <3> QED BY <1>0, <1>a, <3>2, <3>3, <3>4, <3>5, MemoryStep
  <2> QED BY <2>1, <2>2
<1>4. CASE Load(t)
  <2> DEFINE q == [task[t] EXCEPT !.at = "build", !.state = live]
  <2>1. q \in TaskStates
    BY <1>0, TaskEdits
  <2>2. q.at = "build" /\ q.doc = task[t].doc /\ q.state = live
    BY <1>0 DEF TaskStates
  <2>3. /\ task[t].at = "load" /\ task' = [task EXCEPT ![t] = q]
        /\ UNCHANGED <<live, dns, fileVars, crashes, acked>>
    BY <1>4 DEF Load
  <2> HIDE DEF q
  <2>4. TaskInv(t, q)
    BY <1>0, <2>2, <2>3 DEF TaskInv
  <2> QED BY <1>0, <1>a, <2>1, <2>2, <2>3, <2>4, MemoryStep
<1>5. CASE Build(t)
  <2> DEFINE n == task[t].state.version + 1
             s == Resolved(task[t].doc, n)
             q == [task[t] EXCEPT !.at = "swap", !.state = s]
  <2>1. /\ task[t].at = "build" /\ task' = [task EXCEPT ![t] = q]
        /\ UNCHANGED <<live, dns, fileVars, crashes, acked>>
    BY <1>5 DEF Build
  <2>2. task[t].doc \in Contents /\ n \in Nat \ {0}
    BY <1>0, <2>1 DEF TaskInv, States
  <2> HIDE DEF n
  <2>3. s \in States /\ s.addr.host = HostOf[s.cfg]
    BY <1>0, <2>2, ResolvedState
  <2> HIDE DEF s
  <2>4. q \in TaskStates
    BY <1>0, <2>3, TaskEdits
  <2>5. q.at = "swap" /\ q.doc = task[t].doc /\ q.state = s
    BY <1>0 DEF TaskStates
  <2> HIDE DEF q
  <2>6. TaskInv(t, q)
    BY <2>2, <2>3, <2>5 DEF TaskInv
  <2> QED BY <1>0, <1>a, <2>1, <2>4, <2>5, <2>6, MemoryStep
<1>6. CASE Swap(t)
  <2>1. /\ task[t].at = "swap" /\ live' = task[t].state /\ task' = [task EXCEPT ![t] = Ended(t)]
        /\ acked' = (IF task[t].op = "update" THEN task[t].doc ELSE acked)
        /\ UNCHANGED <<dns, fileVars, crashes>>
    BY <1>6 DEF Swap
  <2>2. live' \in States /\ Coherent' /\ acked' \in Contents \union {None}
    BY <1>0, <2>1 DEF TaskInv, Coherent
  <2> QED BY <1>b, <1>c, <2>1, <2>2, MemoryStep
<1>7. CASE Rescan(t)
  <2> DEFINE q == [IdleTask EXCEPT !.at = "resolve", !.op = "rescan", !.state = live]
  <2>1. q \in TaskStates
    BY <1>0, EndedTask, TaskEdits
  <2>2. q.at = "resolve" /\ q.state = live /\ q.op = "rescan"
    BY DEF IdleTask
  <2>3. task' = [task EXCEPT ![t] = q] /\ UNCHANGED <<live, dns, fileVars, crashes, acked>>
    BY <1>7 DEF Rescan
  <2> HIDE DEF q
  <2>4. TaskInv(t, q)
    BY <1>0, <2>2 DEF TaskInv, Coherent
  <2> QED BY <1>0, <1>a, <2>1, <2>2, <2>3, <2>4, MemoryStep
<1>8. CASE Resolve(t)
  <2> DEFINE a == Addr(HostOf[task[t].state.cfg])
             s == [task[t].state EXCEPT !.addr = a]
             q == [task[t] EXCEPT !.at = "swap", !.state = s]
  <2>1. task[t].at = "resolve" /\ UNCHANGED <<live, dns, fileVars, crashes, acked>>
    BY <1>8 DEF Resolve
  <2>2. CASE a = task[t].state.addr
    BY <1>1, <1>8, <2>1, <2>2 DEF Resolve
  <2>3. CASE a # task[t].state.addr
    <3>1. task' = [task EXCEPT ![t] = q]
      BY <1>8, <2>3 DEF Resolve
    <3>2. task[t].state \in States /\ task[t].state.cfg \in Contents
      BY <1>0, <2>1 DEF TaskInv, States
    <3>3. a \in [host: Hosts, at: 0..MaxDns] /\ a.host = HostOf[task[t].state.cfg]
      BY <1>0, <3>2 DEF Addr, TypeOK, Hosts
    <3> HIDE DEF a
    <3>4. s \in States /\ s.addr.host = HostOf[s.cfg]
      BY <1>0, <3>2, <3>3 DEF States, TaskStates
    <3>5. q.at = "swap" /\ q.state = s /\ q.doc = task[t].doc /\ q.op = task[t].op
      BY <1>0 DEF TaskStates
    <3> HIDE DEF s
    <3>6. q \in TaskStates
      BY <1>0, <3>4, TaskEdits
    <3> HIDE DEF q
    <3>7. TaskInv(t, q)
      BY <1>0, <2>1, <3>4, <3>5 DEF TaskInv
    <3> QED BY <1>0, <1>a, <2>1, <3>1, <3>5, <3>6, <3>7, MemoryStep
  <2> QED BY <2>2, <2>3
<1> QED BY <1>2, <1>3, <1>4, <1>5, <1>6, <1>7, <1>8

\* A crash loses the tasks and keeps the files; what is started is a stored
\* configuration or the startup one, resolved anew.
LEMMA RestartStep == ConfigInv /\ Restart => ConfigInv'
<1> SUFFICES ASSUME ConfigInv, Restart PROVE ConfigInv' OBVIOUS
<1> USE ConfigAssumption
<1> DEFINE c == IF data[file] = Torn THEN Startup ELSE data[file]
           Back(t) == IF task[t].at = "idle" THEN task[t] ELSE Ended(t)
<1>0. TypeOK /\ Coherent /\ StoreInv
  BY DEF ConfigInv
<1>1. /\ crashes < MaxCrashes /\ crashes' = crashes + 1 /\ live' = Resolved(c, 1)
      /\ task' = [t \in Tasks |-> Back(t)] /\ acked' = None /\ UNCHANGED <<dns, fileVars>>
  BY DEF Restart
<1>2. c \in Contents
  BY <1>0 DEF TypeOK, StoreInv
<1> HIDE DEF c
<1>3. live' \in States /\ Coherent'
  BY <1>0, <1>1, <1>2, ResolvedState DEF Coherent
<1>4. ASSUME NEW t \in Tasks
      PROVE  /\ Back(t) \in TaskStates /\ Back(t).at \in {"idle", "done"}
             /\ t \in Admins /\ Back(t).at = "idle" => task[t].at = "idle"
  BY <1>0, EndedTask DEF TypeOK
<1> HIDE DEF Back
<1>5. TypeOK'
  <2>1. task' \in [Tasks -> TaskStates]
    BY <1>1, <1>4
  <2>2. crashes' \in 0..MaxCrashes
    BY <1>0, <1>1 DEF TypeOK
  <2> QED BY <1>0, <1>1, <1>3, <2>1, <2>2 DEF TypeOK, fileVars
<1>6. \A t \in Tasks : TaskInv(t, task'[t])
  <2>1. ASSUME NEW t \in Tasks PROVE TaskInv(t, Back(t))
    BY <1>4 DEF TaskInv
  <2> QED BY <1>1, <2>1
<1>7. StoreInv'
  <2>1. /\ \A t \in Tasks : task'[t].at \notin {"opened", "written"}
        /\ \A a \in Admins : task'[a].at = "idle" => task[a].at = "idle"
    BY <1>1, <1>4 DEF Tasks
  <2> QED BY <1>0, <1>1, <2>1 DEF StoreInv, Saving, fileVars
<1> QED BY <1>3, <1>5, <1>6, <1>7 DEF ConfigInv

LEMMA StepConfigInv == ConfigInv /\ [Next]_vars => ConfigInv'
<1> SUFFICES ASSUME ConfigInv, [Next]_vars PROVE ConfigInv' OBVIOUS
<1>1. ASSUME NEW h \in Hosts, DnsChanges(h) PROVE ConfigInv'
  <2>1. TypeOK'
    BY <1>1, ConfigAssumption DEF DnsChanges, ConfigInv, TypeOK, fileVars
  <2>2. Coherent' /\ StoreInv'
    BY <1>1 DEF DnsChanges, ConfigInv, Coherent, StoreInv, Saving, fileVars
  <2>3. \A t \in Tasks : TaskInv(t, task'[t])
    BY <1>1 DEF DnsChanges, ConfigInv
  <2> QED BY <2>1, <2>2, <2>3 DEF ConfigInv
<1>2. CASE Restart
  BY <1>2, RestartStep
<1>3. ASSUME NEW t \in Tasks, Continue(t) \/ LoadStore(t) \/ Rescan(t) PROVE ConfigInv'
  BY <1>3, WriteTmpStep, RenameTmpStep, MemoryStepsKeep DEF Continue
<1>4. ASSUME NEW t \in Tasks, NEW c \in Contents, NEW op \in {"update", "save"}, OpenTmp(t, c, op)
      PROVE  ConfigInv'
  BY <1>4, OpenTmpStep
<1>5. CASE UNCHANGED vars
  <2>1. TypeOK'
    BY <1>5 DEF vars, ConfigInv, TypeOK
  <2>2. Coherent' /\ StoreInv'
    BY <1>5 DEF vars, ConfigInv, Coherent, StoreInv, Saving
  <2>3. \A t \in Tasks : TaskInv(t, task'[t])
    BY <1>5 DEF vars, ConfigInv
  <2> QED BY <2>1, <2>2, <2>3 DEF ConfigInv
<1> QED BY <1>1, <1>2, <1>3, <1>4, <1>5 DEF Next

\* The inductive invariant of the configuration plane holds of every run: tasks
\* carry what their next step needs, states are of one configuration, and the
\* store's inodes are kept apart as long as saves do not overlap.
THEOREM ConfigInvHolds == Spec => []ConfigInv
BY InitConfigInv, StepConfigInv, PTL DEF Spec

\* However many updates, reloads and rescans load, resolve and store
\* DynamicGatewayState at the same time, its routes and its addresses are of
\* one configuration.
THEOREM ConfigCoherent == Spec => []Coherent
<1>1. ConfigInv => Coherent
  BY DEF ConfigInv
<1> QED BY <1>1, ConfigInvHolds, PTL

\* As long as no two saves overlap, save_config is atomic and durable across
\* crashes at any step: the file holds the last content saved.
THEOREM ConfigDurable == Spec => []StoreHoldsLastSave
<1>1. ConfigInv => StoreHoldsLastSave
  BY DEF ConfigInv, StoreInv, StoreHoldsLastSave
<1> QED BY <1>1, ConfigInvHolds, PTL
-----------------------------------------------------------------------------
(* The event-sink inspector, the other shared state behind the admin API *)

\* What is shared: a cached "online" rests on an answer no older than the
\* timeout and the response's age together.
SharedGood ==
  /\ kind \in Kinds /\ broker \in Brokers
  /\ client \in BOOLEAN /\ js \in BOOLEAN
  /\ cache \in {Absent} \union [age: Ages, evidence: Ages, status: Statuses]
  /\ cache # Absent /\ cache.status = "online" => cache.evidence <= Timeout + cache.age

\* What is true of request t in state r: an inspection is within its script,
\* goes on past the first call only if the broker answered it, and rests on an
\* answer since it began; a log query never inspects.
TaskGood(t, r) ==
  IF t \in Inspectors
  THEN /\ r.at # "request"
       /\ r.at \in {"js", "lock", "connect", "attach"} => kind = "nats" /\ r.step = 1
       /\ r.at = "call" => r.step \in 1..Len(Script)
       /\ \/ r.at = "call" /\ r.step > 1
          \/ r.at = "store" /\ r.status = "online"
          => r.evidence <= Timeout - r.budget
       /\ r.at = "idle" /\ r.status = "online" => r.evidence < Timeout + CacheTtl
  ELSE r.at \in {"idle", "lock", "connect", "request"}

\* The inductive invariant of the inspector.
SinkInd ==
  /\ SharedGood
  /\ lock \in SinkTasks \union {Absent}
  /\ sinkTask \in [SinkTasks -> SinkTaskStates]
  /\ \A t \in SinkTasks : sinkTask[t].at = "connect" <=> lock = t
  /\ \A t \in SinkTasks : TaskGood(t, sinkTask[t])

\* The constants in the form the proofs use.
LEMMA SinkFacts ==
  /\ Timeout \in Nat /\ CacheTtl \in Nat \ {0}
  /\ MaxAge \in Nat /\ MaxAge >= Timeout + CacheTtl /\ Ages = 0..MaxAge
  /\ Absent \notin SinkTasks
  /\ SinkTasks = Inspectors \union Queriers
  /\ \A t \in Queriers : t \notin Inspectors
BY SinkAssumption DEF MaxAge, Ages, SinkTasks

\* The scripts: at most three calls, the first of which counts, and whose
\* statuses are never "online".
LEMMA Scripts ==
  ASSUME kind \in Kinds
  PROVE  /\ Len(Script) \in 0..3
         /\ Script = <<>> <=> Len(Script) = 0
         /\ kind = "nats" => Len(Script) = 3
         /\ \A i \in 1..Len(Script) :
              /\ Script[i].fails \in {"go", "offline", "degraded", "connected"}
              /\ Script[i].missing \in {"go", "hangs", "offline", "degraded", "connected"}
              /\ Script[i].fails = "go" => i > 1
<1>1. kind \in {"nats", "redis", "iggy", "rabbitmq", "kafka", "sierradb", "webhook", "generic"}
  BY SinkAssumption
<1>2. CASE kind = "nats" BY <1>2 DEF Script, Call, inspect_nats
<1>3. CASE kind = "redis" BY <1>3 DEF Script, Call, inspect_redis
<1>4. CASE kind = "iggy" BY <1>4 DEF Script, Call, inspect_iggy
<1>5. CASE kind = "rabbitmq" BY <1>5 DEF Script, Call, inspect_rabbitmq
<1>6. CASE kind = "kafka" BY <1>6 DEF Script, Call, inspect_kafka
<1>7. CASE kind = "sierradb" BY <1>7 DEF Script, Call, inspect_sierradb
<1>8. CASE kind = "webhook" BY <1>8 DEF Script, Call, inspect_webhook
<1>9. CASE kind = "generic" BY <1>9 DEF Script, inspect_generic
<1> QED BY <1>1, <1>2, <1>3, <1>4, <1>5, <1>6, <1>7, <1>8, <1>9

\* A step of one request that leaves it, the lock and what is shared good.
LEMMA TaskMoves ==
  ASSUME SinkInd, NEW t \in SinkTasks, NEW v \in SinkTaskStates,
         sinkTask' = [sinkTask EXCEPT ![t] = v], TaskGood(t, v),
         kind' = kind, SharedGood',
         lock' \in SinkTasks \union {Absent},
         v.at = "connect" <=> lock' = t,
         \A u \in SinkTasks \ {t} : lock' = u <=> lock = u
  PROVE  SinkInd'
<1>1. sinkTask' \in [SinkTasks -> SinkTaskStates] BY DEF SinkInd
<1>2. sinkTask'[t] = v /\ \A u \in SinkTasks \ {t} : sinkTask'[u] = sinkTask[u] BY DEF SinkInd
<1>3. Script' = Script
  BY DEF Script, inspect_nats, inspect_redis, inspect_iggy,
         inspect_rabbitmq, inspect_kafka, inspect_sierradb,
         inspect_webhook, inspect_generic, Call
<1>4. ASSUME NEW u \in SinkTasks PROVE TaskGood(u, sinkTask[u])'
  <2>1. TaskGood(u, sinkTask[u]) BY DEF SinkInd
  <2>2. CASE u = t BY <1>2, <1>3, <2>2 DEF TaskGood
  <2>3. CASE u # t BY <1>2, <1>3, <2>1, <2>3 DEF TaskGood
  <2> QED BY <2>2, <2>3
<1>5. ASSUME NEW u \in SinkTasks PROVE (sinkTask[u].at = "connect" <=> lock = u)'
  BY <1>2 DEF SinkInd
<1>6. SinkTasks' = SinkTasks BY DEF SinkTasks
<1>7. SinkTaskStates' = SinkTaskStates BY DEF SinkTaskStates, Ages, MaxAge, Statuses
<1> QED BY <1>1, <1>4, <1>5, <1>6, <1>7 DEF SinkInd

\* An inspection gets its response, evidenced if it is "online".
LEMMA RespondMoves ==
  ASSUME SinkInd, NEW t \in Inspectors,
         NEW status \in Statuses,
         status = "online" => sinkTask[t].at = "call" /\ sinkTask[t].step > 1,
         Respond(t, status), kind' = kind, SharedGood',
         lock' = IF sinkTask[t].at = "connect" THEN Absent ELSE lock
  PROVE  SinkInd'
<1> USE SinkFacts
<1> DEFINE r == sinkTask[t]
           e == IF status = "online" THEN r.evidence ELSE MaxAge
           v == [r EXCEPT !.at = "store", !.status = status, !.evidence = e]
<1>0. t \in SinkTasks OBVIOUS
<1>1. r \in SinkTaskStates /\ TaskGood(t, r) /\ (r.at = "connect" <=> lock = t)
  BY <1>0 DEF SinkInd
<1>2. e \in Ages BY <1>1 DEF SinkTaskStates
<1>3. sinkTask' = [sinkTask EXCEPT ![t] = v] BY DEF Respond, Set
<1>4. status = "online" => e <= Timeout - r.budget BY <1>1 DEF TaskGood
<1> HIDE DEF e
<1>5. v \in SinkTaskStates BY <1>1, <1>2 DEF SinkTaskStates
<1>6. /\ v.at = "store" /\ v.status = status /\ v.evidence = e /\ v.budget = r.budget
  BY <1>1 DEF SinkTaskStates
<1>7. TaskGood(t, v) BY <1>4, <1>6 DEF TaskGood
<1>8. /\ lock' \in SinkTasks \union {Absent} /\ lock' # t
      /\ \A u \in SinkTasks \ {t} : lock' = u <=> lock = u
  BY <1>0, <1>1 DEF SinkInd
<1> HIDE DEF v
<1> QED BY <1>0, <1>3, <1>5, <1>6, <1>7, <1>8, TaskMoves

\* A request moves on with nothing of it changed but its place.
LEMMA PlaceMoves ==
  ASSUME SinkInd, NEW t \in SinkTasks,
         NEW p \in {"js", "lock", "connect", "attach", "call", "request"},
         sinkTask[t].at \in {"js", "lock", "connect", "attach"},
         At(t, p), kind' = kind, SharedGood',
         IF t \in Inspectors THEN p # "request" ELSE p \in {"lock", "connect", "request"},
         lock' \in SinkTasks \union {Absent},
         p = "connect" <=> lock' = t,
         \A u \in SinkTasks \ {t} : lock' = u <=> lock = u
  PROVE  SinkInd'
<1> USE SinkFacts
<1> DEFINE r == sinkTask[t]
           v == [r EXCEPT !.at = p]
<1>1. r \in SinkTaskStates /\ TaskGood(t, r) BY DEF SinkInd
<1>2. sinkTask' = [sinkTask EXCEPT ![t] = v] BY DEF At, Set
<1>3. v \in SinkTaskStates BY <1>1 DEF SinkTaskStates
<1>4. v.at = p /\ v.step = r.step BY <1>1 DEF SinkTaskStates
<1>5. kind = "nats" => Len(Script) = 3 BY Scripts DEF SinkInd, SharedGood
<1>6. TaskGood(t, v)
  <2>1. CASE t \in Inspectors
    <3>1. kind = "nats" /\ r.step = 1 BY <1>1, <2>1 DEF TaskGood
    <3>2. v.step = 1 /\ Len(Script) = 3 BY <1>4, <1>5, <3>1
    <3>3. v.step \in 1..Len(Script) BY <3>2
    <3> QED BY <1>4, <2>1, <3>1, <3>2, <3>3 DEF TaskGood
  <2>2. CASE t \notin Inspectors BY <1>4, <2>2 DEF TaskGood
  <2> QED BY <2>1, <2>2
<1> HIDE DEF v
<1> QED BY <1>2, <1>3, <1>4, <1>6, TaskMoves

\* A log query is answered.
LEMMA QueryEnds ==
  ASSUME SinkInd, NEW t \in Queriers, Answered(t), kind' = kind,
         SharedGood', lock' = IF sinkTask[t].at = "connect" THEN Absent ELSE lock
  PROVE  SinkInd'
<1> USE SinkFacts
<1> DEFINE r == sinkTask[t]
           v == [r EXCEPT !.at = "idle", !.step = 0, !.budget = 0]
<1>0. t \in SinkTasks /\ t \notin Inspectors OBVIOUS
<1>1. r \in SinkTaskStates /\ (r.at = "connect" <=> lock = t) BY <1>0 DEF SinkInd
<1>2. sinkTask' = [sinkTask EXCEPT ![t] = v] BY DEF Answered, Set
<1>a. 0 \in 0..Timeout /\ 0 \in 0..3 OBVIOUS
<1>3. v \in SinkTaskStates /\ v.at = "idle" BY <1>1, <1>a DEF SinkTaskStates
<1>4. TaskGood(t, v) BY <1>0, <1>3 DEF TaskGood
<1>5. /\ lock' \in SinkTasks \union {Absent} /\ lock' # t
      /\ \A u \in SinkTasks \ {t} : lock' = u <=> lock = u
  BY <1>0, <1>1 DEF SinkInd
<1> HIDE DEF v
<1> QED BY <1>0, <1>2, <1>3, <1>4, <1>5, TaskMoves

\* What is shared stays good if it stays, or if the client is evicted.
LEMMA SharedStays ==
  ASSUME SinkInd, kind' = kind, broker' = broker,
         UNCHANGED <<client, js, cache>> \/ evict_nats
  PROVE  SharedGood'
BY DEF SinkInd, SharedGood, evict_nats, Brokers, Statuses, Ages, MaxAge

\* Each step of a request under way keeps the invariant.
LEMMA ContinueInd ==
  ASSUME SinkInd, NEW t \in SinkTasks, SinkContinue(t)
  PROVE  SinkInd'
<1> USE SinkFacts
<1> DEFINE r == sinkTask[t]
           S == Script
<1>1. /\ r \in SinkTaskStates /\ TaskGood(t, r) /\ (r.at = "connect" <=> lock = t)
      /\ SharedGood /\ kind \in Kinds /\ lock \in SinkTasks \union {Absent}
  BY DEF SinkInd, SharedGood
<1>2. ASSUME r.at \in {"call", "store", "js", "attach"} PROVE t \in Inspectors
  BY <1>1, <1>2 DEF TaskGood
<1>3. /\ Len(S) \in 0..3 /\ (kind = "nats" => Len(S) = 3)
      /\ \A i \in 1..Len(S) :
           /\ S[i].fails \in {"go", "offline", "degraded", "connected"}
           /\ S[i].missing \in {"go", "hangs", "offline", "degraded", "connected"}
           /\ S[i].fails = "go" => i > 1
  BY <1>1, Scripts
<1> HIDE DEF S
<1>4. r.at = "call" => r.step \in 1..Len(S) BY <1>1, <1>2 DEF TaskGood, S
<1>5. CASE CallOk(t)
  <2> DEFINE last == r.step = Len(S)
             v == [r EXCEPT !.evidence = 0,
                            !.at = IF last THEN "store" ELSE "call",
                            !.step = IF last THEN r.step ELSE r.step + 1,
                            !.status = IF last THEN "online" ELSE "none"]
  <2>1. r.at = "call" /\ UNCHANGED <<kind, broker, client, js, lock, cache>>
    BY <1>5 DEF CallOk
  <2>2. sinkTask' = [sinkTask EXCEPT ![t] = v] BY <1>5 DEF CallOk, Set, S
  <2>3. r.step \in 1..Len(S) /\ (~last => r.step + 1 \in 1..Len(S)) /\ Len(S) <= 3
    <3>1. r.step \in 1..Len(S) BY <1>4, <2>1
    <3>2. Len(S) \in 0..3 BY <1>3
    <3>3. \A m \in 0..3 : \A n \in 1..m : m <= 3 /\ (n # m => n + 1 \in 1..m) OBVIOUS
    <3> QED BY <3>1, <3>2, <3>3
  <2>4. 0 \in Ages BY <1>1
  <2>5. v \in SinkTaskStates
    <3> DEFINE p == IF last THEN "store" ELSE "call"
               n == IF last THEN r.step ELSE r.step + 1
               s == IF last THEN "online" ELSE "none"
    <3>1. p \in {"store", "call"} /\ s \in Statuses BY DEF Statuses
    <3>2. n \in 0..3 BY <2>3, <1>3
    <3> HIDE DEF p, n, s
    <3>3. [r EXCEPT !.evidence = 0, !.at = p, !.step = n, !.status = s] \in SinkTaskStates
      BY <1>1, <2>4, <3>1, <3>2 DEF SinkTaskStates
    <3> QED BY <3>3 DEF p, n, s
  <2>6. /\ v.evidence = 0 /\ v.budget = r.budget /\ v.at = IF last THEN "store" ELSE "call"
        /\ v.step = IF last THEN r.step ELSE r.step + 1
    BY <1>1 DEF SinkTaskStates
  <2>7. 0 <= Timeout - r.budget BY <1>1 DEF SinkTaskStates
  <2>8. t \in Inspectors BY <1>2, <2>1
  <2> HIDE DEF v
  <2>9. TaskGood(t, v) BY <2>3, <2>6, <2>7, <2>8 DEF TaskGood, S
  <2>10. SharedGood' BY <2>1, SharedStays
  <2>11. v.at # "connect" /\ lock # t BY <1>1, <2>1, <2>6
  <2> QED BY <1>1, <2>1, <2>2, <2>5, <2>9, <2>10, <2>11, TaskMoves
<1>6. CASE CallMissing(t)
  <2>1. /\ r.at = "call" /\ UNCHANGED <<kind, broker, client, js, lock, cache>>
        /\ S[r.step].missing \notin {"go", "hangs"} /\ Respond(t, S[r.step].missing)
    BY <1>6 DEF CallMissing, S
  <2>2. S[r.step].missing \in Statuses /\ S[r.step].missing # "online"
    BY <1>3, <1>4, <2>1 DEF Statuses
  <2>3. SharedGood' BY <2>1, SharedStays
  <2> QED BY <1>2, <2>1, <2>2, <2>3, RespondMoves
<1>7. CASE CallFails(t)
  <2>1. /\ r.at = "call" /\ UNCHANGED <<kind, broker, lock>>
        /\ UNCHANGED <<client, js, cache>> \/ evict_nats
        /\ S[r.step].fails # "go" /\ Respond(t, S[r.step].fails)
    BY <1>7 DEF CallFails, NoEviction, S
  <2>2. S[r.step].fails \in Statuses /\ S[r.step].fails # "online"
    BY <1>3, <1>4, <2>1 DEF Statuses
  <2>3. SharedGood' BY <2>1, SharedStays
  <2> QED BY <1>2, <2>1, <2>2, <2>3, RespondMoves
<1>8. CASE CallIgnored(t)
  <2>1. /\ r.at = "call" /\ UNCHANGED <<kind, broker, client, js, lock, cache>>
        /\ S[r.step].fails = "go" /\ Respond(t, "online")
    BY <1>8 DEF CallIgnored, S
  <2>2. r.step > 1 /\ "online" \in Statuses BY <1>3, <1>4, <2>1 DEF Statuses
  <2>3. SharedGood' BY <2>1, SharedStays
  <2> QED BY <1>2, <2>1, <2>2, <2>3, RespondMoves
<1>9. CASE TimesOut(t)
  <2>1. /\ t \in Inspectors /\ Respond(t, "timeout") /\ UNCHANGED <<kind, broker>>
        /\ lock' = IF lock = t THEN Absent ELSE lock
        /\ UNCHANGED <<client, js, cache>>
    BY <1>9 DEF TimesOut, NoEviction
  <2>2. "timeout" \in Statuses BY DEF Statuses
  <2>3. SharedGood' BY <2>1, SharedStays
  <2>4. lock' = IF r.at = "connect" THEN Absent ELSE lock BY <1>1, <2>1
  <2> QED BY <2>1, <2>2, <2>3, <2>4, RespondMoves
<1>10. CASE StoreResponse(t)
  <2> DEFINE v == [r EXCEPT !.at = "idle", !.step = 0, !.budget = 0]
             c == [age |-> 0, evidence |-> r.evidence, status |-> r.status]
  <2>1. r.at = "store" /\ cache' = c /\ UNCHANGED <<kind, broker, client, js, lock>>
    BY <1>10 DEF StoreResponse
  <2>2. sinkTask' = [sinkTask EXCEPT ![t] = v]
    BY <1>10 DEF StoreResponse, Answered, Set
  <2>3. t \in Inspectors BY <1>2, <2>1
  <2>4. /\ r.evidence \in Ages /\ r.status \in Statuses /\ r.budget \in 0..Timeout
        /\ r.status = "online" => r.evidence <= Timeout - r.budget
    BY <1>1, <2>1, <2>3 DEF TaskGood, SinkTaskStates
  <2>a. 0 \in 0..Timeout /\ 0 \in 0..3 OBVIOUS
  <2>5. v \in SinkTaskStates BY <1>1, <2>a DEF SinkTaskStates
  <2>6. v.at = "idle" /\ v.status = r.status /\ v.evidence = r.evidence
    BY <1>1 DEF SinkTaskStates
  <2>7. r.status = "online" => r.evidence < Timeout + CacheTtl /\ r.evidence <= Timeout + 0
    BY <2>4
  <2>8. c.age = 0 /\ c.evidence = r.evidence /\ c.status = r.status OBVIOUS
  <2>9. c \in [age: Ages, evidence: Ages, status: Statuses] BY <2>4
  <2> HIDE DEF v, c
  <2>10. TaskGood(t, v) BY <2>3, <2>6, <2>7 DEF TaskGood
  <2>11. SharedGood'
    BY <1>1, <2>1, <2>7, <2>8, <2>9
       DEF SharedGood, Brokers, Statuses, Ages, MaxAge
  <2>12. lock # t BY <1>1, <2>1
  <2> QED BY <1>1, <2>1, <2>2, <2>5, <2>6, <2>10, <2>11, <2>12, TaskMoves
<1>11. CASE GetJetstream(t)
  <2>1. /\ r.at = "js" /\ UNCHANGED <<kind, broker, client, js, lock, cache>>
        /\ \E p \in {"call", "attach", "lock"} : At(t, p)
    BY <1>11 DEF GetJetstream
  <2>2. SharedGood' BY <2>1, SharedStays
  <2>3. lock # t BY <1>1, <2>1
  <2> QED BY <1>1, <1>2, <2>1, <2>2, <2>3, PlaceMoves
<1>12. CASE Attach(t)
  <2>1. /\ r.at = "attach" /\ UNCHANGED <<kind, broker, client, lock, cache>>
        /\ js' = TRUE /\ At(t, "call")
    BY <1>12 DEF Attach
  <2>2. SharedGood'
    BY <1>1, <2>1 DEF SharedGood, Brokers, Statuses, Ages, MaxAge
  <2>3. lock # t BY <1>1, <2>1
  <2> QED BY <1>1, <1>2, <2>1, <2>2, <2>3, PlaceMoves
<1>13. CASE LockFound(t)
  <2>1. /\ r.at = "lock" /\ UNCHANGED <<kind, broker, client, js, lock, cache>>
        /\ At(t, IF t \in Inspectors THEN "attach" ELSE "request")
    BY <1>13 DEF LockFound, WithClient
  <2>2. SharedGood' BY <2>1, SharedStays
  <2>3. lock # t BY <1>1, <2>1
  <2> QED BY <1>1, <2>1, <2>2, <2>3, PlaceMoves
<1>14. CASE LockConnect(t)
  <2>1. /\ r.at = "lock" /\ lock = Absent /\ lock' = t
        /\ UNCHANGED <<kind, broker, client, js, cache>> /\ At(t, "connect")
    BY <1>14 DEF LockConnect
  <2>2. SharedGood' BY <2>1, SharedStays
  <2> QED BY <1>1, <2>1, <2>2, PlaceMoves
<1>15. CASE ConnectOk(t)
  <2>1. /\ r.at = "connect" /\ client' = TRUE /\ lock' = Absent /\ UNCHANGED <<kind, broker, js, cache>>
        /\ At(t, IF t \in Inspectors THEN "attach" ELSE "request")
    BY <1>15 DEF ConnectOk, WithClient
  <2>2. SharedGood'
    BY <1>1, <2>1 DEF SharedGood, Brokers, Statuses, Ages, MaxAge
  <2>3. lock = t BY <1>1, <2>1
  <2> QED BY <1>1, <2>1, <2>2, <2>3, PlaceMoves
<1>16. CASE ConnectFails(t)
  <2>1. /\ r.at = "connect" /\ lock' = Absent /\ UNCHANGED <<kind, broker>>
        /\ \/ t \in Inspectors /\ evict_nats /\ Respond(t, "offline")
           \/ t \in Queriers /\ UNCHANGED <<client, js, cache>> /\ Answered(t)
    BY <1>16 DEF ConnectFails, NoEviction
  <2>2. SharedGood' BY <2>1, SharedStays
  <2>3. "offline" \in Statuses BY DEF Statuses
  <2> QED BY <2>1, <2>2, <2>3, RespondMoves, QueryEnds
<1>17. CASE RequestEnds(t) \/ RequestFails(t)
  <2>1. /\ r.at = "request" /\ UNCHANGED <<kind, broker, lock>> /\ Answered(t)
        /\ UNCHANGED <<client, js, cache>> \/ evict_nats
    BY <1>17 DEF RequestEnds, RequestFails
  <2>2. SharedGood' BY <2>1, SharedStays
  <2>3. t \in Queriers BY <1>1, <2>1 DEF TaskGood
  <2> QED BY <2>1, <2>2, <2>3, QueryEnds
<1> QED BY <1>5, <1>6, <1>7, <1>8, <1>9, <1>10, <1>11, <1>12, <1>13, <1>14, <1>15, <1>16, <1>17
       DEF SinkContinue

\* The initial state satisfies the invariant.
LEMMA SinkIndInit ==
  ASSUME SinkInit
  PROVE  SinkInd
<1> USE SinkFacts
<1>1. IdleSinkTask \in SinkTaskStates
  <2>1. 0 \in 0..Timeout /\ 0 \in 0..3 /\ MaxAge \in Ages OBVIOUS
  <2> QED BY <2>1 DEF IdleSinkTask, SinkTaskStates, Statuses
<1>2. sinkTask \in [SinkTasks -> SinkTaskStates] BY <1>1 DEF SinkInit
<1>3. \A t \in SinkTasks : sinkTask[t].at = "idle" /\ sinkTask[t].status = "none"
  BY DEF SinkInit, IdleSinkTask
<1>4. SharedGood BY DEF SinkInit, SharedGood
<1>5. \A t \in SinkTasks : TaskGood(t, sinkTask[t]) BY <1>3 DEF TaskGood
<1>6. lock = Absent BY DEF SinkInit
<1> QED BY <1>2, <1>3, <1>4, <1>5, <1>6 DEF SinkInd

\* Time ages what is cached and what is known, and spends the budgets.
LEMMA SinkTick ==
  ASSUME SinkInd, Tick
  PROVE  SinkInd'
<1> USE SinkFacts
<1>1. /\ \A t \in Inspectors : sinkTask[t].at # "idle" => sinkTask[t].budget > 0
      /\ \A t \in SinkTasks : sinkTask[t].at # "store"
      /\ UNCHANGED <<kind, broker, client, js, lock>>
  BY DEF Tick, Waits, AwaitsTopic
<1>2. \A n \in Ages : Older(n) \in Ages /\ Older(n) <= n + 1 /\
                           (Older(n) = n + 1 \/ Older(n) = MaxAge)
  BY DEF Older
<1>3. SharedGood'
  <2>1. CASE cache = Absent
    <3>1. cache' = Absent BY <2>1 DEF Tick
    <3> QED BY <1>1, <3>1 DEF SinkInd, SharedGood, Brokers
  <2>2. CASE cache # Absent
    <3> DEFINE a == Older(cache.age)
               e == Older(cache.evidence)
    <3>1. cache' = [cache EXCEPT !.age = a, !.evidence = e] BY <2>2 DEF Tick
    <3>2. cache \in [age: Ages, evidence: Ages, status: Statuses]
      BY <2>2 DEF SinkInd, SharedGood
    <3>3. cache.age \in Ages /\ cache.evidence \in Ages BY <3>2
    <3>4. a \in Ages /\ e \in Ages /\ e <= cache.evidence + 1
          /\ (a = cache.age + 1 \/ a = MaxAge)
      BY <1>2, <3>3
    <3> HIDE DEF a, e
    <3>5. /\ cache' \in [age: Ages, evidence: Ages, status: Statuses]
          /\ cache'.age = a /\ cache'.evidence = e /\ cache'.status = cache.status
      BY <3>1, <3>2, <3>4
    <3>6. cache.status = "online" => e <= Timeout + a
      <4> SUFFICES ASSUME cache.status = "online" PROVE e <= Timeout + a OBVIOUS
      <4>1. cache.evidence <= Timeout + cache.age BY <2>2 DEF SinkInd, SharedGood
      <4>2. CASE a = cache.age + 1 BY <3>3, <3>4, <4>1, <4>2
      <4>3. CASE a = MaxAge BY <3>4, <4>3
      <4> QED BY <3>4, <4>2, <4>3
    <3> QED BY <1>1, <3>5, <3>6
            DEF SinkInd, SharedGood, Brokers, Statuses, Ages, MaxAge
  <2> QED BY <2>1, <2>2
<1>4. Script' = Script
  BY <1>1 DEF Script, inspect_nats, inspect_redis, inspect_iggy,
         inspect_rabbitmq, inspect_kafka, inspect_sierradb,
         inspect_webhook, inspect_generic, Call
<1>5. /\ DOMAIN sinkTask' = SinkTasks
      /\ sinkTask' = [t \in SinkTasks |-> sinkTask'[t]]
      /\ \A t \in SinkTasks :
           sinkTask'[t] = IF t \in Inspectors /\ sinkTask[t].at # "idle"
             THEN [sinkTask[t] EXCEPT !.budget = sinkTask[t].budget - 1,
                                      !.evidence = Older(sinkTask[t].evidence),
                                      !.polled = FALSE]
             ELSE [sinkTask[t] EXCEPT !.polled = FALSE]
  BY DEF Tick
<1>6. ASSUME NEW t \in SinkTasks
      PROVE  /\ sinkTask'[t] \in SinkTaskStates /\ sinkTask'[t].at = sinkTask[t].at
             /\ TaskGood(t, sinkTask[t])'
  <2> DEFINE r == sinkTask[t]
             w == sinkTask'[t]
  <2>1. r \in SinkTaskStates /\ TaskGood(t, r) BY DEF SinkInd
  <2>2. CASE t \in Inspectors /\ r.at # "idle"
    <3> DEFINE b == r.budget - 1
               e == Older(r.evidence)
    <3>1. w = [r EXCEPT !.budget = b, !.evidence = e, !.polled = FALSE] BY <1>5, <2>2
    <3>2. r.budget \in 0..Timeout /\ r.evidence \in Ages /\ r.budget > 0
      BY <1>1, <2>1, <2>2 DEF SinkTaskStates
    <3>3. b \in 0..Timeout /\ e \in Ages /\ e <= r.evidence + 1
      <4>1. b \in 0..Timeout BY <3>2, SinkFacts
      <4>2. e \in Ages /\ e <= r.evidence + 1 BY <1>2, <3>2
      <4> QED BY <4>1, <4>2
    <3>4. r.evidence <= Timeout - r.budget => e <= Timeout - b BY <3>2, <3>3
    <3> HIDE DEF b, e
    <3>5. w \in SinkTaskStates BY <2>1, <3>1, <3>3 DEF SinkTaskStates
    <3>6. /\ w.at = r.at /\ w.step = r.step /\ w.status = r.status /\ w.budget = b
          /\ w.evidence = e
      BY <2>1, <3>1 DEF SinkTaskStates
    <3>7. r.at # "store" BY <1>1
    <3> HIDE DEF w
    <3>8. TaskGood(t, w) BY <2>1, <2>2, <3>4, <3>6, <3>7 DEF TaskGood
    <3>9. TaskGood(t, sinkTask[t])'
      BY <1>1, <1>4, <3>8 DEF TaskGood, w
    <3> QED BY <3>5, <3>6, <3>9 DEF w
  <2>3. CASE ~(t \in Inspectors /\ r.at # "idle")
    <3>1. w = [r EXCEPT !.polled = FALSE] BY <1>5, <2>3
    <3>2. w \in SinkTaskStates BY <2>1, <3>1 DEF SinkTaskStates
    <3>3. /\ w.at = r.at /\ w.step = r.step /\ w.status = r.status /\ w.budget = r.budget
          /\ w.evidence = r.evidence
      BY <2>1, <3>1 DEF SinkTaskStates
    <3> HIDE DEF w
    <3>4. TaskGood(t, w) BY <2>1, <2>3, <3>3 DEF TaskGood
    <3>5. TaskGood(t, sinkTask[t])' BY <1>1, <1>4, <3>4 DEF TaskGood, w
    <3> QED BY <3>2, <3>3, <3>5 DEF w
  <2> QED BY <2>2, <2>3
<1>7. sinkTask' \in [SinkTasks -> SinkTaskStates] BY <1>5, <1>6
<1>8. SinkTasks' = SinkTasks BY DEF SinkTasks
<1>9. SinkTaskStates' = SinkTaskStates BY DEF SinkTaskStates, Ages, MaxAge, Statuses
<1>10. lock' \in SinkTasks \union {Absent} BY <1>1 DEF SinkInd
<1>11. ASSUME NEW t \in SinkTasks PROVE (sinkTask[t].at = "connect" <=> lock = t)'
  BY <1>1, <1>6 DEF SinkInd
<1> QED BY <1>3, <1>6, <1>7, <1>8, <1>9, <1>10, <1>11 DEF SinkInd

\* Every step keeps the invariant.
LEMMA SinkIndNext ==
  ASSUME SinkInd, [SinkNext]_sinkVars
  PROVE  SinkInd'
<1> USE SinkFacts
<1>1. ASSUME NEW t \in SinkTasks, SinkContinue(t) PROVE SinkInd' BY <1>1, ContinueInd
<1>2. ASSUME NEW t \in SinkTasks, AnswerCached(t) PROVE SinkInd'
  <2> DEFINE r == sinkTask[t]
             v == [r EXCEPT !.polled = TRUE, !.status = cache.status, !.evidence = cache.evidence]
  <2>1. /\ t \in Inspectors /\ r.at = "idle" /\ cache # Absent /\ cache.age < CacheTtl
        /\ sinkTask' = [sinkTask EXCEPT ![t] = v]
        /\ UNCHANGED <<kind, broker, client, js, lock, cache>>
    BY <1>2 DEF AnswerCached, Polls, Fresh, Set
  <2>2. /\ cache.status \in Statuses /\ cache.evidence \in Ages /\ cache.age \in Ages
        /\ cache.status = "online" => cache.evidence <= Timeout + cache.age
    BY <2>1 DEF SinkInd, SharedGood
  <2>3. cache.status = "online" => cache.evidence < Timeout + CacheTtl BY <2>1, <2>2
  <2>4. r \in SinkTaskStates BY DEF SinkInd
  <2>5. v \in SinkTaskStates BY <2>2, <2>4 DEF SinkTaskStates
  <2>6. v.at = "idle" /\ v.status = cache.status /\ v.evidence = cache.evidence
    BY <2>1, <2>4 DEF SinkTaskStates
  <2> HIDE DEF v
  <2>7. TaskGood(t, v) BY <2>1, <2>3, <2>6 DEF TaskGood
  <2>8. SharedGood' BY <2>1, SharedStays
  <2>9. lock # t /\ lock \in SinkTasks \union {Absent} BY <2>1 DEF SinkInd
  <2> QED BY <2>1, <2>5, <2>6, <2>7, <2>8, <2>9, TaskMoves
<1>3. ASSUME NEW t \in SinkTasks, Inspect(t) PROVE SinkInd'
  <2> DEFINE p == IF kind = "nats" THEN "js" ELSE IF Script = <<>> THEN "store" ELSE "call"
             s == IF Script = <<>> THEN "active" ELSE "none"
             v == [at |-> p, step |-> 1, budget |-> Timeout, evidence |-> MaxAge,
                   status |-> s, polled |-> TRUE]
  <2>1. /\ t \in Inspectors /\ sinkTask[t].at = "idle" /\ sinkTask' = [sinkTask EXCEPT ![t] = v]
        /\ UNCHANGED <<kind, broker, client, js, lock, cache>>
    BY <1>3 DEF Inspect, Polls, Set
  <2>2. p \in {"js", "store", "call"} /\ (p = "js" => kind = "nats")
        /\ (p = "call" => Script # <<>>)
    OBVIOUS
  <2>3. s \in {"active", "none"} OBVIOUS
  <2>4. Len(Script) \in 0..3 /\ (Script = <<>> <=> Len(Script) = 0)
    BY Scripts DEF SinkInd, SharedGood
  <2> HIDE DEF p, s
  <2>5. v \in SinkTaskStates
    <3>1. 1 \in 0..3 /\ Timeout \in 0..Timeout /\ MaxAge \in Ages OBVIOUS
    <3> QED BY <2>2, <2>3, <3>1 DEF SinkTaskStates, Statuses
  <2>6. v.at = p /\ v.step = 1 /\ v.status = s OBVIOUS
  <2> HIDE DEF v
  <2>7. v.at = "call" => v.step \in 1..Len(Script) BY <2>2, <2>4, <2>6
  <2>8. TaskGood(t, v) BY <2>1, <2>2, <2>3, <2>6, <2>7 DEF TaskGood
  <2>9. SharedGood' BY <2>1, SharedStays
  <2>10. lock # t /\ lock \in SinkTasks \union {Absent} BY <2>1 DEF SinkInd
  <2> QED BY <2>1, <2>2, <2>5, <2>6, <2>8, <2>9, <2>10, TaskMoves
<1>4. ASSUME NEW t \in SinkTasks, Query(t) PROVE SinkInd'
  <2> DEFINE p == IF client THEN "request" ELSE "lock"
             v == [IdleSinkTask EXCEPT !.at = p, !.polled = TRUE]
  <2>1. /\ t \in Queriers /\ sinkTask[t].at = "idle" /\ sinkTask' = [sinkTask EXCEPT ![t] = v]
        /\ UNCHANGED <<kind, broker, client, js, lock, cache>>
    BY <1>4 DEF Query, Polls, Set
  <2>2. p \in {"request", "lock"} OBVIOUS
  <2> HIDE DEF p
  <2>3. v \in SinkTaskStates /\ v.at = p
    <3>1. 0 \in 0..Timeout /\ 0 \in 0..3 /\ MaxAge \in Ages OBVIOUS
    <3> QED BY <2>2, <3>1 DEF IdleSinkTask, SinkTaskStates, Statuses
  <2> HIDE DEF v
  <2>4. TaskGood(t, v) BY <2>1, <2>2, <2>3 DEF TaskGood
  <2>5. SharedGood' BY <2>1, SharedStays
  <2>6. lock # t /\ lock \in SinkTasks \union {Absent} BY <2>1 DEF SinkInd
  <2> QED BY <2>1, <2>2, <2>3, <2>4, <2>5, <2>6, TaskMoves
<1>5. ASSUME NEW b \in Brokers, BrokerChanges(b) PROVE SinkInd'
  <2>1. broker' = b /\ UNCHANGED <<kind, client, js, lock, cache, sinkTask>>
    BY <1>5 DEF BrokerChanges
  <2>2. SharedGood'
    BY <2>1 DEF SinkInd, SharedGood, Brokers, Statuses, Ages, MaxAge
  <2> QED BY <2>1, <2>2 DEF SinkInd, TaskGood, SinkTasks, SinkTaskStates, Ages, MaxAge,
         Statuses, Script, inspect_nats, inspect_redis, inspect_iggy,
         inspect_rabbitmq, inspect_kafka, inspect_sierradb,
         inspect_webhook, inspect_generic, Call
<1>6. CASE Tick BY <1>6, SinkTick
<1>7. CASE UNCHANGED sinkVars
  BY <1>7 DEF sinkVars, SinkInd, SharedGood, TaskGood, SinkTasks, SinkTaskStates, Ages,
         MaxAge, Brokers,
         Statuses, Script, inspect_nats, inspect_redis, inspect_iggy,
         inspect_rabbitmq, inspect_kafka, inspect_sierradb,
         inspect_webhook, inspect_generic, Call
<1> QED BY <1>1, <1>2, <1>3, <1>4, <1>5, <1>6, <1>7 DEF SinkNext, inspect

\* Nobody is told "online" on evidence older than the timeout and the lifetime
\* of a response together, and only the request that connects holds the mutex:
\* for any number of inspections and log queries, however they overlap, time
\* out, evict the client and overwrite each other's response.
THEOREM OnlineIsEvidenced == SinkSpec => []SinkInv
<1>1. SinkInit => SinkInd BY SinkIndInit
<1>2. SinkInd /\ [SinkNext]_sinkVars => SinkInd' BY SinkIndNext
<1>3. SinkInd => SinkInv
  <2> USE SinkFacts
  <2> SUFFICES ASSUME SinkInd PROVE SinkInv OBVIOUS
  <2>1. SinkTypeOK BY DEF SinkInd, SharedGood, SinkTypeOK
  <2>2. /\ lock # Absent => sinkTask[lock].at = "connect"
        /\ \A t \in SinkTasks : sinkTask[t].at = "connect" => lock = t
    BY DEF SinkInd
  <2>3. \A t \in Inspectors : t \in SinkTasks /\ TaskGood(t, sinkTask[t]) BY DEF SinkInd
  <2>4. OnlineIsRecent BY <2>3 DEF TaskGood, OnlineIsRecent
  <2>5. cache # Absent /\ cache.status = "online" => cache.evidence <= Timeout + cache.age
    BY DEF SinkInd, SharedGood
  <2> QED BY <2>1, <2>2, <2>3, <2>4, <2>5 DEF TaskGood, SinkInv
<1> QED BY <1>1, <1>2, <1>3, PTL DEF SinkSpec
=============================================================================
