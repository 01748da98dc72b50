------------------------ MODULE ScheduleManager_proofs ------------------------
(***************************************************************************)
(* Proofs about ScheduleManager for any nodes, callers and automations:     *)
(* however calls, shutdowns and failures overlap, a manager's map holds no  *)
(* closed job, and a node that was told of everything runs what the records *)
(* ask for.                                                                *)
(***************************************************************************)
EXTENDS ScheduleManager, TLAPS

CallType ==
    [pc: {"idle", "save", "stop", "close", "start", "register"},
     op: {"none", "save", "delete", "disable"},
     node: Nodes \cup {None}, id: Ids \cup {None},
     was: Wanted \cup {None}, new: Wanted \cup {None},
     start: Schedules \cup {None}, job: Jobs \cup {None}]

\* The fields of a call can be updated one by one.
LEMMA CallFields ==
    ASSUME call \in [Callers -> CallType], NEW c \in Callers
    PROVE  /\ Idle \in CallType
           /\ [call EXCEPT ![c] = Idle] \in [Callers -> CallType]
           /\ \A d \in Callers : [call EXCEPT ![c] = Idle][d] = IF d = c THEN Idle ELSE call[d]
BY DEF CallType, Idle

\* One entry of one map is set.
LEMMA EntrySet ==
    ASSUME jobs \in [Nodes -> [Ids -> Jobs \cup {None}]],
           NEW n \in Nodes, NEW i \in Ids, NEW j \in Jobs \cup {None},
           jobs' = [jobs EXCEPT ![n][i] = j]
    PROVE  /\ jobs' \in [Nodes -> [Ids -> Jobs \cup {None}]]
           /\ \A m \in Nodes, k \in Ids :
                 jobs'[m][k] = IF m = n /\ k = i THEN j ELSE jobs[m][k]
OBVIOUS

\* A call takes hold of a job.
LEMMA CallTakes ==
    ASSUME call \in [Callers -> CallType], NEW c \in Callers,
           NEW pc \in {"close", "register"}, NEW j \in Jobs \cup {None},
           call' = [call EXCEPT ![c].pc = pc, ![c].job = j]
    PROVE  /\ call' \in [Callers -> CallType]
           /\ call'[c].pc = pc /\ call'[c].job = j
           /\ call'[c].node = call[c].node /\ call'[c].id = call[c].id
           /\ call'[c].start = call[c].start
           /\ \A d \in Callers : d # c => call'[d] = call[d]
<1> DEFINE b == [call[c] EXCEPT !.pc = pc, !.job = j]
<1>1. call[c] \in CallType
  OBVIOUS
<1>2. b \in CallType /\ b.pc = pc /\ b.job = j /\ b.node = call[c].node /\ b.id = call[c].id
      /\ b.start = call[c].start
  BY ZenonT(60), <1>1 DEF CallType
<1>3. call' = [call EXCEPT ![c] = b]
  OBVIOUS
<1>4. QED
  BY <1>2, <1>3

\* None is no job.
LEMMA NoneIsNoJob == None \notin Jobs
BY NoJobAssumption DEF Jobs

\* A caller that holds no job after the step leaves the others' jobs alone.
LEMMA HeldKept ==
    ASSUME HeldInv, NEW c \in Callers,
           jobs' = jobs, live' = live,
           \A d \in Callers : d # c => call'[d] = call[d],
           call'[c].pc # "idle" => call'[c].node \in Nodes /\ call'[c].id \in Ids,
           call'[c].pc = "start" => call'[c].start \in Schedules,
           call'[c].pc \notin {"close", "register"}
    PROVE  HeldInv'
<1>1. \A d \in Callers : call'[d].pc # "idle" => call'[d].node \in Nodes /\ call'[d].id \in Ids
  BY DEF HeldInv
<1>2. \A d \in Callers : call'[d].pc = "start" => call'[d].start \in Schedules
  BY DEF HeldInv
<1>3. \A d \in Callers : call'[d].pc = "register" => call'[d].job # None
  BY DEF HeldInv
<1>4. \A d \in Callers, j \in Jobs : Holds(d, j)' => Holds(d, j) /\ d # c
  BY DEF Holds
<1>5. QED
  BY <1>1, <1>2, <1>3, <1>4 DEF HeldInv, LiveOn, Holds

\* A request or a worker begins.
LEMMA BeginKeeps ==
    ASSUME SchedInv, NEW c \in Callers, NEW n \in Nodes, NEW i \in Ids,
           NEW op \in {"save", "delete", "disable"}, NEW new \in Wanted \cup {None},
           Begin(c, op, n, i, new), used' \subseteq Ids
    PROVE  SchedInv'
<1> DEFINE b == [Idle EXCEPT
                  !.pc = "save", !.op = op, !.node = n, !.id = i, !.was = record[i], !.new = new]
<1>1. TypeOK /\ EntriesAreLive /\ HeldInv /\ call \in [Callers -> CallType]
  BY DEF SchedInv, TypeOK, CallType
<1>2. /\ call' = [call EXCEPT ![c] = b]
      /\ UNCHANGED <<record, node, listed, jobs, live, faults>>
      /\ strayed' \subseteq Nodes \X Ids
  BY <1>1 DEF Begin, Stray, TypeOK
<1>3. b \in CallType /\ b.pc = "save" /\ b.node = n /\ b.id = i
  BY <1>1 DEF Idle, CallType, TypeOK, Wanted
<1>4. call' \in [Callers -> CallType] /\ call'[c] = b /\ \A d \in Callers : d # c => call'[d] = call[d]
  BY <1>1, <1>2, <1>3
<1>5. HeldInv'
  BY <1>1, <1>2, <1>3, <1>4, HeldKept
<1>6. TypeOK' /\ EntriesAreLive'
  BY <1>1, <1>2, <1>4 DEF TypeOK, EntriesAreLive, LiveOn, CallType
<1>7. QED
  BY <1>5, <1>6 DEF SchedInv

\* The record is saved, and what is left to do is found out.
LEMMA SaveKeeps ==
    ASSUME SchedInv, NEW c \in Callers, Save(c)
    PROVE  SchedInv'
<1>1. TypeOK /\ EntriesAreLive /\ HeldInv /\ call \in [Callers -> CallType]
  BY DEF SchedInv, TypeOK, CallType
<1>2. call[c].node \in Nodes /\ call[c].id \in Ids /\ call[c].new \in Wanted \cup {None}
  BY <1>1 DEF Save, HeldInv, CallType
<1>3. /\ UNCHANGED <<used, node, listed, jobs, live>>
      /\ strayed' \subseteq Nodes \X Ids /\ faults' \in Nat
      /\ record' \in [Ids -> Wanted \cup {None}]
  BY <1>1, <1>2 DEF Save, Fault, Stray, Untold, TypeOK
<1>4. /\ call' \in [Callers -> CallType] /\ \A d \in Callers : d # c => call'[d] = call[d]
      /\ call'[c].pc # "idle" => call'[c].node \in Nodes /\ call'[c].id \in Ids
      /\ call'[c].pc = "start" => call'[c].start \in Schedules
      /\ call'[c].pc \notin {"close", "register"}
  <2>1. CASE Return(c)
    BY <1>1, <2>1, CallFields DEF Return, Idle
  <2>2. CASE Sync(c)
    <3> DEFINE left == [Idle EXCEPT !.pc = IF Stops(c) THEN "stop" ELSE "start",
                          !.node = call[c].node, !.id = call[c].id,
                          !.start = IF Starts(c) THEN call[c].new ELSE None]
    <3>1. Starts(c) => call[c].new \in Schedules
      BY DEF Starts, Active
    <3>2. left \in CallType /\ left.node \in Nodes /\ left.id \in Ids
          /\ left.pc \in {"stop", "start"}
          /\ (left.pc = "start" /\ Starts(c) => left.start \in Schedules)
      BY <1>2, <3>1 DEF CallType, Idle
    <3>3. CASE ~Stops(c) /\ ~Starts(c)
      BY <1>1, <2>2, <3>3, CallFields DEF Sync, Idle
    <3>4. CASE Stops(c) \/ Starts(c)
      <4>1. call' = [call EXCEPT ![c] = left]
        BY <2>2, <3>4 DEF Sync
      <4>2. left.pc = "start" => Starts(c)
        BY <3>4 DEF Idle
      <4>3. QED
        BY <1>1, <3>2, <4>1, <4>2
    <3>5. QED
      BY <3>3, <3>4
  <2>3. QED
    BY <2>1, <2>2 DEF Save
<1>5. HeldInv'
  BY <1>1, <1>3, <1>4, HeldKept
<1>6. TypeOK' /\ EntriesAreLive'
  BY <1>1, <1>3, <1>4 DEF TypeOK, EntriesAreLive, LiveOn, CallType
<1>7. QED
  BY <1>5, <1>6 DEF SchedInv

\* An entry is taken out of the map before its job is closed.
LEMMA StopJobKeeps ==
    ASSUME SchedInv, NEW c \in Callers, StopJob(c)
    PROVE  SchedInv'
<1>1. TypeOK /\ EntriesAreLive /\ HeldInv /\ call \in [Callers -> CallType]
      /\ jobs \in [Nodes -> [Ids -> Jobs \cup {None}]]
  BY DEF SchedInv, TypeOK, CallType
<1>2. PICK n \in Nodes, i \in Ids : n = call[c].node /\ i = call[c].id
  BY <1>1 DEF StopJob, HeldInv
<1>3. PICK j \in Jobs \cup {None} : j = jobs[n][i]
  BY <1>1
<1>4. /\ call' = [call EXCEPT ![c].pc = "close", ![c].job = j]
      /\ jobs' = [jobs EXCEPT ![n][i] = None]
      /\ UNCHANGED <<record, used, node, listed, live, strayed, faults>>
  BY <1>2, <1>3 DEF StopJob
<1>5. /\ call' \in [Callers -> CallType]
      /\ call'[c].pc = "close" /\ call'[c].job = j /\ call'[c].node = n /\ call'[c].id = i
      /\ \A d \in Callers : d # c => call'[d] = call[d]
  BY <1>1, <1>2, <1>4, CallTakes
<1>6. /\ jobs' \in [Nodes -> [Ids -> Jobs \cup {None}]]
      /\ \A m \in Nodes, k \in Ids :
            jobs'[m][k] = IF m = n /\ k = i THEN None ELSE jobs[m][k]
  BY <1>1, <1>4, EntrySet
<1>7. TypeOK' /\ EntriesAreLive'
  BY <1>1, <1>4, <1>5, <1>6 DEF TypeOK, EntriesAreLive, LiveOn, CallType
<1>8. j \in Jobs => /\ j \in LiveOn(n, i) /\ (\A d \in Callers : ~Holds(d, j))
                    /\ \A m \in Nodes, k \in Ids : jobs[m][k] = j => m = n /\ k = i
  BY <1>1, <1>3, NoneIsNoJob DEF EntriesAreLive, HeldInv, LiveOn
<1>9. \A d \in Callers, h \in Jobs : Holds(d, h)' <=> IF d = c THEN h = j ELSE Holds(d, h)
  BY <1>5 DEF Holds
<1>10. ASSUME NEW d \in Callers, NEW h \in Jobs, Holds(d, h)'
      PROVE  /\ h \in LiveOn(call[d].node, call[d].id)' /\ (\A m \in Nodes, k \in Ids : jobs'[m][k] # h)
             /\ \A e \in Callers : Holds(e, h)' => e = d
  <2>1. h # None
    BY NoneIsNoJob
  <2>2. CASE d = c
    <3>1. h = j
      BY <1>9, <1>10, <2>2
    <3>2. QED
      BY <1>4, <1>5, <1>6, <1>8, <1>9, <2>1, <2>2, <3>1 DEF LiveOn
  <2>3. CASE d # c
    <3>1. Holds(d, h) /\ h # j
      BY <1>8, <1>9, <1>10, <2>3
    <3>2. QED
      BY <1>1, <1>4, <1>5, <1>6, <1>9, <2>1, <2>3, <3>1 DEF HeldInv, LiveOn
  <2>4. QED
    BY <2>2, <2>3
<1>11. /\ \A d \in Callers : call'[d].pc # "idle" => call'[d].node \in Nodes /\ call'[d].id \in Ids
       /\ \A d \in Callers : call'[d].pc = "start" => call'[d].start \in Schedules
       /\ \A d \in Callers : call'[d].pc = "register" => call'[d].job # None
  BY <1>1, <1>5 DEF HeldInv
<1>12. HeldInv'
  BY <1>10, <1>11 DEF HeldInv, LiveOn
<1>13. QED
  BY <1>7, <1>12 DEF SchedInv

\* No caller takes hold of a job, and the held ones are neither closed nor entered.
LEMMA HeldLess ==
    ASSUME HeldInv,
           \A d \in Callers : \/ call'[d] = call[d]
                              \/ /\ call'[d].pc \notin {"close", "register"}
                                 /\ call'[d].pc # "idle" => call'[d].node \in Nodes /\ call'[d].id \in Ids
                                 /\ call'[d].pc = "start" => call'[d].start \in Schedules,
           \A d \in Callers, j \in Jobs : Holds(d, j)' =>
                 j \in live' /\ \A n \in Nodes, i \in Ids : jobs'[n][i] # j
    PROVE  HeldInv'
<1>1. \A d \in Callers : call'[d].pc # "idle" => call'[d].node \in Nodes /\ call'[d].id \in Ids
  BY DEF HeldInv
<1>2. \A d \in Callers : call'[d].pc = "start" => call'[d].start \in Schedules
  BY DEF HeldInv
<1>3. \A d \in Callers : call'[d].pc = "register" => call'[d].job # None
  BY DEF HeldInv
<1>4. \A d \in Callers, j \in Jobs : Holds(d, j)' => Holds(d, j) /\ call'[d] = call[d]
  BY DEF Holds
<1>5. QED
  BY <1>1, <1>2, <1>3, <1>4 DEF HeldInv, LiveOn

\* The job taken out of the map is closed.
LEMMA CloseJobKeeps ==
    ASSUME SchedInv, NEW c \in Callers, CloseJob(c)
    PROVE  SchedInv'
<1>1. TypeOK /\ EntriesAreLive /\ HeldInv /\ call \in [Callers -> CallType]
  BY DEF SchedInv, TypeOK, CallType
<1>2. PICK h \in Jobs \cup {None} : h = call[c].job
  BY <1>1 DEF CallType
<1>3. live' = live \ {h} /\ call[c].pc = "close"
      /\ UNCHANGED <<record, used, node, listed, jobs, strayed, faults>>
  BY <1>2 DEF CloseJob
<1>4. /\ call' \in [Callers -> CallType] /\ \A d \in Callers : d # c => call'[d] = call[d]
      /\ call'[c].pc # "idle" => call'[c].node \in Nodes /\ call'[c].id \in Ids
      /\ call'[c].pc = "start" => call'[c].start \in Schedules
      /\ call'[c].pc \notin {"close", "register"}
  <2>1. CASE call[c].start = None
    BY <1>1, <2>1, CallFields DEF CloseJob, Return, Idle
  <2>2. CASE call[c].start # None
    <3> DEFINE b == [call[c] EXCEPT !.pc = "start", !.job = None]
    <3>1. call[c] \in CallType /\ call[c].node \in Nodes /\ call[c].id \in Ids
      BY <1>1, <1>3 DEF HeldInv
    <3>2. b \in CallType /\ b.pc = "start" /\ b.node = call[c].node /\ b.id = call[c].id
          /\ b.start \in Schedules
      BY <2>2, <3>1 DEF CallType
    <3>3. call' = [call EXCEPT ![c] = b]
      BY <2>2 DEF CloseJob
    <3>4. QED
      BY <1>1, <3>1, <3>2, <3>3
  <2>3. QED
    BY <2>1, <2>2
<1>5. h \in Jobs => Holds(c, h)
  BY <1>2, <1>3 DEF Holds
<1>6. EntriesAreLive'
  <2>1. \A n \in Nodes, i \in Ids : jobs[n][i] # None => jobs[n][i] \in Jobs /\ jobs[n][i] # h
    BY <1>1, <1>5 DEF TypeOK, HeldInv
  <2>2. QED
    BY <1>1, <1>3, <2>1 DEF EntriesAreLive, LiveOn
<1>7. \A d \in Callers, j \in Jobs : Holds(d, j)' => Holds(d, j) /\ j # h
  <2>1. \A d \in Callers, j \in Jobs : Holds(d, j)' => Holds(d, j) /\ d # c
    BY <1>4 DEF Holds
  <2>2. QED
    BY <1>1, <1>5, <2>1 DEF HeldInv
<1>8. HeldInv'
  <2>1. \A d \in Callers, j \in Jobs : Holds(d, j)' =>
           j \in live' /\ \A n \in Nodes, i \in Ids : jobs'[n][i] # j
    BY <1>1, <1>3, <1>7 DEF HeldInv, LiveOn
  <2>2. QED
    BY <1>1, <1>4, <2>1, HeldLess
<1>9. TypeOK'
  BY <1>1, <1>3, <1>4 DEF TypeOK, CallType
<1>10. QED
  BY <1>6, <1>8, <1>9 DEF SchedInv

\* The job a call starts is new, so nobody else has it.
LEMMA StartJobKeeps ==
    ASSUME SchedInv, NEW c \in Callers, StartJob(c)
    PROVE  SchedInv'
<1>1. TypeOK /\ EntriesAreLive /\ HeldInv /\ call \in [Callers -> CallType]
  BY DEF SchedInv, TypeOK, CallType
<1>2. /\ call[c].pc = "start" /\ call[c].node \in Nodes /\ call[c].id \in Ids
      /\ call[c].start \in Schedules
      /\ UNCHANGED <<record, used, node, listed, jobs>>
  BY <1>1 DEF StartJob, HeldInv
<1>3. CASE Fault /\ Stray({<<call[c].node, call[c].id>>}) /\ Return(c) /\ UNCHANGED live
  <2>1. /\ call' \in [Callers -> CallType] /\ \A d \in Callers : d # c => call'[d] = call[d]
        /\ call'[c] = Idle
    BY <1>1, <1>3, CallFields DEF Return
  <2>2. HeldInv'
    BY <1>1, <1>2, <1>3, <2>1, HeldKept DEF Idle
  <2>3. strayed' \subseteq Nodes \X Ids /\ faults' \in Nat
    BY <1>1, <1>2, <1>3 DEF Stray, Fault, TypeOK
  <2>4. TypeOK' /\ EntriesAreLive'
    BY <1>1, <1>2, <1>3, <2>1, <2>3 DEF TypeOK, EntriesAreLive, LiveOn, CallType
  <2>5. QED
    BY <2>2, <2>4 DEF SchedInv
<1>4. CASE \E k \in Fresh(call[c].node, call[c].id) :
             LET job == [node |-> call[c].node, id |-> call[c].id,
                         schedule |-> call[c].start, serial |-> k]
             IN  /\ live' = live \cup {job}
                 /\ call' = [call EXCEPT ![c].pc = "register", ![c].job = job]
                 /\ UNCHANGED <<strayed, faults>>
  <2>1. PICK k \in Fresh(call[c].node, call[c].id), job \in Jobs :
             /\ job = [node |-> call[c].node, id |-> call[c].id,
                       schedule |-> call[c].start, serial |-> k]
             /\ live' = live \cup {job}
             /\ call' = [call EXCEPT ![c].pc = "register", ![c].job = job]
             /\ UNCHANGED <<strayed, faults>>
    BY <1>2, <1>4 DEF Fresh, Jobs
  <2>2. job \notin live /\ job.node = call[c].node /\ job.id = call[c].id
    BY <2>1 DEF Fresh
  <2>3. /\ call' \in [Callers -> CallType]
        /\ call'[c].pc = "register" /\ call'[c].job = job
        /\ call'[c].node = call[c].node /\ call'[c].id = call[c].id
        /\ \A d \in Callers : d # c => call'[d] = call[d]
    BY <1>1, <2>1, CallTakes
  <2>4. TypeOK' /\ EntriesAreLive'
    BY <1>1, <1>2, <2>1, <2>3 DEF TypeOK, EntriesAreLive, LiveOn, CallType
  <2>5. (\A d \in Callers : ~Holds(d, job)) /\ \A n \in Nodes, i \in Ids : jobs[n][i] # job
    BY <1>1, <2>2, NoneIsNoJob DEF HeldInv, EntriesAreLive, LiveOn
  <2>6. \A d \in Callers, h \in Jobs : Holds(d, h)' <=> IF d = c THEN h = job ELSE Holds(d, h)
    BY <2>3 DEF Holds
  <2>7. ASSUME NEW d \in Callers, NEW h \in Jobs, Holds(d, h)'
        PROVE  /\ h \in LiveOn(call[d].node, call[d].id)' /\ (\A m \in Nodes, i \in Ids : jobs'[m][i] # h)
               /\ \A e \in Callers : Holds(e, h)' => e = d
    <3>1. CASE d = c
      BY <1>2, <2>1, <2>2, <2>3, <2>5, <2>6, <2>7, <3>1 DEF LiveOn
    <3>2. CASE d # c
      <4>1. Holds(d, h) /\ h # job
        BY <2>5, <2>6, <2>7, <3>2
      <4>2. QED
        BY <1>1, <1>2, <2>1, <2>3, <2>6, <3>2, <4>1 DEF HeldInv, LiveOn
    <3>3. QED
      BY <3>1, <3>2
  <2>8. /\ \A d \in Callers : call'[d].pc # "idle" => call'[d].node \in Nodes /\ call'[d].id \in Ids
        /\ \A d \in Callers : call'[d].pc = "start" => call'[d].start \in Schedules
        /\ \A d \in Callers : call'[d].pc = "register" => call'[d].job # None
    BY <1>1, <1>2, <2>3, NoneIsNoJob DEF HeldInv
  <2>9. HeldInv'
    BY <2>7, <2>8 DEF HeldInv, LiveOn
  <2>10. QED
    BY <2>4, <2>9 DEF SchedInv
<1>5. QED
  BY <1>3, <1>4 DEF StartJob

\* The started job becomes an entry, and its call is over.
LEMMA RegisterJobKeeps ==
    ASSUME SchedInv, NEW c \in Callers, RegisterJob(c)
    PROVE  SchedInv'
<1>1. TypeOK /\ EntriesAreLive /\ HeldInv /\ call \in [Callers -> CallType]
      /\ jobs \in [Nodes -> [Ids -> Jobs \cup {None}]]
  BY DEF SchedInv, TypeOK, CallType
<1>2. PICK n \in Nodes, i \in Ids : n = call[c].node /\ i = call[c].id
  BY <1>1 DEF RegisterJob, HeldInv
<1>3. PICK j \in Jobs : j = call[c].job
  BY <1>1 DEF RegisterJob, HeldInv, CallType
<1>4. Holds(c, j) /\ j \in LiveOn(n, i)
  BY <1>1, <1>2, <1>3 DEF RegisterJob, Holds, HeldInv
<1>5. /\ jobs' = [jobs EXCEPT ![n][i] = j]
      /\ UNCHANGED <<record, used, node, listed, live, strayed, faults>>
      /\ call' \in [Callers -> CallType] /\ (\A d \in Callers : d # c => call'[d] = call[d])
      /\ call'[c] = Idle
  BY <1>1, <1>2, <1>3, CallFields DEF RegisterJob, Return
<1>6. /\ jobs' \in [Nodes -> [Ids -> Jobs \cup {None}]]
      /\ \A m \in Nodes, k \in Ids : jobs'[m][k] = IF m = n /\ k = i THEN j ELSE jobs[m][k]
  BY <1>1, <1>5, EntrySet
<1>7. TypeOK' /\ EntriesAreLive'
  BY <1>1, <1>4, <1>5, <1>6 DEF TypeOK, EntriesAreLive, LiveOn, CallType
<1>8. \A d \in Callers, h \in Jobs : Holds(d, h)' => Holds(d, h) /\ h # j
  <2>1. \A d \in Callers, h \in Jobs : Holds(d, h)' => Holds(d, h) /\ d # c
    BY <1>5 DEF Holds, Idle
  <2>2. QED
    BY <1>1, <1>4, <2>1 DEF HeldInv
<1>9. \A d \in Callers, h \in Jobs : Holds(d, h)' =>
         h \in live' /\ \A m \in Nodes, k \in Ids : jobs'[m][k] # h
  BY <1>1, <1>5, <1>6, <1>8 DEF HeldInv, LiveOn
<1>10. HeldInv'
  BY <1>1, <1>5, <1>9, HeldLess DEF Idle
<1>11. QED
  BY <1>7, <1>10 DEF SchedInv

\* Start lists the automations, and has started what it listed.
LEMMA ActivateKeeps ==
    ASSUME SchedInv, NEW n \in Nodes, Activate(n) \/ ActivateDone(n)
    PROVE  SchedInv'
<1>1. TypeOK /\ EntriesAreLive /\ HeldInv
  BY DEF SchedInv
<1>2. UNCHANGED <<record, used, jobs, live, call>>
  BY DEF Activate, ActivateDone
<1>3. /\ node' \in [Nodes -> {"down", "starting", "up", "stopping"}]
      /\ strayed' \subseteq Nodes \X Ids /\ faults' \in Nat
  BY <1>1 DEF Activate, ActivateDone, TypeOK, Fault, Stray
<1>4. listed' \in [Nodes -> SUBSET [id: Ids, schedule: Schedules]]
  <2>1. CASE ActivateDone(n)
    BY <1>1, <2>1 DEF ActivateDone, TypeOK
  <2>2. CASE UNCHANGED listed
    BY <1>1, <2>2 DEF TypeOK
  <2>3. ASSUME listed' = [listed EXCEPT ![n] =
                 {[id |-> i, schedule |-> record[i]] : i \in {j \in Ids : Active(record[j])}}]
        PROVE  listed' \in [Nodes -> SUBSET [id: Ids, schedule: Schedules]]
    BY <1>1, <2>3 DEF TypeOK, Active
  <2>4. QED
    BY <2>1, <2>2, <2>3 DEF Activate
<1>5. TypeOK' /\ EntriesAreLive' /\ HeldInv'
  BY <1>1, <1>2, <1>3, <1>4 DEF TypeOK, EntriesAreLive, HeldInv, LiveOn, Holds
<1>6. QED
  BY <1>5 DEF SchedInv

\* A job that Start starts is new too.
LEMMA ActivateJobKeeps ==
    ASSUME SchedInv, NEW n \in Nodes, ActivateJob(n)
    PROVE  SchedInv'
<1>1. TypeOK /\ EntriesAreLive /\ HeldInv
      /\ jobs \in [Nodes -> [Ids -> Jobs \cup {None}]]
  BY DEF SchedInv, TypeOK
<1>2. PICK e \in listed[n] :
          /\ listed' = [listed EXCEPT ![n] = @ \ {e}]
          /\ \/ \E k \in Fresh(n, e.id) :
                   LET job == [node |-> n, id |-> e.id, schedule |-> e.schedule, serial |-> k]
                   IN  /\ live' = live \cup {job} /\ jobs' = [jobs EXCEPT ![n][e.id] = job]
                       /\ UNCHANGED <<strayed, faults>>
             \/ Fault /\ Stray({<<n, e.id>>}) /\ UNCHANGED <<jobs, live>>
  BY DEF ActivateJob
<1>3. e \in [id: Ids, schedule: Schedules] /\ UNCHANGED <<record, used, node, call>>
  BY <1>1, <1>2 DEF ActivateJob, TypeOK
<1>4. listed' \in [Nodes -> SUBSET [id: Ids, schedule: Schedules]]
  BY <1>1, <1>2 DEF TypeOK
<1>5. CASE Fault /\ Stray({<<n, e.id>>}) /\ UNCHANGED <<jobs, live>>
  <2>1. strayed' \subseteq Nodes \X Ids /\ faults' \in Nat
    BY <1>1, <1>3, <1>5 DEF TypeOK, Fault, Stray
  <2>2. TypeOK' /\ EntriesAreLive' /\ HeldInv'
    BY <1>1, <1>3, <1>4, <1>5, <2>1 DEF TypeOK, EntriesAreLive, HeldInv, LiveOn, Holds
  <2>3. QED
    BY <2>2 DEF SchedInv
<1>6. CASE \E k \in Fresh(n, e.id) :
             LET job == [node |-> n, id |-> e.id, schedule |-> e.schedule, serial |-> k]
             IN  /\ live' = live \cup {job} /\ jobs' = [jobs EXCEPT ![n][e.id] = job]
                 /\ UNCHANGED <<strayed, faults>>
  <2>1. PICK k \in Fresh(n, e.id), j \in Jobs :
             /\ j = [node |-> n, id |-> e.id, schedule |-> e.schedule, serial |-> k]
             /\ live' = live \cup {j} /\ jobs' = [jobs EXCEPT ![n][e.id] = j]
             /\ UNCHANGED <<strayed, faults>>
    BY <1>3, <1>6 DEF Fresh, Jobs
  <2>2. PICK i \in Ids : i = e.id
    BY <1>3
  <2>3. j \notin live /\ j.node = n /\ j.id = i
    BY <2>1, <2>2 DEF Fresh
  <2>4. /\ jobs' \in [Nodes -> [Ids -> Jobs \cup {None}]]
        /\ \A m \in Nodes, l \in Ids : jobs'[m][l] = IF m = n /\ l = i THEN j ELSE jobs[m][l]
    BY <1>1, <2>1, <2>2, EntrySet
  <2>5. TypeOK' /\ EntriesAreLive'
    BY <1>1, <1>3, <1>4, <2>1, <2>3, <2>4 DEF TypeOK, EntriesAreLive, LiveOn
  <2>6. \A d \in Callers, h \in Jobs : Holds(d, h)' => Holds(d, h) /\ h # j
    BY <1>1, <1>3, <2>3 DEF Holds, HeldInv, LiveOn
  <2>7. \A d \in Callers, h \in Jobs : Holds(d, h)' =>
           h \in live' /\ \A m \in Nodes, l \in Ids : jobs'[m][l] # h
    BY <1>1, <2>1, <2>4, <2>6 DEF HeldInv, LiveOn
  <2>8. HeldInv'
    BY <1>1, <1>3, <2>7, HeldLess
  <2>9. QED
    BY <2>5, <2>8 DEF SchedInv
<1>7. QED
  BY <1>2, <1>5, <1>6

\* Stop closes the jobs of the map only, and no held job is one of them.
LEMMA StopKeeps ==
    ASSUME SchedInv, NEW n \in Nodes, Stop(n)
    PROVE  SchedInv'
<1>1. TypeOK /\ EntriesAreLive /\ HeldInv
  BY DEF SchedInv
<1>2. /\ live' = live \ {jobs[n][i] : i \in Ids}
      /\ jobs' = [jobs EXCEPT ![n] = [i \in Ids |-> None]]
      /\ node' = [node EXCEPT ![n] = "stopping"]
      /\ UNCHANGED <<record, used, listed, call, strayed, faults>>
  BY DEF Stop
<1>3. TypeOK'
  BY <1>1, <1>2 DEF TypeOK
<1>4. \A m \in Nodes, i \in Ids : jobs'[m][i] = IF m = n THEN None ELSE jobs[m][i]
  BY <1>1, <1>2 DEF TypeOK
<1>5. EntriesAreLive'
  <2>1. ASSUME NEW m \in Nodes, NEW i \in Ids, jobs'[m][i] # None
        PROVE  jobs'[m][i] \in LiveOn(m, i)'
    <3>1. m # n /\ jobs[m][i] \in LiveOn(m, i) /\ jobs'[m][i] = jobs[m][i]
      BY <1>1, <1>4, <2>1 DEF EntriesAreLive
    <3>2. \A l \in Ids : jobs[n][l] # jobs[m][i]
      BY <1>1, <2>1, <3>1 DEF EntriesAreLive, LiveOn
    <3>3. QED
      BY <1>2, <3>1, <3>2 DEF LiveOn
  <2>2. QED
    BY <2>1 DEF EntriesAreLive
<1>6. \A d \in Callers, h \in Jobs : Holds(d, h)' =>
         h \in live' /\ \A m \in Nodes, i \in Ids : jobs'[m][i] # h
  BY <1>1, <1>2, <1>4, NoneIsNoJob DEF Holds, HeldInv, LiveOn
<1>7. HeldInv'
  BY <1>1, <1>2, <1>6, HeldLess
<1>8. QED
  BY <1>3, <1>5, <1>7 DEF SchedInv

\* The end of a process takes its jobs and its calls with it.
LEMMA ExitKeeps ==
    ASSUME SchedInv, NEW n \in Nodes, Exit(n)
    PROVE  SchedInv'
<1>1. TypeOK /\ EntriesAreLive /\ HeldInv /\ call \in [Callers -> CallType]
  BY DEF SchedInv, TypeOK, CallType
<1>2. /\ live' = {j \in live : j.node # n}
      /\ jobs' = [jobs EXCEPT ![n] = [i \in Ids |-> None]]
      /\ call' = [c \in Callers |-> IF call[c].node = n THEN Idle ELSE call[c]]
      /\ node' = [node EXCEPT ![n] = "down"] /\ listed' = [listed EXCEPT ![n] = {}]
      /\ strayed' = {s \in strayed : s[1] # n}
      /\ UNCHANGED <<record, used, faults>>
  BY DEF Exit
<1>3. call' \in [Callers -> CallType]
  BY <1>1, <1>2 DEF Idle, CallType
<1>4. TypeOK'
  <2>1. /\ node' \in [Nodes -> {"down", "starting", "up", "stopping"}]
        /\ listed' \in [Nodes -> SUBSET [id: Ids, schedule: Schedules]]
        /\ jobs' \in [Nodes -> [Ids -> Jobs \cup {None}]]
        /\ live' \subseteq Jobs /\ strayed' \subseteq Nodes \X Ids
    BY <1>1, <1>2 DEF TypeOK
  <2>2. QED
    BY <1>1, <1>2, <1>3, <2>1 DEF TypeOK, CallType
<1>5. \A m \in Nodes, i \in Ids : jobs'[m][i] = IF m = n THEN None ELSE jobs[m][i]
  BY <1>1, <1>2 DEF TypeOK
<1>6. EntriesAreLive'
  BY <1>1, <1>2, <1>5 DEF EntriesAreLive, LiveOn
<1>7. \A d \in Callers : call'[d] = IF call[d].node = n THEN Idle ELSE call[d]
  BY <1>2
<1>8. \A d \in Callers, h \in Jobs : Holds(d, h)' => Holds(d, h) /\ call[d].node # n
  BY <1>7 DEF Holds, Idle
<1>9. \A d \in Callers, h \in Jobs : Holds(d, h)' =>
         h \in live' /\ \A m \in Nodes, i \in Ids : jobs'[m][i] # h
  BY <1>1, <1>2, <1>5, <1>8, NoneIsNoJob DEF HeldInv, LiveOn
<1>10. HeldInv'
  BY <1>1, <1>7, <1>9, HeldLess DEF Idle
<1>11. QED
  BY <1>4, <1>6, <1>10 DEF SchedInv

\* Every step of Next keeps the inductive invariant.
LEMMA NextKeeps ==
    ASSUME SchedInv, [Next]_vars
    PROVE  SchedInv'
<1>1. ASSUME NEW c \in Callers, NEW n \in Nodes, NEW i \in Ids,
             Create(c, n, i) \/ Update(c, n, i) \/ Delete(c, n, i) \/ Disable(c, n, i)
      PROVE  SchedInv'
  <2>1. used' \subseteq Ids
    BY <1>1 DEF Create, Update, Delete, Disable, SchedInv, TypeOK
  <2>2. \E op \in {"save", "delete", "disable"}, new \in Wanted \cup {None} :
           Begin(c, op, n, i, new)
    BY <1>1 DEF Create, Update, Delete, Disable, Wanted
  <2>3. QED
    BY <2>1, <2>2, BeginKeeps
<1>2. ASSUME NEW c \in Callers,
             Save(c) \/ StopJob(c) \/ CloseJob(c) \/ StartJob(c) \/ RegisterJob(c)
      PROVE  SchedInv'
  BY <1>2, SaveKeeps, StopJobKeeps, CloseJobKeeps, StartJobKeeps, RegisterJobKeeps
<1>3. ASSUME NEW n \in Nodes,
             Activate(n) \/ ActivateJob(n) \/ ActivateDone(n) \/ Stop(n) \/ Exit(n)
      PROVE  SchedInv'
  BY <1>3, ActivateKeeps, ActivateJobKeeps, StopKeeps, ExitKeeps
<1>4. CASE UNCHANGED vars
  BY <1>4 DEF vars, SchedInv, TypeOK, EntriesAreLive, HeldInv, LiveOn, Holds
<1>5. QED
  BY <1>1, <1>2, <1>3, <1>4 DEF Next

\* Entries of the maps, and the jobs that calls are about to close or register,
\* are always live and never shared: nobody closes a job that another one uses.
THEOREM SchedInvHolds == Spec => []SchedInv
<1>1. Init => SchedInv
  <2>1. Init => TypeOK
    BY BoundsAssumption DEF Init, TypeOK, Wanted, Jobs, Idle
  <2>2. QED
    BY <2>1 DEF Init, SchedInv, EntriesAreLive, HeldInv, Holds, Idle
<1>2. SchedInv /\ [Next]_vars => SchedInv'
  BY NextKeeps
<1>3. QED
  BY <1>1, <1>2, PTL DEF Spec

\* No manager's map ever lists a job that was closed, on any number of nodes and
\* with any number of requests under way.
THEOREM EntriesAlwaysLive == Spec => []EntriesAreLive
<1>1. SchedInv => EntriesAreLive
  BY DEF SchedInv
<1>2. QED
  BY <1>1, SchedInvHolds, PTL

(***************************************************************************)
(* Jobs and records.                                                       *)
(***************************************************************************)

LEMMA IdleFields == Idle.pc = "idle" /\ Idle.start = None /\ Idle.job = None
BY DEF Idle

\* What a node has of one automation is kept by a step that touches neither the
\* record, nor the jobs, nor a call of the node on it.
LEMMA FollowKept ==
    ASSUME NodesInv, NodesInv', NEW n \in Nodes, NEW i \in Ids, Follows(n, i),
           record'[i] = record[i], jobs'[n][i] = jobs[n][i], LiveOn(n, i)' = LiveOn(n, i),
           \A e : e.id = i => (e \in listed'[n] <=> e \in listed[n]),
           \A d \in Callers :
              \/ call'[d] = call[d]
              \/ /\ ~On(d, n, i) /\ ~On(d, n, i)'
                 /\ call'[d].pc # "idle" /\ call'[d].id = i =>
                       \/ call[d].pc # "idle" /\ call[d].id = i
                       \/ \A c \in Callers : ~On(c, n, i)
    PROVE  Follows(n, i)'
<1>1. \A c \in Callers : On(c, n, i)' <=> On(c, n, i)
  BY DEF On
<1>2. ASSUME NEW c \in Callers, On(c, n, i)
      PROVE  Calls(i)' = {c} /\ Between(c)'
  <2>1. call'[c] = call[c] /\ call[c].node = n /\ call[c].id = i /\ call[c].pc # "idle"
    BY <1>2 DEF On
  <2>2. Calls(i) = {c} /\ Between(c)
    BY <1>2 DEF Follows
  <2>3. \A d \in Callers : call'[d] # Idle /\ call'[d].id = i => call[d] # Idle /\ call[d].id = i
    BY <1>2, IdleFields DEF NodesInv
  <2>4. Calls(i)' = {c}
    BY <2>1, <2>2, <2>3, IdleFields DEF Calls
  <2>5. Between(c)'
    BY <2>1, <2>2 DEF Between, Due, Settled
  <2>6. QED
    BY <2>4, <2>5
<1>3. Prepared(n, i)' <=> Prepared(n, i)
  BY DEF Prepared, Settled
<1>4. QED
  BY <1>1, <1>2, <1>3 DEF Follows

\* A call that goes on, or returns, between two of its steps.
LEMMA CallSteps ==
    ASSUME SchedInv, NEW c \in Callers,
           Save(c) \/ StopJob(c) \/ CloseJob(c) \/ StartJob(c) \/ RegisterJob(c)
    PROVE  /\ call[c].pc # "idle" /\ call[c].node \in Nodes /\ call[c].id \in Ids
           /\ \A d \in Callers \ {c} : call'[d] = call[d]
           /\ \/ call'[c] = Idle
              \/ /\ call'[c].pc # "idle"
                 /\ call'[c].node = call[c].node /\ call'[c].id = call[c].id
           /\ UNCHANGED <<node, listed>> /\ strayed \subseteq strayed'
           /\ \A n \in Nodes, i \in Ids : n # call[c].node \/ i # call[c].id =>
                 LiveOn(n, i)' = LiveOn(n, i) /\ jobs'[n][i] = jobs[n][i]
           /\ \A i \in Ids : i # call[c].id => record'[i] = record[i]
           /\ record' = record \/ Save(c)
<1>1. TypeOK /\ EntriesAreLive /\ HeldInv /\ call \in [Callers -> CallType]
      /\ jobs \in [Nodes -> [Ids -> Jobs \cup {None}]] /\ live \subseteq Jobs
      /\ record \in [Ids -> Wanted \cup {None}]
  BY DEF SchedInv, TypeOK, CallType
<1>2. call[c].pc # "idle" /\ call[c].node \in Nodes /\ call[c].id \in Ids
  BY <1>1 DEF Save, StopJob, CloseJob, StartJob, RegisterJob, HeldInv
<1>3. UNCHANGED <<node, listed>> /\ strayed \subseteq strayed'
  BY DEF Save, StopJob, CloseJob, StartJob, RegisterJob, Stray
<1>4. (\A i \in Ids : i # call[c].id => record'[i] = record[i]) /\ (record' = record \/ Save(c))
  BY <1>1, <1>2 DEF Save, StopJob, CloseJob, StartJob, RegisterJob
<1>5. /\ \A d \in Callers \ {c} : call'[d] = call[d]
      /\ \/ call'[c] = Idle
         \/ /\ call'[c].pc # "idle"
            /\ call'[c].node = call[c].node /\ call'[c].id = call[c].id
  <2>1. CASE Return(c)
    BY <1>1, <2>1 DEF Return
  <2>2. CASE Sync(c)
    BY <1>1, <2>2 DEF Sync, Idle
  <2>3. CASE StopJob(c)
    <3>1. jobs[call[c].node][call[c].id] \in Jobs \cup {None}
      BY <1>1, <1>2
    <3>2. QED
      BY ZenonT(60), <1>1, <2>3, <3>1, CallTakes DEF StopJob
  <2>4. CASE CloseJob(c) /\ ~Return(c)
    <3> DEFINE b == [call[c] EXCEPT !.pc = "start", !.job = None]
    <3>1. call' = [call EXCEPT ![c] = b]
      BY <2>4 DEF CloseJob
    <3>2. b.pc = "start" /\ b.node = call[c].node /\ b.id = call[c].id
      BY <1>1 DEF CallType
    <3>3. QED
      BY <1>1, <3>1, <3>2
  <2>5. CASE StartJob(c) /\ ~Return(c)
    <3>1. PICK k \in Fresh(call[c].node, call[c].id), j \in Jobs :
             call' = [call EXCEPT ![c].pc = "register", ![c].job = j]
      <4>1. call[c].start \in Schedules
        BY <1>1, <2>5 DEF StartJob, HeldInv
      <4>2. QED
        BY <1>2, <2>5, <4>1 DEF StartJob, Fresh, Jobs
    <3>2. QED
      BY <1>1, <3>1, CallTakes
  <2>6. QED
    BY <2>1, <2>2, <2>3, <2>4, <2>5 DEF Save, RegisterJob
<1>6. ASSUME NEW n \in Nodes, NEW i \in Ids, n # call[c].node \/ i # call[c].id
      PROVE  LiveOn(n, i)' = LiveOn(n, i) /\ jobs'[n][i] = jobs[n][i]
  <2>1. jobs'[n][i] = jobs[n][i]
    BY <1>1, <1>2, <1>6 DEF Save, StopJob, CloseJob, StartJob, RegisterJob
  <2>2. LiveOn(n, i)' = LiveOn(n, i)
    <3>1. CASE live' = live
      BY <3>1 DEF LiveOn
    <3>2. CASE CloseJob(c)
      <4>1. PICK j : j = call[c].job
        OBVIOUS
      <4>2. live' = live \ {j} /\ call[c].pc = "close"
        BY <3>2, <4>1 DEF CloseJob
      <4>3. j \in Jobs => j.node = call[c].node /\ j.id = call[c].id
        BY <1>1, <4>1, <4>2 DEF HeldInv, Holds, LiveOn
      <4>4. QED
        BY <1>1, <1>6, <4>2, <4>3 DEF LiveOn
    <3>3. CASE StartJob(c)
      <4>1. \/ live' = live
            \/ \E j : live' = live \cup {j} /\ j.node = call[c].node /\ j.id = call[c].id
        BY <3>3 DEF StartJob
      <4>2. QED
        BY <1>6, <4>1 DEF LiveOn
    <3>4. QED
      BY <3>1, <3>2, <3>3 DEF Save, StopJob, RegisterJob
  <2>3. QED
    BY <2>1, <2>2
<1>7. QED
  BY <1>2, <1>3, <1>4, <1>5, <1>6

LEMMA CallStepsNodes ==
    ASSUME SchedInv, NodesInv, NEW c \in Callers,
           Save(c) \/ StopJob(c) \/ CloseJob(c) \/ StartJob(c) \/ RegisterJob(c)
    PROVE  NodesInv'
<1>1. PICK n \in Nodes, i \in Ids : n = call[c].node /\ i = call[c].id
  BY CallSteps
<1>2. On(c, n, i) /\ node[n] \notin {"down", "starting"}
  BY <1>1, CallSteps DEF On, NodesInv
<1>3. \A d \in Callers : call'[d].pc = "idle" => call'[d] = Idle
  BY CallSteps DEF NodesInv
<1>4. \A d \in Callers, m \in Nodes, k \in Ids : On(d, m, k)' => On(d, m, k)
  BY CallSteps, IdleFields DEF On
<1>5. QED
  BY <1>1, <1>2, <1>3, <1>4, CallSteps DEF NodesInv

\* A call leaves what other nodes, and its own, have of other automations; those
\* that are not told of its save are strayed.
LEMMA OthersFollow ==
    ASSUME SchedInv, NodesInv, NodesInv', NEW c \in Callers,
           Save(c) \/ StopJob(c) \/ CloseJob(c) \/ StartJob(c) \/ RegisterJob(c),
           NEW m \in Nodes, NEW k \in Ids, m # call[c].node \/ k # call[c].id,
           Told(m, k)', Follows(m, k)
    PROVE  Follows(m, k)'
<1>1. record'[k] = record[k]
  <2>1. CASE k # call[c].id
    BY <2>1, CallSteps
  <2>2. CASE k = call[c].id /\ Save(c)
    <3>1. m # call[c].node /\ node[m] # "down" /\ <<m, k>> \notin strayed'
      BY <2>2, CallSteps DEF Told
    <3>2. Stray(Untold(c)) \/ Stray(Nodes \X {call[c].id})
      BY <2>2 DEF Save
    <3>3. QED
      BY <2>2, <3>1, <3>2 DEF Untold, Stray
  <2>3. QED
    BY <2>1, <2>2, CallSteps
<1>2. LiveOn(m, k)' = LiveOn(m, k) /\ jobs'[m][k] = jobs[m][k] /\ listed' = listed
  BY CallSteps
<1>3. /\ \A d \in Callers : d # c => call'[d] = call[d]
      /\ ~On(c, m, k) /\ ~On(c, m, k)'
      /\ call'[c].pc # "idle" /\ call'[c].id = k => call[c].pc # "idle" /\ call[c].id = k
  BY CallSteps, IdleFields DEF On
<1>4. QED
  BY <1>1, <1>2, <1>3, FollowKept

\* On its own node and automation a call goes on as it should, or leaves the
\* node settled.
LEMMA OwnFollows ==
    ASSUME SchedInv, NodesInv, NodesInv', NEW c \in Callers,
           Save(c) \/ StopJob(c) \/ CloseJob(c) \/ StartJob(c) \/ RegisterJob(c),
           NEW n \in Nodes, NEW i \in Ids, n = call[c].node, i = call[c].id,
           Told(n, i), Follows(n, i),
           \/ call'[c] = Idle /\ Settled(n, i)'
           \/ call'[c].pc # "idle" /\ Between(c)'
    PROVE  Follows(n, i)'
<1>1. On(c, n, i) /\ Calls(i) = {c}
  BY CallSteps DEF On, Follows
<1>2. node[n] = "up" /\ listed[n] = {} /\ listed' = listed
  BY <1>1, CallSteps DEF NodesInv, Told
<1>3. \A d \in Callers : d # c => call'[d] = call[d] /\ ~On(d, n, i) /\ ~On(d, n, i)'
  <2>1. \A d \in Callers : On(d, n, i) => d \in Calls(i)
    BY IdleFields DEF On, Calls
  <2>2. QED
    BY <1>1, <2>1, CallSteps DEF On
<1>4. CASE call'[c] = Idle /\ Settled(n, i)'
  <2>1. ~On(c, n, i)'
    BY <1>4, IdleFields DEF On
  <2>2. Prepared(n, i)'
    BY <1>2, <1>4 DEF Prepared
  <2>3. QED
    BY <1>3, <2>1, <2>2 DEF Follows
<1>5. CASE call'[c].pc # "idle" /\ Between(c)'
  <2>1. On(c, n, i)' /\ call'[c].id = i
    BY <1>5, CallSteps, IdleFields DEF On
  <2>2. Calls(i)' = {c}
    BY <1>1, <1>5, <2>1, IdleFields, CallSteps DEF Calls
  <2>3. QED
    BY <1>3, <1>5, <2>1, <2>2 DEF Follows
<1>6. QED
  BY <1>4, <1>5

\* After a save that told its node, the call has just what is missing.
LEMMA SaveFollows ==
    ASSUME SchedInv, NEW c \in Callers, Save(c), Between(c),
           NEW n \in Nodes, NEW i \in Ids, n = call[c].node, i = call[c].id, Told(n, i)'
    PROVE  \/ call'[c] = Idle /\ Settled(n, i)'
           \/ call'[c].pc # "idle" /\ Between(c)'
<1>1. /\ call \in [Callers -> CallType] /\ record \in [Ids -> Wanted \cup {None}]
      /\ call[c].pc = "save" /\ UNCHANGED <<node, jobs, live>>
  BY DEF SchedInv, TypeOK, CallType, Save
<1>2. node[n] # "down" /\ <<n, i>> \notin strayed'
  BY <1>1 DEF Told
<1>3. /\ record' = [record EXCEPT ![i] = call[c].new]
      /\ call[c].op # "disable" /\ Sync(c)
  <2>1. ~Stray(Nodes \X {call[c].id})
    BY <1>2 DEF Stray
  <2>2. Stray(Untold(c))
    BY <2>1 DEF Save
  <2>3. call[c].op # "disable"
    BY <1>2, <2>2 DEF Untold, Stray
  <2>4. QED
    BY <2>1, <2>3 DEF Save
<1>4. Settled(n, i) /\ (call[c].op = "delete" => ~Active(call[c].new)) /\ record[i] = call[c].was /\ record'[i] = call[c].new
      /\ jobs'[n][i] = jobs[n][i] /\ LiveOn(n, i)' = LiveOn(n, i)
  BY <1>1, <1>3 DEF Between, LiveOn
<1>5. CASE ~Stops(c) /\ ~Starts(c)
  <2>1. call'[c] = Idle
    BY <1>1, <1>3, <1>5 DEF Sync
  <2>2. (Active(record'[i]) <=> Active(record[i])) /\ (Active(record[i]) => record'[i] = record[i])
    BY <1>4, <1>5 DEF Stops, Starts, Changed
  <2>3. QED
    BY <1>4, <2>1, <2>2 DEF Settled
<1>6. CASE Stops(c) \/ Starts(c)
  <2>1. PICK b : /\ b = [Idle EXCEPT !.pc = IF Stops(c) THEN "stop" ELSE "start",
                              !.node = call[c].node, !.id = call[c].id,
                              !.start = IF Starts(c) THEN call[c].new ELSE None]
    OBVIOUS
  <2>2. call' = [call EXCEPT ![c] = b]
    BY <1>3, <1>6, <2>1 DEF Sync
  <2>3. /\ call'[c].pc = IF Stops(c) THEN "stop" ELSE "start"
        /\ call'[c].node = n /\ call'[c].id = i
        /\ call'[c].start = IF Starts(c) THEN call[c].new ELSE None
    BY <1>1, <2>1, <2>2 DEF Idle
  <2>4. CASE Stops(c)
    <3>1. Due(c)'
      <4>1. Starts(c) <=> Active(record'[i])
        BY <1>4, <2>4 DEF Stops, Starts, Changed
      <4>2. QED
        BY <1>4, <2>3, <4>1 DEF Due
    <3>2. QED
      BY <1>4, <2>3, <2>4, <3>1 DEF Between, Settled
  <2>5. CASE ~Stops(c)
    <3>1. Active(call[c].new) /\ ~Active(record[i])
      BY <1>4, <1>6, <2>5 DEF Stops, Starts
    <3>2. LiveOn(n, i) = {} /\ jobs[n][i] = None
      BY <1>4, <3>1 DEF Settled
    <3>3. QED
      BY <1>4, <1>6, <2>3, <2>5, <3>1, <3>2 DEF Between, Due
  <2>6. QED
    BY <2>4, <2>5
<1>7. QED
  BY <1>5, <1>6

\* What stopJob and startJob do to the node's job of the automation.
LEMMA JobStepsFollow ==
    ASSUME SchedInv, NEW c \in Callers, Between(c),
           StopJob(c) \/ CloseJob(c) \/ StartJob(c) \/ RegisterJob(c),
           NEW n \in Nodes, NEW i \in Ids, n = call[c].node, i = call[c].id, Told(n, i)'
    PROVE  \/ call'[c] = Idle /\ Settled(n, i)'
           \/ call'[c].pc # "idle" /\ Between(c)'
<1>1. /\ call \in [Callers -> CallType] /\ call[c] \in CallType
      /\ jobs \in [Nodes -> [Ids -> Jobs \cup {None}]] /\ live \subseteq Jobs
      /\ HeldInv
  BY DEF SchedInv, TypeOK, CallType
<1>2. CASE StopJob(c)
  <2>1. PICK j \in Jobs \cup {None} : j = jobs[n][i]
    BY <1>1
  <2>2. /\ call' = [call EXCEPT ![c].pc = "close", ![c].job = j]
        /\ jobs' = [jobs EXCEPT ![n][i] = None]
        /\ UNCHANGED <<record, live>> /\ call[c].pc = "stop"
    BY <1>2, <2>1 DEF StopJob
  <2>3. /\ call'[c].pc = "close" /\ call'[c].job = j
        /\ call'[c].node = n /\ call'[c].id = i /\ call'[c].start = call[c].start
    BY <1>1, <2>2, CallTakes
  <2>4. jobs'[n][i] = None
    BY <1>1, <2>2
  <2>5. LiveOn(n, i) = {j} \ {None} /\ Due(c)
    BY <2>1, <2>2 DEF Between
  <2>6. LiveOn(n, i)' = LiveOn(n, i) /\ Due(c)'
    BY <2>2, <2>3, <2>5 DEF LiveOn, Due
  <2>7. QED
    BY <2>3, <2>4, <2>5, <2>6 DEF Between
<1>3. CASE CloseJob(c)
  <2>1. PICK j \in Jobs \cup {None} : j = call[c].job
    BY <1>1 DEF CallType
  <2>2. live' = live \ {j} /\ call[c].pc = "close" /\ UNCHANGED <<record, jobs>>
    BY <1>3, <2>1 DEF CloseJob
  <2>3. LiveOn(n, i) = {j} \ {None} /\ jobs[n][i] = None /\ Due(c)
    BY <2>1, <2>2 DEF Between
  <2>4. LiveOn(n, i)' = {} /\ jobs'[n][i] = None
    BY <1>1, <2>2, <2>3 DEF LiveOn
  <2>5. CASE call[c].start = None
    <3>1. call'[c] = Idle
      BY <1>1, <1>3, <2>5 DEF CloseJob, Return
    <3>2. ~Active(record[i])
      BY <2>3, <2>5, NoneAssumption DEF Due, Active
    <3>3. Settled(n, i)'
      BY <2>2, <2>4, <3>2 DEF Settled
    <3>4. QED
      BY <3>1, <3>3
  <2>6. CASE call[c].start # None
    <3>1. PICK b : b = [call[c] EXCEPT !.pc = "start", !.job = None]
      OBVIOUS
    <3>2. call' = [call EXCEPT ![c] = b]
      BY <1>3, <2>6, <3>1 DEF CloseJob
    <3>3. b.pc = "start" /\ b.node = n /\ b.id = i /\ b.start = call[c].start
      BY <1>1, <3>1 DEF CallType
    <3>4. call'[c] = b
      BY <1>1, <3>2
    <3>5. Due(c)'
      BY <2>2, <2>3, <3>3, <3>4 DEF Due
    <3>6. QED
      BY <2>4, <3>3, <3>4, <3>5 DEF Between
  <2>7. QED
    BY <2>5, <2>6
<1>4. CASE StartJob(c)
  <2>1. ~Stray({<<call[c].node, call[c].id>>})
    BY DEF Told, Stray
  <2>2. /\ call[c].pc = "start" /\ call[c].start \in Schedules
        /\ UNCHANGED <<record, jobs>>
    BY <1>1, <1>4 DEF StartJob, HeldInv
  <2>3. PICK k \in Fresh(n, i), j \in Jobs :
             /\ j = [node |-> n, id |-> i, schedule |-> call[c].start, serial |-> k]
             /\ live' = live \cup {j}
             /\ call' = [call EXCEPT ![c].pc = "register", ![c].job = j]
    BY <1>4, <2>1, <2>2 DEF StartJob, Fresh, Jobs
  <2>4. /\ call'[c].pc = "register" /\ call'[c].job = j
        /\ call'[c].node = n /\ call'[c].id = i
    BY <1>1, <2>3, CallTakes
  <2>5. LiveOn(n, i) = {} /\ jobs[n][i] = None /\ Due(c)
    BY <2>2 DEF Between
  <2>6. LiveOn(n, i)' = {j}
    BY <2>3, <2>5 DEF LiveOn
  <2>7. j.schedule = record[i]
    BY <2>2, <2>3, <2>5, NoneAssumption DEF Due
  <2>8. QED
    BY <2>2, <2>4, <2>5, <2>6, <2>7 DEF Between
<1>5. CASE RegisterJob(c)
  <2>1. PICK j \in Jobs : j = call[c].job
    BY <1>1, <1>5 DEF CallType, HeldInv, RegisterJob
  <2>2. /\ jobs' = [jobs EXCEPT ![n][i] = j] /\ call'[c] = Idle
        /\ UNCHANGED <<record, live>> /\ call[c].pc = "register"
    BY <1>1, <1>5, <2>1 DEF RegisterJob, Return
  <2>3. LiveOn(n, i) = {j} /\ j.schedule = record[i]
    BY <2>1, <2>2 DEF Between
  <2>4. jobs'[n][i] = j /\ LiveOn(n, i)' = {j} /\ record' = record
    BY <1>1, <2>2, <2>3 DEF LiveOn
  <2>5. Active(record[i]) /\ j # None
    BY <2>3, NoneIsNoJob DEF Jobs, Active
  <2>6. Settled(n, i)'
    BY <2>3, <2>4, <2>5 DEF Settled
  <2>7. QED
    BY <2>2, <2>6
<1>6. QED
  BY <1>2, <1>3, <1>4, <1>5

\* The step of a call keeps the invariant.
LEMMA CallFollows ==
    ASSUME SchedInv, FollowInv, NEW c \in Callers,
           Save(c) \/ StopJob(c) \/ CloseJob(c) \/ StartJob(c) \/ RegisterJob(c)
    PROVE  FollowInv'
<1>1. NodesInv /\ NodesInv'
  BY CallStepsNodes DEF FollowInv
<1>2. ASSUME NEW m \in Nodes, NEW k \in Ids, Told(m, k)'
      PROVE  Follows(m, k)'
  <2>1. Told(m, k) /\ Follows(m, k)
    BY <1>2, CallSteps DEF Told, FollowInv
  <2>2. CASE m # call[c].node \/ k # call[c].id
    BY <1>1, <1>2, <2>1, <2>2, OthersFollow
  <2>3. CASE m = call[c].node /\ k = call[c].id
    <3>1. Between(c)
      BY <2>1, <2>3, CallSteps DEF Follows, On
    <3>2. \/ call'[c] = Idle /\ Settled(m, k)'
          \/ call'[c].pc # "idle" /\ Between(c)'
      BY <1>2, <2>3, <3>1, SaveFollows, JobStepsFollow
    <3>3. QED
      BY <1>1, <2>1, <2>3, <3>2, OwnFollows
  <2>4. QED
    BY <2>2, <2>3
<1>3. QED
  BY <1>1, <1>2 DEF FollowInv

\* A call begins where no other is under way, or strays all nodes.
LEMMA BeginFollows ==
    ASSUME SchedInv, FollowInv, NEW c \in Callers, NEW n \in Nodes, NEW i \in Ids,
           NEW op \in {"save", "delete", "disable"}, NEW new \in Wanted \cup {None},
           op = "delete" => new = None, Begin(c, op, n, i, new)
    PROVE  FollowInv'
<1>1. NodesInv /\ call \in [Callers -> CallType]
  BY DEF FollowInv, SchedInv, TypeOK, CallType
<1>2. /\ call[c] = Idle /\ node[n] = "up"
      /\ Stray(IF Calls(i) = {} THEN {} ELSE Nodes \X {i})
      /\ UNCHANGED <<record, node, listed, jobs, live>>
  BY DEF Begin
<1>3. PICK b : b = [Idle EXCEPT
                  !.pc = "save", !.op = op, !.node = n, !.id = i, !.was = record[i], !.new = new]
  OBVIOUS
<1>4. call' = [call EXCEPT ![c] = b]
  BY <1>3 DEF Begin
<1>5. /\ b.pc = "save" /\ b.op = op /\ b.node = n /\ b.id = i /\ b.was = record[i] /\ b.new = new
  BY <1>3 DEF Idle
<1>6. call'[c] = b /\ \A d \in Callers : d # c => call'[d] = call[d]
  BY <1>1, <1>4
<1>7. /\ \A m \in Nodes, k \in Ids : ~On(c, m, k) /\ (On(c, m, k)' <=> m = n /\ k = i)
      /\ \A d \in Callers, m \in Nodes, k \in Ids : d # c => (On(d, m, k)' <=> On(d, m, k))
  BY <1>2, <1>5, <1>6, IdleFields DEF On
<1>8. NodesInv'
  BY <1>1, <1>2, <1>5, <1>6, <1>7 DEF NodesInv, LiveOn
<1>9. ASSUME NEW m \in Nodes, NEW k \in Ids, Told(m, k)'
      PROVE  Follows(m, k)'
  <2>1. Told(m, k) /\ Follows(m, k)
    BY <1>2, <1>9 DEF Told, FollowInv, Stray
  <2>2. CASE k # i
    BY <1>1, <1>2, <1>5, <1>6, <1>7, <1>8, <2>1, <2>2, FollowKept DEF LiveOn
  <2>3. CASE k = i
    <3>1. Calls(i) = {}
      BY <1>2, <1>9, <2>3 DEF Told, Stray
    <3>2. \A d \in Callers : ~On(d, m, i)
      BY <3>1, IdleFields DEF On, Calls
    <3>3. CASE m # n
      BY <1>1, <1>2, <1>5, <1>6, <1>7, <1>8, <2>1, <2>3, <3>2, <3>3, FollowKept DEF LiveOn
    <3>4. CASE m = n
      <4>1. Settled(n, i)
        BY <1>1, <1>2, <2>1, <2>3, <3>2, <3>4 DEF Follows, Prepared, NodesInv
      <4>2. Settled(n, i)'
        BY <1>2, <4>1 DEF Settled, LiveOn
      <4>3. Between(c)'
        BY <1>2, <1>5, <1>6, <4>2, NoneAssumption DEF Between, Active
      <4>4. Calls(i)' = {c}
        BY <1>5, <1>6, <3>1, IdleFields DEF Calls
      <4>5. QED
        BY <1>7, <2>3, <3>2, <3>4, <4>3, <4>4 DEF Follows
    <3>5. QED
      BY <3>3, <3>4
  <2>4. QED
    BY <2>2, <2>3
<1>10. QED
  BY <1>8, <1>9 DEF FollowInv

\* A node that comes up has listed what the records ask for and has no job yet.
LEMMA ActivateFollows ==
    ASSUME SchedInv, FollowInv, NEW n \in Nodes, Activate(n)
    PROVE  FollowInv'
<1>1. /\ NodesInv /\ node[n] = "down" /\ UNCHANGED <<record, jobs, live, call>>
      /\ node \in [Nodes -> {"down", "starting", "up", "stopping"}]
      /\ listed \in [Nodes -> SUBSET [id: Ids, schedule: Schedules]]
  BY DEF FollowInv, SchedInv, TypeOK, Activate
<1>2. /\ node' = [node EXCEPT ![n] = node'[n]] /\ node'[n] \in {"starting", "up"}
      /\ (node'[n] # "starting" => listed' = listed)
      /\ \A m \in Nodes : m # n => listed'[m] = listed[m]
      /\ strayed \subseteq strayed'
  BY <1>1 DEF Activate, Stray
<1>3. \A m \in Nodes, k \in Ids, d \in Callers : On(d, m, k)' <=> On(d, m, k)
  BY <1>1 DEF On
<1>4. NodesInv'
  BY <1>1, <1>2, <1>3 DEF NodesInv, LiveOn
<1>5. ASSUME NEW m \in Nodes, NEW k \in Ids, Told(m, k)', m # n
      PROVE  Follows(m, k)'
  <2>1. Follows(m, k)
    BY <1>1, <1>2, <1>5 DEF Told, FollowInv
  <2>2. QED
    BY <1>1, <1>2, <1>4, <1>5, <2>1, FollowKept DEF LiveOn
<1>6. ASSUME NEW k \in Ids, Told(n, k)'
      PROVE  Follows(n, k)'
  <2>1. \A d \in Callers : ~On(d, n, k)'
    BY <1>1, <1>3 DEF NodesInv
  <2>2. LiveOn(n, k)' = {} /\ jobs'[n][k] = None
    BY <1>1 DEF NodesInv, LiveOn
  <2>3. listed'[n] = {[id |-> i, schedule |-> record[i]] : i \in {j \in Ids : Active(record[j])}}
    <3>1. ~Stray({n} \X Ids)
      BY <1>6 DEF Told, Stray
    <3>2. QED
      BY <1>1, <3>1 DEF Activate
  <2>4. CASE Active(record[k])
    <3>1. [id |-> k, schedule |-> record[k]] \in listed'[n]
      BY <2>3, <2>4
    <3>2. \A e \in listed'[n] : e.id = k => e.schedule = record[k]
      BY <2>3
    <3>3. Prepared(n, k)'
      BY <1>1, <2>2, <3>1, <3>2 DEF Prepared
    <3>4. QED
      BY <2>1, <3>3 DEF Follows
  <2>5. CASE ~Active(record[k])
    <3>1. \A e \in listed'[n] : e.id # k
      BY <2>3, <2>5
    <3>2. Settled(n, k)'
      BY <1>1, <2>2, <2>5 DEF Settled
    <3>3. Prepared(n, k)'
      BY <3>1, <3>2 DEF Prepared
    <3>4. QED
      BY <2>1, <3>3 DEF Follows
  <2>6. QED
    BY <2>4, <2>5
<1>7. QED
  BY <1>4, <1>5, <1>6 DEF FollowInv

\* Start starts just the job that is missing.
LEMMA ActivateJobFollows ==
    ASSUME SchedInv, FollowInv, NEW n \in Nodes, ActivateJob(n)
    PROVE  FollowInv'
<1>1. /\ NodesInv /\ node[n] = "starting" /\ UNCHANGED <<record, node, call>>
      /\ jobs \in [Nodes -> [Ids -> Jobs \cup {None}]] /\ live \subseteq Jobs
      /\ listed \in [Nodes -> SUBSET [id: Ids, schedule: Schedules]]
  BY DEF FollowInv, SchedInv, TypeOK, ActivateJob
<1>2. PICK e \in listed[n] :
          /\ listed' = [listed EXCEPT ![n] = @ \ {e}]
          /\ \/ \E k \in Fresh(n, e.id) :
                   LET job == [node |-> n, id |-> e.id, schedule |-> e.schedule, serial |-> k]
                   IN  /\ live' = live \cup {job} /\ jobs' = [jobs EXCEPT ![n][e.id] = job]
                       /\ UNCHANGED <<strayed, faults>>
             \/ Fault /\ Stray({<<n, e.id>>}) /\ UNCHANGED <<jobs, live>>
  BY DEF ActivateJob
<1>3. PICK i \in Ids : i = e.id
  BY <1>1, <1>2
<1>4. /\ e.schedule \in Schedules /\ strayed \subseteq strayed'
      /\ \A m \in Nodes : \A f : m # n \/ f.id # i => (f \in listed'[m] <=> f \in listed[m])
      /\ listed'[n] = listed[n] \ {e}
  <2>1. e.schedule \in Schedules
    BY <1>1, <1>2
  <2>2. strayed \subseteq strayed'
    BY <1>2 DEF Stray
  <2>3. \A m \in Nodes : listed'[m] = IF m = n THEN listed[n] \ {e} ELSE listed[m]
    BY <1>1, <1>2
  <2>4. QED
    BY <1>3, <2>1, <2>2, <2>3
<1>5. \A m \in Nodes, k \in Ids : m # n \/ k # i =>
         jobs'[m][k] = jobs[m][k] /\ LiveOn(m, k)' = LiveOn(m, k)
  <2>1. CASE UNCHANGED <<jobs, live>>
    BY <2>1 DEF LiveOn
  <2>2. ASSUME NEW j, j.node = n, j.id = i, live' = live \cup {j}, jobs' = [jobs EXCEPT ![n][i] = j]
        PROVE  \A m \in Nodes, k \in Ids : m # n \/ k # i =>
                  jobs'[m][k] = jobs[m][k] /\ LiveOn(m, k)' = LiveOn(m, k)
    BY <1>1, <2>2 DEF LiveOn
  <2>3. QED
    BY <1>2, <1>3, <2>1, <2>2
<1>6. \A m \in Nodes, k \in Ids, d \in Callers : On(d, m, k)' <=> On(d, m, k)
  BY <1>1 DEF On
<1>7. NodesInv'
  <2>1. \A m \in Nodes : m # n => listed'[m] = listed[m]
    BY <1>1, <1>2
  <2>2. QED
    BY <1>1, <1>5, <1>6, <2>1 DEF NodesInv
<1>8. ASSUME NEW m \in Nodes, NEW k \in Ids, Told(m, k)', m # n \/ k # i
      PROVE  Follows(m, k)'
  <2>1. Follows(m, k)
    BY <1>1, <1>4, <1>8 DEF Told, FollowInv
  <2>2. QED
    BY <1>1, <1>4, <1>5, <1>7, <1>8, <2>1, FollowKept
<1>9. ASSUME Told(n, i)'
      PROVE  Follows(n, i)'
  <2>1. ~Stray({<<n, e.id>>})
    BY <1>3, <1>9 DEF Told, Stray
  <2>2. PICK k \in Fresh(n, i), j \in Jobs :
           /\ j = [node |-> n, id |-> i, schedule |-> e.schedule, serial |-> k]
           /\ live' = live \cup {j} /\ jobs' = [jobs EXCEPT ![n][i] = j]
    BY <1>2, <1>3, <1>4, <2>1 DEF Fresh, Jobs
  <2>3. \A d \in Callers : ~On(d, n, i) /\ ~On(d, n, i)'
    BY <1>1, <1>6 DEF NodesInv
  <2>4. Prepared(n, i)
    BY <1>1, <1>4, <1>9, <2>3 DEF Told, FollowInv, Follows
  <2>5. /\ LiveOn(n, i) = {} /\ e.schedule = record[i]
        /\ \A f \in listed[n] : f.id = i => f = e
    <3>1. /\ LiveOn(n, i) = {}
          /\ \A f \in listed[n] : f.id = i => f.schedule = record[i]
      BY <1>2, <1>3, <2>4 DEF Prepared
    <3>2. \A f \in listed[n] : f = [id |-> f.id, schedule |-> f.schedule]
      BY <1>1
    <3>3. QED
      BY <1>2, <1>3, <3>1, <3>2
  <2>6. LiveOn(n, i)' = {j} /\ jobs'[n][i] = j
    BY <1>1, <2>2, <2>5 DEF LiveOn
  <2>7. j # None /\ j.schedule = record[i] /\ Active(record[i])
    BY <1>4, <2>2, <2>5, NoneIsNoJob DEF Active
  <2>8. Settled(n, i)'
    BY <1>1, <2>6, <2>7 DEF Settled
  <2>9. ~\E f \in listed'[n] : f.id = i
    BY <1>4, <2>5
  <2>10. QED
    BY <2>3, <2>8, <2>9 DEF Follows, Prepared
<1>10. QED
  BY <1>3, <1>7, <1>8, <1>9 DEF FollowInv

\* Once all that was listed is started the node is up, and nothing has changed.
LEMMA ActivateDoneFollows ==
    ASSUME SchedInv, FollowInv, NEW n \in Nodes, ActivateDone(n)
    PROVE  FollowInv'
<1>1. /\ NodesInv /\ node[n] = "starting" /\ UNCHANGED <<record, listed, jobs, live, call, strayed>>
      /\ node \in [Nodes -> {"down", "starting", "up", "stopping"}]
      /\ node' = [node EXCEPT ![n] = "up"] /\ listed[n] = {}
  BY DEF FollowInv, SchedInv, TypeOK, ActivateDone
<1>2. NodesInv'
  BY <1>1 DEF NodesInv, LiveOn, On
<1>3. \A m \in Nodes, k \in Ids : Told(m, k)' => Told(m, k)
  BY <1>1 DEF Told
<1>4. \A m \in Nodes, k \in Ids : Told(m, k)' => Follows(m, k)'
  BY <1>1, <1>2, <1>3, FollowKept DEF FollowInv, LiveOn
<1>5. QED
  BY <1>2, <1>4 DEF FollowInv

\* Stop closes the jobs of its own node only.
LEMMA StopFollows ==
    ASSUME SchedInv, FollowInv, NEW n \in Nodes, Stop(n)
    PROVE  FollowInv'
<1>1. /\ NodesInv /\ node[n] = "up" /\ UNCHANGED <<record, listed, call, strayed>>
      /\ node \in [Nodes -> {"down", "starting", "up", "stopping"}]
      /\ jobs \in [Nodes -> [Ids -> Jobs \cup {None}]] /\ live \subseteq Jobs
      /\ node' = [node EXCEPT ![n] = "stopping"]
      /\ live' = live \ {jobs[n][i] : i \in Ids}
      /\ jobs' = [jobs EXCEPT ![n] = [i \in Ids |-> None]]
      /\ EntriesAreLive
  BY DEF FollowInv, SchedInv, TypeOK, Stop
<1>2. ASSUME NEW m \in Nodes, NEW k \in Ids, m # n
      PROVE  jobs'[m][k] = jobs[m][k] /\ LiveOn(m, k)' = LiveOn(m, k)
  <2>1. \A i \in Ids : jobs[n][i] \in live => jobs[n][i].node = n
    BY <1>1, NoneIsNoJob DEF EntriesAreLive, LiveOn
  <2>2. QED
    BY <1>1, <1>2, <2>1 DEF LiveOn
<1>3. NodesInv'
  <2>1. \A d \in Callers, m \in Nodes, k \in Ids : On(d, m, k)' <=> On(d, m, k)
    BY <1>1 DEF On
  <2>2. QED
    BY <1>1, <1>2, <2>1 DEF NodesInv
<1>4. ASSUME NEW m \in Nodes, NEW k \in Ids, Told(m, k)'
      PROVE  Follows(m, k)'
  <2>1. m # n /\ Follows(m, k)
    BY <1>1, <1>4 DEF Told, FollowInv
  <2>2. QED
    BY <1>1, <1>2, <1>3, <2>1, FollowKept
<1>5. QED
  BY <1>3, <1>4 DEF FollowInv

\* A process that ends takes its own calls and jobs with it, and no others.
LEMMA ExitFollows ==
    ASSUME SchedInv, FollowInv, NEW n \in Nodes, Exit(n)
    PROVE  FollowInv'
<1>1. /\ NodesInv /\ record' = record
      /\ node \in [Nodes -> {"down", "starting", "up", "stopping"}]
      /\ listed \in [Nodes -> SUBSET [id: Ids, schedule: Schedules]]
      /\ jobs \in [Nodes -> [Ids -> Jobs \cup {None}]] /\ strayed \subseteq Nodes \X Ids
      /\ node' = [node EXCEPT ![n] = "down"] /\ listed' = [listed EXCEPT ![n] = {}]
      /\ jobs' = [jobs EXCEPT ![n] = [i \in Ids |-> None]]
      /\ live' = {j \in live : j.node # n}
      /\ strayed' = {s \in strayed : s[1] # n}
  BY DEF FollowInv, SchedInv, TypeOK, Exit
<1>2. \A d \in Callers : call'[d] = IF call[d].node = n THEN Idle ELSE call[d]
  BY DEF Exit
<1>3. \A d \in Callers, m \in Nodes, k \in Ids : On(d, m, k)' <=> On(d, m, k) /\ m # n
  BY <1>2, IdleFields DEF On
<1>4. ASSUME NEW m \in Nodes, m # n
      PROVE  /\ node'[m] = node[m] /\ listed'[m] = listed[m]
             /\ \A k \in Ids : jobs'[m][k] = jobs[m][k] /\ LiveOn(m, k)' = LiveOn(m, k)
  BY <1>1, <1>4 DEF LiveOn
<1>5. /\ node'[n] = "down" /\ listed'[n] = {}
      /\ \A k \in Ids : jobs'[n][k] = None /\ LiveOn(n, k)' = {}
  BY <1>1 DEF LiveOn
<1>6. NodesInv'
  <2>1. \A d \in Callers : call'[d].pc = "idle" => call'[d] = Idle
    BY <1>1, <1>2 DEF NodesInv
  <2>2. QED
    BY <1>1, <1>3, <1>4, <1>5, <2>1 DEF NodesInv
<1>7. ASSUME NEW m \in Nodes, NEW k \in Ids, Told(m, k)'
      PROVE  Follows(m, k)'
  <2>1. m # n
    BY <1>5, <1>7 DEF Told
  <2>2. Follows(m, k)
    BY <1>1, <1>4, <1>7, <2>1 DEF Told, FollowInv
  <2>3. \A d \in Callers : \/ call'[d] = call[d]
                           \/ call'[d].pc = "idle" /\ ~On(d, m, k) /\ ~On(d, m, k)'
    BY <1>2, <1>3, <2>1, IdleFields DEF On
  <2>4. QED
    BY <1>1, <1>4, <1>6, <2>1, <2>2, <2>3, FollowKept
<1>8. QED
  BY <1>6, <1>7 DEF FollowInv

\* A node that was told of everything that happened to an automation either runs
\* the job its record asks for, or a call that is under way, or Start, has just
\* what is missing: a save and the stopJob and startJob that follow it leave no
\* gap a restart or another automation's call could fall into.
THEOREM FollowInvHolds == Spec => []FollowInv
<1>1. Init => FollowInv
  <2>1. Init => NodesInv
    BY IdleFields DEF Init, NodesInv, On, LiveOn
  <2>2. Init => \A n \in Nodes, i \in Ids : ~Told(n, i)
    BY DEF Init, Told
  <2>3. QED
    BY <2>1, <2>2 DEF FollowInv
<1>2. SchedInv /\ FollowInv /\ [Next]_vars => FollowInv'
  <2> SUFFICES ASSUME SchedInv, FollowInv, [Next]_vars
               PROVE  FollowInv'
    OBVIOUS
  <2>1. ASSUME NEW c \in Callers, NEW n \in Nodes, NEW i \in Ids,
               Create(c, n, i) \/ Update(c, n, i) \/ Delete(c, n, i) \/ Disable(c, n, i)
        PROVE  FollowInv'
    <3>1. \E op \in {"save", "delete", "disable"}, new \in Wanted \cup {None} :
             (op = "delete" => new = None) /\ Begin(c, op, n, i, new)
      BY <2>1 DEF Create, Update, Delete, Disable, Wanted
    <3>2. QED
      BY <3>1, BeginFollows
  <2>2. ASSUME NEW c \in Callers,
               Save(c) \/ StopJob(c) \/ CloseJob(c) \/ StartJob(c) \/ RegisterJob(c)
        PROVE  FollowInv'
    BY <2>2, CallFollows
  <2>3. ASSUME NEW n \in Nodes,
               Activate(n) \/ ActivateJob(n) \/ ActivateDone(n) \/ Stop(n) \/ Exit(n)
        PROVE  FollowInv'
    BY <2>3, ActivateFollows, ActivateJobFollows, ActivateDoneFollows, StopFollows, ExitFollows
  <2>4. CASE UNCHANGED vars
    <3>1. NodesInv'
      BY <2>4 DEF vars, FollowInv, NodesInv, LiveOn, On
    <3>2. \A n \in Nodes, i \in Ids : Told(n, i)' => Follows(n, i)'
      BY <2>4, <3>1, FollowKept DEF vars, FollowInv, Told, LiveOn
    <3>3. QED
      BY <3>1, <3>2 DEF FollowInv
  <2>5. QED
    BY <2>1, <2>2, <2>3, <2>4 DEF Next
<1>3. QED
  BY <1>1, <1>2, SchedInvHolds, PTL DEF Spec

\* Between calls a node that was told of everything that happened to an automation
\* runs exactly the job its record asks for, and its map says so.
THEOREM JobsAlwaysFollow == Spec => []JobsFollowRecords
<1>1. FollowInv => JobsFollowRecords
  <2> SUFFICES ASSUME FollowInv, NEW n \in Nodes, NEW i \in Ids,
                      node[n] = "up", <<n, i>> \notin strayed, Calls(i) = {}
               PROVE  Settled(n, i)
    BY DEF JobsFollowRecords
  <2>1. \A c \in Callers : ~On(c, n, i)
    BY IdleFields DEF On, Calls
  <2>2. listed[n] = {} /\ Follows(n, i)
    BY DEF FollowInv, NodesInv, Told
  <2>3. QED
    BY <2>1, <2>2 DEF Follows, Prepared
<1>2. QED
  BY <1>1, FollowInvHolds, PTL
=============================================================================
