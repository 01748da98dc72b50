--------------------------- MODULE ScheduleManager ---------------------------
(***************************************************************************)
(* The schedule managers of server/automation/schedule.go, one per node:    *)
(* each keeps a map from automations to the cluster jobs it started.  They  *)
(* hear of automations only from their own node: when it starts, and when   *)
(* an API handler of that node (automation/api.go) has saved or deleted     *)
(* one.  A worker that disables an automation tells nobody.                 *)
(*                                                                         *)
(* A save is one step here (AutomationStore has its inside), and of an      *)
(* automation only its schedule is kept, or Off when it is disabled or has  *)
(* another trigger type.  A job is live from cluster.Schedule to Close or   *)
(* to the end of its process; when a live job fires is not modelled.        *)
(***************************************************************************)
EXTENDS Naturals, FiniteSets

CONSTANTS
    Ids,        \* automation ids; every create uses a fresh one
    Schedules,  \* schedule configurations: channel, interval and first run time
    Nodes,
    Callers,    \* goroutines in a handler or a worker
    Serials,    \* tell the live jobs of an automation on a node apart; a bound
    MaxFaults,  \* bound on failing calls
    Off,        \* an automation that is not to fire by schedule
    None        \* no record, no schedule, no job

ASSUME NoneAssumption == {None, Off} \cap Schedules = {} /\ None # Off
ASSUME NoJobAssumption == None \notin [node: Nodes, id: Ids, schedule: Schedules, serial: Serials]
ASSUME BoundsAssumption == MaxFaults \in Nat /\ Serials \subseteq Nat

VARIABLES
    record,    \* the schedule of the stored automation, Off, or None
    used,      \* ids handed out so far
    node,      \* life cycle of the plugin on each node
    listed,    \* what Start of each node has listed and not yet started
    jobs,      \* the map of each schedule manager
    live,      \* jobs whose goroutine is running
    call,      \* the handler or worker each caller is in
    strayed,   \* <<node, id>>: the node was not told of all that happened to id
    faults     \* calls that failed so far

vars == <<record, used, node, listed, jobs, live, call, strayed, faults>>

Jobs == [node: Nodes, id: Ids, schedule: Schedules, serial: Serials]

Idle == [pc |-> "idle", op |-> "none", node |-> None, id |-> None,
         was |-> None, new |-> None, start |-> None, job |-> None]

Calls(i) == {c \in Callers : call[c].id = i /\ call[c] # Idle}

\* What a request may ask for.
Wanted == Schedules \cup {Off}

Active(a) == a \in Schedules

Init ==
    /\ record = [i \in Ids |-> None] /\ used = {}
    /\ node = [n \in Nodes |-> "down"] /\ listed = [n \in Nodes |-> {}]
    /\ jobs = [n \in Nodes |-> [i \in Ids |-> None]] /\ live = {}
    /\ call = [c \in Callers |-> Idle]
    /\ strayed = {} /\ faults = 0

Fault == faults < MaxFaults /\ faults' = faults + 1

Return(c) == call' = [call EXCEPT ![c] = Idle]
Stray(S) == strayed' = strayed \cup S

----------------------------------------------------------------------------
(* Requests that pass validation, and the worker of a denied execution.    *)

\* Two calls on one automation at a time may tell the nodes of their saves in
\* the wrong order.
Begin(c, op, n, i, new) ==
    /\ call[c] = Idle /\ node[n] = "up"
    /\ call' = [call EXCEPT ![c] = [Idle EXCEPT
                  !.pc = "save", !.op = op, !.node = n, !.id = i, !.was = record[i], !.new = new]]
    /\ Stray(IF Calls(i) = {} THEN {} ELSE Nodes \X {i})
    /\ UNCHANGED <<record, node, listed, jobs, live, faults>>

Create(c, n, i) ==
    /\ i \notin used /\ used' = used \cup {i}
    /\ \E a \in Wanted : Begin(c, "save", n, i, a)

Update(c, n, i) ==
    /\ record[i] # None /\ UNCHANGED used
    /\ \E a \in Wanted : Begin(c, "save", n, i, a)

Delete(c, n, i) ==
    /\ record[i] # None /\ UNCHANGED used
    /\ Begin(c, "delete", n, i, None)

Disable(c, n, i) ==
    /\ record[i] # None /\ UNCHANGED used
    /\ Begin(c, "disable", n, i, Off)

\* Nodes other than that of the call are not told, nor is any of a disabling.
Untold(c) ==
    {m \in Nodes : node[m] # "down" /\ (m # call[c].node \/ call[c].op = "disable")}
      \X {call[c].id}

----------------------------------------------------------------------------
(* SyncAutomation.                                                         *)

\* MUTANT: only switching on and off counts as a change.
NeverChanged(c) == Active(call[c].was) /\ Active(call[c].new) => FALSE

Changed(c) ==
    Active(call[c].was) /\ Active(call[c].new) => call[c].was # call[c].new

Stops(c) ==
    \/ call[c].op = "delete"
    \/ Active(call[c].was) /\ (~Active(call[c].new) \/ Changed(c))

Starts(c) == Active(call[c].new) /\ (~Active(call[c].was) \/ Changed(c))

\* SyncAutomation or RemoveAutomation: what is left to do after the save.
Sync(c) ==
    call' = [call EXCEPT ![c] =
        IF ~Stops(c) /\ ~Starts(c) THEN Idle
        ELSE [Idle EXCEPT !.pc = IF Stops(c) THEN "stop" ELSE "start",
                          !.node = call[c].node, !.id = call[c].id,
                          !.start = IF Starts(c) THEN call[c].new ELSE None]]

\* A failed save may have taken effect, and no manager is told.
Save(c) ==
    /\ call[c].pc = "save"
    /\ LET saved == [record EXCEPT ![call[c].id] = call[c].new]
       IN  \/ /\ record' = saved /\ Stray(Untold(c)) /\ UNCHANGED faults
              /\ IF call[c].op = "disable" THEN Return(c) ELSE Sync(c)
           \/ /\ Fault /\ record' \in {record, saved}
              /\ Stray(Nodes \X {call[c].id})
              /\ Return(c)
    /\ UNCHANGED <<used, node, listed, jobs, live>>

\* MUTANT: the entry stays in the map.
StopJobKeepsEntry(c) ==
    /\ call[c].pc = "stop"
    /\ call' = [call EXCEPT ![c].pc = "close", ![c].job = jobs[call[c].node][call[c].id]]
    /\ UNCHANGED <<record, used, node, listed, jobs, live, strayed, faults>>

\* stopJob, under the map's mutex.
StopJob(c) ==
    /\ call[c].pc = "stop"
    /\ call' = [call EXCEPT ![c].pc = "close", ![c].job = jobs[call[c].node][call[c].id]]
    /\ jobs' = [jobs EXCEPT ![call[c].node][call[c].id] = None]
    /\ UNCHANGED <<record, used, node, listed, live, strayed, faults>>

\* stopJob, after it.  Closing waits until the job's goroutine has ended.
CloseJob(c) ==
    /\ call[c].pc = "close"
    /\ live' = live \ {call[c].job}
    /\ IF call[c].start = None THEN Return(c)
       ELSE call' = [call EXCEPT ![c].pc = "start", ![c].job = None]
    /\ UNCHANGED <<record, used, node, listed, jobs, strayed, faults>>

\* A serial that tells a new job of i on n from those it could be taken for.
Fresh(n, i) ==
    {k \in Serials : \A j \in live : j.node = n /\ j.id = i => j.serial # k}

\* startJob: the job runs before it is in the map.
StartJob(c) ==
    /\ call[c].pc = "start"
    /\ \/ \E k \in Fresh(call[c].node, call[c].id) :
             LET job == [node |-> call[c].node, id |-> call[c].id,
                         schedule |-> call[c].start, serial |-> k]
             IN  /\ live' = live \cup {job}
                 /\ call' = [call EXCEPT ![c].pc = "register", ![c].job = job]
          /\ UNCHANGED <<strayed, faults>>
       \/ Fault /\ Stray({<<call[c].node, call[c].id>>}) /\ Return(c) /\ UNCHANGED live
    /\ UNCHANGED <<record, used, node, listed, jobs>>

RegisterJob(c) ==
    /\ call[c].pc = "register"
    /\ jobs' = [jobs EXCEPT ![call[c].node][call[c].id] = call[c].job]
    /\ Return(c)
    /\ UNCHANGED <<record, used, node, listed, live, strayed, faults>>

----------------------------------------------------------------------------
(* OnActivate, OnDeactivate and the end of a process.                      *)

\* Start lists the automations; a failure is logged and the node comes up.
Activate(n) ==
    /\ node[n] = "down"
    /\ \/ /\ node' = [node EXCEPT ![n] = "starting"]
          /\ listed' = [listed EXCEPT ![n] =
                 {[id |-> i, schedule |-> record[i]] : i \in {j \in Ids : Active(record[j])}}]
          /\ UNCHANGED <<strayed, faults>>
       \/ /\ Fault /\ Stray({n} \X Ids)
          /\ node' = [node EXCEPT ![n] = "up"] /\ UNCHANGED listed
    /\ UNCHANGED <<record, used, jobs, live, call>>

\* No handler runs on the node yet: job and entry are one step.
ActivateJob(n) ==
    /\ node[n] = "starting"
    /\ \E e \in listed[n] :
          /\ listed' = [listed EXCEPT ![n] = @ \ {e}]
          /\ \/ \E k \in Fresh(n, e.id) :
                   LET job == [node |-> n, id |-> e.id, schedule |-> e.schedule, serial |-> k]
                   IN  live' = live \cup {job} /\ jobs' = [jobs EXCEPT ![n][e.id] = job]
                /\ UNCHANGED <<strayed, faults>>
             \/ Fault /\ Stray({<<n, e.id>>}) /\ UNCHANGED <<jobs, live>>
    /\ UNCHANGED <<record, used, node, call>>

ActivateDone(n) ==
    /\ node[n] = "starting" /\ listed[n] = {}
    /\ node' = [node EXCEPT ![n] = "up"]
    /\ UNCHANGED <<record, used, listed, jobs, live, call, strayed, faults>>

\* ScheduleManager.Stop; handlers may still be under way.
Stop(n) ==
    /\ node[n] = "up"
    /\ node' = [node EXCEPT ![n] = "stopping"]
    /\ live' = live \ {jobs[n][i] : i \in Ids}
    /\ jobs' = [jobs EXCEPT ![n] = [i \in Ids |-> None]]
    /\ UNCHANGED <<record, used, listed, call, strayed, faults>>

\* The process ends, after Stop or by a crash.  A call it cut off may have saved.
Exit(n) ==
    /\ node[n] # "down"
    /\ node' = [node EXCEPT ![n] = "down"]
    /\ listed' = [listed EXCEPT ![n] = {}]
    /\ jobs' = [jobs EXCEPT ![n] = [i \in Ids |-> None]]
    /\ live' = {j \in live : j.node # n}
    /\ call' = [c \in Callers |-> IF call[c].node = n THEN Idle ELSE call[c]]
    /\ strayed' = {s \in strayed : s[1] # n}
    /\ UNCHANGED <<record, used, faults>>

Next ==
    \/ \E c \in Callers, n \in Nodes, i \in Ids :
          Create(c, n, i) \/ Update(c, n, i) \/ Delete(c, n, i) \/ Disable(c, n, i)
    \/ \E c \in Callers :
          Save(c) \/ StopJob(c) \/ CloseJob(c) \/ StartJob(c) \/ RegisterJob(c)
    \/ \E n \in Nodes :
          Activate(n) \/ ActivateJob(n) \/ ActivateDone(n) \/ Stop(n) \/ Exit(n)

Spec == Init /\ [][Next]_vars

----------------------------------------------------------------------------
(* Properties.                                                             *)

TypeOK ==
    /\ record \in [Ids -> Wanted \cup {None}]
    /\ used \subseteq Ids
    /\ node \in [Nodes -> {"down", "starting", "up", "stopping"}]
    /\ listed \in [Nodes -> SUBSET [id: Ids, schedule: Schedules]]
    /\ jobs \in [Nodes -> [Ids -> Jobs \cup {None}]]
    /\ live \subseteq Jobs
    /\ call \in [Callers -> [pc: {"idle", "save", "stop", "close", "start", "register"},
                             op: {"none", "save", "delete", "disable"},
                             node: Nodes \cup {None}, id: Ids \cup {None},
                             was: Wanted \cup {None}, new: Wanted \cup {None},
                             start: Schedules \cup {None}, job: Jobs \cup {None}]]
    /\ strayed \subseteq Nodes \X Ids /\ faults \in Nat

LiveOn(n, i) == {j \in live : j.node = n /\ j.id = i}

\* No entry of a manager's map is a job that was closed: it would count as
\* started and never fire.  Holds whatever requests, shutdowns and failures
\* overlap.
EntriesAreLive ==
    \A n \in Nodes, i \in Ids : jobs[n][i] # None => jobs[n][i] \in LiveOn(n, i)

\* The node runs the job the record asks for, and its map says so.
Settled(n, i) ==
    /\ {j.schedule : j \in LiveOn(n, i)} = IF Active(record[i]) THEN {record[i]} ELSE {}
    /\ LiveOn(n, i) = {jobs[n][i]} \ {None}

\* A node that was told of everything that happened to an automation, one call
\* at a time, runs exactly the job its record asks for, whatever happens to
\* other automations and however nodes restart.
JobsFollowRecords ==
    \A n \in Nodes, i \in Ids :
        node[n] = "up" /\ <<n, i>> \notin strayed /\ Calls(i) = {} => Settled(n, i)

----------------------------------------------------------------------------
(* The inductive invariant behind EntriesAreLive.                          *)

Holds(c, j) == call[c].pc \in {"close", "register"} /\ call[c].job = j

\* A call in the middle of stopJob or startJob is on a node and an automation,
\* and has the job it is about to close or register to itself.
HeldInv ==
    /\ \A c \in Callers : call[c].pc # "idle" => call[c].node \in Nodes /\ call[c].id \in Ids
    /\ \A c \in Callers : call[c].pc = "start" => call[c].start \in Schedules
    /\ \A c \in Callers : call[c].pc = "register" => call[c].job # None
    /\ \A c \in Callers, j \in Jobs : Holds(c, j) =>
          /\ j \in LiveOn(call[c].node, call[c].id)
          /\ \A n \in Nodes, i \in Ids : jobs[n][i] # j
          /\ \A d \in Callers : Holds(d, j) => d = c

SchedInv == TypeOK /\ EntriesAreLive /\ HeldInv

(* The inductive invariant behind JobsFollowRecords.                        *)

On(c, n, i) == call[c].pc # "idle" /\ call[c].node = n /\ call[c].id = i

\* What is left to start is what the record asks for.
Due(c) == call[c].start = IF Active(record[call[c].id]) THEN record[call[c].id] ELSE None

\* In the middle of a call the node is settled as before the save, or the call
\* has just what is missing.
Between(c) ==
    LET entry == jobs[call[c].node][call[c].id]
        running == LiveOn(call[c].node, call[c].id)
    IN  CASE call[c].pc = "save"     -> /\ Settled(call[c].node, call[c].id)
                                        /\ record[call[c].id] = call[c].was
                                        /\ call[c].op = "delete" => ~Active(call[c].new)
          [] call[c].pc = "stop"     -> running = {entry} \ {None} /\ Due(c)
          [] call[c].pc = "close"    -> /\ running = {call[c].job} \ {None}
                                        /\ entry = None /\ Due(c)
          [] call[c].pc = "start"    -> running = {} /\ entry = None /\ Due(c)
          [] call[c].pc = "register" -> /\ running = {call[c].job} /\ entry = None
                                        /\ call[c].job.schedule = record[call[c].id]

\* An automation that Start has listed and not yet started has no job.
Prepared(n, i) ==
    IF \E e \in listed[n] : e.id = i
    THEN /\ LiveOn(n, i) = {} /\ jobs[n][i] = None
         /\ \A e \in listed[n] : e.id = i => e.schedule = record[i]
    ELSE Settled(n, i)

\* A call of the node on the automation is the only one there is; without one
\* the node is settled.
Follows(n, i) ==
    /\ \A c \in Callers : On(c, n, i) => Calls(i) = {c} /\ Between(c)
    /\ (\A c \in Callers : ~On(c, n, i)) => Prepared(n, i)

Told(n, i) == node[n] \in {"starting", "up"} /\ <<n, i>> \notin strayed

\* Calls are on nodes that are up or going down, and a node that is down has
\* nothing.
NodesInv ==
    /\ \A c \in Callers : call[c].pc = "idle" => call[c] = Idle
    /\ \A n \in Nodes :
          /\ node[n] \in {"down", "starting"} => \A c \in Callers, i \in Ids : ~On(c, n, i)
          /\ node[n] # "starting" => listed[n] = {}
          /\ node[n] = "down" => \A i \in Ids : LiveOn(n, i) = {} /\ jobs[n][i] = None

FollowInv == NodesInv /\ \A n \in Nodes, i \in Ids : Told(n, i) => Follows(n, i)
=============================================================================
