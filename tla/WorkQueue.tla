----------------------------- MODULE WorkQueue -----------------------------
(***************************************************************************)
(* The persistent work queue of server/workqueue/store.go, together with   *)
(* the goroutines that call it: message hooks that enqueue, the dispatcher *)
(* that claims, workers that complete or fail, and OnActivate that resets  *)
(* the running index after a restart.                                      *)
(*                                                                         *)
(* The queue lives in the plugin KV store: one record per item under       *)
(* "wq:<id>" and two id lists under "wq_pending" and "wq_running".  Every  *)
(* KV call that writes, and every record read, is a step of its own.  The  *)
(* two id lists are only touched while the cluster mutex "wq_index_mutex"  *)
(* is held, so reading a list is part of the step that follows it; the     *)
(* records are written WITHOUT the mutex by Enqueue, Complete and Fail.    *)
(*                                                                         *)
(* The running index is kept as the set of its ids.  Removal filters out    *)
(* every copy of an id and the reset de-duplicates, so neither order nor    *)
(* multiplicity is ever visible, except for the order in which the reset    *)
(* puts items back, which the model leaves open.                           *)
(*                                                                         *)
(* A KV call may fail.  A failed write may or may not have taken effect.   *)
(* A node may crash between any two steps.                                 *)
(***************************************************************************)
EXTENDS Naturals, Sequences, FiniteSets

CONSTANTS
    Items,       \* ids of the work items; every Enqueue uses a fresh id
    Nodes,       \* server nodes running the plugin against one KV store
    Slots,       \* semaphore slots of one node's pool (maxWorkers of them)
    None,        \* "no item" and "no node"
    MaxFaults,   \* bound on failing KV calls
    MaxCrashes   \* bound on node crashes

ASSUME ItemsAssumption == IsFiniteSet(Items) /\ None \notin Items
ASSUME NodesAssumption == None \notin Nodes
ASSUME BoundsAssumption == MaxFaults \in Nat /\ MaxCrashes \in Nat

VARIABLES
    record,      \* "wq:<id>": "none" when the key is absent, else its Status
    pending,     \* "wq_pending", a sequence
    running,     \* "wq_running", as a set
    owner,       \* node holding the index mutex across several steps
    stage,       \* where the holder is inside ClaimNext or the reset
    cur,         \* the item the holder is moving
    todo,        \* reset: running ids still to be visited, as a set
    moved,       \* reset: ids appended to the in-memory pending list so far
    node,        \* life cycle of the plugin on each node
    enq,         \* the one Enqueue call of each item: "queued" once the id is indexed
    home,        \* node on which that call runs
    wpc,         \* control state of each worker
    job,         \* item each worker was handed
    faults,      \* KV calls that failed so far
    crashes      \* crashes so far

claimVars == <<owner, stage, cur, todo, moved>>
poolVars  == <<wpc, job>>
hookVars  == <<enq, home>>
envVars   == <<faults, crashes>>
vars == <<record, pending, running, claimVars, node, hookVars, poolVars, envVars>>

Workers == Nodes \X Slots      \* <<node, slot>>

Elems(s) == {s[k] : k \in DOMAIN s}

NoRepeats(s) == \A j, k \in DOMAIN s : s[j] = s[k] => j = k

\* d keeps the first occurrence of every id of s, in the order of s.
Dedupes(d, s) ==
    /\ NoRepeats(d)
    /\ Elems(d) = Elems(s)
    /\ \A j, k \in DOMAIN d : j < k =>
          \E p \in DOMAIN s : /\ s[p] = d[j]
                              /\ \A q \in 1..p : s[q] # d[k]

Lists == UNION {[1..n -> Items] : n \in 0..Cardinality(Items)}

ClaimStages == {"pop", "get", "mark", "index", "undoRecord", "undoIndex"}
ResetStages == {"resetGet", "resetMark", "resetClear", "resetRequeue"}

Busy(n) == {w \in Workers : w[1] = n /\ wpc[w] # "idle"}

Init ==
    /\ record = [i \in Items |-> "none"]
    /\ pending = <<>> /\ running = {}
    /\ owner = None /\ stage = "free" /\ cur = None /\ todo = {} /\ moved = <<>>
    /\ node = [n \in Nodes |-> "down"]
    /\ enq = [i \in Items |-> "new"] /\ home = [i \in Items |-> None]
    /\ wpc = [w \in Workers |-> "idle"] /\ job = [w \in Workers |-> None]
    /\ faults = 0 /\ crashes = 0

Fault == faults < MaxFaults /\ faults' = faults + 1 /\ UNCHANGED crashes

Release == owner' = None /\ stage' = "free" /\ cur' = None /\ todo' = {} /\ moved' = <<>>

At(s) == stage = s /\ UNCHANGED <<node, hookVars>>

----------------------------------------------------------------------------
(* Enqueue: the record first, without the mutex; then the pending index.   *)

EnqueueSave(i, n) ==
    /\ enq[i] = "new" /\ node[n] = "up"
    /\ home' = [home EXCEPT ![i] = n]
    /\ \/ /\ record' = [record EXCEPT ![i] = "pending"]
          /\ enq' = [enq EXCEPT ![i] = "saved"]
          /\ UNCHANGED envVars
       \/ /\ Fault
          /\ record' \in {record, [record EXCEPT ![i] = "pending"]}
          /\ enq' = [enq EXCEPT ![i] = "rejected"]
    /\ UNCHANGED <<pending, running, claimVars, node, poolVars>>

\* "queued" says that the id reached the index, even if the call reports an
\* error: its callers only log it and never retry.
EnqueueIndex(i) ==
    /\ enq[i] = "saved" /\ owner = None
    /\ \/ UNCHANGED envVars
       \/ Fault
    /\ \/ /\ pending' = Append(pending, i)
          /\ enq' = [enq EXCEPT ![i] = "queued"]
       \/ /\ faults' # faults
          /\ UNCHANGED pending
          /\ enq' = [enq EXCEPT ![i] = "rejected"]
    /\ UNCHANGED <<record, running, claimVars, node, home, poolVars>>

----------------------------------------------------------------------------
(* ClaimNext: runs on the dispatcher goroutine of node n, which holds a    *)
(* free slot, and holds the mutex from the pop to the hand-over.           *)

\* An empty index returns nil; a failing pop returns an error.
ClaimPop(n) ==
    /\ \/ owner = None /\ node[n] = "up" /\ \E s \in Slots : wpc[<<n, s>>] = "idle"
       \/ owner = n /\ stage = "pop"
    /\ \/ /\ pending # <<>>
          /\ cur' = Head(pending) /\ pending' = Tail(pending)
          /\ owner' = n /\ stage' = "get"
          /\ UNCHANGED <<todo, moved, envVars>>
       \/ /\ pending = <<>>
          /\ Release
          /\ UNCHANGED <<pending, envVars>>
       \/ /\ Fault /\ pending # <<>>
          /\ pending' \in {pending, Tail(pending)}
          /\ Release
    /\ UNCHANGED <<record, running, node, hookVars, poolVars>>

\* A missing record is a stale entry: the loop goes on to the next one.
ClaimGet ==
    /\ At("get")
    /\ \/ /\ stage' = IF record[cur] = "none" THEN "pop" ELSE "mark"
          /\ UNCHANGED <<owner, cur, todo, moved, envVars>>
       \/ /\ Fault
          /\ Release
    /\ UNCHANGED <<record, pending, running, poolVars>>

\* The whole item is written back, whether or not its key still exists.
ClaimMark ==
    /\ At("mark")
    /\ \/ /\ record' = [record EXCEPT ![cur] = "running"]
          /\ stage' = "index"
          /\ UNCHANGED <<owner, cur, todo, moved, envVars>>
       \/ /\ Fault
          /\ record' \in {record, [record EXCEPT ![cur] = "running"]}
          /\ Release
    /\ UNCHANGED <<pending, running, poolVars>>

\* On success the dispatcher starts a worker in the slot it holds.
ClaimIndex ==
    /\ At("index")
    /\ \/ /\ running' = running \cup {cur}
          /\ \E s \in Slots :
                /\ wpc[<<owner, s>>] = "idle"
                /\ wpc' = [wpc EXCEPT ![<<owner, s>>] = "executing"]
                /\ job' = [job EXCEPT ![<<owner, s>>] = cur]
          /\ Release
          /\ UNCHANGED envVars
       \/ /\ Fault
          /\ running' \in {running, running \cup {cur}}
          /\ stage' = "undoRecord"
          /\ UNCHANGED <<owner, cur, todo, moved, poolVars>>
    /\ UNCHANGED <<record, pending>>

\* Both halves of the roll-back are attempted whatever becomes of the first.
ClaimUndoRecord ==
    /\ At("undoRecord")
    /\ stage' = "undoIndex"
    /\ \/ /\ record' = [record EXCEPT ![cur] = "pending"]
          /\ UNCHANGED envVars
       \/ /\ Fault
          /\ record' \in {record, [record EXCEPT ![cur] = "pending"]}
    /\ UNCHANGED <<pending, running, owner, cur, todo, moved, poolVars>>

\* MUTANT: the roll-back puts the item at the end of the line.
ClaimUndoIndexAtEnd ==
    /\ At("undoIndex")
    /\ \/ pending' = Append(pending, cur) /\ UNCHANGED envVars
       \/ Fault /\ pending' \in {pending, Append(pending, cur)}
    /\ Release
    /\ UNCHANGED <<record, running, poolVars>>

ClaimUndoIndex ==
    /\ At("undoIndex")
    /\ \/ /\ pending' = <<cur>> \o pending
          /\ UNCHANGED envVars
       \/ /\ Fault
          /\ pending' \in {pending, <<cur>> \o pending}
    /\ Release
    /\ UNCHANGED <<record, running, poolVars>>

----------------------------------------------------------------------------
(* Complete and Fail: delete the record, then leave the running index.     *)
(* Whatever becomes of it, the worker goes on to report its outcome; if it  *)
(* panics there, the recovery calls Fail once more (worker.go:131-146).     *)

Retire(w) ==
    /\ wpc' = [wpc EXCEPT ![w] = "idle"]
    /\ job' = [job EXCEPT ![w] = None]

FinishDelete(w) ==
    /\ wpc[w] = "executing"
    /\ \/ /\ record' = [record EXCEPT ![job[w]] = "none"]
          /\ wpc' = [wpc EXCEPT ![w] = "unindexing"]
          /\ UNCHANGED envVars
       \/ /\ Fault
          /\ record' \in {record, [record EXCEPT ![job[w]] = "none"]}
          /\ wpc' = [wpc EXCEPT ![w] = "reporting"]
    /\ UNCHANGED <<job, pending, running, claimVars, node, hookVars>>

FailAgain(w) ==
    /\ wpc[w] = "reporting"
    /\ \/ /\ record' = [record EXCEPT ![job[w]] = "none"]
          /\ wpc' = [wpc EXCEPT ![w] = "unindexingAgain"]
          /\ UNCHANGED <<job, envVars>>
       \/ /\ Fault
          /\ record' \in {record, [record EXCEPT ![job[w]] = "none"]}
          /\ Retire(w)
    /\ UNCHANGED <<pending, running, claimVars, node, hookVars>>

FinishUnindex(w) ==
    /\ wpc[w] \in {"unindexing", "unindexingAgain"} /\ owner = None
    /\ \/ running' = running \ {job[w]} /\ UNCHANGED envVars
       \/ Fault /\ running' \in {running, running \ {job[w]}}
    /\ IF wpc[w] = "unindexing"
          THEN wpc' = [wpc EXCEPT ![w] = "reporting"] /\ UNCHANGED job
          ELSE Retire(w)
    /\ UNCHANGED <<record, pending, claimVars, node, hookVars>>

WorkerEnds(w) ==
    /\ wpc[w] = "reporting"
    /\ Retire(w)
    /\ UNCHANGED <<record, pending, running, claimVars, node, hookVars, envVars>>

----------------------------------------------------------------------------
(* ResetRunningToPending, called by OnActivate.  A failure is logged and   *)
(* activation goes on.                                                     *)

Activate(n) ==
    /\ node[n] = "down"
    /\ node' = [node EXCEPT ![n] = "resetting"]
    /\ UNCHANGED <<record, pending, running, claimVars, hookVars, poolVars, envVars>>

ResetDone(n) == node' = [node EXCEPT ![n] = "up"] /\ Release

\* The loop visits one more running id, or is past the last one.
ResetVisit(left) ==
    \/ \E i \in left : stage' = "resetGet" /\ cur' = i /\ todo' = left \ {i}
    \/ left = {} /\ stage' = "resetClear" /\ cur' = None /\ todo' = {}

ResetBegin(n) ==
    /\ node[n] = "resetting" /\ owner = None
    /\ \/ /\ running = {}
          /\ ResetDone(n)
          /\ UNCHANGED envVars
       \/ /\ running # {}
          /\ owner' = n /\ ResetVisit(running)
          /\ UNCHANGED <<node, moved, envVars>>
       \/ /\ Fault
          /\ ResetDone(n)
    /\ UNCHANGED <<record, pending, running, hookVars, poolVars>>

ResetGet ==
    /\ stage = "resetGet"
    /\ \/ /\ record[cur] # "none"
          /\ stage' = "resetMark"
          /\ UNCHANGED <<node, owner, cur, todo, moved, envVars>>
       \/ /\ record[cur] = "none"
          /\ ResetVisit(todo)
          /\ UNCHANGED <<node, owner, moved, envVars>>
       \/ /\ Fault
          /\ ResetDone(owner)
    /\ UNCHANGED <<record, pending, running, hookVars, poolVars>>

ResetMark ==
    /\ stage = "resetMark"
    /\ \/ /\ record' = [record EXCEPT ![cur] = "pending"]
          /\ moved' = Append(moved, cur)
          /\ ResetVisit(todo)
          /\ UNCHANGED <<node, owner, envVars>>
       \/ /\ Fault
          /\ record' \in {record, [record EXCEPT ![cur] = "pending"]}
          /\ ResetDone(owner)
    /\ UNCHANGED <<pending, running, hookVars, poolVars>>

ResetClear ==
    /\ stage = "resetClear"
    /\ \/ /\ running' = {}
          /\ stage' = "resetRequeue"
          /\ UNCHANGED <<node, owner, cur, todo, moved, envVars>>
       \/ /\ Fault
          /\ running' \in {running, {}}
          /\ ResetDone(owner)
    /\ UNCHANGED <<record, pending, hookVars, poolVars>>

\* MUTANT: the recovered ids are appended without de-duplication.
ResetRequeueRepeats ==
    /\ stage = "resetRequeue"
    /\ \/ pending' = pending \o moved /\ UNCHANGED envVars
       \/ Fault /\ pending' \in {pending, pending \o moved}
    /\ ResetDone(owner)
    /\ UNCHANGED <<record, running, hookVars, poolVars>>

\* MUTANT: the recovered ids replace the pending index.
ResetRequeueOverwrites ==
    /\ stage = "resetRequeue"
    /\ pending' = moved
    /\ ResetDone(owner)
    /\ UNCHANGED <<record, running, hookVars, poolVars, envVars>>

ResetRequeue ==
    /\ stage = "resetRequeue"
    /\ \E requeued \in Lists :
          /\ Dedupes(requeued, pending \o moved)
          /\ \/ pending' = requeued /\ UNCHANGED envVars
             \/ Fault /\ pending' \in {pending, requeued}
    /\ ResetDone(owner)
    /\ UNCHANGED <<record, running, hookVars, poolVars>>

----------------------------------------------------------------------------
(* The node goes away: OnDeactivate waits for the pool, a crash does not.  *)
(* Hook calls in flight are cut off, a mutex it held expires.              *)

AbortHooks(n) ==
    enq' = [i \in Items |-> IF home[i] = n /\ enq[i] = "saved" THEN "rejected" ELSE enq[i]]

\* MUTANT: OnDeactivate does not wait for the workers.
DeactivateAtOnce(n) ==
    /\ node[n] = "up" /\ owner # n
    /\ node' = [node EXCEPT ![n] = "down"]
    /\ AbortHooks(n)
    /\ UNCHANGED <<record, pending, running, claimVars, home, poolVars, envVars>>

Deactivate(n) ==
    /\ node[n] = "up" /\ owner # n /\ Busy(n) = {}
    /\ node' = [node EXCEPT ![n] = "down"]
    /\ AbortHooks(n)
    /\ UNCHANGED <<record, pending, running, claimVars, home, poolVars, envVars>>

Crash(n) ==
    /\ node[n] # "down" /\ crashes < MaxCrashes
    /\ crashes' = crashes + 1
    /\ node' = [node EXCEPT ![n] = "down"]
    /\ AbortHooks(n)
    /\ IF owner = n THEN Release ELSE UNCHANGED claimVars
    /\ wpc' = [w \in Workers |-> IF w[1] = n THEN "idle" ELSE wpc[w]]
    /\ job' = [w \in Workers |-> IF w[1] = n THEN None ELSE job[w]]
    /\ UNCHANGED <<record, pending, running, home, faults>>

Next ==
    \/ \E i \in Items : EnqueueIndex(i) \/ \E n \in Nodes : EnqueueSave(i, n)
    \/ \E n \in Nodes : ClaimPop(n)
    \/ ClaimGet \/ ClaimMark \/ ClaimIndex \/ ClaimUndoRecord \/ ClaimUndoIndex
    \/ \E w \in Workers : FinishDelete(w) \/ FailAgain(w) \/ FinishUnindex(w) \/ WorkerEnds(w)
    \/ \E n \in Nodes : Activate(n) \/ ResetBegin(n)
    \/ ResetGet \/ ResetMark \/ ResetClear \/ ResetRequeue
    \/ \E n \in Nodes : Deactivate(n) \/ Crash(n)

Spec == Init /\ [][Next]_vars

----------------------------------------------------------------------------
(* Properties.                                                             *)

\* Every variable has its type.
TypeOK ==
    /\ record \in [Items -> {"none", "pending", "running"}]
    /\ pending \in Seq(Items) /\ running \in SUBSET Items
    /\ owner \in Nodes \cup {None}
    /\ stage \in {"free"} \cup ClaimStages \cup ResetStages
    /\ cur \in Items \cup {None}
    /\ todo \in SUBSET Items /\ moved \in Seq(Items)
    /\ node \in [Nodes -> {"down", "resetting", "up"}]
    /\ enq \in [Items -> {"new", "saved", "queued", "rejected"}]
    /\ home \in [Items -> Nodes \cup {None}]
    /\ wpc \in [Workers -> {"idle", "executing", "unindexing", "reporting", "unindexingAgain"}]
    /\ job \in [Workers -> Items \cup {None}]
    /\ faults \in Nat /\ crashes \in Nat

\* The pending index never lists an id twice, whatever fails and whoever
\* restarts: a repeated id would be claimed twice (store.go:236-246).
PendingHasNoRepeats == NoRepeats(pending)

\* No two workers hold the same item: its automation would run twice at once.
\* Holds on one node only: a second node that activates resets the items of live
\* workers too (plugin.go:113).
OneWorkerPerItem ==
    \A v, w \in Workers : wpc[v] # "idle" /\ wpc[w] # "idle" /\ job[v] = job[w] => v = w

\* The item of a worker that is still executing is in the running index with
\* its record, so that a crash at any moment leaves it for the reset to find.
ExecutingIsRecoverable ==
    \A w \in Workers : wpc[w] = "executing" =>
        /\ job[w] \in running
        /\ record[job[w]] = "running"

\* Ids the queue still knows: in an index, or in the hands of the holder of
\* the index mutex.
InHand == ({cur} \cup (IF stage = "resetRequeue" THEN Elems(moved) ELSE {})) \ {None}
Tracked == Elems(pending) \cup running \cup InHand

Executing == {job[w] : w \in {v \in Workers : wpc[v] = "executing"}}

\* However nodes come and go, as long as no KV call fails and no node crashes,
\* a queued item is in an index, in the hands of a claim or a reset, being
\* executed, or finished.  Holds for any number of nodes.
UndisturbedQueueForgetsNothing ==
    faults + crashes = 0 =>
        \A i \in Items : enq[i] = "queued" /\ record[i] # "none" =>
            i \in Tracked \cup Executing

\* README.md:14: "Automation executions are durably queued in the KV store with
\* bounded concurrency and automatic crash recovery".  An item that was queued
\* and whose record exists can still be found through an index, if only after a
\* restart.
EveryQueuedItemIsTracked ==
    \A i \in Items : enq[i] = "queued" /\ record[i] # "none" => i \in Tracked

----------------------------------------------------------------------------
(* Inductive invariants.                                                   *)

\* The mutex is held exactly while an operation is in its middle.
LockInv ==
    /\ owner = None <=> stage = "free"
    /\ stage \in ClaimStages \cup {"resetGet", "resetMark"} => cur \in Items

\* An id that has not been appended to the pending index is nowhere yet.
FreshInv ==
    \A i \in Items : enq[i] # "queued" =>
        /\ i \notin Elems(pending) /\ i \notin running
        /\ i # cur /\ i \notin todo /\ i \notin Elems(moved)
        /\ \A w \in Workers : job[w] # i

\* The item being claimed has left the pending index.
ClaimInv == stage \in ClaimStages \ {"pop"} => cur \notin Elems(pending)

IndexInv == TypeOK /\ LockInv /\ FreshInv /\ ClaimInv /\ PendingHasNoRepeats

\* On one node, a worker has an item of its own, which is neither waiting nor
\* being claimed; only a node that is up has workers and claims.
WorkerInv ==
    /\ \A w \in Workers : wpc[w] # "idle" =>
          /\ node[w[1]] = "up"
          /\ job[w] \in Items
          /\ job[w] \notin Elems(pending)
          /\ stage \in ClaimStages \ {"pop"} => job[w] # cur
    /\ stage \in ClaimStages => node[owner] = "up"
    /\ stage \in ResetStages => node[owner] = "resetting"
    /\ stage = "index" => record[cur] = "running"

\* One node: ResetRunningToPending never meets a live worker, so items in use stay
\* apart from waiting ones, have one worker each, and are found after a crash.
SingleNodeInv == IndexInv /\ WorkerInv /\ OneWorkerPerItem /\ ExecutingIsRecoverable

\* A worker takes its item out of the running index only without its record.
FinishingInv ==
    \A w \in Workers :
        /\ wpc[w] \in {"unindexing", "unindexingAgain"} => record[job[w]] = "none"
        /\ wpc[w] = "reporting" /\ record[job[w]] # "none" => job[w] \in running

\* What the queue still knows is still there: an id in line, or being moved, has
\* its record; a reset carries over whatever the running index lists with one.
LineRecorded ==
    /\ \A i \in Items : enq[i] = "saved" => record[i] # "none"
    /\ \A i \in Elems(pending) : record[i] # "none"
    /\ stage \in ClaimStages => stage # "pop" /\ record[cur] # "none"
    /\ FinishingInv

Carried == Elems(moved) \cup todo \cup {cur}

ResetInv ==
    /\ stage \in {"free", "resetClear", "resetRequeue"} => cur = None
    /\ stage \notin ResetStages => moved = <<>>
    /\ stage \in ResetStages => \A i \in Elems(moved) : record[i] # "none"
    /\ stage \in ResetStages \ {"resetRequeue"} =>
          /\ Carried \subseteq running \cup {None}
          /\ \A i \in running : record[i] # "none" => i \in Carried
    /\ stage = "resetMark" => record[cur] # "none"
    /\ stage = "resetClear" => todo = {}
    /\ stage = "resetRequeue" => running = {}

QueueInv == SingleNodeInv /\ LineRecorded /\ ResetInv

\* On any number of nodes, undisturbed: the running index is only lost track of for
\* items that are executed or wait again, and a reset carries over the others.
Undisturbed ==
    /\ UndisturbedQueueForgetsNothing
    /\ stage = "pop" => record[cur] = "none"
    /\ stage \notin ResetStages =>
          \A i \in running : record[i] # "none" => i \in Elems(pending) \cup {cur} \cup Executing
    /\ stage \in ResetStages \ {"resetRequeue"} =>
          /\ Carried \subseteq running \cup {None}
          /\ \A i \in running : record[i] # "none" => i \in Carried
    /\ stage = "resetClear" => todo = {}
    /\ stage = "resetRequeue" => running = {}

ForgetInv ==
    /\ stage \in {"free", "resetClear", "resetRequeue"} => cur = None
    /\ stage \notin ResetStages => moved = <<>>
    /\ faults + crashes = 0 => Undisturbed

----------------------------------------------------------------------------
(* The abstract queue.                                                     *)

\* An item being claimed is still first in line: it is started by the write of
\* the running index that hands it over (store.go:139).
Line ==
    LET claimed == IF stage \in ClaimStages \ {"pop"} THEN <<cur>> ELSE <<>>
    IN  claimed \o pending

\* An item is finished by the deletion of its record (store.go:163, 177).
Phase(i) ==
    IF enq[i] # "queued"        THEN "new"
    ELSE IF i \in Executing     THEN "active"
    ELSE IF i \in Elems(Line)   THEN "waiting"
    ELSE IF record[i] = "none"  THEN "done"
    ELSE IF i \in Tracked       THEN "orphaned"
    ELSE "lost"

Jobs == INSTANCE JobQueue WITH
    Jobs    <- Items,
    phase   <- [i \in Items |-> Phase(i)],
    line    <- Line,
    mishaps <- faults + crashes

\* On one node the queue implements JobQueue: jobs start in line order, one
\* worker each, a finished job never comes back, only orphans are put back in
\* line, and nothing is orphaned or lost without a failing call or a crash.
ImplementsJobQueue == Jobs!JobSpec
============================================================================
