----------------------------- MODULE WorkerPool -----------------------------
(***************************************************************************)
(* The worker pool of one node (server/workqueue/worker.go) on top of the   *)
(* queue it claims from (JobQueue, which one node's WorkQueue implements):  *)
(* hooks that enqueue and wake the pool (automation/dispatcher.go), the     *)
(* dispatcher goroutine with its semaphore, wake-up channel, ticker and     *)
(* stop channel, one goroutine per claimed item, OnDeactivate, crashes and  *)
(* restarts.                                                               *)
(*                                                                         *)
(* What a worker finds out about its automation (missing, creator gone,     *)
(* permission denied, action failed, ...) is a free choice at each step.    *)
(***************************************************************************)
EXTENDS JobQueue

CONSTANTS
    Events,       \* the hook calls: each is the set of items it dispatches
    MaxWorkers,   \* capacity of the semaphore
    MaxMishaps,   \* bound on failing store calls and crashes
    MaxStops      \* bound on orderly shutdowns

ASSUME EventsAssumption == \A e, f \in Events : e \subseteq Jobs /\ (e = f \/ e \cap f = {})
ASSUME JobsAssumption == IsFiniteSet(Jobs)
ASSUME LimitsAssumption == MaxWorkers \in Nat \ {0} /\ MaxMishaps \in Nat /\ MaxStops \in Nat

VARIABLES
    dpc,        \* where the dispatcher goroutine is
    slots,      \* tokens in the semaphore channel
    filled,     \* tokens the shutdown loop has put there itself
    notify,     \* a token is in the wake-up channel (capacity 1)
    stop,       \* the stop channel is closed
    claimFailed, \* the last drain ended with an error
    refused,    \* items whose Enqueue failed
    notified,   \* hook calls that are over
    step,       \* where the worker of each item is
    why,        \* what the worker found
    recorded,   \* status in the item's execution record
    told,       \* which notice about the item was handed to the notifier
    unheard,    \* runs so far that ended in a panic or on an unreadable automation
    stops       \* orderly shutdowns so far

dispatcherVars == <<dpc, slots, filled, notify, stop, claimFailed>>
hookVars == <<refused, notified>>
workerVars == <<step, why, recorded, told, unheard>>
vars == <<jobVars, dispatcherVars, hookVars, workerVars, stops>>

Busy == {j \in Jobs : step[j] # "idle"}

Init ==
    /\ JobInit
    /\ dpc = "select" /\ slots = 0 /\ filled = 0
    /\ notify = FALSE /\ stop = FALSE /\ claimFailed = FALSE
    /\ refused = {} /\ notified = {}
    /\ step = [j \in Jobs |-> "idle"] /\ why = [j \in Jobs |-> "none"]
    /\ recorded = [j \in Jobs |-> "none"] /\ told = [j \in Jobs |-> "none"]
    /\ unheard = 0 /\ stops = 0

\* A store call failed: the queue may have lost or parted the item.
Trouble == mishaps < MaxMishaps /\ mishaps' = mishaps + 1

----------------------------------------------------------------------------
(* Dispatch: enqueue one item per matching automation, then Notify once.    *)

HookEnqueue(e, j) ==
    /\ dpc # "down" /\ e \notin notified /\ j \in e \ refused
    /\ phase[j] = "new"
    /\ \/ Submit(j) /\ UNCHANGED refused
       \/ /\ Trouble /\ refused' = refused \cup {j}
          /\ \/ UNCHANGED <<phase, line>>
             \/ Move({j}, "waiting") /\ line' = Append(line, j)
    /\ UNCHANGED <<dispatcherVars, notified, workerVars, stops>>

\* Notify never blocks: a token already in the channel is enough.
HookNotify(e) ==
    /\ dpc # "down" /\ e \notin notified
    /\ \A j \in e : phase[j] # "new" \/ j \in refused
    /\ notified' = notified \cup {e}
    /\ notify' = TRUE
    /\ UNCHANGED <<jobVars, dpc, slots, filled, stop, claimFailed, refused, workerVars, stops>>

----------------------------------------------------------------------------
(* dispatchLoop and drainPending.                                          *)

\* select: both cases may be ready, then either is taken.
SelectStop ==
    /\ dpc = "select" /\ stop
    /\ dpc' = "wait"
    /\ UNCHANGED <<jobVars, slots, filled, notify, stop, claimFailed, hookVars, workerVars, stops>>

\* MUTANT: the semaphore has no capacity.
SelectSlotUnbounded ==
    /\ dpc = "select"
    /\ slots' = slots + 1
    /\ dpc' = "claim"
    /\ UNCHANGED <<jobVars, filled, notify, stop, claimFailed, hookVars, workerVars, stops>>

\* MUTANT: the drain gives up when every slot is taken.
SelectSlotOrSleep ==
    /\ dpc = "select"
    /\ IF slots < MaxWorkers THEN slots' = slots + 1 /\ dpc' = "claim"
                             ELSE dpc' = "wait" /\ UNCHANGED slots
    /\ UNCHANGED <<jobVars, filled, notify, stop, claimFailed, hookVars, workerVars, stops>>

SelectSlot ==
    /\ dpc = "select" /\ slots < MaxWorkers
    /\ slots' = slots + 1
    /\ dpc' = "claim"
    /\ UNCHANGED <<jobVars, filled, notify, stop, claimFailed, hookVars, workerVars, stops>>

\* The slot passes to the worker.
ClaimItem(j) ==
    /\ dpc = "claim"
    /\ StartNext(j)
    /\ step' = [step EXCEPT ![j] = "load"]
    /\ why' = [why EXCEPT ![j] = "none"]
    /\ dpc' = "select" /\ claimFailed' = FALSE
    /\ UNCHANGED <<slots, filled, notify, stop, hookVars, recorded, told, unheard, stops>>

ClaimNothing ==
    /\ dpc = "claim" /\ line = <<>>
    /\ slots' = slots - 1
    /\ dpc' = "wait" /\ claimFailed' = FALSE
    /\ UNCHANGED <<jobVars, filled, notify, stop, hookVars, workerVars, stops>>

\* A failed claim may cost the queue the item it had popped, or leave it to the
\* next reset.
ClaimError ==
    /\ dpc = "claim" /\ Trouble
    /\ \/ UNCHANGED <<phase, line>>
       \/ /\ line # <<>> /\ line' = Tail(line)
          /\ Move({Head(line)}, "lost") \/ Move({Head(line)}, "orphaned")
    /\ slots' = slots - 1
    /\ dpc' = "wait" /\ claimFailed' = TRUE
    /\ UNCHANGED <<filled, notify, stop, hookVars, workerVars, stops>>

WaitNotify ==
    /\ dpc = "wait" /\ notify
    /\ notify' = FALSE /\ dpc' = "select"
    /\ UNCHANGED <<jobVars, slots, filled, stop, claimFailed, hookVars, workerVars, stops>>

\* MUTANT: no tick after a failed claim.
WaitTickUnlessFailed ==
    /\ dpc = "wait" /\ ~claimFailed
    /\ dpc' = "select"
    /\ UNCHANGED <<jobVars, slots, filled, notify, stop, claimFailed, hookVars, workerVars, stops>>

WaitTick ==
    /\ dpc = "wait"
    /\ dpc' = "select"
    /\ UNCHANGED <<jobVars, slots, filled, notify, stop, claimFailed, hookVars, workerVars, stops>>

WaitStop ==
    /\ dpc = "wait" /\ stop
    /\ dpc' = "fill"
    /\ UNCHANGED <<jobVars, slots, filled, notify, stop, claimFailed, hookVars, workerVars, stops>>

\* Taking every slot waits for every worker.
Fill ==
    /\ dpc = "fill"
    /\ \/ /\ filled < MaxWorkers /\ slots < MaxWorkers
          /\ slots' = slots + 1 /\ filled' = filled + 1 /\ UNCHANGED dpc
       \/ /\ filled = MaxWorkers
          /\ dpc' = "exited" /\ UNCHANGED <<slots, filled>>
    /\ UNCHANGED <<jobVars, notify, stop, claimFailed, hookVars, workerVars, stops>>

----------------------------------------------------------------------------
(* runWorker.                                                              *)

\* MUTANT: the worker ends without <-sem.
EndWorkerKeepsSlot(j) == step' = [step EXCEPT ![j] = "idle"] /\ UNCHANGED slots

\* The deferred <-sem.
EndWorker(j) == step' = [step EXCEPT ![j] = "idle"] /\ slots' = slots - 1

GoOn(j, s) == step' = [step EXCEPT ![j] = s] /\ UNCHANGED slots

Found(j, w) == why' = [why EXCEPT ![j] = w]

\* automationStore.Get, then the Enabled flag.
Load(j) ==
    /\ step[j] = "load"
    /\ \/ GoOn(j, "check") /\ UNCHANGED why
       \/ GoOn(j, "settle") /\ (Found(j, "loadError") \/ Found(j, "absent"))
    /\ UNCHANGED <<jobVars, dpc, filled, notify, stop, claimFailed, hookVars, recorded, told, unheard, stops>>

\* Creator, permissions and guardrails.  A denial first saves the automation
\* as disabled, whatever becomes of the save.
Check(j) ==
    /\ step[j] = "check"
    /\ \/ GoOn(j, "execute") /\ UNCHANGED why
       \/ GoOn(j, "settle") /\ (Found(j, "transient") \/ Found(j, "denied"))
    /\ UNCHANGED <<jobVars, dpc, filled, notify, stop, claimFailed, hookVars, recorded, told, unheard, stops>>

Execute(j) ==
    /\ step[j] = "execute"
    /\ GoOn(j, "settle")
    /\ Found(j, "success") \/ Found(j, "failed")
    /\ UNCHANGED <<jobVars, dpc, filled, notify, stop, claimFailed, hookVars, recorded, told, unheard, stops>>

\* Complete or Fail; its error is only logged.
LeaveQueue(j) ==
    \/ Finish(j)
    \/ /\ Trouble
       /\ Move({j}, "orphaned") \/ Move({j}, "done")
       /\ UNCHANGED line

AfterSettle(w) ==
    CASE w \in {"loadError", "absent"}           -> "end"
      [] w \in {"transient", "denied", "success"} -> "record"
      [] w = "failed"                             -> "notify"

\* runWorker is over, and nobody hears of the run.
Mute == unheard' = unheard + 1

Settle(j) ==
    /\ step[j] = "settle"
    /\ LeaveQueue(j)
    /\ IF AfterSettle(why[j]) = "end" THEN EndWorker(j) ELSE GoOn(j, AfterSettle(why[j]))
    /\ IF why[j] = "loadError" THEN Mute ELSE UNCHANGED unheard
    /\ UNCHANGED <<dpc, filled, notify, stop, claimFailed, hookVars, why, recorded, told, stops>>

\* saveExecutionRecord; a denial still has to be notified.
Record(j) ==
    /\ step[j] = "record"
    /\ \/ /\ recorded' = [recorded EXCEPT ![j] = IF why[j] = "success" THEN "success" ELSE "failed"]
          /\ UNCHANGED mishaps
       \/ Trouble /\ UNCHANGED recorded
    /\ IF why[j] = "denied" THEN GoOn(j, "notify") ELSE EndWorker(j)
    /\ UNCHANGED <<phase, line, dpc, filled, notify, stop, claimFailed, hookVars, why, told, unheard, stops>>

\* MUTANT: the worker ends with the notice.
TellOnly(j) ==
    /\ step[j] = "notify"
    /\ told' = [told EXCEPT ![j] = why[j]]
    /\ EndWorker(j)
    /\ UNCHANGED <<jobVars, dpc, filled, notify, stop, claimFailed, hookVars, why, recorded, unheard, stops>>

\* notifyFailure or notifyDisabled; a failure still has to be recorded.
Tell(j) ==
    /\ step[j] = "notify"
    /\ told' = [told EXCEPT ![j] = why[j]]
    /\ IF why[j] = "failed" THEN GoOn(j, "record") ELSE EndWorker(j)
    /\ UNCHANGED <<jobVars, dpc, filled, notify, stop, claimFailed, hookVars, why, recorded, unheard, stops>>

\* A panic is recovered: Fail, perhaps for the second time, and nothing else.
Panic(j) ==
    /\ step[j] \in {"load", "check", "execute", "notify", "record"}
    /\ Found(j, "panic")
    /\ IF phase[j] = "done" THEN UNCHANGED jobVars ELSE LeaveQueue(j) \/ FinishAgain(j)
    /\ EndWorker(j) /\ Mute
    /\ UNCHANGED <<dpc, filled, notify, stop, claimFailed, hookVars, recorded, told, stops>>

WorkerStep(j) ==
    Load(j) \/ Check(j) \/ Execute(j) \/ Settle(j) \/ Record(j) \/ Tell(j) \/ Panic(j)

----------------------------------------------------------------------------
(* Life cycle of the plugin on the node.                                   *)

Stop ==
    /\ dpc \notin {"exited", "down"} /\ ~stop /\ stops < MaxStops
    /\ stop' = TRUE /\ stops' = stops + 1
    /\ UNCHANGED <<jobVars, dpc, slots, filled, notify, claimFailed, hookVars, workerVars>>

\* A hook call under way ends with its process.
CutOff == notified \cup {e \in Events : \E j \in e : phase[j] # "new" \/ j \in refused}

\* Every goroutine is gone, hook calls under way included.  A claim that was
\* under way may have popped its item.
Crash ==
    /\ dpc # "down" /\ Trouble
    /\ dpc' = "down"
    /\ step' = [j \in Jobs |-> "idle"]
    /\ notified' = CutOff
    /\ \E dropped \in {{}, IF dpc = "claim" /\ line # <<>> THEN {Head(line)} ELSE {}} :
          /\ phase' = [j \in Jobs |-> IF phase[j] = "active" THEN "orphaned"
                                      ELSE IF j \in dropped THEN "lost" ELSE phase[j]]
          /\ line' = IF dropped = {} THEN line ELSE Tail(line)
    /\ UNCHANGED <<slots, filled, notify, stop, claimFailed, refused, why, recorded, told, unheard, stops>>

\* ResetRunningToPending; when it fails, the orphans stay where they are or have
\* left the running index for nowhere, and the plugin starts all the same.
Reset ==
    LET orphans == InPhase("orphaned")
    IN  \/ orphans = {} /\ UNCHANGED jobVars
        \/ \E s \in [1..Cardinality(orphans) -> orphans] : Recover(s)
        \/ /\ orphans # {} /\ Trouble /\ UNCHANGED line
           /\ UNCHANGED phase \/ Move(orphans, "lost")

\* OnActivate in a new process: reset the running index, start a fresh pool.
Restart ==
    /\ dpc \in {"exited", "down"}
    /\ Reset
    /\ dpc' = "select" /\ slots' = 0 /\ filled' = 0
    /\ notify' = FALSE /\ stop' = FALSE /\ claimFailed' = FALSE
    /\ notified' = CutOff
    /\ UNCHANGED <<refused, workerVars, stops>>

DispatcherStep ==
    \/ SelectStop \/ SelectSlot
    \/ (\E j \in Jobs : ClaimItem(j)) \/ ClaimNothing \/ ClaimError
    \/ WaitNotify \/ WaitTick \/ WaitStop \/ Fill

Next ==
    \/ \E e \in Events : HookNotify(e) \/ \E j \in Jobs : HookEnqueue(e, j)
    \/ DispatcherStep
    \/ \E j \in Jobs : WorkerStep(j)
    \/ Stop \/ Crash \/ Restart

Spec == Init /\ [][Next]_vars

\* The Go scheduler runs every goroutine that can run, the ticker keeps
\* ticking, and every automation call returns.  A closed stop channel that is
\* ready again and again is taken eventually.
Fairness ==
    /\ WF_vars(DispatcherStep)
    /\ SF_vars(WaitStop)
    /\ \A j \in Jobs : WF_vars(WorkerStep(j))

FairSpec == Spec /\ Fairness

----------------------------------------------------------------------------
(* Properties.                                                             *)

Steps == {"idle", "load", "check", "execute", "settle", "record", "notify"}
Reasons == {"none", "loadError", "absent", "transient", "denied", "failed", "success", "panic"}

\* Every variable has its type.
TypeOK ==
    /\ phase \in [Jobs -> Phases] /\ line \in Seq(Jobs) /\ mishaps \in Nat
    /\ dpc \in {"select", "claim", "wait", "fill", "exited", "down"}
    /\ slots \in 0..MaxWorkers /\ filled \in 0..MaxWorkers
    /\ notify \in BOOLEAN /\ stop \in BOOLEAN /\ claimFailed \in BOOLEAN
    /\ refused \subseteq Jobs /\ notified \subseteq Events
    /\ step \in [Jobs -> Steps] /\ why \in [Jobs -> Reasons]
    /\ recorded \in [Jobs -> {"none", "success", "failed"}]
    /\ told \in [Jobs -> {"none", "failed", "denied"}]
    /\ unheard \in Nat /\ stops \in Nat

\* Every token in the semaphore belongs to a worker, to a claim under way or to
\* the shutdown loop: no path through a drain or a worker leaks one.
SlotsAccounted ==
    dpc # "down" =>
        slots = Cardinality(Busy) + filled + (IF dpc = "claim" THEN 1 ELSE 0)

\* At most MaxWorkers automations run at a time.
BoundedConcurrency == Cardinality(Busy) <= MaxWorkers

\* No lost wake-up: when the dispatcher sleeps with no token in the channel,
\* an item can only be waiting if its hook is still about to call Notify, or
\* if the drain was cut short by an error or by stop (the ticker's business).
NoLostWakeup ==
    dpc = "wait" /\ ~notify /\ ~claimFailed /\ ~stop =>
        \A k \in DOMAIN line : \E e \in Events : line[k] \in e /\ e \notin notified

\* When the shutdown loop is over, no worker is left.
ExitedMeansQuiet == dpc = "exited" => Busy = {}

\* What the creator ought to see of an outcome: a record of every run that was not
\* called off, a notice of every failing or disabling one, and of no other.
Reported(j) ==
    /\ why[j] = "success" => recorded[j] = "success" /\ told[j] = "none"
    /\ why[j] \in {"transient", "loadError"} => recorded[j] = "failed" /\ told[j] = "none"
    /\ why[j] \in {"denied", "failed"} => recorded[j] = "failed" /\ told[j] = why[j]
    /\ why[j] = "panic" => recorded[j] = "failed" /\ told[j] # "none"

\* runWorker takes an item off the queue before it reports.  A crash in between
\* loses the outcomes of the workers it cuts off, a failing save its own; a panic and
\* an unreadable automation, which runWorker never reports, cost the report of their
\* own item and of no other.  Whatever else happens, every outcome is reported.
LossesAreBounded ==
    Cardinality({j \in Jobs : phase[j] = "done" /\ step[j] = "idle" /\ ~Reported(j)})
        <= MaxWorkers * mishaps + unheard

\* A waiting item is claimed sooner or later, unless the pool goes away first.
WaitingIsServed ==
    \A j \in Jobs : phase[j] = "waiting" ~> phase[j] # "waiting" \/ dpc \in {"exited", "down"}

\* Stop returns: the dispatcher gets past its loop and the workers end.
StopReturns == stop ~> dpc \in {"exited", "down"}

----------------------------------------------------------------------------
(* The inductive invariant behind the semaphore.                           *)

\* A waiting item is in line once and has no worker.
LineInv ==
    /\ \A k \in DOMAIN line : phase[line[k]] = "waiting"
    /\ \A k, m \in DOMAIN line : line[k] = line[m] => k = m

\* No waiting item is missing from the line.
WaitingInLine ==
    \A j \in Jobs : phase[j] = "waiting" => \E k \in DOMAIN line : line[k] = j

\* The shutdown loop holds tokens only once it has begun, and all of them when
\* it is over.
ShutdownInv ==
    /\ dpc \in {"select", "claim", "wait"} => filled = 0
    /\ dpc = "exited" => filled = MaxWorkers
    /\ dpc = "down" => Busy = {}

\* A worker has its item until it settles it, and goes on with what it found.
WorkerInv ==
    \A j \in Jobs :
        /\ step[j] \in {"load", "check", "execute", "settle"} => phase[j] = "active"
        /\ step[j] \in {"record", "notify"} => phase[j] \in {"orphaned", "done"}
        /\ step[j] = "settle" => why[j] \notin {"none", "panic"}
        /\ step[j] = "record" => why[j] \in {"transient", "denied", "success", "failed"}
        /\ step[j] = "notify" => why[j] \in {"failed", "denied"}

PoolInv == TypeOK /\ SlotsAccounted /\ LineInv /\ ShutdownInv /\ WorkerInv

(* The inductive invariant behind LossesAreBounded.                         *)

\* The item is on its way to a report of its outcome, or is there.
OnItsWay(j) ==
    /\ phase[j] \in {"new", "waiting", "active", "orphaned"} =>
          recorded[j] = "none" /\ told[j] = "none"
    /\ phase[j] = "orphaned" => step[j] = "idle"
    /\ phase[j] = "done" =>
          /\ step[j] = "idle" => Reported(j)
          /\ step[j] = "record" => told[j] = IF why[j] = "failed" THEN "failed" ELSE "none"
          /\ step[j] = "notify" /\ why[j] = "denied" => recorded[j] = "failed"

Astray == {j \in Jobs : ~OnItsWay(j)}

\* No mishap leads more items astray than there are workers, and no panic or
\* unreadable automation more than one.
ReportInv == Cardinality(Astray) <= MaxWorkers * mishaps + unheard
============================================================================
