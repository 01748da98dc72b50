------------------------------ MODULE Delivery ------------------------------
(***************************************************************************)
(* One event on its way to the actions of one automation: the trigger data    *)
(* built in the hook (trigger/message_posted.go, with a ThreadSnapshot for a   *)
(* reply), the queue item that carries them, and the worker that loads the     *)
(* automation, as it is by then, and executes it (workqueue/worker.go, an      *)
(* Executor).  Updates come in between, so what fired and what is executed     *)
(* need not fit.                                                            *)
(***************************************************************************)
EXTENDS Executor, ThreadSnapshot

VARIABLE stage   \* of the event: "build", "queued", "run" or "dropped"

allVars == <<vars, snapshotVars, stage>>

\* Before the worker has loaded it, nothing is known of the automation.
ASSUME NothingLoadedAssumption == <<>> \in Programs

DeliveryInit ==
    /\ Init /\ actions = <<>> /\ trigger # "reply"
    /\ NoThread
    /\ stage = "build"

\* fetchThread and NewSafeThread, in the hook.
BuildThread ==
    /\ stage = "build" /\ trigger = "bareReply"
    /\ SnapshotStep
    /\ UNCHANGED <<vars, stage>>

\* The item is put in the queue, with the snapshot.
QueueWithThread ==
    /\ stage = "build" /\ Done
    /\ trigger' = "reply" /\ Forget
    /\ stage' = "queued"
    /\ UNCHANGED <<actions, k, pc, result, steps, posts, typistVars>>

\* No reply, or one whose thread cannot be fetched, which goes without it.
QueueWithoutThread ==
    /\ stage = "build" /\ list = <<>>
    /\ stage' = "queued"
    /\ UNCHANGED <<vars, snapshotVars>>

\* runWorker: what RunGate lets through is executed, the rest leaves the queue.
LoadAutomation ==
    /\ stage = "queued"
    /\ \/ actions' \in Programs \ {<<>>} /\ stage' = "run"
       \/ UNCHANGED actions /\ stage' = "dropped"
    /\ UNCHANGED <<trigger, k, pc, result, steps, posts, typistVars, snapshotVars>>

RunsOn(step) == stage = "run" /\ step /\ UNCHANGED <<snapshotVars, stage>>

OnItsWay == BuildThread \/ QueueWithThread \/ QueueWithoutThread \/ LoadAutomation

DeliveryNext == OnItsWay \/ RunsOn(ActionStep) \/ RunsOn(TypistStep) \/ RunsOn(Tick)

\* The hook, the worker and the goroutine are scheduled, and calls to the AI
\* service and the server return; nothing is asked of the ticker.
DeliverySpec ==
    /\ DeliveryInit /\ [][DeliveryNext]_allVars
    /\ WF_allVars(OnItsWay) /\ WF_allVars(RunsOn(ActionStep)) /\ WF_allVars(RunsOn(TypistStep))

----------------------------------------------------------------------------
(* Properties.                                                             *)

\* However its thread can be had and whatever its actions run into, every event
\* gets to the end of an execution, or to a worker that does not execute it.
DeliveryEnds == <>(pc = "ended" \/ stage = "dropped")
============================================================================
