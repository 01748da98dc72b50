------------------------------ MODULE Triggers ------------------------------
(***************************************************************************)
(* Hooks that dispatch an event (automation/dispatcher.go) to the           *)
(* automations that listen to it (automation/trigger.go), while requests and *)
(* workers save automations: AutomationStore, whose every step stays as it   *)
(* is.  A hook reads one index key, then the listed records one after the    *)
(* other, and takes no lock.                                                 *)
(***************************************************************************)
EXTENDS AutomationStore

CONSTANTS
    Hooks,      \* goroutines in an event hook, on any node
    Events      \* the events that may happen

ASSUME EventsAssumption ==
    Events \subseteq [type: ChannelTypes \ {"schedule"}, scope: Channels, variant: Variants]
                      \cup [type: TeamTypes, scope: Teams, variant: Variants]

VARIABLES
    hook,     \* where each hook is
    seen,     \* who has listened while it was at work
    missed    \* who listened all the time, undisturbed, and got no item

hookVars == <<hook, seen, missed>>

NoEvent == [pc |-> "idle", event |-> None, todo |-> {}, found |-> {}, given |-> {}]
Nobody == [ever |-> {}, undisturbed |-> {}]

At(h, pc) == hook[h].pc = pc

----------------------------------------------------------------------------
(* Matching.                                                               *)

\* CandidateAutomationIDs: the index an event is looked up in.
KeyOf(e) ==
    CASE e.type = "message_posted"     -> <<"message", e.scope>>
      [] e.type = "membership_changed" -> <<"member", e.scope>>
      [] e.type = "channel_created"    -> <<"created", None>>
      [] e.type = "user_joined_team"   -> <<"joined", e.scope>>

Matches(t, e) == t.type = e.type /\ t.scope = e.scope /\ e.variant \in t.only

\* The record calls for the event.
Listens(i, e) == record[i] # None /\ record[i].enabled /\ Matches(record[i].trigger, e)

----------------------------------------------------------------------------
(* What is remembered of the automations while a hook works: those that    *)
(* listened at some time, and those that did all the time, without being    *)
(* saved.                                                                  *)

Listeners(e) ==
    LET now == {i \in Ids : Listens(i, e)}
    IN  [ever |-> now, undisturbed |-> {i \in now : stage = "free" \/ call[holder].id # i}]

Observe ==
    seen' = [h \in Hooks |->
        IF At(h, "idle")' THEN Nobody
        ELSE LET now == Listeners(hook[h].event)'
             IN  IF At(h, "idle") THEN now
                 ELSE [ever |-> seen[h].ever \cup now.ever,
                       undisturbed |-> seen[h].undisturbed \cap now.undisturbed]]

Goto(h, r) == hook' = [hook EXCEPT ![h] = r] /\ UNCHANGED <<vars, missed>> /\ Observe

\* Dispatch returns with the items queued, or not, for these automations.
Leave(h, listeners, given) ==
    /\ hook' = [hook EXCEPT ![h] = NoEvent]
    /\ missed' = IF faults = 0 THEN missed \cup (listeners.undisturbed \ given) ELSE missed
    /\ UNCHANGED vars /\ Observe

\* A call of the hook fails, as any may: the event is given up, nobody is told.
Drop(h) == Goto(h, NoEvent)

----------------------------------------------------------------------------
(* FindMatchingAutomations and Dispatch.                                   *)

\* An index that cannot be read is an event that did not happen.
ListCandidates(h, e) ==
    /\ At(h, "idle")
    /\ LET ids == index[KeyOf(e)]
       IN  IF ids = {} THEN Leave(h, Listeners(e), {})
           ELSE Goto(h, [NoEvent EXCEPT !.pc = "load", !.event = e, !.todo = ids])

\* After the last candidate: on to the items, unless nobody listens.
Loaded(h, rest, found) ==
    IF rest = {} /\ found = {} THEN Leave(h, seen[h], {})
    ELSE Goto(h, [hook[h] EXCEPT !.pc = IF rest = {} THEN "enqueue" ELSE "load",
                                 !.todo = rest, !.found = found])

\* MUTANT: who is listed and enabled is taken to match.
LoadListed(h) ==
    /\ At(h, "load")
    /\ \E i \in hook[h].todo :
          LET hit == IF record[i] # None /\ record[i].enabled THEN {i} ELSE {}
          IN  Loaded(h, hook[h].todo \ {i}, hook[h].found \cup hit)

\* Get of one candidate.  One that cannot be read costs the others the event, and
\* so does a message without its channel or its author in BuildTriggerData; for
\* other events that only leaves a gap in the data.
LoadCandidate(h) ==
    /\ At(h, "load")
    /\ \/ \E i \in hook[h].todo :
             LET hit == IF Listens(i, hook[h].event) THEN {i} ELSE {}
             IN  Loaded(h, hook[h].todo \ {i}, hook[h].found \cup hit)
       \/ Drop(h)

\* After the last item the pool is notified.
Tried(h, i, rest) ==
    LET given == hook[h].given \cup {i}
    IN  IF rest = {} THEN Leave(h, seen[h], given)
        ELSE Goto(h, [hook[h] EXCEPT !.found = rest, !.given = given])

\* MUTANT: the first item that cannot be queued ends the loop.
EnqueueUntilFailure(h) ==
    /\ At(h, "enqueue")
    /\ \E i \in hook[h].found : Tried(h, i, hook[h].found \ {i}) \/ Tried(h, i, {})

\* One item per automation; one that cannot be queued does not stop the rest,
\* and may be in the queue all the same.
Enqueue(h) == At(h, "enqueue") /\ \E i \in hook[h].found : Tried(h, i, hook[h].found \ {i})

----------------------------------------------------------------------------
\* A request or a worker saves an automation.
StoreStep == Next /\ UNCHANGED <<hook, missed>> /\ Observe

HookStep(h) == LoadCandidate(h) \/ Enqueue(h)

DispatchInit ==
    /\ Init
    /\ hook = [h \in Hooks |-> NoEvent] /\ seen = [h \in Hooks |-> Nobody]
    /\ missed = {}

DispatchNext ==
    \/ StoreStep
    \/ \E h \in Hooks : HookStep(h) \/ \E e \in Events : ListCandidates(h, e)

DispatchSpec == DispatchInit /\ [][DispatchNext]_<<vars, hookVars>>

----------------------------------------------------------------------------
(* Properties.                                                             *)

\* FindMatchingAutomations "returns [...] all enabled automations whose trigger
\* matches": one that listened all the time and was not being saved gets its
\* item, whatever happens to the others at the same time: they are saved,
\* deleted, disabled, or cannot be queued.
SteadyListenersRun == missed = {}

\* FindMatchingAutomations: whoever gets an item did listen to this event at
\* some time of the dispatch, however stale the index entry that led to it,
\* after failed saves too.
OnlyListenersRun ==
    \A h \in Hooks : hook[h].found \cup hook[h].given \subseteq seen[h].ever

----------------------------------------------------------------------------
(* The inductive invariant behind these properties; StoreInv is that of the *)
(* store.                                                                  *)

HookStates ==
    [pc: {"idle", "load", "enqueue"}, event: Events \cup {None},
     todo: SUBSET Ids, found: SUBSET Ids, given: SUBSET Ids]

HooksOK ==
    /\ hook \in [Hooks -> HookStates]
    /\ seen \in [Hooks -> [ever: SUBSET Ids, undisturbed: SUBSET Ids]]
    /\ \A h \in Hooks : /\ At(h, "idle") => hook[h] = NoEvent
                        /\ ~At(h, "idle") => hook[h].event \in Events

\* Whoever listened undisturbed so far still does, and is listed, found or served.
SteadyInv ==
    \A h \in Hooks : ~At(h, "idle") =>
        /\ seen[h].undisturbed \subseteq Listeners(hook[h].event).undisturbed
        /\ faults = 0 => seen[h].undisturbed \subseteq
              IF At(h, "load") THEN hook[h].todo \cup hook[h].found
              ELSE hook[h].found \cup hook[h].given

DispatchInv == HooksOK /\ OnlyListenersRun /\ SteadyInv /\ SteadyListenersRun
============================================================================
