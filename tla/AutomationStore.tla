--------------------------- MODULE AutomationStore ---------------------------
(***************************************************************************)
(* The automation store of server/automation/store.go: one record per       *)
(* automation and seven kinds of index over them, all in the plugin KV      *)
(* store, together with the callers that write it: the API handlers of      *)
(* automation/api.go and a worker that disables an automation               *)
(* (workqueue/worker.go).                                                  *)
(*                                                                         *)
(* Save and Delete hold the cluster mutex from their first read to their    *)
(* last write, and each of their KV writes is a step: the record first,     *)
(* then one index after the other.  Callers read the record they start from *)
(* WITHOUT the mutex, so it may have changed by the time they save.         *)
(*                                                                         *)
(* An index holds no id twice (every append looks first) and nothing        *)
(* depends on its order, so it is kept as a set.                           *)
(*                                                                         *)
(* A KV call may fail, and a failed write may have taken effect.  A failure *)
(* ends the call where it is; so does the crash of the caller's node, which *)
(* is why the model has no crash of its own.                               *)
(***************************************************************************)
EXTENDS Naturals, FiniteSets

CONSTANTS
    Ids,        \* automation ids; every create uses a fresh one
    Channels, Teams,
    Triggers,   \* the trigger configurations requests may ask for
    Callers,    \* goroutines in a handler or a worker, on any node
    Limit,      \* MaxAutomationsPerChannelLimit, 0 when there is none
    MaxFaults,  \* bound on failing KV calls
    None

ChannelTypes == {"message_posted", "schedule", "membership_changed"}
TeamTypes == {"channel_created", "user_joined_team"}

\* What the filters of a trigger tell apart: messages and replies, joining and
\* leaving, members and guests.
Variants == {"root", "reply", "joined", "left", "user", "guest", "created"}

ASSUME IdsAssumption == IsFiniteSet(Ids)
ASSUME TriggersAssumption ==
    Triggers \subseteq [type: ChannelTypes, scope: Channels, only: SUBSET Variants]
                        \cup [type: TeamTypes, scope: Teams, only: SUBSET Variants]
ASSUME NoneAssumption == None \notin Channels \cup Teams \cup Triggers \cup Callers
ASSUME BoundsAssumption == Limit \in Nat /\ MaxFaults \in Nat

VARIABLES
    record,   \* "automation:<id>": an automation, or None
    index,    \* for each index key, the ids listed there
    used,     \* ids handed out so far
    call,     \* what each caller has read and is about to save
    holder,   \* caller holding the index mutex
    old,      \* the holder's copy of the record it replaces
    snap,     \* the holder's copy of the channel index it checked the quota with
    left,     \* index writes the holder still has to make
    stage,    \* "free", "record" or "index"
    faults    \* KV calls that failed so far

lockVars == <<holder, old, snap, left, stage>>
vars == <<record, index, used, call, lockVars, faults>>

Automations == [trigger: Triggers, enabled: BOOLEAN]

Idle == [op |-> "none", id |-> None, new |-> None]

----------------------------------------------------------------------------
(* Index keys, in the order in which Save and Delete visit their kinds.     *)

Kinds == {"all", "message", "member", "channel", "schedule", "created", "joined"}

Rank == [kind \in Kinds |->
    CASE kind = "all"      -> 1 [] kind = "message" -> 2 [] kind = "member" -> 3
      [] kind = "channel"  -> 4 [] kind = "schedule" -> 5 [] kind = "created" -> 6
      [] kind = "joined"   -> 7]

Keys ==
    ({"all", "schedule", "created"} \X {None})
      \cup ({"message", "member", "channel"} \X Channels) \cup ({"joined"} \X Teams)

\* TriggerChannelID, None for the team triggers.
ChannelOf(a) == IF a.trigger.type \in ChannelTypes THEN a.trigger.scope ELSE None

\* Is the automation to be listed under the index key?
Listed(a, key) ==
    /\ a # None
    /\ CASE key[1] = "all"      -> TRUE
         [] key[1] = "message"  -> a.trigger.type = "message_posted" /\ a.trigger.scope = key[2]
         [] key[1] = "member"   -> a.trigger.type = "membership_changed" /\ a.trigger.scope = key[2]
         [] key[1] = "channel"  -> ChannelOf(a) = key[2]
         [] key[1] = "schedule" -> a.trigger.type = "schedule"
         [] key[1] = "created"  -> a.trigger.type = "channel_created"
         [] key[1] = "joined"   -> a.trigger.type = "user_joined_team" /\ a.trigger.scope = key[2]

\* MUTANT: the channel index is removed from and appended to like the others,
\* although the copy to append to still lists the id.
RewrittenWithChannel == {"message", "member", "joined", "channel"}

\* Kinds whose entry is removed and added back even when it stays the same.
Rewritten == {"message", "member", "joined"}

Remove(key) == [verb |-> "remove", key |-> key]
Add(key) == [verb |-> "add", key |-> key]

\* The index writes that take the store from a to b.
Edits(a, b) ==
    LET same(key) == key[1] \notin Rewritten /\ Listed(a, key) /\ Listed(b, key)
    IN  {Remove(key) : key \in {k \in Keys : Listed(a, k) /\ ~same(k)}}
          \cup {Add(key) : key \in {k \in Keys : Listed(b, k) /\ ~same(k)}}

Before(e, f) ==
    \/ Rank[e.key[1]] < Rank[f.key[1]]
    \/ Rank[e.key[1]] = Rank[f.key[1]] /\ (e.verb = "remove" \/ f.verb = "add")

----------------------------------------------------------------------------
Init ==
    /\ record = [i \in Ids |-> None]
    /\ index = [key \in Keys |-> {}]
    /\ used = {}
    /\ call = [c \in Callers |-> Idle]
    /\ holder = None /\ old = None /\ snap = {} /\ left = {} /\ stage = "free"
    /\ faults = 0

Fault == faults < MaxFaults /\ faults' = faults + 1

Unlock == holder' = None /\ old' = None /\ snap' = {} /\ left' = {} /\ stage' = "free"

Return(c) == call' = [call EXCEPT ![c] = Idle]

Begin(c, op, i, a) ==
    /\ call[c] = Idle
    /\ call' = [call EXCEPT ![c] = [op |-> op, id |-> i, new |-> a]]
    /\ UNCHANGED <<record, index, lockVars, faults>>

(* Requests that pass validation; one that does not changes nothing.        *)

Create(c, i, t) ==
    /\ i \notin used /\ used' = used \cup {i}
    /\ \E on \in BOOLEAN : Begin(c, "create", i, [trigger |-> t, enabled |-> on])

\* A payload that omits "enabled" keeps the value the handler has just read,
\* one of the two.
Update(c, i, t) ==
    /\ record[i] # None
    /\ \E on \in BOOLEAN : Begin(c, "update", i, [trigger |-> t, enabled |-> on])
    /\ UNCHANGED used

Delete(c, i) ==
    /\ record[i] # None
    /\ Begin(c, "delete", i, None)
    /\ UNCHANGED used

\* A worker that finds its automation enabled and its creator not entitled.
Disable(c, i) ==
    /\ record[i] # None /\ record[i].enabled
    /\ Begin(c, "disable", i, [record[i] EXCEPT !.enabled = FALSE])
    /\ UNCHANGED used

----------------------------------------------------------------------------
(* Under the mutex.                                                        *)

\* SaveWithChannelLimit only checks what has a trigger channel.
Limited(c) ==
    /\ Limit > 0 /\ call[c].op \in {"create", "update"}
    /\ ChannelOf(call[c].new) # None

Snapshot(c) == IF Limited(c) THEN index[<<"channel", ChannelOf(call[c].new)>>] ELSE {}

\* MUTANT: the automation under way does not count.
OverLimitByOne(c) == Limited(c) /\ Cardinality(Snapshot(c) \ {call[c].id}) > Limit

OverLimit(c) == Limited(c) /\ Cardinality(Snapshot(c) \ {call[c].id}) >= Limit

\* The mutex is taken, the quota and the old record are read.
Acquire(c) ==
    /\ holder = None /\ call[c] # Idle
    /\ ~OverLimit(c) /\ (call[c].op = "delete" => record[call[c].id] # None)
    /\ holder' = c /\ stage' = "record"
    /\ old' = record[call[c].id] /\ snap' = Snapshot(c)
    /\ UNCHANGED <<record, index, used, call, left, faults>>

\* Too many automations in the channel, nothing left to delete, or a failed
\* read.
TurnAway(c) ==
    /\ holder = None /\ call[c] # Idle
    /\ \/ OverLimit(c) /\ UNCHANGED faults
       \/ call[c].op = "delete" /\ record[call[c].id] = None /\ UNCHANGED faults
       \/ Fault
    /\ Return(c)
    /\ UNCHANGED <<record, index, used, lockVars>>

GoOn(rest) ==
    IF rest = {} THEN Unlock /\ Return(holder)
    ELSE left' = rest /\ stage' = "index" /\ UNCHANGED <<call, holder, old, snap>>

WriteRecord ==
    /\ stage = "record"
    /\ LET written == [record EXCEPT ![call[holder].id] = call[holder].new]
       IN  \/ record' = written /\ GoOn(Edits(old, call[holder].new)) /\ UNCHANGED faults
           \/ Fault /\ record' \in {record, written} /\ Unlock /\ Return(holder)
    /\ UNCHANGED <<index, used>>

\* With a quota the channel index is appended to from the copy read earlier.
EditedIndex(e) ==
    LET i    == call[holder].id
        base == IF e.key[1] = "channel" /\ Limited(holder) THEN snap ELSE index[e.key]
        ids  == IF e.verb = "remove" THEN index[e.key] \ {i}
                ELSE IF i \in base THEN index[e.key] ELSE base \cup {i}
    IN  [index EXCEPT ![e.key] = ids]

WriteIndex ==
    /\ stage = "index"
    /\ \E e \in left :
          /\ \A f \in left : Before(e, f)
          /\ \/ index' = EditedIndex(e) /\ GoOn(left \ {e}) /\ UNCHANGED faults
             \/ Fault /\ index' \in {index, EditedIndex(e)} /\ Unlock /\ Return(holder)
    /\ UNCHANGED <<record, used>>

Next ==
    \/ \E c \in Callers, i \in Ids :
          \/ \E t \in Triggers : Create(c, i, t) \/ Update(c, i, t)
          \/ Delete(c, i) \/ Disable(c, i)
    \/ \E c \in Callers : Acquire(c) \/ TurnAway(c)
    \/ WriteRecord \/ WriteIndex

Spec == Init /\ [][Next]_vars

----------------------------------------------------------------------------
(* Properties.                                                             *)

TypeOK ==
    /\ record \in [Ids -> Automations \cup {None}]
    /\ index \in [Keys -> SUBSET Ids]
    /\ used \subseteq Ids
    /\ call \in [Callers -> [op: {"none", "create", "update", "delete", "disable"},
                             id: Ids \cup {None}, new: Automations \cup {None}]]
    /\ holder \in Callers \cup {None}
    /\ old \in Automations \cup {None}
    /\ snap \subseteq Ids /\ left \subseteq [verb: {"add", "remove"}, key: Keys]
    /\ stage \in {"free", "record", "index"}
    /\ faults \in Nat

\* While nobody holds the mutex and no KV call has failed, every index lists
\* exactly the automations whose record calls for it: no trigger is missed, no
\* deleted automation counts against a quota, whatever handlers and workers do
\* at the same time.
IndexesMatchRecords ==
    holder = None /\ faults = 0 =>
        \A key \in Keys : index[key] = {i \in Ids : Listed(record[i], key)}

InChannel(ch) == {i \in Ids : record[i] # None /\ ChannelOf(record[i]) = ch}

\* Concurrent creates and updates never push a channel past the limit of
\* plugin.json:37; only a worker can, which saves, without a quota check, the
\* copy it read before an update or a delete.
OnlyDisablingExceedsQuota ==
    [][\A ch \in Channels :
          /\ Limit > 0 /\ faults = 0
          /\ Cardinality(InChannel(ch)') > Limit
          /\ Cardinality(InChannel(ch)') > Cardinality(InChannel(ch))
          => call[holder].op = "disable"]_vars

----------------------------------------------------------------------------
(* The inductive invariant.                                                *)

\* What a caller holds is what its operation needs.
CallInv ==
    \A c \in Callers :
        /\ call[c].op = "none" => call[c] = Idle
        /\ call[c] # Idle => call[c].id \in used
        /\ call[c].op \in {"create", "update", "disable"} => call[c].new \in Automations
        /\ call[c].op = "delete" => call[c].new = None

\* Only an id that was handed out has a record.
UsedInv == \A i \in Ids : record[i] # None => i \in used

\* The copies of the holder are still what the store holds.
LockInv ==
    /\ holder = None <=> stage = "free"
    /\ holder = None => left = {}
    /\ holder # None => call[holder] # Idle
    /\ stage = "record" =>
          /\ old = record[call[holder].id] /\ snap = Snapshot(holder) /\ left = {}
          /\ ~OverLimit(holder)
    /\ stage = "index" =>
          /\ record[call[holder].id] = call[holder].new
          /\ left \subseteq Edits(old, call[holder].new)
          /\ \A key \in Keys :
                /\ Remove(key) \in left /\ Listed(call[holder].new, key) => Add(key) \in left
                /\ Add(key) \in left /\ key[1] = "channel" /\ Limited(holder) => snap = index[key]

\* An index entry of the automation being saved follows the old record until
\* its turn comes, and the new record from then on.
Due(key) ==
    \/ Remove(key) \in left
    \/ Add(key) \notin left /\ Listed(call[holder].new, key)

EntriesInv ==
    faults = 0 => \A key \in Keys, i \in Ids :
        i \in index[key] <=>
            IF stage = "index" /\ i = call[holder].id THEN Due(key) ELSE Listed(record[i], key)

StoreInv == TypeOK /\ UsedInv /\ CallInv /\ LockInv /\ EntriesInv
============================================================================
