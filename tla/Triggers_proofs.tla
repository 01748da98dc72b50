--------------------------- MODULE Triggers_proofs ---------------------------
(***************************************************************************)
(* Proofs about AutomationStore, and about the hooks of Triggers that read  *)
(* it, for any ids, channels, teams, triggers, callers, hooks, events, limit *)
(* and bound on failures.                                                  *)
(***************************************************************************)
EXTENDS Triggers, FiniteSetTheorems, TLAPS

(***************************************************************************)
(* The index writes of one save.                                           *)
(***************************************************************************)

\* An entry is removed only where the old record was listed and added only
\* where the new one is to be; an entry that stays is either left alone or
\* removed and added back (store.go:198-298).
LEMMA EditsFacts ==
    ASSUME NEW a, NEW b
    PROVE  /\ Edits(a, b) \subseteq [verb: {"add", "remove"}, key: Keys]
           /\ \A key \in Keys :
                 /\ Remove(key) \in Edits(a, b) => Listed(a, key)
                 /\ Add(key) \in Edits(a, b) => Listed(b, key)
                 /\ Listed(a, key) /\ ~Listed(b, key) => Remove(key) \in Edits(a, b)
                 /\ Listed(b, key) /\ ~Listed(a, key) => Add(key) \in Edits(a, b)
                 /\ Remove(key) \in Edits(a, b) /\ Listed(b, key) => Add(key) \in Edits(a, b)
                 /\ Add(key) \in Edits(a, b) /\ Listed(a, key) => Remove(key) \in Edits(a, b)
                 /\ key[1] = "channel" /\ Remove(key) \in Edits(a, b) => ~Listed(b, key)
<1> DEFINE same(key) == key[1] \notin Rewritten /\ Listed(a, key) /\ Listed(b, key)
<1>1. \A key \in Keys : /\ Remove(key) \in Edits(a, b) <=> Listed(a, key) /\ ~same(key)
                        /\ Add(key) \in Edits(a, b) <=> Listed(b, key) /\ ~same(key)
  BY DEF Edits, Remove, Add
<1>2. Edits(a, b) \subseteq [verb: {"add", "remove"}, key: Keys]
  BY DEF Edits, Remove, Add
<1>3. QED
  BY <1>1, <1>2 DEF Rewritten

\* Every edit removes or adds one entry.
LEMMA EditCases ==
    ASSUME NEW e \in [verb: {"add", "remove"}, key: Keys]
    PROVE  \E key \in Keys : e = Remove(key) \/ e = Add(key)
BY DEF Remove, Add

\* Under one key the removal comes first; edits under different keys or with
\* different verbs are different.
LEMMA EditOrder ==
    ASSUME NEW key \in Keys, NEW other \in Keys
    PROVE  /\ ~Before(Add(key), Remove(key))
           /\ Remove(key).key = key /\ Remove(key).verb = "remove"
           /\ Add(key).key = key /\ Add(key).verb = "add"
           /\ Remove(key) # Add(other)
           /\ Remove(key) = Remove(other) => key = other
           /\ Add(key) = Add(other) => key = other
<1>1. key[1] \in Kinds
  BY DEF Keys, Kinds
<1>2. Rank[key[1]] \in Nat
  BY <1>1 DEF Rank, Kinds
<1>3. QED
  BY <1>2 DEF Before, Remove, Add

(***************************************************************************)
(* The store invariant.                                                    *)
(***************************************************************************)

\* What a caller reads or gives up under somebody else's mutex disturbs no
\* part of the invariant but its own.
LEMMA OtherCaller ==
    ASSUME StoreInv, NEW c \in Callers, c # holder,
           NEW x \in [op: {"none", "create", "update", "delete", "disable"},
                      id: Ids \cup {None}, new: Automations \cup {None}],
           call' = [call EXCEPT ![c] = x],
           x.op = "none" => x = Idle,
           x # Idle => x.id \in used',
           x.op \in {"create", "update", "disable"} => x.new \in Automations,
           x.op = "delete" => x.new = None,
           used \subseteq used', used' \subseteq Ids,
           faults' \in Nat, faults' = 0 => faults = 0,
           UNCHANGED <<record, index, lockVars>>
    PROVE  StoreInv'
<1> USE DEF lockVars
<1>1. TypeOK'
  BY DEF StoreInv, TypeOK
<1>2. CallInv'
  BY DEF StoreInv, TypeOK, CallInv
<1>3. holder # None => call'[holder] = call[holder]
  BY DEF StoreInv, TypeOK
<1>4. holder # None => /\ Limited(holder)' <=> Limited(holder)
                       /\ Snapshot(holder)' = Snapshot(holder)
                       /\ OverLimit(holder)' <=> OverLimit(holder)
  <2>1. holder' = holder /\ index' = index
    OBVIOUS
  <2>2. holder # None => Limited(holder)' = Limited(holder)
    BY <1>3, <2>1 DEF Limited
  <2>3. holder # None => Snapshot(holder)' = Snapshot(holder)
    BY <1>3, <2>1, <2>2 DEF Snapshot
  <2>4. holder # None => OverLimit(holder)' = OverLimit(holder)
    BY <1>3, <2>1, <2>2, <2>3 DEF OverLimit
  <2>5. QED
    BY <2>2, <2>3, <2>4
<1>5. LockInv'
  BY <1>3, <1>4, NoneAssumption DEF StoreInv, TypeOK, LockInv
<1>6. stage = "index" => \A key : Due(key)' <=> Due(key)
  BY <1>3 DEF Due, StoreInv, TypeOK, LockInv
<1>7. EntriesInv'
  BY <1>3, <1>6 DEF StoreInv, EntriesInv, LockInv
<1>8. UsedInv'
  BY DEF StoreInv, UsedInv
<1>9. QED
  BY <1>1, <1>2, <1>5, <1>7, <1>8 DEF StoreInv

\* Letting go of the mutex keeps the invariant when the indexes are in order
\* or a call has failed.
LEMMA Unlocked ==
    ASSUME StoreInv, Unlock, holder # None, Return(holder),
           record' \in [Ids -> Automations \cup {None}],
           index' \in [Keys -> SUBSET Ids],
           \A i \in Ids : record'[i] # None => i \in used,
           used' = used, faults' \in Nat,
           faults' = 0 => \A key \in Keys, i \in Ids : i \in index'[key] <=> Listed(record'[i], key)
    PROVE  StoreInv'
<1>1. Idle \in [op: {"none", "create", "update", "delete", "disable"},
                id: Ids \cup {None}, new: Automations \cup {None}]
  BY DEF Idle
<1>2. TypeOK'
  BY <1>1 DEF StoreInv, TypeOK, Unlock, Return
<1>3. CallInv'
  BY <1>1 DEF StoreInv, TypeOK, CallInv, Return, Idle
<1>4. LockInv'
  BY DEF LockInv, Unlock
<1>5. EntriesInv'
  BY DEF EntriesInv, Unlock
<1>6. UsedInv'
  BY DEF UsedInv
<1>7. QED
  BY <1>2, <1>3, <1>4, <1>5, <1>6 DEF StoreInv

\* The first index write is due: every entry still follows the old record.
LEMMA RecordWritten ==
    ASSUME StoreInv, stage = "record",
           record' = [record EXCEPT ![call[holder].id] = call[holder].new],
           GoOn(Edits(old, call[holder].new)), UNCHANGED <<index, used, faults>>
    PROVE  StoreInv'
<1> DEFINE i == call[holder].id
           new == call[holder].new
           edits == Edits(old, new)
<1>1. /\ holder \in Callers /\ i \in used /\ i \in Ids /\ new \in Automations \cup {None}
      /\ old = record[i] /\ snap = Snapshot(holder) /\ ~OverLimit(holder)
  <2>1. holder # None /\ holder \in Callers /\ call[holder] # Idle /\ call[holder].op # "none"
    BY DEF StoreInv, TypeOK, LockInv, CallInv
  <2>2. call[holder].id \in used
    BY <2>1 DEF StoreInv, CallInv
  <2>3. QED
    BY <2>1, <2>2 DEF StoreInv, TypeOK, LockInv
<1>2. /\ record' \in [Ids -> Automations \cup {None}] /\ record'[i] = new
      /\ \A j \in Ids : j # i => record'[j] = record[j]
      /\ \A j \in Ids : record'[j] # None => j \in used
  BY <1>1 DEF StoreInv, TypeOK, UsedInv
<1>3. faults = 0 => \A key \in Keys, j \in Ids : j \in index[key] <=> Listed(record[j], key)
  BY DEF StoreInv, EntriesInv
<1>4. CASE edits = {}
  <2>1. Unlock /\ Return(holder)
    BY <1>4 DEF GoOn
  <2>2. \A key \in Keys : Listed(old, key) <=> Listed(new, key)
    BY <1>4, EditsFacts
  <2>3. faults' = 0 => \A key \in Keys, j \in Ids : j \in index'[key] <=> Listed(record'[j], key)
    BY <1>1, <1>2, <1>3, <2>2
  <2>4. QED
    BY <1>1, <1>2, <2>1, <2>3, Unlocked, NoneAssumption DEF StoreInv, TypeOK
<1>5. CASE edits # {}
  <2>1. left' = edits /\ stage' = "index" /\ UNCHANGED <<call, holder, old, snap>>
    BY <1>5 DEF GoOn
  <2>2. edits \subseteq [verb: {"add", "remove"}, key: Keys]
    BY EditsFacts
  <2>3. TypeOK'
    BY <1>2, <2>1, <2>2 DEF StoreInv, TypeOK
  <2>4. CallInv'
    BY <2>1 DEF StoreInv, CallInv
  <2>5. ASSUME NEW key \in Keys, Add(key) \in edits, key[1] = "channel", Limited(holder)
        PROVE  snap = index[key]
    <3>1. Listed(new, key) /\ ChannelOf(new) = key[2]
      <4>1. Listed(new, key)
        BY <2>5, EditsFacts
      <4>2. QED
        BY <2>5, <4>1 DEF Listed
    <3>2. key = <<"channel", key[2]>>
      BY <2>5 DEF Keys
    <3>3. snap = index[<<"channel", ChannelOf(new)>>]
      BY <1>1, <2>5 DEF Snapshot
    <3>4. QED
      BY <3>1, <3>2, <3>3
  <2>6. LockInv'
    <3>1. Limited(holder)' <=> Limited(holder)
      BY <2>1 DEF Limited
    <3>2. \A key \in Keys : Remove(key) \in edits /\ Listed(new, key) => Add(key) \in edits
      BY EditsFacts
    <3>3. QED
      BY <1>1, <1>2, <2>1, <2>5, <3>1, <3>2 DEF StoreInv, LockInv
  <2>7. EntriesInv'
    <3>1. \A key \in Keys : Due(key)' <=> Listed(old, key)
      BY <2>1, EditsFacts DEF Due
    <3>2. QED
      BY <1>1, <1>2, <1>3, <2>1, <3>1 DEF EntriesInv
  <2>8. UsedInv'
    BY <1>2 DEF UsedInv
  <2>9. QED
    BY <2>3, <2>4, <2>6, <2>7, <2>8 DEF StoreInv
<1>6. QED
  BY <1>4, <1>5

\* One index write brings the entry it is about up to date.
LEMMA IndexWritten ==
    ASSUME StoreInv, stage = "index", NEW e \in left, \A f \in left : Before(e, f),
           index' = EditedIndex(e), GoOn(left \ {e}), UNCHANGED <<record, used, faults>>
    PROVE  StoreInv'
<1> DEFINE i == call[holder].id
           new == call[holder].new
<1>1. /\ holder \in Callers /\ holder # None /\ i \in Ids /\ new \in Automations \cup {None}
      /\ record[i] = new /\ left \subseteq Edits(old, new)
      /\ left \subseteq [verb: {"add", "remove"}, key: Keys]
  <2>1. holder # None /\ holder \in Callers /\ call[holder] # Idle /\ call[holder].op # "none"
    BY DEF StoreInv, TypeOK, LockInv, CallInv
  <2>2. call[holder].id \in used
    BY <2>1 DEF StoreInv, CallInv
  <2>3. QED
    BY <2>1, <2>2 DEF StoreInv, TypeOK, LockInv
<1>2. PICK k \in Keys : e = Remove(k) \/ e = Add(k)
  BY <1>1, EditCases
<1>3. /\ index' \in [Keys -> SUBSET Ids]
      /\ \A key \in Keys : key # k => index'[key] = index[key]
      /\ \A j \in Ids : j # i => (j \in index'[k] <=> j \in index[k])
      /\ e = Remove(k) => i \notin index'[k]
      /\ e = Add(k) => i \in index'[k]
  <2>1. CASE e = Remove(k)
    <3>1. e.key = k /\ e.verb = "remove"
      BY <2>1, EditOrder
    <3>2. index' = [index EXCEPT ![k] = index[k] \ {i}]
      BY <3>1 DEF EditedIndex
    <3>3. e # Add(k)
      BY <2>1, EditOrder
    <3>4. QED
      BY <2>1, <3>2, <3>3 DEF StoreInv, TypeOK
  <2>2. CASE e = Add(k)
    <3>1. e.key = k /\ e.verb = "add"
      BY <2>2, EditOrder
    <3>2. e.key[1] = "channel" /\ Limited(holder) => snap = index[k]
      BY <2>2, <3>1 DEF StoreInv, LockInv
    <3>3. index' = [index EXCEPT ![k] = IF i \in index[k] THEN index[k] ELSE index[k] \cup {i}]
      BY <3>1, <3>2 DEF EditedIndex
    <3>4. e # Remove(k)
      BY <2>2, EditOrder
    <3>5. QED
      BY <1>1, <2>2, <3>3, <3>4 DEF StoreInv, TypeOK
  <2>3. QED
    BY <1>2, <2>1, <2>2
<1>4. e = Add(k) => Remove(k) \notin left
  BY EditOrder
<1>5. /\ e = Add(k) => Listed(new, k)
      /\ e = Remove(k) /\ Listed(new, k) => Add(k) \in left
  BY <1>1, EditsFacts DEF StoreInv, LockInv
<1> DEFINE rest == left \ {e}
           due(key) == Remove(key) \in rest \/ (Add(key) \notin rest /\ Listed(new, key))
<1>7. faults = 0 => \A key \in Keys, j \in Ids :
         j \in index'[key] <=> IF j = i THEN due(key) ELSE Listed(record[j], key)
  <2>1. faults = 0 => \A key \in Keys, j \in Ids :
           j \in index[key] <=> IF j = i THEN Due(key) ELSE Listed(record[j], key)
    BY DEF StoreInv, EntriesInv
  <2>2. \A key \in Keys : key # k => (due(key) <=> Due(key))
    <3>1. ASSUME NEW key \in Keys, key # k
          PROVE  Remove(key) # e /\ Add(key) # e
      BY <1>2, <3>1, EditOrder
    <3>2. QED
      BY <3>1 DEF Due
  <2>3. e = Remove(k) => ~due(k)
    BY <1>5, EditOrder
  <2>4. e = Add(k) => due(k)
    BY <1>5
  <2>5. QED
    BY <1>2, <1>3, <2>1, <2>2, <2>3, <2>4
<1>8. CASE rest = {}
  <2>1. Unlock /\ Return(holder)
    BY <1>8 DEF GoOn
  <2>2. faults' = 0 => \A key \in Keys, j \in Ids : j \in index'[key] <=> Listed(record'[j], key)
    BY <1>1, <1>7, <1>8
  <2>3. QED
    BY <1>1, <1>3, <2>1, <2>2, Unlocked DEF StoreInv, TypeOK, UsedInv
<1>9. CASE rest # {}
  <2>1. left' = rest /\ stage' = "index" /\ UNCHANGED <<call, holder, old, snap>>
    BY <1>9 DEF GoOn
  <2>2. TypeOK'
    BY <1>1, <1>3, <2>1 DEF StoreInv, TypeOK
  <2>3. CallInv'
    BY <2>1 DEF StoreInv, CallInv
  <2>4. ASSUME NEW key \in Keys, Add(key) \in rest, key[1] = "channel", Limited(holder)
        PROVE  snap = index'[key]
    <3>1. snap = index[key]
      BY <2>4 DEF StoreInv, LockInv
    <3>2. Listed(new, key)
      BY <1>1, <2>4, EditsFacts
    <3>3. key # k
      BY <1>1, <1>2, <2>4, <3>2, EditsFacts
    <3>4. QED
      BY <1>3, <3>1, <3>3
  <2>5. \A key \in Keys : Remove(key) \in rest /\ Listed(new, key) => Add(key) \in rest
    BY <1>2, <1>4, EditOrder DEF StoreInv, LockInv
  <2>6. LockInv'
    <3>1. Limited(holder)' <=> Limited(holder)
      BY <2>1 DEF Limited
    <3>2. QED
      BY <1>1, <2>1, <2>4, <2>5, <3>1 DEF StoreInv, LockInv
  <2>7. EntriesInv'
    <3>1. \A key \in Keys : Due(key)' <=> due(key)
      BY <2>1 DEF Due
    <3>2. QED
      BY <1>7, <2>1, <3>1 DEF EntriesInv
  <2>8. QED
    BY <2>2, <2>3, <2>6, <2>7 DEF StoreInv, UsedInv
<1>10. QED
  BY <1>8, <1>9

\* StoreInv is inductive.
THEOREM StoreInvHolds == Spec => []StoreInv
<1> USE BoundsAssumption, NoneAssumption
<1>1. Init => StoreInv
  BY DEF Init, StoreInv, TypeOK, UsedInv, CallInv, LockInv, EntriesInv, Idle, Listed
<1>2. StoreInv /\ [Next]_vars => StoreInv'
  <2> SUFFICES ASSUME StoreInv, [Next]_vars PROVE StoreInv'
    OBVIOUS
  <2> DEFINE Calls == [op: {"none", "create", "update", "delete", "disable"},
                       id: Ids \cup {None}, new: Automations \cup {None}]
  <2>0. Idle \in Calls /\ \A c \in Callers : call[c] = Idle => c # holder
    BY DEF Idle, StoreInv, TypeOK, LockInv
  <2>1. ASSUME NEW c \in Callers, NEW i \in Ids, NEW t \in Triggers, Create(c, i, t)
        PROVE  StoreInv'
    <3>1. PICK on \in BOOLEAN : Begin(c, "create", i, [trigger |-> t, enabled |-> on])
      BY <2>1 DEF Create
    <3>2. [op |-> "create", id |-> i, new |-> [trigger |-> t, enabled |-> on]] \in Calls
      BY DEF Automations
    <3>3. QED
      BY ZenonT(60), <2>0, <2>1, <3>1, <3>2, OtherCaller DEF Create, Begin, StoreInv, TypeOK, Automations
  <2>2. ASSUME NEW c \in Callers, NEW i \in Ids, NEW t \in Triggers, Update(c, i, t)
        PROVE  StoreInv'
    <3>1. PICK on \in BOOLEAN : Begin(c, "update", i, [trigger |-> t, enabled |-> on])
      BY <2>2 DEF Update
    <3>2. [op |-> "update", id |-> i, new |-> [trigger |-> t, enabled |-> on]] \in Calls
      BY DEF Automations
    <3>3. i \in used
      BY <2>2 DEF Update, StoreInv, UsedInv
    <3>4. QED
      BY <2>0, <2>2, <3>1, <3>2, <3>3, OtherCaller DEF Update, Begin, StoreInv, TypeOK, Automations
  <2>3. ASSUME NEW c \in Callers, NEW i \in Ids, Delete(c, i)
        PROVE  StoreInv'
    <3>1. [op |-> "delete", id |-> i, new |-> None] \in Calls
      OBVIOUS
    <3>2. i \in used
      BY <2>3 DEF Delete, StoreInv, UsedInv
    <3>3. QED
      BY <2>0, <2>3, <3>1, <3>2, OtherCaller DEF Delete, Begin, StoreInv, TypeOK
  <2>4. ASSUME NEW c \in Callers, NEW i \in Ids, Disable(c, i)
        PROVE  StoreInv'
    <3>1. record[i] \in Automations /\ [record[i] EXCEPT !.enabled = FALSE] \in Automations
      BY <2>4 DEF Disable, StoreInv, TypeOK, Automations
    <3>2. [op |-> "disable", id |-> i, new |-> [record[i] EXCEPT !.enabled = FALSE]]
             \in Calls
      BY <3>1
    <3>3. i \in used
      BY <2>4 DEF Disable, StoreInv, UsedInv
    <3>4. QED
      BY <2>0, <2>4, <3>1, <3>2, <3>3, OtherCaller DEF Disable, Begin, StoreInv, TypeOK
  <2>5. ASSUME NEW c \in Callers, Acquire(c)
        PROVE  StoreInv'
    <3>1. call[c].op # "none" /\ call[c].id \in Ids
      BY <2>5 DEF Acquire, StoreInv, CallInv, TypeOK
    <3>2. Snapshot(c) \subseteq Ids
      <4>1. CASE Limited(c)
        <5>1. call[c].new \in Automations
          BY <4>1 DEF Limited, StoreInv, CallInv
        <5>2. call[c].new.trigger \in Triggers
          BY <5>1 DEF Automations
        <5>3. ChannelOf(call[c].new) \in Channels
          BY <4>1, <5>2, TriggersAssumption DEF Limited, ChannelOf, ChannelTypes, TeamTypes
        <5>4. <<"channel", ChannelOf(call[c].new)>> \in Keys
          BY <5>3 DEF Keys
        <5>5. QED
          BY <4>1, <5>4 DEF Snapshot, StoreInv, TypeOK
      <4>2. QED
        BY <4>1 DEF Snapshot
    <3>3. TypeOK'
      BY <2>5, <3>1, <3>2 DEF Acquire, StoreInv, TypeOK
    <3>4. CallInv'
      BY <2>5 DEF Acquire, StoreInv, CallInv
    <3>5. LockInv'
      <4>1. (Snapshot(holder))' = Snapshot(c) /\ (OverLimit(holder))' = OverLimit(c)
        BY <2>5 DEF Acquire, Snapshot, OverLimit, Limited
      <4>2. QED
        BY <2>5, <3>1, <4>1 DEF Acquire, StoreInv, LockInv
    <3>6. EntriesInv'
      BY <2>5 DEF Acquire, StoreInv, LockInv, EntriesInv
    <3>7. QED
      BY <2>5, <3>3, <3>4, <3>5, <3>6 DEF StoreInv, Acquire, UsedInv
  <2>6. ASSUME NEW c \in Callers, TurnAway(c)
        PROVE  StoreInv'
    <3>1. c # holder
      BY <2>6 DEF TurnAway
    <3>2. faults' \in Nat /\ (faults' = 0 => faults = 0)
      BY <2>6 DEF TurnAway, Fault, StoreInv, TypeOK
    <3>3. QED
      BY <2>0, <2>6, <3>1, <3>2, OtherCaller DEF TurnAway, Return, StoreInv, TypeOK, Idle
  <2>7. CASE WriteRecord
    <3>1. CASE /\ record' = [record EXCEPT ![call[holder].id] = call[holder].new]
               /\ GoOn(Edits(old, call[holder].new)) /\ UNCHANGED faults
      BY <2>7, <3>1, RecordWritten DEF WriteRecord
    <3>2. CASE /\ Fault /\ Unlock /\ Return(holder)
               /\ record' \in {record, [record EXCEPT ![call[holder].id] = call[holder].new]}
      <4>1. holder # None /\ holder \in Callers
        BY <2>7 DEF WriteRecord, StoreInv, TypeOK, LockInv
      <4>2. record' \in [Ids -> Automations \cup {None}]
        BY <3>2, <4>1 DEF StoreInv, TypeOK
      <4>3. faults' \in Nat /\ faults' # 0
        BY <3>2 DEF Fault, StoreInv, TypeOK
      <4>4. \A i \in Ids : record'[i] # None => i \in used
        BY <3>2, <4>1 DEF StoreInv, TypeOK, LockInv, CallInv, UsedInv
      <4>5. QED
        BY <2>7, <3>2, <4>1, <4>2, <4>3, <4>4, Unlocked DEF WriteRecord, StoreInv, TypeOK
    <3>3. QED
      BY <2>7, <3>1, <3>2 DEF WriteRecord
  <2>8. CASE WriteIndex
    <3>1. PICK e \in left :
             /\ \A f \in left : Before(e, f)
             /\ \/ index' = EditedIndex(e) /\ GoOn(left \ {e}) /\ UNCHANGED faults
                \/ Fault /\ index' \in {index, EditedIndex(e)} /\ Unlock /\ Return(holder)
      BY <2>8 DEF WriteIndex
    <3>2. CASE index' = EditedIndex(e) /\ GoOn(left \ {e}) /\ UNCHANGED faults
      BY <2>8, <3>1, <3>2, IndexWritten DEF WriteIndex
    <3>3. CASE Fault /\ index' \in {index, EditedIndex(e)} /\ Unlock /\ Return(holder)
      <4>1. holder # None /\ holder \in Callers /\ call[holder] # Idle /\ call[holder].op # "none"
        BY <2>8 DEF WriteIndex, StoreInv, TypeOK, LockInv, CallInv
      <4>2. call[holder].id \in Ids
        BY <4>1 DEF StoreInv, TypeOK, CallInv
      <4>3. EditedIndex(e) \in [Keys -> SUBSET Ids]
        BY <4>2 DEF EditedIndex, StoreInv, TypeOK
      <4>4. faults' \in Nat /\ faults' # 0
        BY <3>3 DEF Fault, StoreInv, TypeOK
      <4>5. QED
        BY <2>8, <3>3, <4>1, <4>3, <4>4, Unlocked DEF WriteIndex, StoreInv, TypeOK, UsedInv
    <3>4. QED
      BY <3>1, <3>2, <3>3
  <2>9. CASE UNCHANGED vars
    BY <2>9 DEF vars, lockVars, StoreInv, TypeOK, CallInv, LockInv, EntriesInv, UsedInv,
       Snapshot, OverLimit, Limited, Due
  <2>10. QED
    BY <2>1, <2>2, <2>3, <2>4, <2>5, <2>6, <2>7, <2>8, <2>9 DEF Next
<1>3. QED
  BY <1>1, <1>2, PTL DEF Spec

\* Without a failing KV call the indexes are in order whenever the mutex is
\* free, for any number of automations and callers (store.go:178-370).
THEOREM IndexesAlwaysMatch == Spec => []IndexesMatchRecords
<1>1. StoreInv => IndexesMatchRecords
  BY DEF StoreInv, TypeOK, LockInv, EntriesInv, IndexesMatchRecords
<1>2. QED
  BY <1>1, StoreInvHolds, PTL

(***************************************************************************)
(* The quota.                                                              *)
(***************************************************************************)

LEMMA ChannelsAreFinite ==
    \A ch \in Channels : InChannel(ch) \subseteq Ids /\ IsFiniteSet(InChannel(ch))
                         /\ Cardinality(InChannel(ch)) \in Nat
<1>1. \A ch \in Channels : InChannel(ch) \subseteq Ids
  BY DEF InChannel
<1>2. QED
  BY <1>1, IdsAssumption, FS_Subset, FS_CardinalityType

\* The write of a record by a create or an update leaves its channel within the
\* limit (SaveWithChannelLimit, store.go:136-163).
LEMMA QuotaStep ==
    ASSUME StoreInv, WriteRecord, faults = 0, Limit > 0, NEW ch \in Channels,
           call[holder].op # "disable",
           record' = [record EXCEPT ![call[holder].id] = call[holder].new]
    PROVE  \/ Cardinality(InChannel(ch)') <= Limit
           \/ Cardinality(InChannel(ch)') <= Cardinality(InChannel(ch))
<1> DEFINE i == call[holder].id
           new == call[holder].new
           others == InChannel(ch) \ {i}
<1>1. /\ holder \in Callers /\ i \in Ids /\ stage = "record"
      /\ call[holder].op \in {"create", "update", "delete"}
      /\ ~OverLimit(holder)
  <2>1. stage = "record" /\ holder # None /\ holder \in Callers /\ call[holder] # Idle
    BY DEF WriteRecord, StoreInv, TypeOK, LockInv
  <2>2. call[holder].op # "none" /\ call[holder].id \in used
    BY <2>1 DEF StoreInv, CallInv
  <2>3. QED
    BY <2>1, <2>2 DEF StoreInv, TypeOK, LockInv
<1>2. /\ record'[i] = new
      /\ \A j \in Ids : j # i => record'[j] = record[j]
  BY <1>1 DEF StoreInv, TypeOK
<1>3. IsFiniteSet(InChannel(ch)) /\ Cardinality(InChannel(ch)) \in Nat
  BY ChannelsAreFinite
<1>4. CASE new # None /\ ChannelOf(new) = ch
  <2>1. call[holder].op \in {"create", "update"}
    BY <1>1, <1>4 DEF StoreInv, CallInv
  <2>2. Limited(holder)
    BY <1>4, <2>1, NoneAssumption DEF Limited
  <2>3. Snapshot(holder) = InChannel(ch)
    <3>1. <<"channel", ch>> \in Keys /\ <<"channel", ch>>[1] = "channel" /\ <<"channel", ch>>[2] = ch
      BY DEF Keys
    <3>2. \A j \in Ids : j \in index[<<"channel", ch>>] <=> Listed(record[j], <<"channel", ch>>)
      BY <1>1, <3>1 DEF StoreInv, EntriesInv
    <3>3. \A j \in Ids : Listed(record[j], <<"channel", ch>>)
                         <=> record[j] # None /\ ChannelOf(record[j]) = ch
      BY <3>1 DEF Listed
    <3>4. index[<<"channel", ch>>] \subseteq Ids
      BY <3>1 DEF StoreInv, TypeOK
    <3>5. index[<<"channel", ch>>] = InChannel(ch)
      BY <3>2, <3>3, <3>4 DEF InChannel
    <3>6. QED
      BY <1>4, <2>2, <3>5 DEF Snapshot
  <2>4. ~(Cardinality(others) >= Limit)
    BY <1>1, <2>2, <2>3 DEF OverLimit
  <2>5. IsFiniteSet(others) /\ Cardinality(others) \in Nat
    BY <1>3, FS_Subset, FS_CardinalityType
  <2>6. InChannel(ch)' = others \cup {i}
    BY <1>1, <1>2, <1>4 DEF InChannel
  <2>7. Cardinality(others \cup {i}) = Cardinality(others) + 1
    BY <2>5, FS_AddElement
  <2>8. QED
    BY <2>4, <2>5, <2>6, <2>7, BoundsAssumption
<1>5. CASE ~(new # None /\ ChannelOf(new) = ch)
  <2>1. InChannel(ch)' \subseteq InChannel(ch)
    BY <1>2, <1>5 DEF InChannel
  <2>2. QED
    BY <1>3, <2>1, FS_Subset
<1>6. QED
  BY <1>4, <1>5

\* No race of creates and updates exceeds the quota, for any limit and any
\* number of callers: the count and the record are read and written under one
\* lock, and the count is the number of automations in the channel.
THEOREM QuotaIsGuarded == Spec => OnlyDisablingExceedsQuota
<1> DEFINE Within ==
       \A ch \in Channels :
          /\ Limit > 0 /\ faults = 0
          /\ Cardinality(InChannel(ch)') > Limit
          /\ Cardinality(InChannel(ch)') > Cardinality(InChannel(ch))
          => call[holder].op = "disable"
<1>1. StoreInv /\ StoreInv' /\ [Next]_vars => Within
  <2> SUFFICES ASSUME StoreInv, [Next]_vars, NEW ch \in Channels, Limit > 0, faults = 0,
                      Cardinality(InChannel(ch)') > Limit,
                      Cardinality(InChannel(ch)') > Cardinality(InChannel(ch))
               PROVE  call[holder].op = "disable"
    OBVIOUS
  <2>1. Cardinality(InChannel(ch)) \in Nat
    BY ChannelsAreFinite
  <2>2. CASE record' = record
    <3>1. InChannel(ch)' = InChannel(ch)
      BY <2>2 DEF InChannel
    <3>2. QED
      BY <2>1, <3>1
  <2>3. CASE record' # record
    <3>1. WriteRecord
      BY <2>3 DEF Next, vars, Create, Update, Delete, Disable, Begin, Acquire, TurnAway, WriteIndex
    <3>2. record' = [record EXCEPT ![call[holder].id] = call[holder].new]
      BY <2>3, <3>1 DEF WriteRecord
    <3>3. InChannel(ch)' \subseteq Ids
      BY DEF InChannel
    <3>4. Cardinality(InChannel(ch)') \in Nat
      BY <3>3, IdsAssumption, FS_Subset, FS_CardinalityType
    <3>5. QED
      BY <2>1, <3>1, <3>2, <3>4, QuotaStep, BoundsAssumption
  <2>4. QED
    BY <2>2, <2>3
<1>2. QED
  BY <1>1, StoreInvHolds, PTL DEF Spec, OnlyDisablingExceedsQuota

(***************************************************************************)
(* The hooks.                                                              *)
(***************************************************************************)

\* A hook only reads: under every step of hooks and store, the store takes a
\* step of its own or none.
THEOREM HooksOnlyRead == DispatchSpec => Spec
<1>1. DispatchInit => Init
  BY DEF DispatchInit
<1>2. [DispatchNext]_<<vars, hookVars>> => [Next]_vars
  BY DEF DispatchNext, StoreStep, HookStep, ListCandidates, LoadCandidate, Enqueue, Loaded,
     Tried, Leave, Goto, Drop
<1>3. QED
  BY <1>1, <1>2, PTL DEF DispatchSpec, Spec

\* Without a failed call, whoever listens to an event and is not being saved is
\* listed under the key the event is looked up with (trigger.go, dispatcher.go).
LEMMA ListenersAreIndexed ==
    ASSUME StoreInv, faults = 0, NEW e \in Events
    PROVE  Listeners(e).undisturbed \subseteq index[KeyOf(e)]
<1> SUFFICES ASSUME NEW i \in Listeners(e).undisturbed
             PROVE  i \in index[KeyOf(e)]
  OBVIOUS
<1>1. i \in Ids /\ Listens(i, e) /\ (stage = "free" \/ call[holder].id # i)
  BY DEF Listeners
<1>2. \/ e \in [type: ChannelTypes \ {"schedule"}, scope: Channels, variant: Variants]
      \/ e \in [type: TeamTypes, scope: Teams, variant: Variants]
  BY EventsAssumption
<1>3. KeyOf(e) \in Keys
  BY <1>2 DEF KeyOf, Keys, ChannelTypes, TeamTypes
<1>4. Listed(record[i], KeyOf(e))
  BY <1>1, <1>2 DEF Listens, Matches, Listed, KeyOf, ChannelTypes, TeamTypes
<1>5. QED
  BY <1>1, <1>3, <1>4 DEF StoreInv, EntriesInv

LEMMA ListenersType ==
    \A e : /\ Listeners(e) = [ever |-> Listeners(e).ever, undisturbed |-> Listeners(e).undisturbed]
           /\ Listeners(e).ever \subseteq Ids
           /\ Listeners(e).undisturbed \subseteq Listeners(e).ever
BY DEF Listeners

\* What is remembered after a step: nothing of a hook at rest, who listens now
\* of one that has just begun, and the two together of one in the middle.
LEMMA Observed ==
    ASSUME Observe, NEW h \in Hooks
    PROVE  /\ hook'[h].pc = "idle" => seen'[h] = Nobody
           /\ hook'[h].pc # "idle" /\ At(h, "idle") => seen'[h] = Listeners(hook[h].event)'
           /\ hook'[h].pc # "idle" /\ ~At(h, "idle") =>
                 /\ seen'[h] = [ever |-> seen'[h].ever, undisturbed |-> seen'[h].undisturbed]
                 /\ seen'[h].ever = seen[h].ever \cup Listeners(hook[h].event)'.ever
                 /\ seen'[h].undisturbed
                       = seen[h].undisturbed \cap Listeners(hook[h].event)'.undisturbed
BY DEF Observe, At

\* Who the hook still has to go through, has found, or has served.
LEMMA StepOfHook ==
    ASSUME DispatchInv, NEW h \in Hooks, NEW r \in HookStates,
           hook' = [hook EXCEPT ![h] = r], UNCHANGED <<vars, missed>>, Observe,
           r.pc = "idle" => r = NoEvent,
           r.pc # "idle" => r.event \in Events,
           r.pc # "idle" /\ ~At(h, "idle") => r.event = hook[h].event,
           r.pc # "idle" => r.found \cup r.given \subseteq
               IF At(h, "idle") THEN Listeners(r.event).ever
               ELSE seen[h].ever \cup Listeners(r.event).ever,
           r.pc # "idle" /\ faults = 0 =>
               (IF At(h, "idle") THEN Listeners(r.event).undisturbed
                ELSE seen[h].undisturbed \cap Listeners(r.event).undisturbed)
               \subseteq IF r.pc = "load" THEN r.todo \cup r.found ELSE r.found \cup r.given
    PROVE  DispatchInv'
<1>1. \A e : Listeners(e)' = Listeners(e)
  BY DEF Listeners, Listens, vars, lockVars
<1>2. hook \in [Hooks -> HookStates]
  BY DEF DispatchInv, HooksOK
<1>3. hook'[h] = r /\ \A g \in Hooks : g # h => hook'[g] = hook[g]
  BY <1>2
<1>4. ASSUME NEW g \in Hooks
      PROVE  /\ seen'[g] \in [ever: SUBSET Ids, undisturbed: SUBSET Ids]
             /\ hook'[g].pc = "idle" => hook'[g] = NoEvent
             /\ hook'[g].pc # "idle" => hook'[g].event \in Events
             /\ hook'[g].found \cup hook'[g].given \subseteq seen'[g].ever
             /\ hook'[g].pc # "idle" =>
                   /\ seen'[g].undisturbed \subseteq Listeners(hook'[g].event).undisturbed
                   /\ faults' = 0 => seen'[g].undisturbed \subseteq
                         IF hook'[g].pc = "load" THEN hook'[g].todo \cup hook'[g].found
                         ELSE hook'[g].found \cup hook'[g].given
  <2>1. /\ seen[g] \in [ever: SUBSET Ids, undisturbed: SUBSET Ids]
        /\ hook[g].pc = "idle" => hook[g] = NoEvent
        /\ hook[g].pc # "idle" => hook[g].event \in Events
        /\ hook[g].found \cup hook[g].given \subseteq seen[g].ever
        /\ hook[g].pc # "idle" =>
              /\ seen[g].undisturbed \subseteq Listeners(hook[g].event).undisturbed
              /\ faults = 0 => seen[g].undisturbed \subseteq
                    IF hook[g].pc = "load" THEN hook[g].todo \cup hook[g].found
                    ELSE hook[g].found \cup hook[g].given
    BY DEF DispatchInv, HooksOK, OnlyListenersRun, SteadyInv, At
  <2>2. /\ hook'[g].pc = "idle" => seen'[g] = Nobody
        /\ hook'[g].pc # "idle" /\ At(g, "idle") => seen'[g] = Listeners(hook'[g].event)
        /\ hook'[g].pc # "idle" /\ ~At(g, "idle") =>
              /\ seen'[g] = [ever |-> seen'[g].ever, undisturbed |-> seen'[g].undisturbed]
              /\ seen'[g].ever = seen[g].ever \cup Listeners(hook'[g].event).ever
              /\ seen'[g].undisturbed
                    = seen[g].undisturbed \cap Listeners(hook'[g].event).undisturbed
    BY <1>1, Observed
  <2>3. faults' = faults
    BY DEF vars
  <2>4. Listeners(hook'[g].event) \in [ever: SUBSET Ids, undisturbed: SUBSET Ids]
    BY ListenersType
  <2>5. CASE g = h
    <3>1. CASE r.pc = "idle"
      BY <1>3, <2>2, <2>5, <3>1 DEF NoEvent, Nobody
    <3>2. CASE r.pc # "idle" /\ At(h, "idle")
      BY <1>3, <2>2, <2>3, <2>4, <2>5, <3>2
    <3>3. CASE r.pc # "idle" /\ ~At(h, "idle")
      <4>1. seen'[g] \in [ever: SUBSET Ids, undisturbed: SUBSET Ids]
        BY <1>3, <2>1, <2>2, <2>4, <2>5, <3>3
      <4>2. QED
        BY <1>3, <2>2, <2>3, <2>5, <3>3, <4>1
    <3>4. QED
      BY <3>1, <3>2, <3>3
  <2>6. CASE g # h
    <3>1. CASE hook[g].pc = "idle"
      BY <1>3, <2>1, <2>2, <2>6, <3>1 DEF NoEvent, Nobody
    <3>2. CASE hook[g].pc # "idle"
      <4>1. hook'[g] = hook[g] /\ ~At(g, "idle")
        BY <1>3, <2>6, <3>2 DEF At
      <4>2. seen'[g] \in [ever: SUBSET Ids, undisturbed: SUBSET Ids]
        BY <2>1, <2>2, <2>4, <3>2, <4>1
      <4>3. QED
        BY <2>1, <2>2, <2>3, <3>2, <4>1, <4>2
    <3>3. QED
      BY <3>1, <3>2
  <2>7. QED
    BY <2>5, <2>6
<1>5. seen' \in [Hooks -> [ever: SUBSET Ids, undisturbed: SUBSET Ids]]
  <2>1. seen' = [g \in Hooks |-> seen'[g]]
    BY DEF Observe
  <2>2. QED
    BY <1>4, <2>1
<1>6. HooksOK' /\ OnlyListenersRun'
  BY <1>2, <1>4, <1>5 DEF HooksOK, OnlyListenersRun, At
<1>7. SteadyInv'
  BY <1>1, <1>4 DEF SteadyInv, At
<1>8. SteadyListenersRun'
  BY DEF DispatchInv, SteadyListenersRun
<1>9. QED
  BY <1>6, <1>7, <1>8 DEF DispatchInv

\* A hook that leaves nobody out comes to rest.
LEMMA HookLeaves ==
    ASSUME DispatchInv, NEW h \in Hooks, NEW listeners, NEW given, Leave(h, listeners, given),
           faults = 0 => listeners.undisturbed \subseteq given
    PROVE  DispatchInv'
<1>1. NoEvent \in HookStates /\ NoEvent.pc = "idle"
  BY DEF NoEvent, HookStates
<1>2. UNCHANGED missed
  BY DEF Leave
<1>3. hook' = [hook EXCEPT ![h] = NoEvent] /\ UNCHANGED vars /\ Observe
  BY DEF Leave
<1>4. QED
  BY <1>1, <1>2, <1>3, StepOfHook

\* A store step beside the hooks: only an automation that is being saved stops
\* or starts to listen.
LEMMA StepOfStore ==
    ASSUME DispatchInv, [Next]_vars, UNCHANGED <<hook, missed>>, Observe, faults \in Nat
    PROVE  DispatchInv'
<1>1. faults' = 0 => faults = 0
  <2>1. faults' = faults \/ faults' = faults + 1
    <3>1. CASE WriteRecord \/ WriteIndex
      BY <3>1 DEF WriteRecord, WriteIndex, Fault
    <3>2. ASSUME NEW c \in Callers, Acquire(c) \/ TurnAway(c)
          PROVE  faults' = faults \/ faults' = faults + 1
      BY <3>2 DEF Acquire, TurnAway, Fault
    <3>3. ASSUME NEW c \in Callers, NEW i \in Ids,
                 \/ \E t \in Triggers : Create(c, i, t) \/ Update(c, i, t)
                 \/ Delete(c, i) \/ Disable(c, i)
          PROVE  faults' = faults
      BY <3>3 DEF Create, Update, Delete, Disable, Begin
    <3>4. QED
      BY <3>1, <3>2, <3>3 DEF Next, vars
  <2>2. QED
    BY <2>1
<1>2. ASSUME NEW g \in Hooks
      PROVE  /\ seen'[g] \in [ever: SUBSET Ids, undisturbed: SUBSET Ids]
             /\ hook'[g].found \cup hook'[g].given \subseteq seen'[g].ever
             /\ hook[g].pc # "idle" =>
                   /\ seen'[g].undisturbed \subseteq seen[g].undisturbed
                   /\ seen'[g].undisturbed \subseteq Listeners(hook[g].event)'.undisturbed
  <2>1. /\ hook'[g] = hook[g] /\ seen[g] \in [ever: SUBSET Ids, undisturbed: SUBSET Ids]
        /\ hook[g].pc = "idle" => hook[g] = NoEvent
        /\ hook[g].found \cup hook[g].given \subseteq seen[g].ever
    BY DEF DispatchInv, HooksOK, OnlyListenersRun, At
  <2>2. /\ Listeners(hook[g].event)'.ever \subseteq Ids
        /\ Listeners(hook[g].event)'.undisturbed \subseteq Ids
    BY DEF Listeners
  <2>3. CASE hook[g].pc = "idle"
    <3>1. seen'[g] = Nobody
      BY <2>1, <2>3, Observed
    <3>2. hook'[g].found = {} /\ hook'[g].given = {}
      BY <2>1, <2>3 DEF NoEvent
    <3>3. QED
      BY <2>3, <3>1, <3>2 DEF Nobody
  <2>4. CASE hook[g].pc # "idle"
    <3>1. /\ seen'[g] = [ever |-> seen'[g].ever, undisturbed |-> seen'[g].undisturbed]
          /\ seen'[g].ever = seen[g].ever \cup Listeners(hook[g].event)'.ever
          /\ seen'[g].undisturbed
                = seen[g].undisturbed \cap Listeners(hook[g].event)'.undisturbed
      BY <2>1, <2>4, Observed DEF At
    <3>2. QED
      BY <2>1, <2>2, <2>4, <3>1
  <2>5. QED
    BY <2>3, <2>4
<1>3. seen' \in [Hooks -> [ever: SUBSET Ids, undisturbed: SUBSET Ids]]
  <2>1. seen' = [g \in Hooks |-> seen'[g]]
    BY DEF Observe
  <2>2. QED
    BY <1>2, <2>1
<1>4. HooksOK' /\ OnlyListenersRun'
  BY <1>2, <1>3 DEF DispatchInv, HooksOK, OnlyListenersRun, At
<1>5. SteadyInv'
  <2> SUFFICES ASSUME NEW g \in Hooks, hook[g].pc # "idle"
               PROVE  /\ seen'[g].undisturbed \subseteq Listeners(hook[g].event)'.undisturbed
                      /\ faults' = 0 => seen'[g].undisturbed \subseteq
                            IF hook[g].pc = "load" THEN hook[g].todo \cup hook[g].found
                            ELSE hook[g].found \cup hook[g].given
    BY DEF SteadyInv, At
  <2>1. faults = 0 => seen[g].undisturbed \subseteq
            IF hook[g].pc = "load" THEN hook[g].todo \cup hook[g].found
            ELSE hook[g].found \cup hook[g].given
    BY DEF DispatchInv, SteadyInv, At
  <2>2. QED
    BY <1>1, <1>2, <2>1
<1>6. SteadyListenersRun'
  BY DEF DispatchInv, SteadyListenersRun
<1>7. QED
  BY <1>4, <1>5, <1>6 DEF DispatchInv

LEMMA ListingStep ==
    ASSUME DispatchInv, StoreInv, NEW h \in Hooks, NEW e \in Events, ListCandidates(h, e)
    PROVE  DispatchInv'
<1> DEFINE ids == index[KeyOf(e)]
<1>1. faults = 0 => Listeners(e).undisturbed \subseteq ids
  BY ListenersAreIndexed
<1>2. CASE ids = {}
  <2>1. Leave(h, Listeners(e), {})
    BY <1>2 DEF ListCandidates
  <2>2. QED
    BY <1>1, <1>2, <2>1, HookLeaves
<1>3. CASE ids # {}
  <2>1. Goto(h, [NoEvent EXCEPT !.pc = "load", !.event = e, !.todo = ids])
    BY <1>3 DEF ListCandidates
  <2>2. PICK r : r = [NoEvent EXCEPT !.pc = "load", !.event = e, !.todo = ids]
    OBVIOUS
  <2>3. r = [pc |-> "load", event |-> e, todo |-> ids, found |-> {}, given |-> {}]
    BY <2>2 DEF NoEvent
  <2>4. KeyOf(e) \in Keys
    BY EventsAssumption DEF KeyOf, Keys, ChannelTypes, TeamTypes
  <2>5. r \in HookStates
    BY <2>3, <2>4 DEF HookStates, StoreInv, TypeOK
  <2>6. At(h, "idle")
    BY DEF ListCandidates
  <2>7. hook' = [hook EXCEPT ![h] = r] /\ UNCHANGED <<vars, missed>> /\ Observe
    BY <2>1, <2>2 DEF Goto
  <2>8. QED
    BY <1>1, <2>3, <2>5, <2>6, <2>7, StepOfHook
<1>4. QED
  BY <1>2, <1>3

LEMMA DropStep ==
    ASSUME DispatchInv, NEW h \in Hooks, Drop(h)
    PROVE  DispatchInv'
<1>1. NoEvent \in HookStates /\ NoEvent.pc = "idle"
  BY DEF NoEvent, HookStates
<1>2. hook' = [hook EXCEPT ![h] = NoEvent] /\ UNCHANGED <<vars, missed>> /\ Observe
  BY DEF Drop, Goto
<1>3. QED
  BY <1>1, <1>2, StepOfHook

\* A candidate that listened undisturbed so far listens when its record is read.
LEMMA LoadingStep ==
    ASSUME DispatchInv, NEW h \in Hooks, At(h, "load"), NEW i \in hook[h].todo,
           Loaded(h, hook[h].todo \ {i},
                  hook[h].found \cup (IF Listens(i, hook[h].event) THEN {i} ELSE {}))
    PROVE  DispatchInv'
<1> DEFINE e == hook[h].event
           rest == hook[h].todo \ {i}
           found == hook[h].found \cup (IF Listens(i, e) THEN {i} ELSE {})
           now == seen[h].undisturbed \cap Listeners(e).undisturbed
<1>1. /\ hook[h] \in HookStates /\ e \in Events /\ i \in Ids
      /\ hook[h].found \cup hook[h].given \subseteq seen[h].ever
      /\ seen[h].undisturbed \subseteq Listeners(e).undisturbed
      /\ faults = 0 => seen[h].undisturbed \subseteq hook[h].todo \cup hook[h].found
  BY DEF DispatchInv, HooksOK, HookStates, OnlyListenersRun, SteadyInv, At
<1>2. found \subseteq Ids /\ found \subseteq seen[h].ever \cup Listeners(e).ever
  BY <1>1 DEF Listeners, HookStates
<1>3. i \in Listeners(e).undisturbed => i \in found
  BY DEF Listeners
<1>4. faults = 0 => seen[h].undisturbed \subseteq rest \cup found
  BY <1>1, <1>3
<1>5. CASE rest = {} /\ found = {}
  <2>1. Leave(h, seen[h], {})
    BY <1>5 DEF Loaded
  <2>2. QED
    BY <1>4, <1>5, <2>1, HookLeaves
<1>6. CASE ~(rest = {} /\ found = {})
  <2>1. PICK r : r = [hook[h] EXCEPT !.pc = IF rest = {} THEN "enqueue" ELSE "load",
                                     !.todo = rest, !.found = found]
    OBVIOUS
  <2>2. Goto(h, r)
    BY <1>6, <2>1 DEF Loaded
  <2> HIDE DEF rest, found, e
  <2>3. PICK p \in {"enqueue", "load"} : p = IF rest = {} THEN "enqueue" ELSE "load"
    OBVIOUS
  <2>4. /\ r.pc = p /\ r.event = hook[h].event /\ r.todo = rest /\ r.found = found
        /\ r.given = hook[h].given
        /\ r = [pc |-> p, event |-> hook[h].event, todo |-> rest, found |-> found,
                given |-> hook[h].given]
    BY <1>1, <2>1, <2>3 DEF HookStates
  <2>5. rest \subseteq Ids
    BY <1>1 DEF rest, HookStates
  <2>6. r \in HookStates
    BY <1>1, <1>2, <2>4, <2>5 DEF HookStates, e
  <2>7. r.event = e /\ ~At(h, "idle") /\ r.pc # "idle"
    BY <2>3, <2>4 DEF e, At
  <2>8. r.found \cup r.given \subseteq seen[h].ever \cup Listeners(r.event).ever
    BY <1>1, <1>2, <2>4, <2>7
  <2>9. faults = 0 => seen[h].undisturbed \cap Listeners(r.event).undisturbed
            \subseteq IF r.pc = "load" THEN r.todo \cup r.found ELSE r.found \cup r.given
    BY <1>4, <2>3, <2>4
  <2>10. hook' = [hook EXCEPT ![h] = r] /\ UNCHANGED <<vars, missed>> /\ Observe
    BY <2>2 DEF Goto
  <2>11. r.event \in Events /\ r.event = hook[h].event
    BY <1>1, <2>4, <2>7
  <2>12. QED
    BY <2>6, <2>7, <2>8, <2>9, <2>10, <2>11, StepOfHook
<1>7. QED
  BY <1>5, <1>6

LEMMA EnqueueStep ==
    ASSUME DispatchInv, NEW h \in Hooks, Enqueue(h)
    PROVE  DispatchInv'
<1>1. PICK i \in hook[h].found : Tried(h, i, hook[h].found \ {i})
  BY DEF Enqueue
<1> DEFINE rest == hook[h].found \ {i}
           given == hook[h].given \cup {i}
<1>2. At(h, "enqueue")
  BY DEF Enqueue
<1>3. /\ hook[h] \in HookStates /\ hook[h].event \in Events
      /\ hook[h].found \cup hook[h].given \subseteq seen[h].ever
      /\ faults = 0 => seen[h].undisturbed \subseteq hook[h].found \cup hook[h].given
  BY <1>2 DEF DispatchInv, HooksOK, OnlyListenersRun, SteadyInv, At
<1>4. rest \cup given = hook[h].found \cup hook[h].given
  BY <1>1
<1>5. CASE rest = {}
  <2>1. Leave(h, seen[h], given)
    BY <1>1, <1>5 DEF Tried
  <2>2. QED
    BY <1>3, <1>4, <1>5, <2>1, HookLeaves
<1>6. CASE rest # {}
  <2>1. PICK r : r = [hook[h] EXCEPT !.found = rest, !.given = given]
    OBVIOUS
  <2>2. Goto(h, r)
    BY <1>1, <1>6, <2>1 DEF Tried
  <2>3. /\ r.pc = "enqueue" /\ r.event = hook[h].event /\ r.found = rest /\ r.given = given
        /\ r \in HookStates
    BY <1>1, <1>2, <1>3, <2>1 DEF At, HookStates
  <2>4. ~At(h, "idle")
    BY <1>2 DEF At
  <2>5. r.found \cup r.given \subseteq seen[h].ever \cup Listeners(r.event).ever
    BY <1>3, <1>4, <2>3
  <2>6. faults = 0 => seen[h].undisturbed \cap Listeners(r.event).undisturbed
                      \subseteq r.found \cup r.given
    BY <1>3, <1>4, <2>3
  <2>7. hook' = [hook EXCEPT ![h] = r] /\ UNCHANGED <<vars, missed>> /\ Observe
    BY <2>2 DEF Goto
  <2>8. QED
    BY <1>3, <2>3, <2>4, <2>5, <2>6, <2>7, StepOfHook
<1>7. QED
  BY <1>5, <1>6

\* The invariant of the hooks, for any number of hooks beside any number of
\* callers that save.
THEOREM DispatchInvHolds == DispatchSpec => []DispatchInv
<1>1. DispatchInit => DispatchInv
  BY DEF DispatchInit, DispatchInv, HooksOK, HookStates, OnlyListenersRun, SteadyInv,
     SteadyListenersRun, NoEvent, Nobody, At
<1>2. StoreInv /\ DispatchInv /\ [DispatchNext]_<<vars, hookVars>> => DispatchInv'
  <2> SUFFICES ASSUME StoreInv, DispatchInv, [DispatchNext]_<<vars, hookVars>>
               PROVE  DispatchInv'
    OBVIOUS
  <2>1. CASE StoreStep
    BY <2>1, StepOfStore DEF StoreStep, StoreInv, TypeOK
  <2>2. ASSUME NEW h \in Hooks, HookStep(h)
        PROVE  DispatchInv'
    <3>1. CASE LoadCandidate(h)
      BY <3>1, LoadingStep, DropStep DEF LoadCandidate
    <3>2. CASE Enqueue(h)
      BY <3>2, EnqueueStep
    <3>3. QED
      BY <2>2, <3>1, <3>2 DEF HookStep
  <2>3. ASSUME NEW h \in Hooks, NEW e \in Events, ListCandidates(h, e)
        PROVE  DispatchInv'
    BY <2>3, ListingStep
  <2>4. CASE UNCHANGED <<vars, hookVars>>
    BY <2>4 DEF vars, lockVars, hookVars, DispatchInv, HooksOK, OnlyListenersRun, SteadyInv,
       SteadyListenersRun, At, Listeners, Listens
  <2>5. QED
    BY <2>1, <2>2, <2>3, <2>4 DEF DispatchNext
<1>3. DispatchSpec => []StoreInv
  BY HooksOnlyRead, StoreInvHolds, PTL
<1>4. QED
  BY <1>1, <1>2, <1>3, PTL DEF DispatchSpec

\* While hooks dispatch, too, every index lists what the records ask for
\* whenever the mutex is free (store.go:178-370).
THEOREM IndexesMatchDuringDispatch == DispatchSpec => []IndexesMatchRecords
BY HooksOnlyRead, IndexesAlwaysMatch, PTL

\* The quota holds beside the hooks, too (SaveWithChannelLimit, store.go:136-163).
THEOREM QuotaIsGuardedDuringDispatch == DispatchSpec => OnlyDisablingExceedsQuota
BY HooksOnlyRead, QuotaIsGuarded

\* Nobody who listens all the time, undisturbed, is left without an item, for
\* any interleaving of the reads of a dispatch with saves of others
\* (dispatcher.go, trigger.go).
THEOREM SteadyListenersAlwaysRun == DispatchSpec => []SteadyListenersRun
<1>1. DispatchInv => SteadyListenersRun
  BY DEF DispatchInv
<1>2. QED
  BY <1>1, DispatchInvHolds, PTL

\* However stale the index, only who did listen during the dispatch gets an
\* item, with failing calls too.
THEOREM OnlyListenersEverRun == DispatchSpec => []OnlyListenersRun
<1>1. DispatchInv => OnlyListenersRun
  BY DEF DispatchInv
<1>2. QED
  BY <1>1, DispatchInvHolds, PTL
============================================================================
