-------------------------- MODULE WorkQueue_proofs --------------------------
(***************************************************************************)
(* Proofs about WorkQueue for any items, nodes, slots and bounds.          *)
(***************************************************************************)
EXTENDS WorkQueue, SequenceTheorems, FiniteSetTheorems, TLAPS

(***************************************************************************)
(* Lists of ids.                                                           *)
(***************************************************************************)

\* Appending an id adds it to the list's ids; the list stays without repeats
\* when the id is not in it yet (appendToIndex, store.go:297-307).
LEMMA AppendFacts ==
    ASSUME NEW S, NEW s \in Seq(S), NEW e \in S
    PROVE  /\ Append(s, e) \in Seq(S)
           /\ Elems(Append(s, e)) = Elems(s) \cup {e}
           /\ NoRepeats(s) /\ e \notin Elems(s) => NoRepeats(Append(s, e))
BY DEF Elems, NoRepeats

\* Popping a list yields one of its ids, and leaves no other copy of it when
\* the list has no repeats (ClaimNext, store.go:92-93).
LEMMA PopFacts ==
    ASSUME NEW S, NEW s \in Seq(S), s # <<>>
    PROVE  /\ Head(s) \in S /\ Tail(s) \in Seq(S)
           /\ Head(s) \in Elems(s)
           /\ Elems(Tail(s)) \subseteq Elems(s)
           /\ NoRepeats(s) => NoRepeats(Tail(s)) /\ Head(s) \notin Elems(Tail(s))
BY DEF Elems, NoRepeats

\* Taking the first id of a sequence loses no other.
LEMMA PopElems ==
    ASSUME NEW S, NEW s \in Seq(S), s # <<>>
    PROVE  Elems(s) = Elems(Tail(s)) \cup {Head(s)}
<1>1. Elems(Tail(s)) \cup {Head(s)} \subseteq Elems(s)
  BY PopFacts
<1>2. ASSUME NEW k \in 1..Len(s)
      PROVE  s[k] = Head(s) \/ s[k] \in Elems(Tail(s))
  <2>1. CASE k = 1
    BY <2>1
  <2>2. CASE k # 1
    <3>1. k - 1 \in 1..Len(Tail(s)) /\ Tail(s)[k - 1] = s[k]
      BY <2>2
    <3>2. QED
      BY <3>1 DEF Elems
  <2>3. QED
    BY <2>1, <2>2
<1>3. QED
  BY <1>1, <1>2 DEF Elems

\* The ids of a concatenation.
LEMMA ConcatFacts ==
    ASSUME NEW S, NEW s \in Seq(S), NEW t \in Seq(S)
    PROVE  /\ s \o t \in Seq(S)
           /\ Elems(s \o t) = Elems(s) \cup Elems(t)
<1>1. /\ s \o t \in Seq(S)
      /\ Len(s \o t) = Len(s) + Len(t)
      /\ \A k \in 1..Len(s) + Len(t) :
            (s \o t)[k] = IF k <= Len(s) THEN s[k] ELSE t[k - Len(s)]
  BY ConcatProperties
<1>2. Elems(s \o t) \subseteq Elems(s) \cup Elems(t)
  BY <1>1 DEF Elems
<1>3. Elems(s) \subseteq Elems(s \o t)
  BY <1>1 DEF Elems
<1>4. ASSUME NEW k \in DOMAIN t PROVE t[k] \in Elems(s \o t)
  <2>1. k + Len(s) \in DOMAIN (s \o t) /\ (s \o t)[k + Len(s)] = t[k]
    BY <1>1
  <2>2. QED
    BY <2>1 DEF Elems
<1>5. QED
  BY <1>1, <1>2, <1>3, <1>4 DEF Elems

\* Putting an id back in front (the roll-back of ClaimNext, store.go:133, 149).
LEMMA PushFacts ==
    ASSUME NEW S, NEW s \in Seq(S), NEW e \in S
    PROVE  /\ <<e>> \o s \in Seq(S)
           /\ Elems(<<e>> \o s) = Elems(s) \cup {e}
           /\ NoRepeats(s) /\ e \notin Elems(s) => NoRepeats(<<e>> \o s)
<1>1. PICK one \in Seq(S) : one = <<e>>
  <2>1. <<e>> \in Seq(S)
    OBVIOUS
  <2>2. QED
    BY <2>1, Zenon
<1>2. /\ <<e>> \o s \in Seq(S)
      /\ Elems(<<e>> \o s) = Elems(s) \cup {e}
  <2>1. Elems(one) = {e}
    <3>1. Len(one) = 1 /\ one[1] = e
      BY <1>1
    <3>2. QED
      BY <3>1 DEF Elems
  <2>2. one \o s \in Seq(S) /\ Elems(one \o s) = Elems(one) \cup Elems(s)
    BY ConcatFacts, Zenon
  <2>3. QED
    BY <1>1, <2>1, <2>2, Zenon
<1>3. /\ Len(<<e>> \o s) = 1 + Len(s)
      /\ \A k \in 1..1 + Len(s) : (<<e>> \o s)[k] = IF k <= 1 THEN e ELSE s[k - 1]
  BY ConcatProperties
<1>4. ASSUME NoRepeats(s), e \notin Elems(s) PROVE NoRepeats(<<e>> \o s)
  <2> DEFINE r == <<e>> \o s
  <2>1. SUFFICES ASSUME NEW j \in 1..1 + Len(s), NEW k \in 1..1 + Len(s), r[j] = r[k]
                 PROVE  j = k
    BY <1>2, <1>3 DEF NoRepeats
  <2>2. \A p \in 1..1 + Len(s) : p # 1 => p - 1 \in DOMAIN s /\ r[p] = s[p - 1]
    BY <1>3
  <2>3. \A p \in DOMAIN s : s[p] # e
    BY <1>4 DEF Elems
  <2>4. r[1] = e
    BY <1>3
  <2>5. CASE j # 1 /\ k # 1
    BY <1>4, <2>1, <2>2, <2>5 DEF NoRepeats
  <2>6. QED
    BY <2>1, <2>2, <2>3, <2>4, <2>5
<1>5. QED
  BY <1>2, <1>4

\* The empty list.
LEMMA EmptyFacts == <<>> \in Seq(Items) /\ Elems(<<>>) = {} /\ NoRepeats(<<>>)
BY DEF Elems, NoRepeats

\* What letting go of the mutex leaves behind (defer indexMu.Unlock()).
LEMMA ReleaseFacts ==
    Release => /\ owner' = None /\ stage' = "free" /\ cur' = None /\ todo' = {}
               /\ moved' \in Seq(Items) /\ Elems(moved') = {}
BY EmptyFacts, Zenon DEF Release

\* What de-duplication returns (ResetRunningToPending, store.go:236-244).
LEMMA DedupeFacts ==
    ASSUME NEW d \in Lists, NEW s, Dedupes(d, s)
    PROVE  /\ d \in Seq(Items)
           /\ Elems(d) = Elems(s)
           /\ NoRepeats(d)
BY DEF Lists, Dedupes

(***************************************************************************)
(* The index invariant.                                                    *)
(***************************************************************************)

\* IndexInv is inductive.
THEOREM IndexInvHolds == Spec => []IndexInv
<1> USE ItemsAssumption, NodesAssumption, BoundsAssumption
<1>1. Init => IndexInv
  BY EmptyFacts DEF Init, IndexInv, TypeOK, LockInv, FreshInv, ClaimInv, PendingHasNoRepeats,
     ClaimStages, ResetStages
<1>2. IndexInv /\ [Next]_vars => IndexInv'
  <2> USE DEF IndexInv, TypeOK, LockInv, FreshInv, ClaimInv, PendingHasNoRepeats,
         ClaimStages, ResetStages, Fault, At, claimVars, poolVars, hookVars, envVars
  <2>1. ASSUME IndexInv, NEW i \in Items, NEW n \in Nodes, EnqueueSave(i, n) PROVE IndexInv'
    <3>1. TypeOK'
      <4>1. record' \in [Items -> {"none", "pending", "running"}]
        <5>1. record' \in {record, [record EXCEPT ![i] = "pending"]}
          BY <2>1 DEF EnqueueSave
        <5>2. record \in [Items -> {"none", "pending", "running"}]
          BY <2>1
        <5>3. QED
          BY <5>1, <5>2
      <4>1a. faults' \in Nat /\ crashes' \in Nat
        BY <2>1 DEF EnqueueSave
      <4>2. /\ enq' \in [Items -> {"new", "saved", "queued", "rejected"}]
            /\ home' \in [Items -> Nodes \cup {None}]
        BY <2>1 DEF EnqueueSave
      <4>3. UNCHANGED <<pending, running, owner, stage, cur, todo, moved, node, wpc, job>>
        BY <2>1 DEF EnqueueSave
      <4>4. QED
        BY <2>1, <4>1, <4>1a, <4>2, <4>3
    <3>2. LockInv'
      BY <2>1 DEF EnqueueSave
    <3>3. FreshInv'
      BY <2>1 DEF EnqueueSave
    <3>4. ClaimInv'
      BY <2>1 DEF EnqueueSave
    <3>5. PendingHasNoRepeats'
      BY <2>1 DEF EnqueueSave
    <3>6. QED
      BY <3>1, <3>2, <3>3, <3>4, <3>5 DEF IndexInv
  <2>2. ASSUME IndexInv, NEW i \in Items, EnqueueIndex(i) PROVE IndexInv'
    <3>a. /\ enq[i] = "saved" /\ owner = None
          /\ UNCHANGED <<record, running, owner, stage, cur, todo, moved, node, home, wpc, job>>
          /\ faults' \in Nat /\ crashes' \in Nat
      BY <2>2 DEF EnqueueIndex
    <3>b. \/ pending' = pending /\ enq' = [enq EXCEPT ![i] = "rejected"]
          \/ pending' = Append(pending, i) /\ enq' = [enq EXCEPT ![i] = "queued"]
      BY <2>2 DEF EnqueueIndex
    <3>c. i \notin Elems(pending) /\ pending \in Seq(Items) /\ NoRepeats(pending)
      BY <2>2, <3>a
    <3>d. /\ pending' \in Seq(Items)
          /\ Elems(pending') \subseteq Elems(pending) \cup {i}
          /\ enq'[i] # "queued" => pending' = pending
          /\ NoRepeats(pending')
      <4>1. CASE pending' = pending /\ enq' = [enq EXCEPT ![i] = "rejected"]
        BY <3>c, <4>1
      <4>2. CASE pending' = Append(pending, i) /\ enq' = [enq EXCEPT ![i] = "queued"]
        <5>1. /\ Append(pending, i) \in Seq(Items)
              /\ Elems(Append(pending, i)) = Elems(pending) \cup {i}
              /\ NoRepeats(Append(pending, i))
          BY <3>c, AppendFacts
        <5>2. enq'[i] = "queued"
          BY <2>2, <4>2
        <5>3. QED
          BY <4>2, <5>1, <5>2, Zenon
      <4>3. QED
        BY <3>b, <4>1, <4>2
    <3>e. enq' \in [Items -> {"new", "saved", "queued", "rejected"}] /\ \A k \in Items : k # i => enq'[k] = enq[k]
      BY <2>2, <3>b
    <3>1. TypeOK'
      BY <2>2, <3>a, <3>c, <3>d, <3>e
    <3>2. LockInv'
      BY <2>2, <3>a, <3>c, <3>d, <3>e
    <3>3. FreshInv'
      BY <2>2, <3>a, <3>c, <3>d, <3>e
    <3>4. ClaimInv'
      BY <2>2, <3>a, <3>c, <3>d, <3>e
    <3>5. PendingHasNoRepeats'
      BY <2>2, <3>a, <3>c, <3>d, <3>e
    <3>6. QED
      BY <3>1, <3>2, <3>3, <3>4, <3>5 DEF IndexInv
  <2>3. ASSUME IndexInv, NEW n \in Nodes, ClaimPop(n) PROVE IndexInv'
    <3>0. pending # <<>> =>
            /\ Head(pending) \in Items /\ Tail(pending) \in Seq(Items)
            /\ Head(pending) \in Elems(pending)
            /\ Elems(Tail(pending)) \subseteq Elems(pending)
            /\ NoRepeats(Tail(pending)) /\ Head(pending) \notin Elems(Tail(pending))
      BY <2>3, PopFacts
    <3>a. /\ owner = None \/ stage = "pop"
          /\ UNCHANGED <<record, running, node, enq, home, wpc, job>>
          /\ faults' \in Nat /\ crashes' \in Nat
      BY <2>3 DEF ClaimPop
    <3>b. pending' = pending \/ (pending # <<>> /\ pending' = Tail(pending))
      BY <2>3 DEF ClaimPop
    <3>c. \/ Release
          \/ /\ owner' = n /\ stage' = "get" /\ UNCHANGED <<todo, moved>>
             /\ pending # <<>> /\ pending' = Tail(pending) /\ cur' = Head(pending)
      BY <2>3 DEF ClaimPop
    <3>d. /\ pending' \in Seq(Items)
          /\ Elems(pending') \subseteq Elems(pending)
          /\ NoRepeats(pending')
      <4>1. pending \in Seq(Items) /\ NoRepeats(pending)
        BY <2>3
      <4>2. QED
        BY <4>1, <3>0, <3>b, Zenon
    <3>e. \/ Release
          \/ /\ owner' = n /\ stage' = "get" /\ UNCHANGED <<todo, moved>>
             /\ cur' \in Items /\ cur' \in Elems(pending) /\ cur' \notin Elems(pending')
      BY <3>0, <3>c, Zenon
    <3>1. TypeOK'
      BY <2>3, <3>a, <3>d, <3>e, ReleaseFacts
    <3>2. LockInv'
      BY <2>3, <3>a, <3>d, <3>e, ReleaseFacts
    <3>3. FreshInv'
      BY <2>3, <3>a, <3>d, <3>e, ReleaseFacts
    <3>4. ClaimInv'
      BY <2>3, <3>a, <3>d, <3>e, ReleaseFacts
    <3>5. PendingHasNoRepeats'
      BY <2>3, <3>a, <3>d, <3>e, ReleaseFacts
    <3>6. QED
      BY <3>1, <3>2, <3>3, <3>4, <3>5 DEF IndexInv
  <2>4. ASSUME IndexInv, ClaimGet PROVE IndexInv'
    <3>1. TypeOK'
      BY <2>4, ReleaseFacts DEF ClaimGet
    <3>2. LockInv'
      BY <2>4, ReleaseFacts DEF ClaimGet
    <3>3. FreshInv'
      BY <2>4, ReleaseFacts DEF ClaimGet
    <3>4. ClaimInv'
      BY <2>4, ReleaseFacts DEF ClaimGet
    <3>5. PendingHasNoRepeats'
      BY <2>4, ReleaseFacts DEF ClaimGet
    <3>6. QED
      BY <3>1, <3>2, <3>3, <3>4, <3>5 DEF IndexInv
  <2>5. ASSUME IndexInv, ClaimMark PROVE IndexInv'
    <3>1. TypeOK'
      <4>1. cur \in Items /\ record' \in {record, [record EXCEPT ![cur] = "running"]}
        BY <2>5 DEF ClaimMark
      <4>2. record' \in [Items -> {"none", "pending", "running"}]
        BY <2>5, <4>1
      <4>3. CASE Release
        BY <2>5, <4>2, <4>3, ReleaseFacts DEF ClaimMark
      <4>4. CASE stage' = "index" /\ UNCHANGED <<owner, cur, todo, moved, envVars>>
        BY <2>5, <4>2, <4>4 DEF ClaimMark
      <4>5. QED
        BY <2>5, <4>3, <4>4 DEF ClaimMark
    <3>2. LockInv'
      BY <2>5, ReleaseFacts DEF ClaimMark
    <3>3. FreshInv'
      BY <2>5, ReleaseFacts DEF ClaimMark
    <3>4. ClaimInv'
      BY <2>5, ReleaseFacts DEF ClaimMark
    <3>5. PendingHasNoRepeats'
      BY <2>5, ReleaseFacts DEF ClaimMark
    <3>6. QED
      BY <3>1, <3>2, <3>3, <3>4, <3>5 DEF IndexInv
  <2>6. ASSUME IndexInv, ClaimIndex PROVE IndexInv'
    <3>a. /\ stage = "index"
          /\ UNCHANGED <<record, pending, node, enq, home>>
          /\ running' \in {running, running \cup {cur}}
          /\ faults' \in Nat /\ crashes' \in Nat
      BY <2>6 DEF ClaimIndex
    <3>b. \/ Release
          \/ stage' = "undoRecord" /\ UNCHANGED <<owner, cur, todo, moved>>
      BY <2>6 DEF ClaimIndex
    <3>c. /\ wpc' \in [Workers -> {"idle", "executing", "unindexing", "reporting", "unindexingAgain"}]
          /\ job' \in [Workers -> Items \cup {None}]
          /\ \A w \in Workers : job'[w] \in {job[w], cur}
      <4>1. CASE UNCHANGED poolVars
        BY <2>6, <4>1
      <4>2. CASE \E s \in Slots : /\ wpc' = [wpc EXCEPT ![<<owner, s>>] = "executing"]
                                  /\ job' = [job EXCEPT ![<<owner, s>>] = cur]
        <5>1. PICK s \in Slots : /\ wpc' = [wpc EXCEPT ![<<owner, s>>] = "executing"]
                                 /\ job' = [job EXCEPT ![<<owner, s>>] = cur]
          BY <4>2
        <5>2. wpc \in [Workers -> {"idle", "executing", "unindexing", "reporting", "unindexingAgain"}] /\ cur \in Items
              /\ job \in [Workers -> Items \cup {None}]
          BY <2>6, <3>a
        <5>3. QED
          BY <5>1, <5>2
      <4>3. QED
        BY <2>6, <4>1, <4>2 DEF ClaimIndex
    <3>1. TypeOK'
      BY <2>6, <3>a, <3>b, <3>c, ReleaseFacts
    <3>2. LockInv'
      BY <2>6, <3>a, <3>b, <3>c, ReleaseFacts
    <3>3. FreshInv'
      BY <2>6, <3>a, <3>b, <3>c, ReleaseFacts
    <3>4. ClaimInv'
      BY <2>6, <3>a, <3>b, <3>c, ReleaseFacts
    <3>5. PendingHasNoRepeats'
      BY <2>6, <3>a, <3>b, <3>c, ReleaseFacts
    <3>6. QED
      BY <3>1, <3>2, <3>3, <3>4, <3>5 DEF IndexInv
  <2>7. ASSUME IndexInv, ClaimUndoRecord PROVE IndexInv'
    <3>1. TypeOK'
      <4>1. record' \in [Items -> {"none", "pending", "running"}]
        <5>1. record' \in {record, [record EXCEPT ![cur] = "pending"]}
          BY <2>7 DEF ClaimUndoRecord
        <5>2. record \in [Items -> {"none", "pending", "running"}]
          BY <2>7
        <5>3. QED
          BY <5>1, <5>2
      <4>2. faults' \in Nat /\ crashes' \in Nat /\ stage' = "undoIndex"
        BY <2>7 DEF ClaimUndoRecord
      <4>3. UNCHANGED <<pending, running, owner, cur, todo, moved, node, enq, home, wpc, job>>
        BY <2>7 DEF ClaimUndoRecord
      <4>4. QED
        BY <2>7, <4>1, <4>2, <4>3
    <3>2. LockInv' /\ FreshInv' /\ ClaimInv' /\ PendingHasNoRepeats'
      BY <2>7 DEF ClaimUndoRecord
    <3>3. QED
      BY <3>1, <3>2
  <2>8. ASSUME IndexInv, ClaimUndoIndex PROVE IndexInv'
    <3>a. /\ stage = "undoIndex" /\ Release
          /\ UNCHANGED <<record, running, node, enq, home, wpc, job>>
          /\ faults' \in Nat /\ crashes' \in Nat
      BY <2>8 DEF ClaimUndoIndex
    <3>b. cur \in Items /\ cur \notin Elems(pending) /\ pending \in Seq(Items) /\ NoRepeats(pending)
      BY <2>8, <3>a
    <3>c. /\ pending' \in Seq(Items)
          /\ Elems(pending') \subseteq Elems(pending) \cup {cur}
          /\ NoRepeats(pending')
      <4>1. pending' = pending \/ pending' = <<cur>> \o pending
        BY <2>8 DEF ClaimUndoIndex
      <4>2. /\ <<cur>> \o pending \in Seq(Items)
            /\ Elems(<<cur>> \o pending) = Elems(pending) \cup {cur}
            /\ NoRepeats(<<cur>> \o pending)
        BY <3>b, PushFacts
      <4>3. QED
        BY <3>b, <4>1, <4>2, Zenon
    <3>1. TypeOK'
      BY <2>8, <3>a, <3>b, <3>c, ReleaseFacts
    <3>2. LockInv'
      BY <2>8, <3>a, <3>b, <3>c, ReleaseFacts
    <3>3. FreshInv'
      BY <2>8, <3>a, <3>b, <3>c, ReleaseFacts
    <3>4. ClaimInv'
      BY <2>8, <3>a, <3>b, <3>c, ReleaseFacts
    <3>5. PendingHasNoRepeats'
      BY <2>8, <3>a, <3>b, <3>c, ReleaseFacts
    <3>6. QED
      BY <3>1, <3>2, <3>3, <3>4, <3>5 DEF IndexInv
  <2>9. ASSUME IndexInv, NEW w \in Workers, FinishDelete(w) PROVE IndexInv'
    <3>1. TypeOK'
      <4>1. UNCHANGED <<pending, running, owner, stage, cur, todo, moved, node, enq, home, job>>
        BY <2>9 DEF FinishDelete
      <4>2. faults' \in Nat /\ crashes' \in Nat
        BY <2>9 DEF FinishDelete
      <4>3. record' \in [Items -> {"none", "pending", "running"}]
        BY <2>9 DEF FinishDelete
      <4>4. wpc' \in [Workers -> {"idle", "executing", "unindexing", "reporting", "unindexingAgain"}]
        BY <2>9 DEF FinishDelete
      <4>5. QED
        BY <2>9, <4>1, <4>2, <4>3, <4>4
    <3>2. LockInv'
      BY <2>9 DEF FinishDelete
    <3>3. FreshInv'
      BY <2>9 DEF FinishDelete
    <3>4. ClaimInv'
      BY <2>9 DEF FinishDelete
    <3>5. PendingHasNoRepeats'
      BY <2>9 DEF FinishDelete
    <3>6. QED
      BY <3>1, <3>2, <3>3, <3>4, <3>5 DEF IndexInv
  <2>10. ASSUME IndexInv, NEW w \in Workers, FinishUnindex(w) PROVE IndexInv'
    <3>1. TypeOK'
      <4>1. UNCHANGED <<record, pending, owner, stage, cur, todo, moved, node, enq, home>>
        BY <2>10 DEF FinishUnindex
      <4>2. running' \in SUBSET Items /\ faults' \in Nat /\ crashes' \in Nat
        BY <2>10 DEF FinishUnindex
      <4>a. wpc \in [Workers -> {"idle", "executing", "unindexing", "reporting", "unindexingAgain"}]
        BY <2>10
      <4>b. job \in [Workers -> Items \cup {None}]
        BY <2>10
      <4>c. \E p \in {"reporting", "idle"} : wpc' = [wpc EXCEPT ![w] = p]
        BY <2>10 DEF FinishUnindex, Retire
      <4>d. job' = job \/ job' = [job EXCEPT ![w] = None]
        BY <2>10 DEF FinishUnindex, Retire
      <4>e. wpc' \in [Workers -> {"idle", "executing", "unindexing", "reporting", "unindexingAgain"}]
        BY <4>a, <4>c, Zenon
      <4>3. /\ wpc' \in [Workers -> {"idle", "executing", "unindexing", "reporting", "unindexingAgain"}]
            /\ job' \in [Workers -> Items \cup {None}]
        BY <4>b, <4>d, <4>e
      <4>4. QED
        BY <2>10, <4>1, <4>2, <4>3
    <3>2. LockInv'
      BY <2>10 DEF FinishUnindex, Retire
    <3>3. FreshInv'
      BY <2>10 DEF FinishUnindex, Retire
    <3>4. ClaimInv'
      BY <2>10 DEF FinishUnindex, Retire
    <3>5. PendingHasNoRepeats'
      BY <2>10 DEF FinishUnindex, Retire
    <3>6. QED
      BY <3>1, <3>2, <3>3, <3>4, <3>5 DEF IndexInv
  <2>10a. ASSUME IndexInv, NEW w \in Workers, FailAgain(w) PROVE IndexInv'
    <3>1. TypeOK'
      <4>1. UNCHANGED <<pending, running, owner, stage, cur, todo, moved, node, enq, home>>
        BY <2>10a DEF FailAgain
      <4>2. record' \in [Items -> {"none", "pending", "running"}] /\ faults' \in Nat /\ crashes' \in Nat
        BY <2>10a DEF FailAgain
      <4>a. wpc \in [Workers -> {"idle", "executing", "unindexing", "reporting", "unindexingAgain"}]
        BY <2>10a
      <4>b. job \in [Workers -> Items \cup {None}]
        BY <2>10a
      <4>c. \E p \in {"unindexingAgain", "idle"} : wpc' = [wpc EXCEPT ![w] = p]
        BY <2>10a DEF FailAgain, Retire
      <4>d. job' = job \/ job' = [job EXCEPT ![w] = None]
        BY <2>10a DEF FailAgain, Retire
      <4>e. wpc' \in [Workers -> {"idle", "executing", "unindexing", "reporting", "unindexingAgain"}]
        BY <4>a, <4>c, Zenon
      <4>3. /\ wpc' \in [Workers -> {"idle", "executing", "unindexing", "reporting", "unindexingAgain"}]
            /\ job' \in [Workers -> Items \cup {None}]
        BY <4>b, <4>d, <4>e
      <4>4. QED
        BY <2>10a, <4>1, <4>2, <4>3
    <3>2. LockInv'
      BY <2>10a DEF FailAgain, Retire
    <3>3. FreshInv'
      BY <2>10a DEF FailAgain, Retire
    <3>4. ClaimInv'
      BY <2>10a DEF FailAgain, Retire
    <3>5. PendingHasNoRepeats'
      BY <2>10a DEF FailAgain, Retire
    <3>6. QED
      BY <3>1, <3>2, <3>3, <3>4, <3>5 DEF IndexInv
  <2>10b. ASSUME IndexInv, NEW w \in Workers, WorkerEnds(w) PROVE IndexInv'
    <3>1. TypeOK'
      BY <2>10b DEF WorkerEnds, Retire
    <3>2. LockInv'
      BY <2>10b DEF WorkerEnds, Retire
    <3>3. FreshInv'
      BY <2>10b DEF WorkerEnds, Retire
    <3>4. ClaimInv'
      BY <2>10b DEF WorkerEnds, Retire
    <3>5. PendingHasNoRepeats'
      BY <2>10b DEF WorkerEnds, Retire
    <3>6. QED
      BY <3>1, <3>2, <3>3, <3>4, <3>5 DEF IndexInv
  <2>11. ASSUME IndexInv, NEW n \in Nodes, Activate(n) PROVE IndexInv'
    BY <2>11 DEF Activate
  <2>12. ASSUME IndexInv, NEW n \in Nodes, ResetBegin(n) PROVE IndexInv'
    <3>1. TypeOK'
      <4>1. /\ UNCHANGED <<record, pending, running, enq, home, wpc, job>>
            /\ faults' \in Nat /\ crashes' \in Nat
        BY <2>12 DEF ResetBegin
      <4>2. node' \in [Nodes -> {"down", "resetting", "up"}]
        BY <2>12 DEF ResetBegin, ResetDone
      <4>3. Release \/ (UNCHANGED moved /\ owner' \in Nodes /\ ResetVisit(running))
        BY <2>12 DEF ResetBegin, ResetDone
      <4>4. /\ owner' \in Nodes \cup {None} /\ cur' \in Items \cup {None}
            /\ stage' \in {"free"} \cup ClaimStages \cup ResetStages
            /\ todo' \in SUBSET Items /\ moved' \in Seq(Items)
        <5>1. CASE Release
          BY <5>1, <2>12, ReleaseFacts
        <5>2. CASE UNCHANGED moved /\ owner' \in Nodes /\ ResetVisit(running)
          BY <5>2, <2>12 DEF ResetVisit
        <5>3. QED
          BY <4>3, <5>1, <5>2
      <4>5. QED
        BY <2>12, <4>1, <4>2, <4>4
    <3>2. LockInv'
      BY <2>12, ReleaseFacts DEF ResetBegin, ResetDone, ResetVisit
    <3>3. FreshInv'
      BY <2>12, ReleaseFacts DEF ResetBegin, ResetDone, ResetVisit
    <3>4. ClaimInv'
      BY <2>12, ReleaseFacts DEF ResetBegin, ResetDone, ResetVisit
    <3>5. PendingHasNoRepeats'
      BY <2>12, ReleaseFacts DEF ResetBegin, ResetDone, ResetVisit
    <3>6. QED
      BY <3>1, <3>2, <3>3, <3>4, <3>5 DEF IndexInv
  <2>13. ASSUME IndexInv, ResetGet PROVE IndexInv'
    <3>1. TypeOK'
      BY <2>13, ReleaseFacts DEF ResetGet, ResetDone, ResetVisit
    <3>2. LockInv'
      BY <2>13, ReleaseFacts DEF ResetGet, ResetDone, ResetVisit
    <3>3. FreshInv'
      BY <2>13, ReleaseFacts DEF ResetGet, ResetDone, ResetVisit
    <3>4. ClaimInv'
      BY <2>13, ReleaseFacts DEF ResetGet, ResetDone, ResetVisit
    <3>5. PendingHasNoRepeats'
      BY <2>13, ReleaseFacts DEF ResetGet, ResetDone, ResetVisit
    <3>6. QED
      BY <3>1, <3>2, <3>3, <3>4, <3>5 DEF IndexInv
  <2>14. ASSUME IndexInv, ResetMark PROVE IndexInv'
    <3>a. /\ stage = "resetMark"
          /\ UNCHANGED <<pending, running, enq, home, wpc, job>>
          /\ record' \in {record, [record EXCEPT ![cur] = "pending"]}
          /\ node' \in {node, [node EXCEPT ![owner] = "up"]}
          /\ faults' \in Nat /\ crashes' \in Nat
      BY <2>14 DEF ResetMark, ResetDone
    <3>b. cur \in Items /\ moved \in Seq(Items)
      BY <2>14, <3>a
    <3>c. \/ Release
          \/ /\ moved' = Append(moved, cur) /\ UNCHANGED owner
             /\ \/ stage' = "resetGet" /\ cur' \in todo /\ todo' = todo \ {cur'}
                \/ stage' = "resetClear" /\ cur' = None /\ todo' = {}
      BY <2>14 DEF ResetMark, ResetDone, ResetVisit
    <3>d. moved' \in Seq(Items) /\ Elems(moved') \subseteq Elems(moved) \cup {cur}
      <4>1. /\ Append(moved, cur) \in Seq(Items)
            /\ Elems(Append(moved, cur)) = Elems(moved) \cup {cur}
        BY <3>b, AppendFacts
      <4>2. CASE moved' = Append(moved, cur)
        BY <4>1, <4>2, Zenon
      <4>3. CASE Release
        BY <4>3, ReleaseFacts
      <4>4. QED
        BY <3>c, <4>2, <4>3
    <3>e. \/ Release
          \/ /\ UNCHANGED owner
             /\ \/ stage' = "resetGet" /\ cur' \in todo /\ todo' = todo \ {cur'}
                \/ stage' = "resetClear" /\ cur' = None /\ todo' = {}
      BY <3>c
    <3>1. TypeOK'
      BY <2>14, <3>a, <3>e, <3>d, ReleaseFacts
    <3>2. LockInv'
      BY <2>14, <3>a, <3>e, <3>d, ReleaseFacts
    <3>3. FreshInv'
      BY <2>14, <3>a, <3>e, <3>d, ReleaseFacts
    <3>4. ClaimInv'
      BY <2>14, <3>a, <3>e, <3>d, ReleaseFacts
    <3>5. PendingHasNoRepeats'
      BY <2>14, <3>a, <3>e, <3>d, ReleaseFacts
    <3>6. QED
      BY <3>1, <3>2, <3>3, <3>4, <3>5 DEF IndexInv
  <2>15. ASSUME IndexInv, ResetClear PROVE IndexInv'
    <3>1. TypeOK'
      BY <2>15, ReleaseFacts DEF ResetClear, ResetDone
    <3>2. LockInv'
      BY <2>15, ReleaseFacts DEF ResetClear, ResetDone
    <3>3. FreshInv'
      BY <2>15, ReleaseFacts DEF ResetClear, ResetDone
    <3>4. ClaimInv'
      BY <2>15, ReleaseFacts DEF ResetClear, ResetDone
    <3>5. PendingHasNoRepeats'
      BY <2>15, ReleaseFacts DEF ResetClear, ResetDone
    <3>6. QED
      BY <3>1, <3>2, <3>3, <3>4, <3>5 DEF IndexInv
  <2>16. ASSUME IndexInv, ResetRequeue PROVE IndexInv'
    BY <2>16, DedupeFacts, ConcatFacts, EmptyFacts, ReleaseFacts DEF ResetRequeue, ResetDone
  <2>17. ASSUME IndexInv, NEW n \in Nodes, Deactivate(n) PROVE IndexInv'
    BY <2>17 DEF Deactivate, AbortHooks
  <2>18. ASSUME IndexInv, NEW n \in Nodes, Crash(n) PROVE IndexInv'
    <3>1. TypeOK'
      BY <2>18, ReleaseFacts DEF Crash, AbortHooks
    <3>2. LockInv'
      BY <2>18, ReleaseFacts DEF Crash, AbortHooks
    <3>3. FreshInv'
      BY <2>18, ReleaseFacts DEF Crash, AbortHooks
    <3>4. ClaimInv'
      BY <2>18, ReleaseFacts DEF Crash, AbortHooks
    <3>5. PendingHasNoRepeats'
      BY <2>18, ReleaseFacts DEF Crash, AbortHooks
    <3>6. QED
      BY <3>1, <3>2, <3>3, <3>4, <3>5 DEF IndexInv
  <2>19. ASSUME IndexInv, UNCHANGED vars PROVE IndexInv'
    BY <2>19 DEF vars
  <2>20. QED
    BY <2>1, <2>2, <2>3, <2>4, <2>5, <2>6, <2>7, <2>8, <2>9, <2>10, <2>10a, <2>10b, <2>11, <2>12, <2>13, <2>14, <2>15, <2>16, <2>17, <2>18, <2>19 DEF Next
<1>3. QED
  BY <1>1, <1>2, PTL DEF Spec


\* Every variable has its type.
THEOREM TypeCorrect == Spec => []TypeOK
<1>1. IndexInv => TypeOK
  BY DEF IndexInv
<1>2. QED
  BY <1>1, IndexInvHolds, PTL

\* With any number of nodes, failing calls and crashes, the pending index never
\* lists an item twice, so that no item is claimed twice from one listing.
THEOREM PendingNeverRepeats == Spec => []PendingHasNoRepeats
<1>1. IndexInv => PendingHasNoRepeats
  BY DEF IndexInv
<1>2. QED
  BY <1>1, IndexInvHolds, PTL

(***************************************************************************)
(* One node.                                                               *)
(***************************************************************************)

\* On a single node, whatever fails and however often it restarts, no item has
\* two workers, and the item of an executing worker is in the running index
\* with its record.
THEOREM SingleNodeHolds ==
    ASSUME \A m, n \in Nodes : m = n
    PROVE  Spec => []SingleNodeInv
<1> USE ItemsAssumption, NodesAssumption, BoundsAssumption
<1> DEFINE Inv == WorkerInv /\ OneWorkerPerItem /\ ExecutingIsRecoverable
<1>1. Init => Inv
  BY DEF Init, WorkerInv, OneWorkerPerItem, ExecutingIsRecoverable, ClaimStages, ResetStages
<1>2. IndexInv /\ IndexInv' /\ Inv /\ [Next]_vars => Inv'
  <2> USE DEF TypeOK, LockInv, WorkerInv, OneWorkerPerItem, ExecutingIsRecoverable, Workers,
         ClaimStages, ResetStages, Fault, At, Release, claimVars, poolVars, hookVars, envVars
  <2>1. ASSUME IndexInv, IndexInv', Inv, NEW i \in Items, NEW n \in Nodes, EnqueueSave(i, n) PROVE Inv'
    <3>1. WorkerInv'
      BY <2>1 DEF IndexInv, EnqueueSave, FreshInv
    <3>2. OneWorkerPerItem'
      BY <2>1 DEF IndexInv, EnqueueSave, FreshInv
    <3>3. ExecutingIsRecoverable'
      BY <2>1 DEF IndexInv, EnqueueSave, FreshInv
    <3>4. QED
      BY <3>1, <3>2, <3>3
  <2>2. ASSUME IndexInv, IndexInv', Inv, NEW i \in Items, EnqueueIndex(i) PROVE Inv'
    <3>1. WorkerInv'
      <4>1. Elems(pending') \subseteq Elems(pending) \cup {i}
        <5>1. pending \in Seq(Items)
          BY <2>2 DEF IndexInv
        <5>2. Elems(Append(pending, i)) = Elems(pending) \cup {i}
          BY <5>1, AppendFacts
        <5>3. pending' = pending \/ pending' = Append(pending, i)
          BY <2>2 DEF EnqueueIndex
        <5>4. QED
          BY <5>2, <5>3, Zenon
      <4>2. /\ \A w \in Workers : job[w] # i
            /\ UNCHANGED <<record, node, owner, stage, cur, wpc, job>>
        BY <2>2 DEF IndexInv, EnqueueIndex, FreshInv
      <4>3. QED
        BY <2>2, <4>1, <4>2 DEF IndexInv
    <3>2. OneWorkerPerItem'
      BY <2>2 DEF IndexInv, EnqueueIndex, FreshInv
    <3>3. ExecutingIsRecoverable'
      BY <2>2 DEF IndexInv, EnqueueIndex, FreshInv
    <3>4. QED
      BY <3>1, <3>2, <3>3
  <2>3. ASSUME IndexInv, IndexInv', Inv, NEW n \in Nodes, ClaimPop(n) PROVE Inv'
    <3>1. WorkerInv'
      <4>1. pending # <<>> => /\ Head(pending) \in Elems(pending)
                              /\ Elems(Tail(pending)) \subseteq Elems(pending)
        BY <2>3, PopFacts DEF IndexInv
      <4>2. pending' = pending \/ (pending # <<>> /\ pending' = Tail(pending))
        BY <2>3 DEF ClaimPop
      <4>3. Elems(pending') \subseteq Elems(pending)
        BY <4>1, <4>2, Zenon
      <4>4. \/ Release
            \/ owner' = n /\ stage' = "get" /\ pending # <<>> /\ cur' = Head(pending)
        BY <2>3 DEF ClaimPop
      <4>5. \/ stage' = "free"
            \/ owner' = n /\ stage' = "get" /\ cur' \in Elems(pending)
        BY <4>1, <4>4, Zenon
      <4>6. /\ UNCHANGED <<record, node, wpc, job>>
            /\ node[n] = "up"
        BY <2>3 DEF ClaimPop
      <4>7. QED
        BY <2>3, <4>3, <4>5, <4>6 DEF IndexInv
    <3>2. OneWorkerPerItem'
      BY <2>3 DEF IndexInv, ClaimPop
    <3>3. ExecutingIsRecoverable'
      BY <2>3 DEF IndexInv, ClaimPop
    <3>4. QED
      BY <3>1, <3>2, <3>3
  <2>4. ASSUME IndexInv, IndexInv', Inv, ClaimGet PROVE Inv'
    <3>1. WorkerInv'
      BY <2>4 DEF IndexInv, ClaimGet
    <3>2. OneWorkerPerItem'
      BY <2>4 DEF IndexInv, ClaimGet
    <3>3. ExecutingIsRecoverable'
      BY <2>4 DEF IndexInv, ClaimGet
    <3>4. QED
      BY <3>1, <3>2, <3>3
  <2>5. ASSUME IndexInv, IndexInv', Inv, ClaimMark PROVE Inv'
    <3>1. WorkerInv'
      BY <2>5 DEF IndexInv, ClaimMark
    <3>2. OneWorkerPerItem'
      BY <2>5 DEF IndexInv, ClaimMark
    <3>3. ExecutingIsRecoverable'
      BY <2>5 DEF IndexInv, ClaimMark
    <3>4. QED
      BY <3>1, <3>2, <3>3
  <2>6. ASSUME IndexInv, IndexInv', Inv, ClaimIndex PROVE Inv'
    <3>a. /\ stage = "index" /\ owner \in Nodes /\ cur \in Items /\ node[owner] = "up"
          /\ cur \notin Elems(pending) /\ record[cur] = "running"
          /\ \A w \in Workers : wpc[w] # "idle" => job[w] # cur
          /\ UNCHANGED <<record, pending, node>>
          /\ running \subseteq running'
      BY <2>6 DEF IndexInv, ClaimIndex, ClaimInv
    <3>b. CASE stage' = "undoRecord" /\ UNCHANGED <<owner, cur, wpc, job>>
      BY <2>6, <3>a, <3>b DEF IndexInv
    <3>c. CASE /\ stage' = "free" /\ cur \in running'
               /\ \E s \in Slots : /\ wpc[<<owner, s>>] = "idle"
                                   /\ wpc' = [wpc EXCEPT ![<<owner, s>>] = "executing"]
                                   /\ job' = [job EXCEPT ![<<owner, s>>] = cur]
      <4>1. PICK v \in Workers : /\ v[1] = owner
                                 /\ wpc' = [wpc EXCEPT ![v] = "executing"]
                                 /\ job' = [job EXCEPT ![v] = cur]
        BY <3>a, <3>c
      <4>2. /\ wpc'[v] = "executing" /\ job'[v] = cur
            /\ \A w \in Workers : w # v => wpc'[w] = wpc[w] /\ job'[w] = job[w]
        BY <2>6, <4>1 DEF IndexInv
      <4>3. QED
        BY <2>6, <3>a, <3>c, <4>1, <4>2 DEF IndexInv
    <3>d. \/ stage' = "undoRecord" /\ UNCHANGED <<owner, cur, wpc, job>>
          \/ /\ stage' = "free" /\ cur \in running'
             /\ \E s \in Slots : /\ wpc[<<owner, s>>] = "idle"
                                 /\ wpc' = [wpc EXCEPT ![<<owner, s>>] = "executing"]
                                 /\ job' = [job EXCEPT ![<<owner, s>>] = cur]
      BY <2>6 DEF ClaimIndex
    <3>4. QED
      BY <3>b, <3>c, <3>d
  <2>7. ASSUME IndexInv, IndexInv', Inv, ClaimUndoRecord PROVE Inv'
    <3>1. WorkerInv'
      BY <2>7 DEF IndexInv, ClaimUndoRecord
    <3>2. OneWorkerPerItem'
      BY <2>7 DEF IndexInv, ClaimUndoRecord
    <3>3. ExecutingIsRecoverable'
      BY <2>7 DEF IndexInv, ClaimUndoRecord
    <3>4. QED
      BY <3>1, <3>2, <3>3
  <2>8. ASSUME IndexInv, IndexInv', Inv, ClaimUndoIndex PROVE Inv'
    <3>1. WorkerInv'
      <4>1. cur \in Items /\ pending \in Seq(Items)
        BY <2>8 DEF IndexInv, ClaimUndoIndex
      <4>2. Elems(<<cur>> \o pending) = Elems(pending) \cup {cur}
        BY <4>1, PushFacts
      <4>3. pending' = pending \/ pending' = <<cur>> \o pending
        BY <2>8 DEF ClaimUndoIndex
      <4>4. Elems(pending') \subseteq Elems(pending) \cup {cur}
        BY <4>2, <4>3, Zenon
      <4>5. stage = "undoIndex" /\ stage' = "free" /\ UNCHANGED <<record, node, wpc, job>>
        BY <2>8 DEF ClaimUndoIndex
      <4>6. QED
        BY <2>8, <4>4, <4>5 DEF IndexInv
    <3>2. OneWorkerPerItem'
      BY <2>8 DEF IndexInv, ClaimUndoIndex
    <3>3. ExecutingIsRecoverable'
      BY <2>8 DEF IndexInv, ClaimUndoIndex
    <3>4. QED
      BY <3>1, <3>2, <3>3
  <2>9. ASSUME IndexInv, IndexInv', Inv, NEW w \in Workers, FinishDelete(w) PROVE Inv'
    <3>1. WorkerInv'
      BY <2>9 DEF IndexInv, FinishDelete
    <3>2. OneWorkerPerItem'
      BY <2>9 DEF IndexInv, FinishDelete
    <3>3. ExecutingIsRecoverable'
      BY <2>9 DEF IndexInv, FinishDelete
    <3>4. QED
      BY <3>1, <3>2, <3>3
  <2>10. ASSUME IndexInv, IndexInv', Inv, NEW w \in Workers, FinishUnindex(w) PROVE Inv'
    <3>1. WorkerInv'
      BY <2>10 DEF IndexInv, FinishUnindex, Retire
    <3>2. OneWorkerPerItem'
      <4>1. /\ wpc[w] # "idle" /\ wpc'[w] # "idle" => job'[w] = job[w]
            /\ \A v \in Workers : v # w => wpc'[v] = wpc[v] /\ job'[v] = job[v]
            /\ wpc[w] # "idle"
        BY <2>10 DEF IndexInv, FinishUnindex, Retire
      <4>2. QED
        BY <2>10, <4>1
    <3>3. ExecutingIsRecoverable'
      BY <2>10 DEF IndexInv, FinishUnindex, Retire
    <3>4. QED
      BY <3>1, <3>2, <3>3
  <2>10a. ASSUME IndexInv, IndexInv', Inv, NEW w \in Workers, FailAgain(w) PROVE Inv'
    <3>1. WorkerInv'
      BY <2>10a DEF IndexInv, FailAgain, Retire
    <3>2. OneWorkerPerItem'
      <4>1. /\ wpc[w] # "idle" /\ wpc'[w] # "idle" => job'[w] = job[w]
            /\ \A v \in Workers : v # w => wpc'[v] = wpc[v] /\ job'[v] = job[v]
            /\ wpc[w] # "idle"
        BY <2>10a DEF IndexInv, FailAgain, Retire
      <4>2. QED
        BY <2>10a, <4>1
    <3>3. ExecutingIsRecoverable'
      BY <2>10a DEF IndexInv, FailAgain, Retire
    <3>4. QED
      BY <3>1, <3>2, <3>3
  <2>10b. ASSUME IndexInv, IndexInv', Inv, NEW w \in Workers, WorkerEnds(w) PROVE Inv'
    <3>1. WorkerInv'
      BY <2>10b DEF IndexInv, WorkerEnds, Retire
    <3>2. OneWorkerPerItem'
      BY <2>10b DEF IndexInv, WorkerEnds, Retire
    <3>3. ExecutingIsRecoverable'
      BY <2>10b DEF IndexInv, WorkerEnds, Retire
    <3>4. QED
      BY <3>1, <3>2, <3>3
  <2>11. ASSUME IndexInv, IndexInv', Inv, NEW n \in Nodes, Activate(n) PROVE Inv'
    <3>1. WorkerInv'
      BY <2>11 DEF IndexInv, Activate
    <3>2. OneWorkerPerItem'
      BY <2>11 DEF IndexInv, Activate
    <3>3. ExecutingIsRecoverable'
      BY <2>11 DEF IndexInv, Activate
    <3>4. QED
      BY <3>1, <3>2, <3>3
  <2>12. ASSUME IndexInv, IndexInv', Inv, NEW n \in Nodes, ResetBegin(n) PROVE Inv'
    <3>1. WorkerInv'
      BY <2>12 DEF IndexInv, ResetBegin, ResetDone, ResetVisit
    <3>2. OneWorkerPerItem'
      BY <2>12 DEF IndexInv, ResetBegin, ResetDone, ResetVisit
    <3>3. ExecutingIsRecoverable'
      BY <2>12 DEF IndexInv, ResetBegin, ResetDone, ResetVisit
    <3>4. QED
      BY <3>1, <3>2, <3>3
  <2>13. ASSUME IndexInv, IndexInv', Inv, ResetGet PROVE Inv'
    <3>1. WorkerInv'
      BY <2>13 DEF IndexInv, ResetGet, ResetDone, ResetVisit
    <3>2. OneWorkerPerItem'
      BY <2>13 DEF IndexInv, ResetGet, ResetDone, ResetVisit
    <3>3. ExecutingIsRecoverable'
      BY <2>13 DEF IndexInv, ResetGet, ResetDone, ResetVisit
    <3>4. QED
      BY <3>1, <3>2, <3>3
  <2>14. ASSUME IndexInv, IndexInv', Inv, ResetMark PROVE Inv'
    <3>1. WorkerInv'
      BY <2>14 DEF IndexInv, ResetMark, ResetDone, ResetVisit
    <3>2. OneWorkerPerItem'
      BY <2>14 DEF IndexInv, ResetMark, ResetDone, ResetVisit
    <3>3. ExecutingIsRecoverable'
      BY <2>14 DEF IndexInv, ResetMark, ResetDone, ResetVisit
    <3>4. QED
      BY <3>1, <3>2, <3>3
  <2>15. ASSUME IndexInv, IndexInv', Inv, ResetClear PROVE Inv'
    <3>1. WorkerInv'
      BY <2>15 DEF IndexInv, ResetClear, ResetDone
    <3>2. OneWorkerPerItem'
      BY <2>15 DEF IndexInv, ResetClear, ResetDone
    <3>3. ExecutingIsRecoverable'
      BY <2>15 DEF IndexInv, ResetClear, ResetDone
    <3>4. QED
      BY <3>1, <3>2, <3>3
  <2>16. ASSUME IndexInv, IndexInv', Inv, ResetRequeue PROVE Inv'
    <3>1. WorkerInv'
      BY <2>16 DEF IndexInv, ResetRequeue, ResetDone
    <3>2. OneWorkerPerItem'
      BY <2>16 DEF IndexInv, ResetRequeue, ResetDone
    <3>3. ExecutingIsRecoverable'
      BY <2>16 DEF IndexInv, ResetRequeue, ResetDone
    <3>4. QED
      BY <3>1, <3>2, <3>3
  <2>17. ASSUME IndexInv, IndexInv', Inv, NEW n \in Nodes, Deactivate(n) PROVE Inv'
    <3>1. WorkerInv'
      BY <2>17 DEF IndexInv, Deactivate, AbortHooks, Busy
    <3>2. OneWorkerPerItem'
      BY <2>17 DEF IndexInv, Deactivate, AbortHooks, Busy
    <3>3. ExecutingIsRecoverable'
      BY <2>17 DEF IndexInv, Deactivate, AbortHooks, Busy
    <3>4. QED
      BY <3>1, <3>2, <3>3
  <2>18. ASSUME IndexInv, IndexInv', Inv, NEW n \in Nodes, Crash(n) PROVE Inv'
    <3>1. WorkerInv'
      BY <2>18 DEF IndexInv, Crash, AbortHooks
    <3>2. OneWorkerPerItem'
      BY <2>18 DEF IndexInv, Crash, AbortHooks
    <3>3. ExecutingIsRecoverable'
      BY <2>18 DEF IndexInv, Crash, AbortHooks
    <3>4. QED
      BY <3>1, <3>2, <3>3
  <2>19. ASSUME Inv, UNCHANGED vars PROVE Inv'
    BY <2>19 DEF vars
  <2>20. QED
    BY <2>1, <2>2, <2>3, <2>4, <2>5, <2>6, <2>7, <2>8, <2>9, <2>10, <2>10a, <2>10b, <2>11, <2>12, <2>13, <2>14, <2>15, <2>16, <2>17, <2>18, <2>19 DEF Next
<1>3. QED
  BY <1>1, <1>2, IndexInvHolds, PTL DEF Spec, SingleNodeInv

(***************************************************************************)
(* What the queue still knows is still there.                              *)
(***************************************************************************)

\* On one node a reset and a worker, or a claim, exclude each other.
LEMMA OneThingAtATime ==
    ASSUME SingleNodeInv, \A m, n \in Nodes : m = n, stage \in ResetStages
    PROVE  /\ owner \in Nodes /\ node[owner] = "resetting"
           /\ \A n \in Nodes : node[n] = "resetting"
           /\ \A w \in Workers : wpc[w] = "idle"
<1>1. /\ TypeOK /\ LockInv /\ WorkerInv
  BY DEF SingleNodeInv, IndexInv
<1>2. owner \in Nodes /\ node[owner] = "resetting"
  BY <1>1 DEF TypeOK, LockInv, WorkerInv, ResetStages
<1>3. \A w \in Workers : w[1] \in Nodes
  BY DEF Workers
<1>4. QED
  BY <1>1, <1>2, <1>3 DEF WorkerInv

\* Past the deletion of its record, or the attempt, but not gone yet.
Leaving(w) == wpc[w] \notin {"idle", "executing"}

\* A worker that leaves is not disturbed by a step of somebody else.
LEMMA FinishingKept ==
    ASSUME FinishingInv,
           \A w \in Workers : Leaving(w)' =>
               /\ wpc'[w] = wpc[w] /\ job'[w] = job[w]
               /\ record'[job[w]] = "none" <=> record[job[w]] = "none"
               /\ job[w] \in running => job[w] \in running'
    PROVE  FinishingInv'
BY DEF FinishingInv, Leaving

\* The steps of a worker that is done with its item.
LEMMA FinishingSteps ==
    ASSUME SingleNodeInv, FinishingInv, NEW w \in Workers,
           FinishDelete(w) \/ FailAgain(w) \/ FinishUnindex(w) \/ WorkerEnds(w)
    PROVE  FinishingInv'
<1>1. TypeOK /\ WorkerInv /\ OneWorkerPerItem /\ ExecutingIsRecoverable
  BY DEF SingleNodeInv, IndexInv
<1>2. /\ wpc[w] # "idle" /\ job[w] \in Items
      /\ \A v \in Workers : v # w => wpc'[v] = wpc[v] /\ job'[v] = job[v]
      /\ \A i \in Items : i # job[w] => record'[i] = record[i] /\ (i \in running => i \in running')
  <2>1. wpc[w] # "idle" /\ job[w] \in Items
    BY <1>1 DEF FinishDelete, FailAgain, FinishUnindex, WorkerEnds, WorkerInv
  <2>2. \A v \in Workers : v # w => wpc'[v] = wpc[v] /\ job'[v] = job[v]
    BY <1>1 DEF FinishDelete, FailAgain, FinishUnindex, WorkerEnds, Retire, TypeOK
  <2>3. \A i \in Items : i # job[w] => record'[i] = record[i] /\ (i \in running => i \in running')
    BY <1>1 DEF FinishDelete, FailAgain, FinishUnindex, WorkerEnds, TypeOK
  <2>4. QED
    BY <2>1, <2>2, <2>3
<1>3. \A v \in Workers : v # w /\ Leaving(v)' =>
          /\ wpc'[v] = wpc[v] /\ job'[v] = job[v]
          /\ record'[job[v]] = "none" <=> record[job[v]] = "none"
          /\ job[v] \in running => job[v] \in running'
  BY <1>1, <1>2 DEF Leaving, WorkerInv, OneWorkerPerItem
<1>4. \A v \in Workers : v # w =>
          /\ wpc'[v] \in {"unindexing", "unindexingAgain"} => record'[job'[v]] = "none"
          /\ wpc'[v] = "reporting" /\ record'[job'[v]] # "none" => job'[v] \in running'
  BY <1>3 DEF FinishingInv, Leaving
<1>5. /\ wpc'[w] \in {"unindexing", "unindexingAgain"} => record'[job'[w]] = "none"
      /\ wpc'[w] = "reporting" /\ record'[job'[w]] # "none" => job'[w] \in running'
  <2>1. CASE FinishDelete(w)
    BY <1>1, <1>2, <2>1 DEF FinishDelete, ExecutingIsRecoverable, TypeOK
  <2>2. CASE FailAgain(w)
    BY <1>1, <1>2, <2>2 DEF FailAgain, Retire, TypeOK
  <2>3. CASE FinishUnindex(w)
    BY <1>1, <1>2, <2>3 DEF FinishUnindex, Retire, TypeOK, FinishingInv
  <2>4. CASE WorkerEnds(w)
    BY <1>1, <1>2, <2>4 DEF WorkerEnds, Retire, TypeOK
  <2>5. QED
    BY <2>1, <2>2, <2>3, <2>4
<1>6. QED
  BY <1>4, <1>5 DEF FinishingInv

\* A step that changes neither the lists nor the place of the mutex holder, and
\* takes no record away, or only that of a worker that finishes.
LEMMA StandsStill ==
    ASSUME SingleNodeInv, LineRecorded, ResetInv, \A m, n \in Nodes : m = n,
           UNCHANGED <<pending, stage, cur, todo, moved>>,
           \/ running' = running
           \/ stage \notin ResetStages,
           \A i \in Items : \/ record'[i] = "none" <=> record[i] = "none"
                            \/ i \notin Elems(pending) \cup running \cup {cur} \cup Elems(moved)
                            \/ \E w \in Workers : wpc[w] # "idle" /\ job[w] = i,
           \A i \in Items : record'[i] = "none" \/ record[i] # "none" \/ enq[i] # "queued",
           FinishingInv',
           \A i \in Items : enq'[i] = "saved" => record'[i] # "none"
    PROVE  LineRecorded' /\ ResetInv'
<1>1. TypeOK /\ LockInv /\ FreshInv /\ ClaimInv /\ WorkerInv
  BY DEF SingleNodeInv, IndexInv
<1>2. Elems(pending) \subseteq Items /\ Elems(moved) \subseteq Items /\ running \subseteq Items
  BY <1>1 DEF TypeOK, Elems
<1>3. stage \in ResetStages => \A w \in Workers : wpc[w] = "idle"
  BY OneThingAtATime
<1>4. \A i \in Elems(pending) : record'[i] # "none"
  BY <1>1, <1>2 DEF LineRecorded, WorkerInv
<1>5. stage \in ClaimStages => record'[cur] # "none"
  BY <1>1 DEF LineRecorded, WorkerInv, LockInv, ClaimStages
<1>6. LineRecorded'
  BY <1>4, <1>5 DEF LineRecorded
<1>7. ResetInv'
  <2>1. \A i \in running \cup Elems(moved) : stage \in ResetStages =>
           (record'[i] = "none" <=> record[i] = "none")
    BY <1>2, <1>3
  <2>2. stage = "resetMark" => (record'[cur] = "none" <=> record[cur] = "none")
    BY <1>1, <1>3 DEF LockInv, ResetStages
  <2>3. QED
    BY <2>1, <2>2 DEF ResetInv, Carried, ResetStages
<1>8. QED
  BY <1>6, <1>7

\* Enqueue, the end of a worker and the coming and going of nodes.
LEMMA OthersKeepRecords ==
    ASSUME SingleNodeInv, SingleNodeInv', LineRecorded, ResetInv, \A m, n \in Nodes : m = n,
           \/ \E i \in Items, n \in Nodes : EnqueueSave(i, n)
           \/ \E w \in Workers : FinishDelete(w) \/ FailAgain(w) \/ FinishUnindex(w) \/ WorkerEnds(w)
           \/ \E n \in Nodes : Activate(n) \/ Deactivate(n)
    PROVE  LineRecorded' /\ ResetInv'
<1>1. TypeOK /\ LockInv /\ FreshInv /\ WorkerInv /\ OneWorkerPerItem
  BY DEF SingleNodeInv, IndexInv
<1>2. CASE \E i \in Items, n \in Nodes : EnqueueSave(i, n)
  <2>1. PICK i \in Items, n \in Nodes : EnqueueSave(i, n)
    BY <1>2
  <2>2. /\ enq[i] = "new" /\ record' \in {record, [record EXCEPT ![i] = "pending"]}
        /\ UNCHANGED <<pending, running, stage, cur, todo, moved, wpc, job>>
    BY <2>1 DEF EnqueueSave, claimVars, poolVars
  <2>3. /\ i \notin Elems(pending) \cup running \cup {cur} \cup Elems(moved)
        /\ \A w \in Workers : job[w] # i
    BY <1>1, <2>2 DEF FreshInv
  <2>4. \A k \in Items : k # i => record'[k] = record[k]
    BY <1>1, <2>2 DEF TypeOK
  <2>5. FinishingInv'
    BY <1>1, <2>2, <2>3, <2>4, FinishingKept DEF LineRecorded, WorkerInv, Leaving
  <2>6. \A k \in Items : enq'[k] = "saved" => record'[k] # "none"
    BY <1>1, <2>1, <2>4 DEF EnqueueSave, LineRecorded, TypeOK
  <2>7. QED
    BY <2>2, <2>3, <2>4, <2>5, <2>6, StandsStill
<1>3. ASSUME NEW w \in Workers, FinishDelete(w) \/ FailAgain(w)
      PROVE  LineRecorded' /\ ResetInv'
  <2>1. /\ wpc[w] # "idle" /\ job[w] \in Items
        /\ record' \in {record, [record EXCEPT ![job[w]] = "none"]}
        /\ UNCHANGED <<pending, running, stage, cur, todo, moved>>
    BY <1>1, <1>3 DEF FinishDelete, FailAgain, claimVars, WorkerInv
  <2>2. \A k \in Items : record'[k] = record[k] \/ (record'[k] = "none" /\ k = job[w])
    BY <1>1, <2>1 DEF TypeOK
  <2>3. FinishingInv'
    BY <1>3, FinishingSteps DEF LineRecorded
  <2>4. \A k \in Items : \/ record'[k] = "none" <=> record[k] = "none"
                         \/ \E v \in Workers : wpc[v] # "idle" /\ job[v] = k
    BY <2>1, <2>2
  <2>5. \A k \in Items : record'[k] = "none" \/ record[k] # "none"
    BY <2>2
  <2>6. enq' = enq /\ (\A k \in Items : enq[k] = "saved" => k # job[w])
    BY <1>1, <1>3 DEF FinishDelete, FailAgain, hookVars, FreshInv
  <2>7. \A k \in Items : enq'[k] = "saved" => record'[k] # "none"
    BY <2>2, <2>6 DEF LineRecorded
  <2>8. QED
    BY <2>1, <2>3, <2>4, <2>5, <2>7, StandsStill
<1>4. ASSUME NEW w \in Workers, FinishUnindex(w) \/ WorkerEnds(w)
      PROVE  LineRecorded' /\ ResetInv'
  <2>1. wpc[w] # "idle" /\ UNCHANGED <<record, enq, pending, stage, cur, todo, moved>>
    BY <1>4 DEF FinishUnindex, WorkerEnds, claimVars, hookVars
  <2>2. stage \notin ResetStages
    BY <2>1, OneThingAtATime
  <2>3. FinishingInv'
    BY <1>4, FinishingSteps DEF LineRecorded
  <2>4. QED
    BY <2>1, <2>2, <2>3, StandsStill DEF LineRecorded
<1>5. CASE \E n \in Nodes : Activate(n) \/ Deactivate(n)
  <2>1. UNCHANGED <<record, pending, running, claimVars, poolVars>>
    BY <1>5 DEF Activate, Deactivate
  <2>2. \A i \in Items : enq'[i] = "saved" => enq[i] = "saved"
    BY <1>1, <1>5 DEF Activate, Deactivate, AbortHooks, hookVars, TypeOK
  <2>3. QED
    BY <2>1, <2>2, StandsStill DEF claimVars, poolVars, LineRecorded, FinishingInv
<1>6. QED
  BY <1>2, <1>3, <1>4, <1>5

\* The second step of Enqueue, and the claim.
LEMMA ClaimKeepsRecords ==
    ASSUME SingleNodeInv, SingleNodeInv', LineRecorded, ResetInv, \A m, n \in Nodes : m = n,
           \/ \E i \in Items : EnqueueIndex(i)
           \/ \E n \in Nodes : ClaimPop(n)
           \/ ClaimGet \/ ClaimMark \/ ClaimIndex \/ ClaimUndoRecord \/ ClaimUndoIndex
    PROVE  LineRecorded' /\ ResetInv'
<1>1. TypeOK /\ LockInv /\ FreshInv /\ WorkerInv
  BY DEF SingleNodeInv, IndexInv
<1>2. /\ pending \in Seq(Items) /\ Elems(pending) \subseteq Items
      /\ record \in [Items -> {"none", "pending", "running"}]
  BY <1>1 DEF TypeOK, Elems
<1>3. ASSUME \A i \in Elems(pending') : i \in Elems(pending) \/ (i \in Items /\ record[i] # "none"),
             \A i \in Items : record'[i] = "none" => record[i] = "none",
             \/ stage' \in ClaimStages \ {"pop"} /\ record'[cur'] # "none"
             \/ stage' = "free" /\ cur' = None,
             FinishingInv',
             \A i \in Items : enq'[i] = "saved" => enq[i] = "saved",
             stage \notin ResetStages, moved' = moved \/ moved' = <<>>
      PROVE  LineRecorded' /\ ResetInv'
  <2>1. \A i \in Elems(pending') : record'[i] # "none"
    BY <1>2, <1>3 DEF LineRecorded
  <2>2. LineRecorded'
    BY <1>3, <2>1 DEF LineRecorded, ClaimStages
  <2>3. ResetInv'
    BY <1>3 DEF ResetInv, ClaimStages, ResetStages
  <2>4. QED
    BY <2>2, <2>3
<1>4. ASSUME NEW i \in Items, EnqueueIndex(i)
      PROVE  LineRecorded' /\ ResetInv'
  <2>1. /\ enq[i] = "saved" /\ owner = None
        /\ pending' = pending \/ pending' = Append(pending, i)
        /\ UNCHANGED <<record, running, claimVars, poolVars>>
        /\ enq' \in {[enq EXCEPT ![i] = "queued"], [enq EXCEPT ![i] = "rejected"]}
    BY <1>4 DEF EnqueueIndex
  <2>2. Elems(pending') \subseteq Elems(pending) \cup {i}
    <3>1. Elems(Append(pending, i)) = Elems(pending) \cup {i}
      BY <1>2, AppendFacts
    <3>2. QED
      BY <2>1, <3>1, Zenon
  <2>3. stage = "free" /\ cur = None /\ record[i] # "none"
    BY <1>1, <2>1 DEF LockInv, ResetInv, LineRecorded
  <2>4. \A k \in Items : enq'[k] = "saved" => enq[k] = "saved"
    BY <1>1, <2>1 DEF TypeOK
  <2>5. /\ stage' = "free" /\ cur' = None /\ record' = record /\ wpc' = wpc /\ job' = job
        /\ stage \notin ResetStages /\ moved' = moved
    BY <2>1, <2>3 DEF claimVars, poolVars, ResetStages
  <2>6. FinishingInv'
    BY <2>1, <2>5 DEF LineRecorded, FinishingInv
  <2>7. QED
    BY <1>3, <2>2, <2>3, <2>4, <2>5, <2>6
<1>5. ASSUME NEW n \in Nodes, ClaimPop(n)
      PROVE  LineRecorded' /\ ResetInv'
  <2>1. /\ pending' = pending \/ (pending # <<>> /\ pending' = Tail(pending))
        /\ \/ pending # <<>> /\ cur' = Head(pending) /\ stage' = "get"
           \/ stage' = "free" /\ cur' = None
        /\ UNCHANGED <<record, running, enq, wpc, job>>
        /\ stage \notin ResetStages /\ moved' \in {moved, <<>>}
    BY <1>1, <1>5 DEF ClaimPop, Release, hookVars, poolVars, LockInv, ResetStages
  <2>2. pending # <<>> => Head(pending) \in Elems(pending) /\ Elems(Tail(pending)) \subseteq Elems(pending)
    BY <1>2, PopFacts
  <2>3. Elems(pending') \subseteq Elems(pending)
    BY <2>1, <2>2, Zenon
  <2>4. \/ stage' \in ClaimStages \ {"pop"} /\ record'[cur'] # "none"
        \/ stage' = "free" /\ cur' = None
    <3>1. ASSUME pending # <<>>, cur' = Head(pending), stage' = "get"
          PROVE  record'[cur'] # "none"
      BY <2>1, <2>2, <3>1 DEF LineRecorded
    <3>2. QED
      BY <2>1, <3>1 DEF ClaimStages
  <2>5. FinishingInv'
    BY <2>1 DEF LineRecorded, FinishingInv
  <2>6. QED
    BY <1>3, <2>1, <2>3, <2>4, <2>5
<1>6. ASSUME ClaimGet \/ ClaimMark \/ ClaimIndex \/ ClaimUndoRecord
      PROVE  LineRecorded' /\ ResetInv'
  <2>1. /\ stage \in ClaimStages \ {"pop", "undoIndex"} /\ cur \in Items /\ record[cur] # "none"
        /\ pending' = pending /\ enq' = enq /\ moved' \in {moved, <<>>}
    BY <1>1, <1>6 DEF ClaimGet, ClaimMark, ClaimIndex, ClaimUndoRecord, At, hookVars, LockInv,
                      ClaimStages, LineRecorded, Release
  <2>2. /\ record' \in {record, [record EXCEPT ![cur] = "running"], [record EXCEPT ![cur] = "pending"]}
        /\ \/ cur' = cur /\ stage' \in ClaimStages \ {"pop"}
           \/ cur' = None /\ stage' = "free"
    BY <1>6, <2>1 DEF ClaimGet, ClaimMark, ClaimIndex, ClaimUndoRecord, Release, ClaimStages
  <2>3. /\ \A i \in Items : record'[i] = "none" <=> record[i] = "none"
    BY <1>2, <2>1, <2>2
  <2>4. /\ \A w \in Workers : Leaving(w)' => wpc'[w] = wpc[w] /\ job'[w] = job[w]
        /\ running \subseteq running'
    BY <1>1, <1>6 DEF ClaimGet, ClaimMark, ClaimIndex, ClaimUndoRecord, poolVars, TypeOK, Leaving
  <2>5. FinishingInv'
    BY <1>1, <2>3, <2>4, FinishingKept DEF LineRecorded, WorkerInv, Leaving
  <2>6. QED
    BY <1>3, <2>1, <2>2, <2>3, <2>5 DEF ClaimStages, ResetStages
<1>7. ASSUME ClaimUndoIndex
      PROVE  LineRecorded' /\ ResetInv'
  <2>1. /\ cur \in Items /\ record[cur] # "none"
        /\ pending' = pending \/ pending' = <<cur>> \o pending
        /\ UNCHANGED <<record, running, enq, wpc, job>>
        /\ stage' = "free" /\ cur' = None /\ stage \notin ResetStages /\ moved' = <<>>
    BY <1>1, <1>7 DEF ClaimUndoIndex, At, hookVars, poolVars, LockInv, ClaimStages, ResetStages,
                      LineRecorded, Release
  <2>2. Elems(pending') \subseteq Elems(pending) \cup {cur}
    <3>1. Elems(<<cur>> \o pending) = Elems(pending) \cup {cur}
      BY <1>2, <2>1, PushFacts
    <3>2. QED
      BY <2>1, <3>1, Zenon
  <2>3. QED
    BY <1>3, <2>1, <2>2 DEF LineRecorded, FinishingInv
<1>8. QED
  BY <1>4, <1>5, <1>6, <1>7

\* The reset carries over whatever the running index lists with a record.
LEMMA ResetKeepsRecords ==
    ASSUME SingleNodeInv, SingleNodeInv', LineRecorded, ResetInv, \A m, n \in Nodes : m = n,
           \/ \E n \in Nodes : ResetBegin(n)
           \/ ResetGet \/ ResetMark \/ ResetClear \/ ResetRequeue
    PROVE  LineRecorded' /\ ResetInv'
<1>1. TypeOK /\ LockInv /\ FreshInv /\ WorkerInv
  BY DEF SingleNodeInv, IndexInv
<1>2. /\ pending \in Seq(Items) /\ Elems(pending) \subseteq Items
      /\ moved \in Seq(Items) /\ Elems(moved) \subseteq Items
      /\ record \in [Items -> {"none", "pending", "running"}]
  BY <1>1 DEF TypeOK, Elems
<1>3. UNCHANGED <<enq, wpc, job>>
  BY DEF ResetBegin, ResetGet, ResetMark, ResetClear, ResetRequeue, hookVars, poolVars
<1>3a. \A w \in Workers : wpc[w] = "idle"
  <2>1. CASE stage \in ResetStages
    BY <2>1, OneThingAtATime
  <2>2. CASE \E n \in Nodes : ResetBegin(n)
    BY <1>1, <2>2 DEF ResetBegin, WorkerInv, Workers
  <2>3. QED
    BY <2>1, <2>2 DEF ResetGet, ResetMark, ResetClear, ResetRequeue, ResetStages
<1>4. ASSUME Elems(pending') \subseteq Elems(pending) \cup Elems(moved), stage' \notin ClaimStages,
             stage \in ResetStages \/ pending' = pending,
             \A i \in Items : record'[i] = "none" <=> record[i] = "none"
      PROVE  LineRecorded'
  <2>1. FinishingInv'
    BY <1>3a, <1>3 DEF FinishingInv
  <2>2. \A i \in Elems(pending') : record[i] # "none"
    BY <1>4 DEF LineRecorded, ResetInv
  <2>3. QED
    BY <1>2, <1>3, <1>4, <2>1, <2>2 DEF LineRecorded
<1>5. ASSUME Release PROVE ResetInv' /\ stage' \notin ClaimStages
  BY <1>5 DEF Release, ResetInv, ResetStages, ClaimStages
<1>6. ASSUME NEW left, left \subseteq running, ResetVisit(left), running' = running,
             Elems(moved') \subseteq running,
             \A i \in Elems(moved') : record'[i] # "none",
             \A i \in running : record'[i] # "none" => i \in Elems(moved') \cup left
      PROVE  ResetInv' /\ stage' \notin ClaimStages
  BY <1>6 DEF ResetVisit, ResetInv, Carried, ResetStages, ClaimStages
<1>7. ASSUME NEW n \in Nodes, ResetBegin(n)
      PROVE  LineRecorded' /\ ResetInv'
  <2>1. stage = "free" /\ moved = <<>> /\ Elems(moved) = {}
        /\ UNCHANGED <<record, pending, running>>
    BY <1>1, <1>7, EmptyFacts DEF ResetBegin, LockInv, ResetInv, ResetStages
  <2>2. Release \/ (ResetVisit(running) /\ moved' = moved)
    BY <1>7 DEF ResetBegin, ResetDone
  <2>3. ResetInv' /\ stage' \notin ClaimStages
    BY <1>5, <1>6, <2>1, <2>2
  <2>4. QED
    BY <1>4, <2>1, <2>3
<1>8. ASSUME ResetGet
      PROVE  LineRecorded' /\ ResetInv'
  <2>1. stage = "resetGet" /\ UNCHANGED <<record, pending, running>>
        /\ cur \in running /\ todo \subseteq running /\ Elems(moved) \subseteq running
    BY <1>1, <1>2, <1>8, ItemsAssumption DEF ResetGet, LockInv, ResetInv, Carried, ResetStages, TypeOK
  <2>2. CASE Release
    BY <1>4, <1>5, <2>1, <2>2
  <2>3. CASE record[cur] # "none" /\ stage' = "resetMark" /\ UNCHANGED <<owner, cur, todo, moved>>
    <3>1. ResetInv' /\ stage' \notin ClaimStages
      BY <2>1, <2>3 DEF ResetInv, Carried, ResetStages, ClaimStages
    <3>2. QED
      BY <1>4, <2>1, <3>1
  <2>4. CASE record[cur] = "none" /\ ResetVisit(todo) /\ moved' = moved
    <3>1. /\ \A i \in Elems(moved) : record[i] # "none"
          /\ \A i \in running : record[i] # "none" => i \in Elems(moved) \cup todo
      BY <2>1, <2>4 DEF ResetInv, Carried, ResetStages
    <3>2. ResetInv' /\ stage' \notin ClaimStages
      BY <1>6, <2>1, <2>4, <3>1
    <3>3. QED
      BY <1>4, <2>1, <3>2
  <2>5. QED
    BY <1>8, <2>2, <2>3, <2>4 DEF ResetGet, ResetDone
<1>9. ASSUME ResetMark
      PROVE  LineRecorded' /\ ResetInv'
  <2>1. /\ stage = "resetMark" /\ UNCHANGED <<pending, running>> /\ record[cur] # "none"
        /\ cur \in running /\ todo \subseteq running /\ Elems(moved) \subseteq running
        /\ record' \in {record, [record EXCEPT ![cur] = "pending"]}
    BY <1>1, <1>2, <1>9, ItemsAssumption DEF ResetMark, LockInv, ResetInv, Carried, ResetStages, TypeOK
  <2>2. \A i \in Items : record'[i] = "none" <=> record[i] = "none"
    BY <1>1, <1>2, <2>1 DEF TypeOK
  <2>3. CASE Release
    BY <1>4, <1>5, <2>1, <2>2, <2>3
  <2>4. CASE ResetVisit(todo) /\ moved' = Append(moved, cur)
    <3>1. Elems(moved') = Elems(moved) \cup {cur}
      <4>1. cur \in Items
        BY <1>1, <2>1 DEF TypeOK
      <4>2. Elems(Append(moved, cur)) = Elems(moved) \cup {cur}
        BY <1>2, <4>1, AppendFacts
      <4>3. QED
        BY <2>4, <4>2, Zenon
    <3>2. /\ \A i \in Elems(moved') : record'[i] # "none"
          /\ \A i \in running : record'[i] # "none" => i \in Elems(moved') \cup todo
      BY <1>1, <1>2, <2>1, <2>2, <3>1 DEF ResetInv, Carried, ResetStages, TypeOK
    <3>3. ResetInv' /\ stage' \notin ClaimStages
      BY <1>6, <2>1, <2>4, <3>1, <3>2
    <3>4. QED
      BY <1>4, <2>1, <2>2, <3>3
  <2>5. QED
    BY <1>9, <2>3, <2>4 DEF ResetMark, ResetDone
<1>10. ASSUME ResetClear
       PROVE  LineRecorded' /\ ResetInv'
  <2>1. stage = "resetClear" /\ UNCHANGED <<record, pending>>
    BY <1>10 DEF ResetClear
  <2>2. CASE Release
    BY <1>4, <1>5, <2>1, <2>2
  <2>3. CASE running' = {} /\ stage' = "resetRequeue" /\ UNCHANGED <<cur, todo, moved>>
    <3>1. ResetInv' /\ stage' \notin ClaimStages
      BY <2>1, <2>3 DEF ResetInv, ResetStages, ClaimStages
    <3>2. QED
      BY <1>4, <2>1, <3>1
  <2>4. QED
    BY <1>10, <2>2, <2>3 DEF ResetClear, ResetDone
<1>11. ASSUME ResetRequeue
       PROVE  LineRecorded' /\ ResetInv'
  <2>1. PICK requeued \in Lists : /\ Dedupes(requeued, pending \o moved)
                                  /\ pending' = pending \/ pending' = requeued
    BY <1>11 DEF ResetRequeue
  <2>2. Elems(requeued) = Elems(pending \o moved)
    BY <2>1, DedupeFacts
  <2>3. Elems(pending \o moved) = Elems(pending) \cup Elems(moved)
    BY <1>2, ConcatFacts
  <2>4. Elems(pending') \subseteq Elems(pending) \cup Elems(moved)
    BY <2>1, <2>2, <2>3, Zenon
  <2>5. Release /\ stage \in ResetStages /\ record' = record
    BY <1>11 DEF ResetRequeue, ResetDone, ResetStages
  <2>6. QED
    BY <1>4, <1>5, <2>4, <2>5
<1>12. QED
  BY <1>7, <1>8, <1>9, <1>10, <1>11

\* A node that crashes takes its workers and its hold of the mutex with it.
LEMMA CrashKeepsRecords ==
    ASSUME SingleNodeInv, SingleNodeInv', LineRecorded, ResetInv, \A m, n \in Nodes : m = n,
           NEW n \in Nodes, Crash(n)
    PROVE  LineRecorded' /\ ResetInv'
<1>1. TypeOK /\ LockInv
  BY DEF SingleNodeInv, IndexInv
<1>2. /\ UNCHANGED <<record, pending, running>>
      /\ wpc' = [w \in Workers |-> IF w[1] = n THEN "idle" ELSE wpc[w]]
      /\ Release \/ (owner # n /\ UNCHANGED claimVars)
      /\ \A i \in Items : enq'[i] = "saved" => enq[i] = "saved"
  BY <1>1 DEF Crash, AbortHooks, TypeOK
<1>3. \A w \in Workers : wpc'[w] = "idle"
  BY <1>2 DEF Workers
<1>4. stage' = "free" /\ cur' = None /\ moved' = <<>>
  <2>1. CASE Release
    BY <2>1 DEF Release
  <2>2. CASE owner # n /\ UNCHANGED claimVars
    <3>1. stage = "free"
      BY <1>1, <2>2 DEF TypeOK, LockInv
    <3>2. QED
      BY <2>2, <3>1 DEF ResetInv, claimVars, ResetStages
  <2>3. QED
    BY <1>2, <2>1, <2>2
<1>5. LineRecorded'
  BY <1>2, <1>3, <1>4 DEF LineRecorded, FinishingInv, ClaimStages
<1>6. ResetInv'
  BY <1>4 DEF ResetInv, ResetStages
<1>7. QED
  BY <1>5, <1>6

\* On one node, what the queue still knows is still there, and a reset loses
\* nothing it has visited, whatever fails before and after it.
THEOREM QueueInvHolds ==
    ASSUME \A m, n \in Nodes : m = n
    PROVE  Spec => []QueueInv
<1>1. Init => LineRecorded /\ ResetInv
  BY EmptyFacts DEF Init, LineRecorded, FinishingInv, ResetInv, ClaimStages, ResetStages
<1>2. SingleNodeInv /\ SingleNodeInv' /\ LineRecorded /\ ResetInv /\ [Next]_vars
        => LineRecorded' /\ ResetInv'
  <2> SUFFICES ASSUME SingleNodeInv, SingleNodeInv', LineRecorded, ResetInv, [Next]_vars
               PROVE  LineRecorded' /\ ResetInv'
    OBVIOUS
  <2>1. CASE UNCHANGED vars
    BY <2>1, StandsStill DEF vars, claimVars, poolVars, hookVars, LineRecorded, FinishingInv
  <2>2. CASE Next
    BY <2>2, OthersKeepRecords, ClaimKeepsRecords, ResetKeepsRecords, CrashKeepsRecords DEF Next
  <2>3. QED
    BY <2>1, <2>2
<1>3. QED
  BY <1>1, <1>2, SingleNodeHolds, PTL DEF Spec, QueueInv

(***************************************************************************)
(* What an undisturbed queue forgets, on any number of nodes.               *)
(***************************************************************************)

\* Where the holder of the mutex keeps no item.
LEMMA HolderLetsGo ==
    ASSUME IndexInv, IndexInv', ForgetInv, Next
    PROVE  /\ stage' \in {"free", "resetClear", "resetRequeue"} => cur' = None
           /\ stage' \notin ResetStages => moved' = <<>>
<1>1. CASE UNCHANGED claimVars
  BY <1>1 DEF ForgetInv, claimVars
<1>2. CASE Release
  BY <1>2 DEF Release
<1>3. ASSUME NEW n \in Nodes, ClaimPop(n), ~Release
      PROVE  stage' = "get" /\ moved' = moved /\ stage \in {"free", "pop"}
  BY <1>3 DEF ClaimPop, IndexInv, LockInv
<1>4. ASSUME NEW left, ResetVisit(left)
      PROVE  stage' \in {"resetGet", "resetClear"} /\ (stage' = "resetClear" => cur' = None)
  BY <1>4 DEF ResetVisit
<1>5. CASE ClaimGet \/ ClaimMark \/ ClaimIndex \/ ClaimUndoRecord \/ ClaimUndoIndex
  BY <1>2, <1>5 DEF ClaimGet, ClaimMark, ClaimIndex, ClaimUndoRecord, ClaimUndoIndex, At, ForgetInv, ResetStages
<1>6. CASE ResetClear \/ ResetRequeue
  BY <1>2, <1>6 DEF ResetClear, ResetRequeue, ResetDone, ForgetInv, ResetStages
<1>7. CASE ResetGet \/ ResetMark \/ \E n \in Nodes : ResetBegin(n)
  BY <1>2, <1>4, <1>7 DEF ResetGet, ResetMark, ResetBegin, ResetDone, ResetStages
<1>8. CASE \E n \in Nodes : ClaimPop(n)
  BY <1>2, <1>3, <1>8 DEF ForgetInv, ResetStages
<1>9. CASE \E n \in Nodes : Crash(n)
  BY <1>1, <1>2, <1>9 DEF Crash
<1>10. QED
  BY <1>1, <1>5, <1>6, <1>7, <1>8, <1>9
     DEF Next, EnqueueIndex, EnqueueSave, FinishDelete, FailAgain, FinishUnindex, WorkerEnds,
         Activate, Deactivate

\* Enqueue and the coming and going of nodes: what was known stays known.
LEMMA HooksForgetNothing ==
    ASSUME IndexInv, ForgetInv, Undisturbed, UNCHANGED envVars, ~Fault,
           \/ \E i \in Items : EnqueueIndex(i) \/ \E n \in Nodes : EnqueueSave(i, n)
           \/ \E n \in Nodes : Activate(n) \/ Deactivate(n)
    PROVE  Undisturbed'
<1>1. TypeOK /\ LockInv /\ FreshInv /\ pending \in Seq(Items) /\ running \subseteq Items
  BY DEF IndexInv, TypeOK
<1>2. ASSUME NEW i \in Items, EnqueueIndex(i)
      PROVE  Undisturbed'
  <2>1. /\ pending' = Append(pending, i) /\ enq' = [enq EXCEPT ![i] = "queued"]
        /\ UNCHANGED <<record, running, claimVars, poolVars>> /\ stage = "free"
    BY <1>1, <1>2 DEF EnqueueIndex, envVars, LockInv
  <2>2. Elems(pending') = Elems(pending) \cup {i}
    BY <1>1, <2>1, AppendFacts
  <2>3. \A k \in Items : enq'[k] = "queued" => k = i \/ enq[k] = "queued"
    BY <1>1, <2>1 DEF TypeOK
  <2>4. Tracked' = Tracked \cup {i} /\ Executing' = Executing
    BY <2>1, <2>2 DEF Tracked, InHand, Executing, claimVars, poolVars
  <2>5. UndisturbedQueueForgetsNothing'
    BY <2>1, <2>3, <2>4 DEF Undisturbed, UndisturbedQueueForgetsNothing, envVars
  <2>6. QED
    BY <2>1, <2>2, <2>4, <2>5 DEF Undisturbed, claimVars, ResetStages
<1>3. ASSUME NEW i \in Items, NEW n \in Nodes, EnqueueSave(i, n)
      PROVE  Undisturbed'
  <2>1. /\ enq[i] = "new" /\ record' = [record EXCEPT ![i] = "pending"] /\ enq' = [enq EXCEPT ![i] = "saved"]
        /\ UNCHANGED <<pending, running, claimVars, poolVars>>
    BY <1>3 DEF EnqueueSave
  <2>2. i \notin running /\ i # cur /\ \A k \in Items : k # i => record'[k] = record[k] /\ enq'[k] = enq[k]
    BY <1>1, <2>1 DEF TypeOK, FreshInv
  <2>3. Tracked' = Tracked /\ Executing' = Executing /\ Carried' = Carried /\ Elems(pending') = Elems(pending)
    BY <2>1 DEF Tracked, InHand, Executing, Carried, claimVars, poolVars
  <2>4. UndisturbedQueueForgetsNothing'
    BY <1>1, <2>1, <2>2, <2>3 DEF Undisturbed, UndisturbedQueueForgetsNothing, TypeOK, envVars
  <2>5. stage' = "pop" => record'[cur'] = "none"
    BY <1>1, <2>1, <2>2 DEF Undisturbed, LockInv, ClaimStages, claimVars
  <2>6. QED
    BY <1>1, <2>1, <2>2, <2>3, <2>4, <2>5 DEF Undisturbed, claimVars
<1>4. CASE \E n \in Nodes : Activate(n) \/ Deactivate(n)
  <2>1. UNCHANGED <<record, pending, running, claimVars, poolVars>>
    BY <1>4 DEF Activate, Deactivate
  <2>2. \A i \in Items : enq'[i] = "queued" => enq[i] = "queued"
    BY <1>1, <1>4 DEF Activate, Deactivate, AbortHooks, hookVars, TypeOK
  <2>3. Tracked' = Tracked /\ Executing' = Executing /\ Carried' = Carried /\ Elems(pending') = Elems(pending)
    BY <2>1 DEF Tracked, InHand, Executing, Carried, claimVars, poolVars
  <2>4. UndisturbedQueueForgetsNothing'
    BY <2>1, <2>2, <2>3 DEF Undisturbed, UndisturbedQueueForgetsNothing, envVars
  <2>5. QED
    BY <2>1, <2>3, <2>4 DEF Undisturbed, claimVars
<1>5. QED
  BY <1>2, <1>3, <1>4

\* A worker gives up only an item without its record, or one that somebody else has.
LEMMA WorkersForgetNothing ==
    ASSUME IndexInv, ForgetInv, Undisturbed, UNCHANGED envVars, ~Fault, NEW w \in Workers,
           FinishDelete(w) \/ FailAgain(w) \/ FinishUnindex(w) \/ WorkerEnds(w)
    PROVE  Undisturbed'
<1>1. TypeOK /\ LockInv /\ FreshInv /\ pending \in Seq(Items) /\ running \subseteq Items
  BY DEF IndexInv, TypeOK
<1>2. UNCHANGED <<pending, claimVars, enq>>
  BY DEF FinishDelete, FailAgain, FinishUnindex, WorkerEnds, hookVars
<1>3. \A v \in Workers : v # w => wpc'[v] = wpc[v] /\ job'[v] = job[v]
  BY <1>1 DEF FinishDelete, FailAgain, FinishUnindex, WorkerEnds, Retire, TypeOK
<1>4. CASE FinishDelete(w) \/ FailAgain(w)
  <2>1. record' = [record EXCEPT ![job[w]] = "none"] /\ running' = running
    BY <1>4 DEF FinishDelete, FailAgain
  <2>2. \A i \in Items : record'[i] = IF i = job[w] THEN "none" ELSE record[i]
    BY <1>1, <2>1 DEF TypeOK
  <2>3. \A i \in Executing : i # job[w] => i \in Executing'
    BY <1>3 DEF Executing
  <2>4. Tracked' = Tracked /\ Carried' = Carried /\ Elems(pending') = Elems(pending)
    BY <1>2, <2>1 DEF Tracked, InHand, Carried, claimVars
  <2>5. UndisturbedQueueForgetsNothing'
    BY <1>2, <2>2, <2>3, <2>4 DEF Undisturbed, UndisturbedQueueForgetsNothing, envVars
  <2>6. stage' = "pop" => record'[cur'] = "none"
    BY <1>1, <1>2, <2>2 DEF Undisturbed, LockInv, ClaimStages, claimVars
  <2>7. QED
    BY <1>1, <1>2, <2>1, <2>2, <2>3, <2>4, <2>5, <2>6 DEF Undisturbed, claimVars
<1>5. CASE FinishUnindex(w) \/ WorkerEnds(w)
  <2>1. /\ record' = record
        /\ \/ running' = running
           \/ owner = None /\ running' = running \ {job[w]}
    BY <1>5 DEF FinishUnindex, WorkerEnds
  <2>2. wpc[w] # "executing"
    BY <1>5 DEF FinishUnindex, WorkerEnds
  <2>3. \A i \in Executing : i \in Executing'
    BY <1>3, <2>2 DEF Executing
  <2>4. Carried' = Carried /\ Elems(pending') = Elems(pending)
    BY <1>2 DEF Carried, claimVars
  <2>5. CASE running' = running
    <3>1. Tracked' = Tracked
      BY <1>2, <2>5 DEF Tracked, InHand, claimVars
    <3>2. UndisturbedQueueForgetsNothing'
      BY <1>2, <2>1, <2>3, <3>1 DEF Undisturbed, UndisturbedQueueForgetsNothing, envVars
    <3>3. QED
      BY <1>2, <2>1, <2>3, <2>4, <2>5, <3>2 DEF Undisturbed, claimVars
  <2>6. CASE owner = None /\ running' = running \ {job[w]}
    <3>1. stage = "free" /\ cur = None /\ stage \notin ResetStages
      BY <1>1, <2>6 DEF LockInv, ForgetInv, ResetStages
    <3>2. \A i \in running : record[i] # "none" => i \in Elems(pending) \cup {cur} \cup Executing
      BY <3>1 DEF Undisturbed
    <3>3. \A i \in Tracked : i \in running \/ i \in Tracked'
      BY <1>2, <2>6 DEF Tracked, InHand, claimVars
    <3>4. \A i \in Items : i \in Elems(pending) => i \in Tracked'
      BY <1>2 DEF Tracked
    <3>5. UndisturbedQueueForgetsNothing'
      BY <1>2, <2>1, <2>3, <3>1, <3>2, <3>3, <3>4, ItemsAssumption
         DEF Undisturbed, UndisturbedQueueForgetsNothing, envVars
    <3>6. QED
      BY <1>2, <2>1, <2>3, <2>4, <2>6, <3>1, <3>2, <3>5 DEF Undisturbed, claimVars, ResetStages
  <2>7. QED
    BY <2>1, <2>5, <2>6
<1>6. QED
  BY <1>4, <1>5

\* A claim has its item in hand until a worker has it.
LEMMA ClaimsForgetNothing ==
    ASSUME IndexInv, ForgetInv, Undisturbed, UNCHANGED envVars, ~Fault, faults + crashes = 0,
           \/ \E n \in Nodes : ClaimPop(n)
           \/ ClaimGet \/ ClaimMark \/ ClaimIndex \/ ClaimUndoRecord \/ ClaimUndoIndex
    PROVE  Undisturbed'
<1>1. TypeOK /\ LockInv /\ FreshInv /\ pending \in Seq(Items) /\ running \subseteq Items
  BY DEF IndexInv, TypeOK
<1>2. /\ stage \notin ResetStages
      /\ \A i \in running : record[i] # "none" => i \in Elems(pending) \cup {cur} \cup Executing
  <2>1. stage \notin ResetStages
    BY <1>1 DEF ClaimPop, ClaimGet, ClaimMark, ClaimIndex, ClaimUndoRecord, ClaimUndoIndex, At,
                LockInv, ResetStages
  <2>2. QED
    BY <2>1 DEF Undisturbed
<1>3. UNCHANGED enq
  BY DEF ClaimPop, ClaimGet, ClaimMark, ClaimIndex, ClaimUndoRecord, ClaimUndoIndex, At, hookVars
<1>4. \A i \in Items : enq[i] = "queued" /\ record[i] # "none" =>
         i \in Elems(pending) \cup running \cup {cur} \cup Executing
  BY <1>2, ItemsAssumption DEF Undisturbed, UndisturbedQueueForgetsNothing, Tracked, InHand, envVars, ResetStages
<1>5. ASSUME stage' \notin ResetStages, stage' = "pop" => record'[cur'] = "none",
             \A i \in running' : record'[i] # "none" => i \in Elems(pending') \cup {cur'} \cup Executing',
             \A i \in Items : enq'[i] = "queued" /\ record'[i] # "none" =>
                i \in Elems(pending') \cup running' \cup {cur'} \cup Executing'
      PROVE  Undisturbed'
  <2>1. \A i \in Items : i # None
    BY ItemsAssumption
  <2>2. UndisturbedQueueForgetsNothing'
    BY <1>5, <2>1 DEF UndisturbedQueueForgetsNothing, Tracked, InHand, ResetStages
  <2>3. QED
    BY <1>5, <2>2 DEF Undisturbed, ResetStages
<1>6. ASSUME NEW n \in Nodes, ClaimPop(n)
      PROVE  Undisturbed'
  <2>1. /\ cur = None \/ record[cur] = "none"
        /\ UNCHANGED <<record, running, poolVars>>
    BY <1>1, <1>6 DEF ClaimPop, ForgetInv, LockInv, Undisturbed
  <2>2. Executing' = Executing
    BY <2>1 DEF Executing, poolVars
  <2>3. CASE /\ pending # <<>> /\ cur' = Head(pending) /\ pending' = Tail(pending) /\ stage' = "get"
    <3>1. Elems(pending) = Elems(pending') \cup {cur'}
      BY <1>1, <2>3, PopElems
    <3>2. stage' \notin ResetStages /\ stage' # "pop"
      BY <2>3 DEF ResetStages
    <3>3. \A i \in running' : record'[i] # "none" => i \in Elems(pending') \cup {cur'} \cup Executing'
      <4>1. ASSUME NEW i \in running, record[i] # "none"
            PROVE  i \in Elems(pending) \cup Executing
        <5>1. cur = None \/ record[cur] = "none"
          BY <2>1
        <5>2. i # cur
          BY <4>1, <5>1, <1>1, ItemsAssumption
        <5>3. QED
          BY <4>1, <5>2, <1>2
      <4>2. running' = running /\ record' = record
        BY <2>1
      <4>3. QED
        BY <4>1, <4>2, <2>2, <3>1
    <3>4. \A i \in Items : enq'[i] = "queued" /\ record'[i] # "none" =>
             i \in Elems(pending') \cup running' \cup {cur'} \cup Executing'
      BY <1>3, <1>4, <2>1, <2>2, <3>1, ItemsAssumption
    <3>5. QED
      BY <1>5, <3>2, <3>3, <3>4
  <2>4. CASE pending = <<>> /\ pending' = pending /\ Release
    BY <1>2, <1>3, <1>4, <1>5, <2>1, <2>2, <2>4, ItemsAssumption DEF ResetStages, Release
  <2>5. QED
    BY <1>6, <2>3, <2>4 DEF ClaimPop
<1>7. CASE ClaimGet
  <2>1. /\ stage' = (IF record[cur] = "none" THEN "pop" ELSE "mark")
        /\ UNCHANGED <<cur, record, pending, running, poolVars>>
    BY <1>7 DEF ClaimGet
  <2>2. Executing' = Executing
    BY <2>1 DEF Executing, poolVars
  <2>3. QED
    BY <1>2, <1>3, <1>4, <1>5, <2>1, <2>2 DEF ResetStages
<1>8. CASE ClaimMark \/ ClaimUndoRecord
  <2>1. /\ stage' \in {"index", "undoIndex"} /\ UNCHANGED <<cur, pending, running, poolVars>>
        /\ \A i \in Items : i # cur => record'[i] = record[i]
    BY <1>1, <1>8 DEF ClaimMark, ClaimUndoRecord, TypeOK
  <2>2. Executing' = Executing
    BY <2>1 DEF Executing, poolVars
  <2>3. QED
    BY <1>1, <1>2, <1>3, <1>4, <1>5, <2>1, <2>2 DEF ResetStages
<1>9. CASE ClaimIndex
  <2>1. /\ running' = running \cup {cur} /\ Release /\ UNCHANGED <<record, pending>>
        /\ stage = "index" /\ cur \in Items /\ owner \in Nodes
    BY <1>1, <1>9 DEF ClaimIndex, At, LockInv, ClaimStages, TypeOK
  <2>2. PICK v \in Workers : /\ wpc[v] = "idle"
                             /\ wpc' = [wpc EXCEPT ![v] = "executing"]
                             /\ job' = [job EXCEPT ![v] = cur]
    BY <1>9, <2>1 DEF ClaimIndex, Workers
  <2>3. Executing' = Executing \cup {cur}
    <3>1. /\ wpc'[v] = "executing" /\ job'[v] = cur
          /\ \A w \in Workers : w # v => wpc'[w] = wpc[w] /\ job'[w] = job[w]
      BY <1>1, <2>2 DEF TypeOK
    <3>2. QED
      BY <2>2, <3>1 DEF Executing
  <2>4. QED
    BY <1>2, <1>3, <1>4, <1>5, <2>1, <2>3 DEF ResetStages, Release
<1>10. CASE ClaimUndoIndex
  <2>1. /\ pending' = <<cur>> \o pending /\ Release /\ UNCHANGED <<record, running, poolVars>>
        /\ cur \in Items
    BY <1>1, <1>10 DEF ClaimUndoIndex, At, LockInv, ClaimStages
  <2>2. Elems(pending') = Elems(pending) \cup {cur} /\ Executing' = Executing
    BY <1>1, <2>1, PushFacts DEF Executing, poolVars
  <2>3. QED
    BY <1>2, <1>3, <1>4, <1>5, <2>1, <2>2 DEF ResetStages, Release
<1>11. QED
  BY <1>6, <1>7, <1>8, <1>9, <1>10

\* A reset carries over whatever it finds with a record; what has none when it is
\* visited gets none.
LEMMA ResetsForgetNothing ==
    ASSUME IndexInv, ForgetInv, Undisturbed, UNCHANGED envVars, ~Fault,
           \/ \E n \in Nodes : ResetBegin(n)
           \/ ResetGet \/ ResetMark \/ ResetClear \/ ResetRequeue
    PROVE  Undisturbed'
<1>1. /\ TypeOK /\ LockInv /\ FreshInv /\ pending \in Seq(Items) /\ running \subseteq Items
      /\ moved \in Seq(Items) /\ record \in [Items -> {"none", "pending", "running"}]
      /\ \A i \in Items : i # None
  BY ItemsAssumption DEF IndexInv, TypeOK
<1>2. UNCHANGED <<enq, wpc, job>> /\ Executing' = Executing
  BY DEF ResetBegin, ResetGet, ResetMark, ResetClear, ResetRequeue, hookVars, poolVars, Executing
<1>3. ASSUME NEW left, left \subseteq running, ResetVisit(left), running' = running, pending' = pending,
             cur = None \/ cur \in running, stage # "resetRequeue",
             Elems(moved') \subseteq running,
             \A i \in Items : record'[i] # "none" => record[i] # "none" \/ i \in running,
             \A i \in running : record'[i] # "none" => i \in Elems(moved') \cup left
      PROVE  Undisturbed'
  <2>1. /\ stage' \in {"resetGet", "resetClear"} /\ todo' \subseteq running
        /\ cur' \in running \cup {None} /\ left = todo' \cup ({cur'} \ {None})
        /\ stage' = "resetClear" => todo' = {}
    BY <1>1, <1>3 DEF ResetVisit
  <2>2. /\ Carried' \subseteq running' \cup {None}
        /\ \A i \in running' : record'[i] # "none" => i \in Carried'
    BY <1>3, <2>1 DEF Carried
  <2>3. \A i \in Tracked : i \in Tracked'
    BY <1>1, <1>3 DEF Tracked, InHand
  <2>4. running' \subseteq Tracked'
    BY DEF Tracked
  <2>5. UndisturbedQueueForgetsNothing'
    BY <1>2, <1>3, <2>3, <2>4 DEF Undisturbed, UndisturbedQueueForgetsNothing, envVars
  <2>6. QED
    BY <2>1, <2>2, <2>5 DEF Undisturbed, ResetStages
<1>4. ASSUME NEW n \in Nodes, ResetBegin(n)
      PROVE  Undisturbed'
  <2>1. stage = "free" /\ cur = None /\ moved = <<>> /\ UNCHANGED <<record, pending, running>>
    BY <1>1, <1>4 DEF ResetBegin, LockInv, ForgetInv, ResetStages
  <2>2. CASE ResetVisit(running) /\ moved' = moved
    <3>1. Elems(moved') = {}
      BY <2>1, <2>2, EmptyFacts
    <3>2. QED
      BY <1>3, <2>1, <2>2, <3>1
  <2>3. CASE running = {} /\ Release
    <3>1. Tracked' = Tracked /\ stage' = "free"
      BY <2>1, <2>3 DEF Tracked, InHand, Release
    <3>2. UndisturbedQueueForgetsNothing'
      BY <1>2, <2>1, <3>1 DEF Undisturbed, UndisturbedQueueForgetsNothing, envVars
    <3>3. QED
      BY <2>1, <2>3, <3>1, <3>2 DEF Undisturbed, ResetStages
  <2>4. QED
    BY <1>4, <2>2, <2>3 DEF ResetBegin, ResetDone
<1>5. CASE ResetGet
  <2>1. /\ stage = "resetGet" /\ UNCHANGED <<record, pending, running, moved>> /\ cur \in Items
        /\ Carried \subseteq running \cup {None}
        /\ \A i \in running : record[i] # "none" => i \in Carried
    BY <1>1, <1>5 DEF ResetGet, LockInv, Undisturbed, ResetStages, Release, ResetDone
  <2>2. cur \in running /\ todo \subseteq running /\ Elems(moved) \subseteq running
    <3>1. Elems(moved) \subseteq Items /\ todo \subseteq Items
      BY <1>1 DEF TypeOK, Elems
    <3>2. QED
      BY <1>1, <2>1, <3>1 DEF Carried
  <2>3. CASE record[cur] # "none" /\ stage' = "resetMark" /\ UNCHANGED <<cur, todo>>
    <3>1. Carried' = Carried /\ Tracked' = Tracked
      BY <2>1, <2>3 DEF Carried, Tracked, InHand
    <3>2. UndisturbedQueueForgetsNothing'
      BY <1>2, <2>1, <3>1 DEF Undisturbed, UndisturbedQueueForgetsNothing, envVars
    <3>3. QED
      BY <2>1, <2>3, <3>1, <3>2 DEF Undisturbed, ResetStages
  <2>4. CASE record[cur] = "none" /\ ResetVisit(todo)
    <3>1. \A i \in running : record'[i] # "none" => i \in Elems(moved') \cup todo
      BY <1>1, <2>1, <2>4 DEF Carried
    <3>2. QED
      BY <1>3, <2>1, <2>2, <2>4, <3>1
  <2>5. QED
    BY <1>5, <2>3, <2>4 DEF ResetGet
<1>6. CASE ResetMark
  <2>1. /\ stage = "resetMark" /\ UNCHANGED <<pending, running>> /\ cur \in Items
        /\ record' = [record EXCEPT ![cur] = "pending"] /\ moved' = Append(moved, cur) /\ ResetVisit(todo)
        /\ Carried \subseteq running \cup {None}
        /\ \A i \in running : record[i] # "none" => i \in Carried
    BY <1>1, <1>6 DEF ResetMark, LockInv, Undisturbed, ResetStages
  <2>2. /\ cur \in running /\ todo \subseteq running /\ Elems(moved) \subseteq running
        /\ Elems(moved') = Elems(moved) \cup {cur}
    <3>1. Elems(moved) \subseteq Items /\ todo \subseteq Items
      BY <1>1 DEF TypeOK, Elems
    <3>2. QED
      BY <1>1, <2>1, <3>1, AppendFacts DEF Carried
  <2>3. \A i \in Items : i # cur => record'[i] = record[i]
    BY <1>1, <2>1
  <2>4. \A i \in running : record'[i] # "none" => i \in Elems(moved') \cup todo
    BY <1>1, <2>1, <2>2, <2>3 DEF Carried
  <2>5. QED
    BY <1>3, <2>1, <2>2, <2>3, <2>4
<1>7. CASE ResetClear
  <2>1. /\ stage = "resetClear" /\ stage' = "resetRequeue" /\ running' = {}
        /\ UNCHANGED <<record, pending, cur, todo, moved>>
        /\ cur = None /\ todo = {}
        /\ \A i \in running : record[i] # "none" => i \in Carried
    BY <1>7 DEF ResetClear, Undisturbed, ResetStages, ForgetInv
  <2>2. \A i \in running : record[i] # "none" => i \in Elems(moved)
    BY <1>1, <2>1 DEF Carried
  <2>3. \A i \in Items : i \in Elems(moved) \/ i \in Elems(pending) => i \in Tracked'
    BY <1>1, <2>1 DEF Tracked, InHand
  <2>4. \A i \in Tracked : i \in running \/ i \in Elems(pending)
    BY <2>1 DEF Tracked, InHand
  <2>5. UndisturbedQueueForgetsNothing'
    BY <1>2, <2>1, <2>2, <2>3, <2>4 DEF Undisturbed, UndisturbedQueueForgetsNothing, envVars
  <2>6. QED
    BY <2>1, <2>5 DEF Undisturbed, ResetStages
<1>8. CASE ResetRequeue
  <2>1. PICK requeued \in Lists : Dedupes(requeued, pending \o moved) /\ pending' = requeued
    BY <1>8 DEF ResetRequeue
  <2>2. /\ stage = "resetRequeue" /\ cur = None /\ running = {} /\ Release
        /\ UNCHANGED <<record, running>>
    BY <1>8 DEF ResetRequeue, ResetDone, Undisturbed, ForgetInv
  <2>3. Elems(pending') = Elems(pending) \cup Elems(moved)
    <3>1. Elems(requeued) = Elems(pending \o moved)
      BY <2>1, DedupeFacts
    <3>2. Elems(pending \o moved) = Elems(pending) \cup Elems(moved)
      BY <1>1, ConcatFacts
    <3>3. QED
      BY <2>1, <3>1, <3>2, Zenon
  <2>4. \A i \in Tracked : i \in Tracked'
    BY <2>2, <2>3 DEF Tracked, InHand
  <2>5. UndisturbedQueueForgetsNothing'
    BY <1>2, <2>2, <2>4 DEF Undisturbed, UndisturbedQueueForgetsNothing, envVars
  <2>6. QED
    BY <2>2, <2>5 DEF Undisturbed, ResetStages, Release
<1>9. QED
  BY <1>4, <1>5, <1>6, <1>7, <1>8

\* On any number of nodes, as long as no KV call fails and no node crashes, an item
\* that was queued is in an index, in the hands of a claim or a reset, executed, or
\* finished, whichever nodes come and go while others work.
THEOREM UndisturbedQueuesForgetNothing == Spec => []UndisturbedQueueForgetsNothing
<1>1. Init => ForgetInv
  BY EmptyFacts DEF Init, ForgetInv, Undisturbed, UndisturbedQueueForgetsNothing, ResetStages
<1>2. IndexInv /\ IndexInv' /\ ForgetInv /\ [Next]_vars => ForgetInv'
  <2> SUFFICES ASSUME IndexInv, IndexInv', ForgetInv, [Next]_vars
               PROVE  ForgetInv'
    OBVIOUS
  <2>1. CASE UNCHANGED vars
    <3>1. /\ UNCHANGED <<record, pending, running, stage, cur, todo, moved, enq, wpc, job>>
          /\ UNCHANGED <<faults, crashes>>
      BY <2>1 DEF vars, claimVars, poolVars, hookVars, envVars
    <3>2. Executing' = Executing /\ Tracked' = Tracked /\ Carried' = Carried
      BY <3>1 DEF Executing, Tracked, InHand, Carried
    <3>3. UndisturbedQueueForgetsNothing => UndisturbedQueueForgetsNothing'
      BY <3>1, <3>2 DEF UndisturbedQueueForgetsNothing
    <3>4. Undisturbed => Undisturbed'
      BY <3>1, <3>2, <3>3 DEF Undisturbed
    <3>5. QED
      BY <3>1, <3>4 DEF ForgetInv
  <2>2. CASE Next
    <3>1. SUFFICES ASSUME faults' + crashes' = 0 PROVE Undisturbed'
      BY <2>2, <3>1, HolderLetsGo DEF ForgetInv
    <3>2. /\ faults \in Nat /\ crashes \in Nat /\ faults' \in Nat /\ crashes' \in Nat
      BY DEF IndexInv, TypeOK
    <3>a. faults' = 0 /\ crashes' = 0
      <4>1. \A f, c \in Nat : f + c = 0 => f = 0 /\ c = 0
        OBVIOUS
      <4>2. QED
        BY <3>1, <3>2, <4>1, Zenon
    <3>3. ~Fault /\ (\A n \in Nodes : ~Crash(n))
      BY <3>2, <3>a DEF Fault, Crash
    <3>4. UNCHANGED envVars
      BY <2>2, <3>3 DEF Next, EnqueueIndex, EnqueueSave, ClaimPop, ClaimGet, ClaimMark, ClaimIndex,
         ClaimUndoRecord, ClaimUndoIndex, FinishDelete, FailAgain, FinishUnindex, WorkerEnds, Activate,
         Deactivate, ResetBegin, ResetGet, ResetMark, ResetClear, ResetRequeue, envVars
    <3>5. Undisturbed
      BY <3>1, <3>2, <3>4 DEF ForgetInv, envVars
    <3>6. faults + crashes = 0
      BY <3>1, <3>4 DEF envVars
    <3>7. QED
      BY <2>2, <3>3, <3>4, <3>5, <3>6, HooksForgetNothing, WorkersForgetNothing, ClaimsForgetNothing,
         ResetsForgetNothing DEF Next
  <2>3. QED
    BY <2>1, <2>2
<1>3. ForgetInv => UndisturbedQueueForgetsNothing
  BY DEF ForgetInv, Undisturbed, UndisturbedQueueForgetsNothing
<1>4. QED
  BY <1>1, <1>2, <1>3, IndexInvHolds, PTL DEF Spec

(***************************************************************************)
(* The queue implements JobQueue.                                          *)
(***************************************************************************)

Claiming == stage \in ClaimStages \ {"pop"}

\* An item being claimed is first in line, the others follow in the order of the
\* pending index; the line lists just the waiting items, each once.
LineInv ==
    /\ Line \in Seq(Items) /\ NoRepeats(Line) /\ pending \in Seq(Items)
    /\ Elems(Line) = Elems(pending) \cup (IF Claiming THEN {cur} ELSE {})
    /\ Claiming => /\ cur \in Items /\ cur \notin Elems(pending)
                   /\ Line # <<>> /\ Head(Line) = cur /\ Tail(Line) = pending
    /\ ~Claiming => Line = pending
    /\ Elems(Line) = {i \in Items : Phase(i) = "waiting"}

LEMMA LineFacts == QueueInv => LineInv
<1> SUFFICES ASSUME QueueInv PROVE LineInv
  OBVIOUS
<1>1. TypeOK /\ LockInv /\ FreshInv /\ ClaimInv /\ PendingHasNoRepeats /\ WorkerInv
  BY DEF QueueInv, SingleNodeInv, IndexInv
<1>2. pending \in Seq(Items) /\ NoRepeats(pending)
  BY <1>1 DEF TypeOK, PendingHasNoRepeats
<1>3. CASE Claiming
  <2>1. cur \in Items /\ cur \notin Elems(pending) /\ Line = <<cur>> \o pending
    BY <1>1, <1>3 DEF Claiming, LockInv, ClaimInv, Line
  <2>2. Line \in Seq(Items) /\ Elems(Line) = Elems(pending) \cup {cur} /\ NoRepeats(Line)
    BY <1>2, <2>1, PushFacts
  <2>3. Line # <<>> /\ Head(Line) = cur /\ Tail(Line) = pending
    <3>1. /\ Len(<<cur>> \o pending) = 1 + Len(pending)
          /\ \A k \in 1..1 + Len(pending) :
                (<<cur>> \o pending)[k] = IF k <= 1 THEN cur ELSE pending[k - 1]
      BY <1>2, <2>1, ConcatProperties
    <3>2. PICK s \in Seq(Items) : s = Line
      BY <2>2
    <3>3. Len(s) = 1 + Len(pending) /\ s[1] = cur /\ \A k \in 1..Len(pending) : s[k + 1] = pending[k]
      BY <1>2, <2>1, <3>1, <3>2
    <3>4. s # <<>> /\ Head(s) = cur
      BY <1>2, <3>3
    <3>5. Tail(s) = pending
      <4>1. /\ Tail(s) \in Seq(Items) /\ Len(Tail(s)) = Len(pending)
            /\ \A k \in 1..Len(pending) : Tail(s)[k] = s[k + 1]
        BY <1>2, <3>3, <3>4
      <4>2. QED
        BY <1>2, <3>3, <4>1, SeqEqual
    <3>6. QED
      BY <3>2, <3>4, <3>5
  <2>4. \A i \in Elems(Line) : i \in Items /\ enq[i] = "queued" /\ i \notin Executing
    BY <1>1, <1>2, <1>3, <2>1, <2>2 DEF FreshInv, Executing, WorkerInv, Claiming, Elems
  <2>5. Elems(Line) = {i \in Items : Phase(i) = "waiting"}
    BY <2>4 DEF Phase
  <2>6. QED
    BY <1>2, <1>3, <2>1, <2>2, <2>3, <2>5 DEF LineInv
<1>4. CASE ~Claiming
  <2>1. Line = pending
    BY <1>2, <1>4, ConcatEmptySeq DEF Claiming, Line
  <2>2. \A i \in Elems(Line) : i \in Items /\ enq[i] = "queued" /\ i \notin Executing
    BY <1>1, <1>2, <2>1 DEF FreshInv, Executing, WorkerInv, Elems
  <2>3. Elems(Line) = {i \in Items : Phase(i) = "waiting"}
    BY <2>2 DEF Phase
  <2>4. QED
    BY <1>2, <1>4, <2>1, <2>3 DEF LineInv
<1>5. QED
  BY <1>3, <1>4

\* Where an item stands depends on little.
LEMMA PhaseKept ==
    ASSUME NEW i \in Items,
           enq'[i] = "queued" <=> enq[i] = "queued",
           i \in Executing' <=> i \in Executing,
           i \in Elems(Line') <=> i \in Elems(Line),
           record'[i] = "none" <=> record[i] = "none",
           i \notin Elems(Line) /\ record[i] # "none" => (i \in Tracked' <=> i \in Tracked)
    PROVE  Phase(i)' = Phase(i)
BY DEF Phase

Shown == [i \in Items |-> Phase(i)]

\* A step that the abstract queue does not see.
LEMMA Unseen ==
    ASSUME Line' = Line, \A i \in Items : Phase(i)' = Phase(i),
           (faults + crashes)' = faults + crashes
    PROVE  UNCHANGED Jobs!jobVars
<1>1. Shown' = Shown
  BY DEF Shown
<1>2. QED
  BY <1>1 DEF Shown, Jobs!jobVars

\* How a failing call or a crash may move an item.
Astray(i) ==
    \/ Phase(i) = "new" /\ Phase(i)' = "waiting"
    \/ Phase(i) = "waiting" /\ Phase(i)' \in {"lost", "orphaned"}
    \/ Phase(i) = "active" /\ Phase(i)' \in {"orphaned", "done"}
    \/ Phase(i) = "orphaned" /\ Phase(i)' \in {"waiting", "lost", "done"}

Ahead(i, j, l) == \E k, m \in DOMAIN l : k < m /\ l[k] = i /\ l[m] = j

\* A mishap moves items as the abstract queue allows and keeps the others in order.
LEMMA IsMishap ==
    ASSUME QueueInv, QueueInv', (faults + crashes)' = faults + crashes + 1,
           \A i \in Items : Phase(i)' = Phase(i) \/ Astray(i),
           \A i, j \in Elems(Line) \cap Elems(Line') : Ahead(i, j, Line) => Ahead(i, j, Line')
    PROVE  Jobs!Mishap
<1>1. /\ Line' \in Seq(Items) /\ NoRepeats(Line')
      /\ Elems(Line') = {i \in Items : Phase(i)' = "waiting"}
      /\ Elems(Line) = {i \in Items : Phase(i) = "waiting"}
  <2>1. LineInv /\ LineInv'
    BY LineFacts, PTL
  <2>2. QED
    BY <2>1 DEF LineInv
<1>2. \A i \in Items : Shown[i] = Phase(i) /\ Shown'[i] = Phase(i)'
  BY DEF Shown
<1>3. DOMAIN Shown' = Items
  BY DEF Shown
<1>4. /\ Elems(Line') = {i \in Items : Shown'[i] = "waiting"}
      /\ Elems(Line) = {i \in Items : Shown[i] = "waiting"}
  BY <1>1, <1>2
<1>5. \A i \in Items : Shown'[i] # Shown[i] =>
          \/ Shown[i] = "new" /\ Shown'[i] = "waiting"
          \/ Shown[i] = "waiting" /\ Shown'[i] \in {"lost", "orphaned"}
          \/ Shown[i] = "active" /\ Shown'[i] \in {"orphaned", "done"}
          \/ Shown[i] = "orphaned" /\ Shown'[i] \in {"waiting", "lost", "done"}
  BY <1>2 DEF Astray
<1>6. /\ Shown = [i \in Items |-> Phase(i)] /\ Shown' = [i \in Items |-> Phase(i)]'
  BY DEF Shown
<1>7. Jobs!InLineOnce(Line', {i \in Items : Shown'[i] = "waiting"})
  BY <1>1, <1>4 DEF Jobs!InLineOnce, Elems, NoRepeats
<1>8. \A i, j \in {k \in Items : Shown[k] = "waiting"} \cap {k \in Items : Shown'[k] = "waiting"} :
         Jobs!Ahead(i, j, Line) => Jobs!Ahead(i, j, Line')
  BY <1>4 DEF Ahead, Jobs!Ahead
<1>9. QED
  BY <1>3, <1>5, <1>6, <1>7, <1>8 DEF Jobs!Mishap, Jobs!InPhase

\* What a step of the abstract queue does to where the items stand.
LEMMA IsMove ==
    ASSUME NEW S, NEW p, \A i \in Items : Phase(i)' = IF i \in S THEN p ELSE Phase(i)
    PROVE  Jobs!Move(S, p)
<1>1. Shown' = [i \in Items |-> IF i \in S THEN p ELSE Shown[i]]
  BY DEF Shown
<1>2. QED
  BY <1>1 DEF Shown, Jobs!Move

\* A list that goes on with the same ids, and a list that loses its first id, keep
\* the others in order.
LEMMA OrderFacts ==
    ASSUME NEW S, NEW s \in Seq(S), NEW t \in Seq(S)
    PROVE  /\ \A i, j : Ahead(i, j, s) => Ahead(i, j, s \o t)
           /\ \A e \in S : \A i, j : Ahead(i, j, s) => Ahead(i, j, Append(s, e))
           /\ s # <<>> /\ NoRepeats(s) =>
                 \A i, j \in Elems(Tail(s)) : Ahead(i, j, s) => Ahead(i, j, Tail(s))
<1>1. ASSUME NEW i, NEW j, Ahead(i, j, s)
      PROVE  Ahead(i, j, s \o t)
  <2>1. PICK k \in DOMAIN s, m \in DOMAIN s : k < m /\ s[k] = i /\ s[m] = j
    BY <1>1 DEF Ahead
  <2>2. /\ Len(s \o t) = Len(s) + Len(t) /\ s \o t \in Seq(S)
        /\ \A q \in 1..Len(s) + Len(t) :
              (s \o t)[q] = IF q <= Len(s) THEN s[q] ELSE t[q - Len(s)]
    BY ConcatProperties
  <2>3. k \in DOMAIN (s \o t) /\ m \in DOMAIN (s \o t) /\ (s \o t)[k] = i /\ (s \o t)[m] = j
    BY <2>1, <2>2
  <2>4. QED
    BY <2>1, <2>3 DEF Ahead
<1>2. ASSUME NEW e \in S, NEW i, NEW j, Ahead(i, j, s)
      PROVE  Ahead(i, j, Append(s, e))
  BY <1>2 DEF Ahead
<1>3. ASSUME s # <<>>, NoRepeats(s), NEW i \in Elems(Tail(s)), NEW j \in Elems(Tail(s)),
             Ahead(i, j, s)
      PROVE  Ahead(i, j, Tail(s))
  <2>1. PICK k \in DOMAIN s, m \in DOMAIN s : k < m /\ s[k] = i /\ s[m] = j
    BY <1>3 DEF Ahead
  <2>2. Head(s) \notin Elems(Tail(s)) /\ Tail(s) \in Seq(S)
    BY <1>3, PopFacts
  <2>3. k # 1
    BY <1>3, <2>1, <2>2
  <2>4. /\ k - 1 \in DOMAIN Tail(s) /\ m - 1 \in DOMAIN Tail(s) /\ k - 1 < m - 1
        /\ Tail(s)[k - 1] = i /\ Tail(s)[m - 1] = j
    BY <1>3, <2>1, <2>2, <2>3
  <2>5. QED
    BY <2>4 DEF Ahead
<1>4. QED
  BY <1>1, <1>2, <1>3

\* A step that leaves every item where it stands, whether or not a call fails in it.
LEMMA QuietStep ==
    ASSUME QueueInv, QueueInv', (UNCHANGED envVars) \/ Fault,
           Line' = Line, \A i \in Items : Phase(i)' = Phase(i)
    PROVE  [Jobs!JobNext]_(Jobs!jobVars)
<1>1. CASE UNCHANGED envVars
  BY <1>1, Unseen DEF envVars
<1>2. CASE Fault
  <2>1. (faults + crashes)' = faults + crashes + 1
    BY <1>2 DEF Fault, QueueInv, SingleNodeInv, IndexInv, TypeOK
  <2>2. Jobs!Mishap
    BY <2>1, IsMishap
  <2>3. QED
    BY <2>2 DEF Jobs!JobNext
<1>3. QED
  BY <1>1, <1>2

\* The first item in line is dropped by a failing call.
LEMMA HeadDropped ==
    ASSUME QueueInv, QueueInv', (faults + crashes)' = faults + crashes + 1,
           Line # <<>>, Line' = Tail(Line), enq' = enq, Executing' = Executing,
           \A i \in Items : record'[i] = "none" <=> record[i] = "none",
           \A i \in Items \ Elems(Line) : i \in Tracked' <=> i \in Tracked
    PROVE  [Jobs!JobNext]_(Jobs!jobVars)
<1>1. LineInv /\ LineInv'
  BY LineFacts, PTL
<1>2. /\ Line \in Seq(Items) /\ NoRepeats(Line)
      /\ \A i \in Items : i \in Elems(Line) <=> Phase(i) = "waiting"
  BY <1>1 DEF LineInv
<1>3. /\ Head(Line) \in Elems(Line) /\ Head(Line) \notin Elems(Line')
      /\ Elems(Line') \subseteq Elems(Line)
      /\ \A i \in Elems(Line) : i = Head(Line) \/ i \in Elems(Line')
  <2>1. \A i \in Elems(Line) : i = Head(Line) \/ i \in Elems(Tail(Line))
    <3>1. ASSUME NEW k \in DOMAIN Line, k # 1
          PROVE  Line[k] \in Elems(Tail(Line))
      <4>1. k - 1 \in DOMAIN Tail(Line) /\ Tail(Line)[k - 1] = Line[k]
        BY <1>2, <3>1
      <4>2. QED
        BY <4>1 DEF Elems
    <3>2. \A k \in DOMAIN Line : k # 1 => Line[k] \in Elems(Tail(Line))
      BY <3>1
    <3>3. Head(Line) = Line[1]
      BY <1>2
    <3>4. QED
      BY <3>2, <3>3, Zenon DEF Elems
  <2>2. QED
    BY <1>2, <2>1, PopFacts
<1>4. ASSUME NEW i \in Items
      PROVE  Phase(i)' = Phase(i) \/ Astray(i)
  <2>1. CASE i # Head(Line)
    BY <1>3, <2>1, PhaseKept
  <2>2. CASE i = Head(Line)
    <3>1. record[i] # "none"
      BY <1>1, <1>3, <2>2 DEF LineInv, QueueInv, LineRecorded, Claiming
    <3>2. Phase(i) = "waiting"
      BY <1>2, <1>3, <2>2
    <3>3. Phase(i)' \in {"lost", "orphaned"}
      BY <1>3, <2>2, <3>1, <3>2 DEF Phase
    <3>4. QED
      BY <3>2, <3>3 DEF Astray
  <2>3. QED
    BY <2>1, <2>2
<1>5. \A i, j \in Elems(Line) \cap Elems(Line') : Ahead(i, j, Line) => Ahead(i, j, Line')
  BY <1>2, OrderFacts
<1>6. Jobs!Mishap
  BY <1>4, <1>5, IsMishap
<1>7. QED
  BY <1>6 DEF Jobs!JobNext

\* An id that has not reached the index is new.
LEMMA Unqueued ==
    ASSUME NEW i \in Items
    PROVE  /\ enq[i] # "queued" => Phase(i) = "new"
           /\ enq'[i] # "queued" => Phase(i)' = "new"
BY Zenon DEF Phase

\* Enqueue: the item joins the line when its id reaches the index.
LEMMA EnqueueRefines ==
    ASSUME QueueInv, QueueInv',
           \E i \in Items : EnqueueIndex(i) \/ \E n \in Nodes : EnqueueSave(i, n)
    PROVE  [Jobs!JobNext]_(Jobs!jobVars)
<1>1. /\ TypeOK /\ LockInv /\ FreshInv /\ LineInv /\ LineInv' /\ ResetInv
  <2>1. LineInv /\ LineInv'
    BY LineFacts, PTL
  <2>2. QED
    BY <2>1 DEF QueueInv, SingleNodeInv, IndexInv
<1>2. ASSUME NEW i \in Items, NEW n \in Nodes, EnqueueSave(i, n)
      PROVE  [Jobs!JobNext]_(Jobs!jobVars)
  <2>1. /\ enq[i] = "new" /\ enq'[i] # "queued" /\ ((UNCHANGED envVars) \/ Fault)
        /\ \A k \in Items : k # i => enq'[k] = enq[k] /\ record'[k] = record[k]
        /\ UNCHANGED <<pending, running, claimVars, poolVars>>
    BY <1>1, <1>2 DEF EnqueueSave, TypeOK
  <2>2. Line' = Line /\ Executing' = Executing /\ Tracked' = Tracked
    BY <2>1 DEF Line, Executing, Tracked, InHand, claimVars, poolVars
  <2>3. \A k \in Items : Phase(k)' = Phase(k)
    <3>1. Phase(i) = "new" /\ Phase(i)' = "new"
      BY <2>1, Unqueued
    <3>2. \A k \in Items : k # i => Phase(k)' = Phase(k)
      BY <2>1, <2>2, PhaseKept
    <3>3. QED
      BY <3>1, <3>2
  <2>4. QED
    BY <2>1, <2>2, <2>3, QuietStep
<1>3. ASSUME NEW i \in Items, EnqueueIndex(i)
      PROVE  [Jobs!JobNext]_(Jobs!jobVars)
  <2>1. /\ enq[i] = "saved" /\ stage = "free" /\ ((UNCHANGED envVars) \/ Fault)
        /\ \A k \in Items : k # i => enq'[k] = enq[k]
        /\ UNCHANGED <<record, running, claimVars, poolVars>>
    BY <1>1, <1>3 DEF EnqueueIndex, TypeOK, LockInv
  <2>2. /\ ~Claiming /\ ~Claiming' /\ Line = pending /\ Line' = pending'
        /\ i \notin Elems(pending)
        /\ \A w \in Workers : job[w] # i
    <3>1. ~Claiming /\ ~Claiming'
      BY <2>1 DEF Claiming, claimVars, ClaimStages
    <3>2. Line = pending /\ Line' = pending'
      BY <1>1, <3>1 DEF LineInv
    <3>3. i \notin Elems(pending) /\ \A w \in Workers : job[w] # i
      BY <1>1, <2>1 DEF FreshInv
    <3>4. QED
      BY <3>1, <3>2, <3>3
  <2>3. Executing' = Executing /\ InHand' = InHand /\ i \notin Executing
    BY <2>1, <2>2 DEF Executing, InHand, claimVars, poolVars
  <2>4. CASE pending' = pending /\ enq'[i] = "rejected"
    <3>1. Line' = Line /\ Tracked' = Tracked
      BY <2>1, <2>2, <2>3, <2>4 DEF Tracked
    <3>2. Phase(i) = "new" /\ Phase(i)' = "new"
      BY <2>1, <2>4, Unqueued
    <3>3. \A k \in Items : k # i => Phase(k)' = Phase(k)
      BY <2>1, <2>3, <3>1, PhaseKept
    <3>4. QED
      BY <2>1, <3>1, <3>2, <3>3, QuietStep
  <2>5. CASE pending' = Append(pending, i) /\ enq'[i] = "queued"
    <3>1. Elems(pending') = Elems(pending) \cup {i}
      <4>1. Elems(Append(pending, i)) = Elems(pending) \cup {i}
        BY <1>1, AppendFacts DEF TypeOK
      <4>2. QED
        BY <2>5, <4>1, Zenon
    <3>2. Phase(i) = "new" /\ Phase(i)' = "waiting"
      <4>1. i \in Elems(Line') /\ i \notin Executing'
        BY <2>2, <2>3, <3>1
      <4>2. Phase(i)' = "waiting"
        BY <2>5, <4>1, Zenon DEF Phase
      <4>3. QED
        BY <2>1, <4>2, Unqueued
    <3>3. \A k \in Items : k # i => Phase(k)' = Phase(k)
      <4>1. ASSUME NEW k \in Items, k # i
            PROVE  Phase(k)' = Phase(k)
        <5>1. /\ k \in Elems(Line') <=> k \in Elems(Line)
              /\ k \in Tracked' <=> k \in Tracked
          BY <2>1, <2>2, <2>3, <3>1, <4>1 DEF Tracked
        <5>2. QED
          BY <2>1, <2>3, <4>1, <5>1, PhaseKept
      <4>2. QED
        BY <4>1
    <3>4. CASE UNCHANGED envVars
      <4>1. Jobs!Move({i}, "waiting")
        BY <3>2, <3>3, IsMove
      <4>2. Shown[i] = "new"
        BY <3>2 DEF Shown
      <4>3. (faults + crashes)' = faults + crashes
        BY <3>4 DEF envVars
      <4>4. Line' = Append(Line, i)
        BY <2>2, <2>5
      <4>5. Jobs!Submit(i)
        BY <4>1, <4>2, <4>3, <4>4 DEF Jobs!Submit, Shown
      <4>6. QED
        BY <4>5 DEF Jobs!JobNext
    <3>5. CASE Fault
      <4>1. (faults + crashes)' = faults + crashes + 1
        BY <1>1, <3>5 DEF Fault, TypeOK
      <4>2. \A k \in Items : Phase(k)' = Phase(k) \/ Astray(k)
        BY <3>2, <3>3 DEF Astray
      <4>3. \A j, k : Ahead(j, k, Line) => Ahead(j, k, Line')
        <5>1. \A j, k : Ahead(j, k, pending) => Ahead(j, k, Append(pending, i))
          BY <1>1, OrderFacts, EmptyFacts, Zenon DEF TypeOK
        <5>2. QED
          BY <2>2, <2>5, <5>1, Zenon
      <4>4. Jobs!Mishap
        BY <4>1, <4>2, <4>3, IsMishap
      <4>5. QED
        BY <4>4 DEF Jobs!JobNext
    <3>6. QED
      BY <2>1, <3>4, <3>5
  <2>6. QED
    <3>1. \/ pending' = pending /\ enq' = [enq EXCEPT ![i] = "rejected"]
          \/ pending' = Append(pending, i) /\ enq' = [enq EXCEPT ![i] = "queued"]
      BY <1>3 DEF EnqueueIndex
    <3>2. DOMAIN enq = Items
      BY <1>1 DEF TypeOK
    <3>3. QED
      BY <2>4, <2>5, <3>1, <3>2
<1>4. QED
  BY <1>2, <1>3

\* ClaimNext: an item stays first in line while it is claimed, and is started when
\* it is handed over; a failing call may drop it.
LEMMA PopRefines ==
    ASSUME QueueInv, QueueInv', NEW n \in Nodes, ClaimPop(n)
    PROVE  [Jobs!JobNext]_(Jobs!jobVars)
<1>1. /\ TypeOK /\ LockInv /\ LineInv /\ LineInv' /\ ResetInv /\ LineRecorded
  <2>1. LineInv /\ LineInv'
    BY LineFacts, PTL
  <2>2. QED
    BY <2>1 DEF QueueInv, SingleNodeInv, IndexInv
<1>2. /\ stage = "free" /\ cur = None /\ UNCHANGED <<record, running, enq, wpc, job>>
      /\ ((UNCHANGED envVars) \/ Fault)
  BY <1>1 DEF ClaimPop, LockInv, LineRecorded, ResetInv, ClaimStages, hookVars, poolVars
<1>3. Executing' = Executing /\ ~Claiming /\ Line = pending /\ pending \in Seq(Items)
  BY <1>1, <1>2 DEF Executing, Claiming, ClaimStages, LineInv
<1>4. InHand = {}
  BY <1>2 DEF InHand
<1>5. CASE /\ pending # <<>> /\ cur' = Head(pending) /\ pending' = Tail(pending)
           /\ stage' = "get"
  <2>1. Claiming'
    BY <1>5 DEF Claiming, ClaimStages
  <2>2. /\ Line' \in Seq(Items) /\ Line' # <<>> /\ Head(Line') = cur' /\ Tail(Line') = pending'
    BY <1>1, <2>1 DEF LineInv
  <2>3. Line' = Line
    <3>1. ASSUME NEW s \in Seq(Items), NEW t \in Seq(Items), s # <<>>, t # <<>>,
                 Head(s) = Head(t), Tail(s) = Tail(t)
          PROVE  s = t
      <4>1. Len(s) = Len(t)
        <5>1. Len(Tail(s)) = Len(s) - 1 /\ Len(Tail(t)) = Len(t) - 1
          BY <3>1
        <5>2. Len(s) \in Nat /\ Len(t) \in Nat /\ Len(Tail(s)) = Len(Tail(t))
          BY <3>1, LenProperties
        <5>3. QED
          BY <5>1, <5>2
      <4>2. \A k \in 1..Len(s) : s[k] = t[k]
        <5>1. ASSUME NEW k \in 1..Len(s), k # 1
              PROVE  s[k] = t[k]
          <6>1. Tail(s)[k - 1] = s[k] /\ Tail(t)[k - 1] = t[k]
            BY <3>1, <4>1, <5>1
          <6>2. QED
            BY <3>1, <6>1
        <5>2. s[1] = t[1]
          BY <3>1
        <5>3. QED
          BY <5>1, <5>2
      <4>3. QED
        BY <4>1, <4>2, SeqEqual
    <3>2. QED
      BY <1>3, <1>5, <2>2, <3>1
  <2>4. ASSUME NEW i \in Items
        PROVE  Phase(i)' = Phase(i)
    <3>1. i \notin Elems(Line) => (i \in Tracked' <=> i \in Tracked)
      <4>1. Elems(Tail(pending)) \subseteq Elems(pending) /\ Head(pending) \in Elems(pending)
        BY <1>3, <1>5, PopFacts
      <4>2. InHand' \subseteq {cur'}
        BY <1>5 DEF InHand
      <4>3. QED
        BY <1>2, <1>3, <1>4, <1>5, <4>1, <4>2, Zenon DEF Tracked
    <3>2. QED
      BY <1>2, <1>3, <2>3, <3>1, PhaseKept
  <2>5. QED
    BY <1>2, <2>3, <2>4, QuietStep
<1>6. CASE Release
  <2>1. stage' = "free" /\ ~Claiming' /\ InHand' = {}
    BY <1>6 DEF Release, Claiming, InHand, ClaimStages
  <2>2. Line' = pending'
    BY <1>1, <2>1 DEF LineInv
  <2>3. CASE pending' = pending
    <3>1. Line' = Line /\ Tracked' = Tracked
      BY <1>2, <1>3, <1>4, <2>1, <2>2, <2>3 DEF Tracked
    <3>2. \A i \in Items : Phase(i)' = Phase(i)
      BY <1>2, <1>3, <3>1, PhaseKept
    <3>3. QED
      BY <1>2, <3>1, <3>2, QuietStep
  <2>4. CASE pending # <<>> /\ pending' = Tail(pending) /\ Fault
    <3>1. (faults + crashes)' = faults + crashes + 1
      BY <1>1, <2>4 DEF Fault, TypeOK
    <3>2. \A i \in Items \ Elems(Line) : i \in Tracked' <=> i \in Tracked
      <4>1. Elems(Tail(pending)) \subseteq Elems(pending)
        BY <1>3, <2>4, PopFacts
      <4>2. QED
        BY <1>2, <1>3, <1>4, <2>1, <2>4, <4>1, Zenon DEF Tracked
    <3>3. QED
      BY <1>2, <1>3, <2>2, <2>4, <3>1, <3>2, HeadDropped
  <2>5. QED
    BY <1>6, <2>3, <2>4 DEF ClaimPop, Release
<1>7. QED
  BY <1>5, <1>6 DEF ClaimPop

LEMMA ClaimRefines ==
    ASSUME QueueInv, QueueInv', ClaimGet \/ ClaimMark \/ ClaimUndoRecord \/ ClaimUndoIndex
    PROVE  [Jobs!JobNext]_(Jobs!jobVars)
<1>1. /\ TypeOK /\ LockInv /\ LineInv /\ LineInv' /\ ResetInv /\ LineRecorded
  <2>1. LineInv /\ LineInv'
    BY LineFacts, PTL
  <2>2. QED
    BY <2>1 DEF QueueInv, SingleNodeInv, IndexInv
<1>2. /\ Claiming /\ stage \in ClaimStages /\ record[cur] # "none" /\ cur \in Items
      /\ UNCHANGED <<running, enq, wpc, job>>
      /\ ((UNCHANGED envVars) \/ Fault)
  <2>1. stage \in ClaimStages
    BY DEF ClaimGet, ClaimMark, ClaimUndoRecord, ClaimUndoIndex, At, ClaimStages
  <2>2. UNCHANGED <<running, enq, wpc, job>> /\ ((UNCHANGED envVars) \/ Fault)
    BY DEF ClaimGet, ClaimMark, ClaimUndoRecord, ClaimUndoIndex, At, hookVars, poolVars
  <2>3. QED
    BY <1>1, <2>1, <2>2 DEF LineRecorded, Claiming, LockInv
<1>3. /\ Executing' = Executing
      /\ \A i \in Items : record'[i] = "none" <=> record[i] = "none"
  <2>1. record' \in {record, [record EXCEPT ![cur] = "running"], [record EXCEPT ![cur] = "pending"]}
    BY DEF ClaimGet, ClaimMark, ClaimUndoRecord, ClaimUndoIndex
  <2>2. QED
    BY <1>1, <1>2, <2>1 DEF Executing, TypeOK
<1>4. ASSUME Line' = Line
      PROVE  [Jobs!JobNext]_(Jobs!jobVars)
  <2>1. cur \in Elems(Line) /\ InHand \subseteq {cur} /\ InHand' \subseteq {cur, cur'} \ {None}
    BY <1>1, <1>2 DEF LineInv, InHand, ClaimGet, ClaimMark, ClaimUndoRecord, ClaimUndoIndex, At,
                      ClaimStages, Release
  <2>2. /\ cur' = cur \/ cur' = None
        /\ Elems(pending) \subseteq Elems(Line) /\ Elems(pending') \subseteq Elems(Line)
    BY <1>1, <1>4 DEF LineInv, ClaimGet, ClaimMark, ClaimUndoRecord, ClaimUndoIndex, Release
  <2>3. \A i \in Items : i \notin Elems(Line) => (i \in Tracked' <=> i \in Tracked)
    BY <1>2, <2>1, <2>2 DEF Tracked
  <2>4. \A i \in Items : Phase(i)' = Phase(i)
    BY <1>2, <1>3, <1>4, <2>3, PhaseKept
  <2>5. QED
    BY <1>2, <1>4, <2>4, QuietStep
<1>5. ASSUME Release, Fault, pending' = pending
      PROVE  [Jobs!JobNext]_(Jobs!jobVars)
  <2>1. ~Claiming' /\ InHand' = {} /\ InHand \subseteq {cur}
    BY <1>2, <1>5 DEF Claiming, Release, InHand, ClaimStages
  <2>2. Line # <<>> /\ Line' = Tail(Line) /\ cur \in Elems(Line)
    BY <1>1, <1>2, <1>5, <2>1 DEF LineInv
  <2>3. (faults + crashes)' = faults + crashes + 1
    BY <1>1, <1>5 DEF Fault, TypeOK
  <2>4. \A i \in Items \ Elems(Line) : i \in Tracked' <=> i \in Tracked
    BY <1>2, <1>5, <2>1, <2>2 DEF Tracked
  <2>5. QED
    BY <1>2, <1>3, <2>2, <2>3, <2>4, HeadDropped
<1>6. CASE ClaimGet \/ ClaimMark \/ ClaimUndoRecord
  <2>1. CASE Release /\ Fault
    BY <1>5, <1>6, <2>1 DEF ClaimGet, ClaimMark, ClaimUndoRecord
  <2>2. CASE stage' \in ClaimStages \ {"pop"} /\ cur' = cur
    <3>1. Line' = Line
      BY <1>2, <1>6, <2>2 DEF Line, Claiming, ClaimGet, ClaimMark, ClaimUndoRecord
    <3>2. QED
      BY <1>4, <3>1
  <2>3. QED
    <3>1. ASSUME ClaimGet
          PROVE  \/ Release /\ Fault
                 \/ stage' \in ClaimStages \ {"pop"} /\ cur' = cur
      BY <1>2, <3>1 DEF ClaimGet, ClaimStages
    <3>2. ASSUME ClaimMark
          PROVE  \/ Release /\ Fault
                 \/ stage' \in ClaimStages \ {"pop"} /\ cur' = cur
      BY <1>2, <3>2 DEF ClaimMark, ClaimStages
    <3>3. ASSUME ClaimUndoRecord
          PROVE  stage' \in ClaimStages \ {"pop"} /\ cur' = cur
      BY <1>2, <3>3 DEF ClaimUndoRecord, ClaimStages
    <3>4. QED
      BY <1>6, <2>1, <2>2, <3>1, <3>2, <3>3
<1>7. CASE ClaimUndoIndex
  <2>1. Release /\ ~Claiming'
    BY <1>7 DEF ClaimUndoIndex, Release, Claiming, ClaimStages
  <2>2. Line' = pending'
    BY <1>1, <2>1 DEF LineInv
  <2>3. CASE pending' = <<cur>> \o pending
    <3>1. Line' = Line
      BY <1>2, <2>2, <2>3 DEF Line, Claiming
    <3>2. QED
      BY <1>4, <3>1
  <2>4. CASE pending' = pending /\ Fault
    BY <1>5, <2>1, <2>4
  <2>5. QED
    BY <1>7, <2>3, <2>4 DEF ClaimUndoIndex
<1>8. QED
  BY <1>6, <1>7

LEMMA HandOverRefines ==
    ASSUME QueueInv, QueueInv', ClaimIndex
    PROVE  [Jobs!JobNext]_(Jobs!jobVars)
<1>1. /\ TypeOK /\ LockInv /\ LineInv /\ LineInv' /\ LineRecorded /\ WorkerInv
  <2>1. LineInv /\ LineInv'
    BY LineFacts, PTL
  <2>2. QED
    BY <2>1 DEF QueueInv, SingleNodeInv, IndexInv
<1>2. /\ stage = "index" /\ Claiming /\ cur \in Items /\ UNCHANGED <<record, pending, enq>>
      /\ cur \in Elems(Line) /\ InHand \subseteq {cur} /\ running \subseteq running'
      /\ running' \subseteq running \cup {cur}
  BY <1>1 DEF ClaimIndex, At, Claiming, ClaimStages, LineInv, hookVars, InHand
<1>3. CASE stage' = "undoRecord" /\ UNCHANGED <<cur, wpc, job>> /\ Fault
  <2>1. Line' = Line /\ Executing' = Executing /\ InHand' \subseteq {cur}
    BY <1>2, <1>3 DEF Line, Executing, InHand, ClaimStages
  <2>2. \A i \in Items : i \notin Elems(Line) => (i \in Tracked' <=> i \in Tracked)
    BY <1>2, <2>1 DEF Tracked
  <2>3. \A i \in Items : Phase(i)' = Phase(i)
    BY <1>2, <2>1, <2>2, PhaseKept
  <2>4. QED
    BY <1>3, <2>1, <2>3, QuietStep
<1>4. CASE /\ Release /\ UNCHANGED envVars /\ cur \in running'
           /\ \E s \in Slots : /\ wpc[<<owner, s>>] = "idle"
                               /\ wpc' = [wpc EXCEPT ![<<owner, s>>] = "executing"]
                               /\ job' = [job EXCEPT ![<<owner, s>>] = cur]
  <2>1. PICK v \in Workers : /\ wpc[v] = "idle"
                             /\ wpc' = [wpc EXCEPT ![v] = "executing"]
                             /\ job' = [job EXCEPT ![v] = cur]
    <3>1. owner \in Nodes
      BY <1>1, <1>2 DEF TypeOK, LockInv
    <3>2. QED
      BY <1>4, <3>1 DEF Workers
  <2>2. Executing' = Executing \cup {cur}
    <3>1. /\ wpc'[v] = "executing" /\ job'[v] = cur
          /\ \A w \in Workers : w # v => wpc'[w] = wpc[w] /\ job'[w] = job[w]
      BY <1>1, <2>1 DEF TypeOK
    <3>2. QED
      BY <2>1, <3>1 DEF Executing
  <2>3. ~Claiming' /\ InHand' = {}
    BY <1>4 DEF Release, Claiming, InHand, ClaimStages
  <2>4. /\ Line # <<>> /\ Line' = Tail(Line) /\ Head(Line) = cur
        /\ \A i \in Items : i # cur => (i \in Elems(Line') <=> i \in Elems(Line))
    BY <1>1, <1>2, <2>3 DEF LineInv
  <2>5. PICK c \in Items : c = cur
    BY <1>2
  <2>6. Phase(c)' = "active"
    <3>1. enq'[c] = "queued"
      BY <1>2, <2>5 DEF QueueInv, SingleNodeInv, IndexInv, FreshInv
    <3>2. c \in Executing'
      BY <2>2, <2>5
    <3>3. QED
      BY <3>1, <3>2, Zenon DEF Phase
  <2>7. ASSUME NEW i \in Items, i # c
        PROVE  Phase(i)' = Phase(i)
    <3>1. i \in Executing' <=> i \in Executing
      BY <2>2, <2>5, <2>7
    <3>2. i \in Tracked' <=> i \in Tracked
      BY <1>2, <2>3, <2>5, <2>7 DEF Tracked
    <3>3. QED
      BY <1>2, <2>4, <2>5, <2>7, <3>1, <3>2, PhaseKept
  <2>8. Jobs!Move({c}, "active")
    BY <2>6, <2>7, IsMove
  <2>9. (faults + crashes)' = faults + crashes
    BY <1>4 DEF envVars
  <2>10. Jobs!StartNext(c)
    BY <2>4, <2>5, <2>8, <2>9 DEF Jobs!StartNext
  <2>11. QED
    BY <2>10 DEF Jobs!JobNext
<1>5. QED
  BY <1>3, <1>4 DEF ClaimIndex, poolVars

\* Complete and Fail: the deletion of the record finishes the item.
LEMMA FinishRefines ==
    ASSUME QueueInv, QueueInv', NEW w \in Workers,
           FinishDelete(w) \/ FailAgain(w) \/ FinishUnindex(w) \/ WorkerEnds(w)
    PROVE  [Jobs!JobNext]_(Jobs!jobVars)
<1>1. /\ TypeOK /\ FreshInv /\ LineInv /\ LineInv' /\ LineRecorded /\ WorkerInv
      /\ OneWorkerPerItem /\ ExecutingIsRecoverable
  <2>1. LineInv /\ LineInv'
    BY LineFacts, PTL
  <2>2. QED
    BY <2>1 DEF QueueInv, SingleNodeInv, IndexInv
<1>2. /\ wpc[w] # "idle" /\ job[w] \in Items
      /\ UNCHANGED <<pending, stage, cur, moved, enq>> /\ ((UNCHANGED envVars) \/ Fault)
  BY <1>1 DEF FinishDelete, FailAgain, FinishUnindex, WorkerEnds, claimVars, hookVars, WorkerInv
<1>3. /\ Line' = Line /\ InHand' = InHand /\ job[w] \notin Elems(Line) /\ enq[job[w]] = "queued"
  BY <1>1, <1>2 DEF Line, InHand, LineInv, WorkerInv, FreshInv, Claiming
<1>a. ASSUME wpc[w] # "executing", wpc'[w] # "executing",
             \A v \in Workers : v # w => wpc'[v] = wpc[v] /\ job'[v] = job[v]
      PROVE  Executing' = Executing
  BY <1>a DEF Executing
<1>4. CASE FinishUnindex(w) \/ WorkerEnds(w)
  <2>1. /\ record' = record
        /\ \A i \in Items : record[i] # "none" => (i \in running' <=> i \in running)
    BY <1>1, <1>2, <1>4 DEF FinishUnindex, WorkerEnds, LineRecorded, FinishingInv
  <2>2. Executing' = Executing
    BY <1>1, <1>4, <1>a DEF FinishUnindex, WorkerEnds, Retire, TypeOK
  <2>3. \A i \in Items : record[i] # "none" => (i \in Tracked' <=> i \in Tracked)
    BY <1>2, <1>3, <2>1 DEF Tracked
  <2>4. \A i \in Items : Phase(i)' = Phase(i)
    BY <1>2, <1>3, <2>1, <2>2, <2>3, PhaseKept
  <2>5. QED
    BY <1>2, <1>3, <2>4, QuietStep
<1>4a. CASE FailAgain(w)
  <2>1. /\ wpc[w] = "reporting" /\ running' = running
        /\ record' \in {record, [record EXCEPT ![job[w]] = "none"]}
        /\ record[job[w]] # "none" => job[w] \in running
    BY <1>1, <1>4a DEF FailAgain, LineRecorded, FinishingInv
  <2>2. Executing' = Executing
    BY <1>1, <1>4a, <1>a DEF FailAgain, Retire, TypeOK
  <2>3. PICK i \in Items : i = job[w]
    BY <1>2
  <2>4. i \notin Executing
    BY <1>1, <2>1, <2>3 DEF Executing, OneWorkerPerItem
  <2>5. \A k \in Items : k # i => record'[k] = record[k]
    BY <1>1, <2>1, <2>3 DEF TypeOK
  <2>6. Tracked' = Tracked
    BY <1>2, <1>3, <2>1 DEF Tracked
  <2>7. \A k \in Items : k # i => Phase(k)' = Phase(k)
    BY <1>2, <1>3, <2>2, <2>5, <2>6, PhaseKept
  <2>8. CASE record'[i] = "none" <=> record[i] = "none"
    <3>1. \A k \in Items : Phase(k)' = Phase(k)
      BY <1>2, <1>3, <2>2, <2>6, <2>7, <2>8, PhaseKept
    <3>2. QED
      BY <1>2, <1>3, <3>1, QuietStep
  <2>9. CASE ~(record'[i] = "none" <=> record[i] = "none")
    <3>1. record[i] # "none" /\ record'[i] = "none"
      BY <1>1, <2>1, <2>3, <2>9 DEF TypeOK
    <3>2. Phase(i) = "orphaned" /\ Phase(i)' = "done"
      <4>1. i \in Tracked
        BY <2>1, <2>3, <3>1 DEF Tracked
      <4>2. enq[i] = "queued" /\ i \notin Elems(Line)
        BY <1>3, <2>3
      <4>3. enq'[i] = "queued" /\ i \notin Executing' /\ i \notin Elems(Line')
        BY <1>2, <1>3, <2>2, <2>3, <2>4
      <4>4. QED
        BY <2>4, <3>1, <4>1, <4>2, <4>3, Zenon DEF Phase
    <3>3. CASE UNCHANGED envVars
      <4>1. Jobs!Move({i}, "done")
        BY <2>7, <3>2, IsMove
      <4>2. Shown[i] = "orphaned"
        BY <3>2 DEF Shown
      <4>3. (faults + crashes)' = faults + crashes
        BY <3>3 DEF envVars
      <4>4. Jobs!FinishAgain(i)
        BY <1>3, <4>1, <4>2, <4>3 DEF Jobs!FinishAgain, Shown
      <4>5. QED
        BY <4>4 DEF Jobs!JobNext
    <3>4. CASE Fault
      <4>1. (faults + crashes)' = faults + crashes + 1
        BY <1>1, <3>4 DEF Fault, TypeOK
      <4>2. \A k \in Items : Phase(k)' = Phase(k) \/ Astray(k)
        BY <2>7, <3>2 DEF Astray
      <4>3. Jobs!Mishap
        BY <1>3, <4>1, <4>2, IsMishap
      <4>4. QED
        BY <4>3 DEF Jobs!JobNext
    <3>5. QED
      BY <1>2, <3>3, <3>4
  <2>10. QED
    BY <2>8, <2>9
<1>5. CASE FinishDelete(w)
  <2>1. /\ wpc[w] = "executing" /\ running' = running /\ job' = job
        /\ wpc' \in {[wpc EXCEPT ![w] = "unindexing"], [wpc EXCEPT ![w] = "reporting"]}
        /\ record' \in {record, [record EXCEPT ![job[w]] = "none"]}
    BY <1>5 DEF FinishDelete
  <2>2. Executing' = Executing \ {job[w]} /\ job[w] \in Executing
    <3>1. wpc'[w] # "executing" /\ \A v \in Workers : v # w => wpc'[v] = wpc[v] /\ job'[v] = job[v]
      BY <1>1, <2>1 DEF TypeOK
    <3>2. \A v \in Workers : wpc[v] = "executing" /\ v # w => job[v] # job[w]
      BY <1>1, <2>1 DEF OneWorkerPerItem
    <3>3. QED
      BY <2>1, <3>1, <3>2 DEF Executing
  <2>3. \A i \in Items : i # job[w] => record'[i] = record[i]
    BY <1>1, <2>1 DEF TypeOK
  <2>4. Tracked' = Tracked /\ job[w] \in Tracked
    BY <1>1, <1>2, <1>3, <2>1 DEF Tracked, ExecutingIsRecoverable
  <2>5. PICK i \in Items : i = job[w]
    BY <1>2
  <2>6. \A k \in Items : k # i => Phase(k)' = Phase(k)
    BY <1>2, <1>3, <2>2, <2>3, <2>4, <2>5, PhaseKept
  <2>7. /\ Phase(i) = "active"
        /\ Phase(i)' = IF record'[i] = "none" THEN "done" ELSE "orphaned"
    <3>1. enq[i] = "queued" /\ i \in Executing
      BY <1>3, <2>2, <2>5
    <3>2. enq'[i] = "queued" /\ i \notin Executing' /\ i \notin Elems(Line') /\ i \in Tracked'
      BY <1>2, <1>3, <2>2, <2>4, <2>5
    <3>3. QED
      BY <3>1, <3>2, Zenon DEF Phase
  <2>8. CASE (UNCHANGED envVars) /\ record' = [record EXCEPT ![job[w]] = "none"]
    <3>1. record'[i] = "none"
      BY <1>1, <2>5, <2>8 DEF TypeOK
    <3>2. Jobs!Move({i}, "done")
      BY <2>6, <2>7, <3>1, IsMove
    <3>3. Shown[i] = "active"
      BY <2>7 DEF Shown
    <3>4. (faults + crashes)' = faults + crashes
      BY <2>8 DEF envVars
    <3>5. Jobs!Finish(i)
      BY <1>3, <3>2, <3>3, <3>4 DEF Jobs!Finish, Shown
    <3>6. QED
      BY <3>5 DEF Jobs!JobNext
  <2>9. CASE Fault
    <3>1. (faults + crashes)' = faults + crashes + 1
      BY <1>1, <2>9 DEF Fault, TypeOK
    <3>2. \A k \in Items : Phase(k)' = Phase(k) \/ Astray(k)
      BY <2>6, <2>7 DEF Astray
    <3>3. Jobs!Mishap
      BY <1>3, <3>1, <3>2, IsMishap
    <3>4. QED
      BY <3>3 DEF Jobs!JobNext
  <2>10. QED
    BY <1>5, <2>8, <2>9 DEF FinishDelete
<1>6. QED
  BY <1>4, <1>4a, <1>5

\* Nodes come and go: only a crash parts items from their workers, takes the item
\* being claimed out of the line, or loses those a reset has in hand.
LEMMA NodesRefine ==
    ASSUME QueueInv, QueueInv', \A m, n \in Nodes : m = n, NEW n \in Nodes,
           Activate(n) \/ Deactivate(n) \/ Crash(n)
    PROVE  [Jobs!JobNext]_(Jobs!jobVars)
<1>1. /\ TypeOK /\ LockInv /\ FreshInv /\ LineInv /\ LineInv' /\ LineRecorded /\ ResetInv
      /\ WorkerInv /\ ExecutingIsRecoverable
  <2>1. LineInv /\ LineInv'
    BY LineFacts, PTL
  <2>2. QED
    BY <2>1 DEF QueueInv, SingleNodeInv, IndexInv
<1>2. /\ UNCHANGED <<record, pending, running>>
      /\ \A i \in Items : enq'[i] = "queued" <=> enq[i] = "queued"
  BY <1>1 DEF Activate, Deactivate, Crash, AbortHooks, hookVars, TypeOK
<1>3. CASE Activate(n) \/ Deactivate(n)
  <2>1. UNCHANGED <<claimVars, poolVars, envVars>>
    BY <1>3 DEF Activate, Deactivate
  <2>2. Line' = Line /\ Executing' = Executing /\ Tracked' = Tracked
    BY <1>2, <2>1 DEF Line, Executing, Tracked, InHand, claimVars, poolVars
  <2>3. \A i \in Items : Phase(i)' = Phase(i)
    BY <1>2, <2>2, PhaseKept
  <2>4. QED
    BY <2>1, <2>2, <2>3, QuietStep
<1>4. CASE Crash(n)
  <2>1. (faults + crashes)' = faults + crashes + 1
    BY <1>1, <1>4 DEF Crash, TypeOK
  <2>2. Executing' = {}
    <3>1. wpc' = [w \in Workers |-> IF w[1] = n THEN "idle" ELSE wpc[w]]
      BY <1>4 DEF Crash
    <3>2. \A w \in Workers : wpc'[w] = "idle"
      BY <3>1 DEF Workers
    <3>3. QED
      BY <3>2 DEF Executing
  <2>3. ~Claiming' /\ InHand' = {}
    <3>1. CASE Release
      BY <3>1 DEF Release, Claiming, ClaimStages, InHand
    <3>2. CASE owner # n /\ UNCHANGED claimVars
      <4>1. stage = "free" /\ cur = None
        BY <1>1, <3>2 DEF TypeOK, LockInv, ResetInv
      <4>2. QED
        BY <3>2, <4>1 DEF claimVars, Claiming, ClaimStages, InHand
    <3>3. QED
      BY <1>4, <3>1, <3>2 DEF Crash
  <2>4. Line' = pending /\ Elems(Line') = Elems(pending)
    BY <1>1, <1>2, <2>3 DEF LineInv
  <2>5. ASSUME NEW i \in Items
        PROVE  Phase(i)' = Phase(i) \/ Astray(i)
    <3>1. CASE i \in Executing
      <4>1. /\ enq[i] = "queued" /\ i \notin Elems(pending) /\ i \in running /\ record[i] # "none"
        BY <1>1, <3>1 DEF Executing, FreshInv, WorkerInv, ExecutingIsRecoverable
      <4>2. Phase(i) = "active"
        BY <3>1, <4>1, Zenon DEF Phase
      <4>3. /\ enq'[i] = "queued" /\ i \notin Executing' /\ i \notin Elems(Line')
            /\ record'[i] # "none" /\ i \in Tracked'
        BY <1>2, <2>2, <2>4, <4>1 DEF Tracked
      <4>4. Phase(i)' = "orphaned"
        BY <4>3, Zenon DEF Phase
      <4>5. QED
        BY <4>2, <4>4 DEF Astray
    <3>2. CASE i \notin Executing /\ Claiming /\ i = cur
      <4>1. enq[i] = "queued" /\ i \in Elems(Line) /\ record[i] # "none" /\ i \notin Elems(pending)
        BY <1>1, <3>2 DEF FreshInv, LineInv, LineRecorded, Claiming
      <4>2. Phase(i) = "waiting"
        BY <3>2, <4>1, Zenon DEF Phase
      <4>3. /\ enq'[i] = "queued" /\ i \notin Executing' /\ i \notin Elems(Line')
            /\ record'[i] # "none"
        BY <1>2, <2>2, <2>4, <4>1
      <4>4. Phase(i)' \in {"orphaned", "lost"}
        BY <4>3 DEF Phase
      <4>5. QED
        BY <4>2, <4>4 DEF Astray
    <3>3. CASE i \notin Executing /\ ~(Claiming /\ i = cur)
      <4>1. i \notin Executing' /\ (i \in Elems(Line') <=> i \in Elems(Line))
        BY <1>1, <2>2, <2>4, <3>3 DEF LineInv
      <4>2. CASE i \in Tracked' <=> i \in Tracked
        BY <1>2, <3>3, <4>1, <4>2, PhaseKept
      <4>3. CASE i \notin Tracked' /\ i \in Tracked
        <5>1. CASE enq[i] # "queued" \/ record[i] = "none" \/ i \in Elems(Line)
          <6>1. Phase(i)' = Phase(i)
            BY <1>2, <3>3, <4>1, <5>1 DEF Phase
          <6>2. QED
            BY <6>1
        <5>2. CASE enq[i] = "queued" /\ record[i] # "none" /\ i \notin Elems(Line)
          <6>1. Phase(i) = "orphaned"
            BY <3>3, <4>3, <5>2, Zenon DEF Phase
          <6>2. Phase(i)' = "lost"
            BY <1>2, <4>1, <4>3, <5>2, Zenon DEF Phase
          <6>3. QED
            BY <6>1, <6>2 DEF Astray
        <5>3. QED
          BY <5>1, <5>2
      <4>4. Tracked' \subseteq Tracked
        BY <1>2, <2>3 DEF Tracked
      <4>5. QED
        BY <4>2, <4>3, <4>4
    <3>4. QED
      BY <3>1, <3>2, <3>3
  <2>6. \A i, j \in Elems(Line) \cap Elems(Line') : Ahead(i, j, Line) => Ahead(i, j, Line')
    <3>1. CASE Claiming
      <4>1. Line \in Seq(Items) /\ NoRepeats(Line) /\ Line # <<>> /\ Line' = Tail(Line)
        BY <1>1, <2>4, <3>1 DEF LineInv
      <4>2. QED
        BY <4>1, OrderFacts
    <3>2. CASE ~Claiming
      BY <1>1, <2>4, <3>2 DEF LineInv
    <3>3. QED
      BY <3>1, <3>2
  <2>7. Jobs!Mishap
    BY <2>1, <2>5, <2>6, IsMishap
  <2>8. QED
    BY <2>7 DEF Jobs!JobNext
<1>5. QED
  BY <1>3, <1>4

\* The reset before it writes the pending index: what it still has to carry over
\* is in the running index, or already in its hands.
LEMMA ResetRefines ==
    ASSUME QueueInv, QueueInv', \A m, n \in Nodes : m = n,
           (\E n \in Nodes : ResetBegin(n)) \/ ResetGet \/ ResetMark \/ ResetClear
    PROVE  [Jobs!JobNext]_(Jobs!jobVars)
<1>1. /\ TypeOK /\ LockInv /\ LineInv /\ LineInv' /\ ResetInv /\ ResetInv' /\ SingleNodeInv
  <2>1. LineInv /\ LineInv'
    BY LineFacts, PTL
  <2>2. QED
    BY <2>1 DEF QueueInv, SingleNodeInv, IndexInv
<1>2. /\ stage \in {"free", "resetGet", "resetMark", "resetClear"}
      /\ stage' \in {"free", "resetGet", "resetMark", "resetClear", "resetRequeue"}
      /\ UNCHANGED <<pending, enq, wpc, job>> /\ ((UNCHANGED envVars) \/ Fault)
  BY <1>1 DEF LockInv, ResetBegin, ResetGet, ResetMark, ResetClear, ResetDone, ResetVisit, Release,
              hookVars, poolVars
<1>3. ~Claiming /\ ~Claiming' /\ Line = pending /\ Line' = pending /\ Executing' = Executing
  BY <1>1, <1>2 DEF Claiming, ClaimStages, LineInv, Executing
<1>4. \A i \in Items : record'[i] = "none" <=> record[i] = "none"
  <2>1. \/ record' = record
        \/ stage = "resetMark" /\ record' = [record EXCEPT ![cur] = "pending"]
    BY DEF ResetBegin, ResetGet, ResetMark, ResetClear
  <2>2. QED
    BY <1>1, <2>1 DEF TypeOK, ResetInv
<1>5. InHand \subseteq running
  BY <1>1, <1>2 DEF InHand, ResetInv, Carried, ResetStages
<1>6. CASE running' = running
  <2>1. stage' # "resetRequeue" \/ running = {}
    BY <1>1, <1>6 DEF ResetInv
  <2>2. ASSUME stage' # "resetRequeue"
        PROVE  InHand' \subseteq running
    BY <1>1, <1>2, <1>6, <2>2 DEF InHand, ResetInv, Carried, ResetStages
  <2>3. CASE stage' # "resetRequeue"
    <3>1. Tracked' = Tracked
      BY <1>2, <1>5, <1>6, <2>2, <2>3 DEF Tracked
    <3>2. \A i \in Items : Phase(i)' = Phase(i)
      BY <1>2, <1>3, <1>4, <3>1, PhaseKept
    <3>3. QED
      BY <1>2, <1>3, <3>2, QuietStep
  <2>4. CASE stage' = "resetRequeue" /\ running = {}
    <3>1. stage = "resetClear" /\ moved' = moved
      BY <2>4 DEF ResetBegin, ResetGet, ResetMark, ResetClear, ResetDone, ResetVisit, Release
    <3>2. Elems(moved) \subseteq {None} /\ cur' = None
      BY <1>1, <2>4, <3>1 DEF ResetInv, Carried, ResetStages
    <3>3. Tracked' = Tracked
      BY <1>2, <1>5, <1>6, <2>4, <3>1, <3>2 DEF Tracked, InHand
    <3>4. \A i \in Items : Phase(i)' = Phase(i)
      BY <1>2, <1>3, <1>4, <3>3, PhaseKept
    <3>5. QED
      BY <1>2, <1>3, <3>4, QuietStep
  <2>5. QED
    BY <2>1, <2>3, <2>4
<1>7. CASE ResetClear /\ running' = {}
  <2>1. /\ stage = "resetClear" /\ cur = None /\ todo = {} /\ record' = record
        /\ \A i \in running : record[i] # "none" => i \in Elems(moved)
        /\ Elems(moved) \subseteq running \cup {None}
    BY <1>1, <1>7, ItemsAssumption DEF ResetClear, ResetInv, Carried, ResetStages, TypeOK
  <2>2. InHand = {}
    BY <2>1 DEF InHand
  <2>3. CASE stage' = "resetRequeue" /\ moved' = moved /\ cur' = cur
    <3>1. InHand' = Elems(moved) \ {None}
      BY <2>1, <2>3 DEF InHand
    <3>2. \A i \in Items : record[i] # "none" => (i \in Tracked' <=> i \in Tracked)
      BY <1>2, <1>7, <2>1, <2>2, <3>1, ItemsAssumption DEF Tracked
    <3>3. \A i \in Items : Phase(i)' = Phase(i)
      BY <1>2, <1>3, <1>4, <3>2, PhaseKept
    <3>4. QED
      BY <1>2, <1>3, <3>3, QuietStep
  <2>4. CASE Fault /\ Release
    <3>1. (faults + crashes)' = faults + crashes + 1
      BY <1>1, <2>4 DEF Fault, TypeOK
    <3>2. Tracked' = Elems(pending) /\ Tracked = Elems(pending) \cup running
      BY <1>2, <1>7, <2>2, <2>4 DEF Tracked, InHand, Release
    <3>3. ASSUME NEW i \in Items
          PROVE  Phase(i)' = Phase(i) \/ Astray(i)
      <4>1. CASE i \in Tracked' <=> i \in Tracked
        BY <1>2, <1>3, <1>4, <4>1, PhaseKept
      <4>2. CASE i \notin Tracked' /\ i \in Tracked
        <5>1. Phase(i)' = IF Phase(i) = "orphaned" THEN "lost" ELSE Phase(i)
          BY <1>2, <1>3, <2>1, <4>2 DEF Phase
        <5>2. QED
          BY <5>1 DEF Astray
      <4>3. QED
        BY <3>2, <4>1, <4>2
    <3>4. Jobs!Mishap
      BY <1>3, <3>1, <3>3, IsMishap
    <3>5. QED
      BY <3>4 DEF Jobs!JobNext
  <2>5. QED
    BY <1>7, <2>3, <2>4 DEF ResetClear, ResetDone
<1>8. QED
  BY <1>6, <1>7 DEF ResetBegin, ResetGet, ResetMark, ResetClear

\* In a list without repeats the id at place k has k - 1 ids before it.
LEMMA PlaceFacts ==
    ASSUME NEW S, NEW s \in Seq(S), NoRepeats(s), NEW k \in DOMAIN s
    PROVE  Cardinality({s[j] : j \in 1..(k - 1)}) = k - 1
<1> DEFINE f == [j \in 1..(k - 1) |-> s[j]]
           T == {s[j] : j \in 1..(k - 1)}
<1>1. k - 1 \in Nat /\ 1..(k - 1) \subseteq DOMAIN s
  OBVIOUS
<1>2. f \in Surjection(1..(k - 1), T)
  BY DEF Surjection
<1>3. f \in Injection(1..(k - 1), T)
  BY <1>1 DEF Injection, IsInjective, NoRepeats
<1>4. ExistsBijection(1..(k - 1), T)
  BY <1>2, <1>3 DEF ExistsBijection, Bijection
<1>5. QED
  BY <1>1, <1>4, FS_CountingElements

\* De-duplication leaves what already has no repeats in place: the pending ids stay
\* first, in their order (ResetRunningToPending, store.go:236-244).
LEMMA DedupeKeepsFront ==
    ASSUME NEW p \in Seq(Items), NEW q \in Seq(Items), NEW d \in Seq(Items),
           NoRepeats(p), Dedupes(d, p \o q)
    PROVE  Len(p) <= Len(d) /\ \A k \in DOMAIN p : d[k] = p[k]
<1>1. /\ p \o q \in Seq(Items) /\ DOMAIN (p \o q) = 1..Len(p) + Len(q)
      /\ Elems(p) \subseteq Elems(p \o q)
      /\ \A k \in DOMAIN p : k \in DOMAIN (p \o q) /\ (p \o q)[k] = p[k]
  <2>1. /\ p \o q \in Seq(Items) /\ Len(p \o q) = Len(p) + Len(q)
        /\ \A k \in 1..Len(p) + Len(q) : (p \o q)[k] = IF k <= Len(p) THEN p[k] ELSE q[k - Len(p)]
    BY ConcatProperties
  <2>2. Elems(p) \subseteq Elems(p \o q)
    BY ConcatFacts
  <2>3. QED
    BY <2>1, <2>2
<1>2. PICK s \in Seq(Items) : s = p \o q
  BY <1>1
<1>3. /\ DOMAIN s = 1..Len(p) + Len(q) /\ DOMAIN p = 1..Len(p) /\ Len(p) \in Nat /\ Len(q) \in Nat
      /\ DOMAIN d = 1..Len(d) /\ Len(d) \in Nat
      /\ \A k \in DOMAIN p : k \in DOMAIN s /\ s[k] = p[k]
      /\ \A k \in DOMAIN p : \E g \in DOMAIN d : d[g] = p[k]
      /\ NoRepeats(d)
      /\ \A j, k \in DOMAIN d : j < k =>
            \E r \in DOMAIN s : s[r] = d[j] /\ \A o \in 1..r : s[o] # d[k]
  <2>1. Elems(p) \subseteq Elems(d)
    BY <1>1 DEF Dedupes
  <2>2. \A k \in DOMAIN p : \E g \in DOMAIN d : d[g] = p[k]
    BY <2>1 DEF Elems
  <2>3. /\ DOMAIN s = 1..Len(p) + Len(q) /\ DOMAIN p = 1..Len(p)
        /\ \A k \in DOMAIN p : k \in DOMAIN s /\ s[k] = p[k]
    BY <1>1, <1>2
  <2>4. /\ Len(p) \in Nat /\ Len(q) \in Nat /\ DOMAIN d = 1..Len(d) /\ Len(d) \in Nat
    BY LenProperties
  <2>5. /\ NoRepeats(d)
        /\ \A j, k \in DOMAIN d : j < k =>
              \E r \in DOMAIN s : s[r] = d[j] /\ \A o \in 1..r : s[o] # d[k]
    <3>1. Dedupes(d, s)
      BY <1>2
    <3>2. QED
      BY <3>1 DEF Dedupes
  <2>6. QED
    BY <2>2, <2>3, <2>4, <2>5
<1>4. ASSUME NEW k \in DOMAIN p
      PROVE  k \in DOMAIN d /\ d[k] = p[k]
  <2>1. PICK g \in DOMAIN d : d[g] = p[k]
    BY <1>3
  <2>2. ASSUME NEW j \in 1..(g - 1)
        PROVE  d[j] \in {p[o] : o \in 1..(k - 1)}
    <3>1. j \in DOMAIN d /\ j < g
      BY <1>3
    <3>2. PICK r \in DOMAIN s : s[r] = d[j] /\ \A o \in 1..r : s[o] # d[g]
      BY <1>3, <3>1
    <3>3. ~(k \in 1..r)
      BY <1>3, <2>1, <3>2
    <3>4. r \in 1..(k - 1) /\ r \in DOMAIN p
      BY <1>3, <3>2, <3>3
    <3>5. QED
      BY <1>3, <3>2, <3>4
  <2>3. ASSUME NEW j \in 1..(k - 1)
        PROVE  p[j] \in {d[o] : o \in 1..(g - 1)}
    <3>1. j \in DOMAIN p /\ j < k
      BY <1>3
    <3>2. PICK h \in DOMAIN d : d[h] = p[j]
      BY <1>3, <3>1
    <3>3. h # g
      BY <1>3, <2>1, <3>1, <3>2 DEF NoRepeats
    <3>4. ~(g < h)
      <4>1. SUFFICES ASSUME g < h PROVE FALSE
        OBVIOUS
      <4>2. PICK r \in DOMAIN s : s[r] = d[g] /\ \A o \in 1..r : s[o] # d[h]
        BY <1>3, <4>1
      <4>3. ~(j \in 1..r)
        BY <1>3, <3>1, <3>2, <4>2
      <4>4. r < j /\ r \in DOMAIN p
        BY <1>3, <3>1, <4>3
      <4>5. p[r] = p[k] /\ r # k
        BY <1>3, <2>1, <3>1, <4>2, <4>4
      <4>6. QED
        BY <4>4, <4>5 DEF NoRepeats
    <3>5. h \in 1..(g - 1)
      BY <1>3, <3>3, <3>4
    <3>6. QED
      BY <3>2, <3>5
  <2>4. {d[o] : o \in 1..(g - 1)} = {p[o] : o \in 1..(k - 1)}
    BY <2>2, <2>3
  <2>5. /\ Cardinality({d[o] : o \in 1..(g - 1)}) = g - 1
        /\ Cardinality({p[o] : o \in 1..(k - 1)}) = k - 1
    <3>1. Cardinality({d[o] : o \in 1..(g - 1)}) = g - 1
      <4>1. NoRepeats(d)
        BY <1>3
      <4>2. QED
        BY <4>1, PlaceFacts, Zenon
    <3>2. Cardinality({p[o] : o \in 1..(k - 1)}) = k - 1
      BY PlaceFacts, Zenon
    <3>3. QED
      BY <3>1, <3>2
  <2>6. g = k
    <3>1. g - 1 = k - 1
      BY <2>4, <2>5, Zenon
    <3>2. QED
      BY <1>3, <3>1
  <2>7. QED
    BY <2>1, <2>6
<1>5. Len(p) <= Len(d)
  <2>1. CASE Len(p) = 0
    BY <1>3, <2>1
  <2>2. CASE Len(p) # 0
    <3>1. Len(p) \in DOMAIN p
      BY <1>3, <2>2
    <3>2. Len(p) \in DOMAIN d
      BY <1>4, <3>1
    <3>3. QED
      BY <1>3, <3>2
  <2>3. QED
    BY <2>1, <2>2
<1>6. QED
  BY <1>4, <1>5

\* d is p with the ids of q that p lacks behind it, each once.
Appends(d, p, q, r) ==
    /\ d = p \o r /\ NoRepeats(r)
    /\ Elems(r) = Elems(q) \ Elems(p)
    /\ r = <<>> \/ r \in UNION {[1..n -> Items] : n \in 1..Cardinality(Items)}

\* So it puts some ids behind the pending ones.
LEMMA DedupeAppends ==
    ASSUME NEW p \in Seq(Items), NEW q \in Seq(Items), NEW d \in Lists,
           NoRepeats(p), Dedupes(d, p \o q)
    PROVE  \E r \in Seq(Items) : Appends(d, p, q, r)
<1>1. /\ d \in Seq(Items) /\ Len(d) \in Nat /\ Len(d) <= Cardinality(Items)
      /\ NoRepeats(d) /\ Elems(d) = Elems(p) \cup Elems(q)
      /\ Len(p) \in Nat /\ DOMAIN p = 1..Len(p) /\ DOMAIN d = 1..Len(d)
  <2>1. Cardinality(Items) \in Nat
    BY ItemsAssumption, FS_CardinalityType
  <2>2. PICK n \in 0..Cardinality(Items) : d \in [1..n -> Items]
    BY DEF Lists
  <2>3. d \in Seq(Items) /\ Len(d) = n /\ n \in Nat /\ n <= Cardinality(Items)
    BY <2>1, <2>2
  <2>4. Elems(d) = Elems(p) \cup Elems(q) /\ NoRepeats(d)
    BY ConcatFacts DEF Dedupes
  <2>5. QED
    BY <2>3, <2>4
<1>2. Len(p) <= Len(d) /\ \A k \in DOMAIN p : d[k] = p[k]
  BY <1>1, DedupeKeepsFront
<1>a. PICK a \in Nat, b \in Nat : a = Len(d) /\ b = Len(p) /\ b <= a
  BY <1>1, <1>2
<1>m. PICK m \in Nat : m = a - b /\ m = Len(d) - Len(p)
  <2>1. a - b \in Nat
    BY <1>a
  <2>2. QED
    BY <1>a, <2>1
<1>3. PICK r : r = [k \in 1..m |-> d[k + Len(p)]]
  OBVIOUS
<1>4. /\ m \in Nat /\ r \in Seq(Items) /\ Len(r) = m /\ DOMAIN r = 1..m
      /\ \A k \in 1..m : k + Len(p) \in DOMAIN d /\ r[k] = d[k + Len(p)]
  <2>1. m \in Nat /\ \A k \in 1..m : k + Len(p) \in DOMAIN d /\ d[k + Len(p)] \in Items
    BY <1>1, <1>2, <1>a, <1>m
  <2>2. r \in [1..m -> Items]
    BY <1>3, <2>1
  <2>3. r \in Seq(Items) /\ Len(r) = m
    BY <2>2
  <2>4. QED
    BY <1>3, <2>1, <2>3
<1>5. d = p \o r
  <2>1. /\ p \o r \in Seq(Items) /\ Len(p \o r) = Len(p) + m
        /\ \A k \in 1..Len(p) + m : (p \o r)[k] = IF k <= Len(p) THEN p[k] ELSE r[k - Len(p)]
    BY <1>4, ConcatProperties
  <2>2. Len(d) = Len(p \o r)
    BY <1>1, <1>2, <1>m, <2>1
  <2>3. ASSUME NEW k \in 1..Len(d)
        PROVE  d[k] = (p \o r)[k]
    <3>1. CASE k <= Len(p)
      BY SMTT(30), <1>1, <1>2, <2>1, <3>1
    <3>2. CASE ~(k <= Len(p))
      <4>1. k - Len(p) \in 1..m /\ (k - Len(p)) + Len(p) = k
        BY <1>1, <1>2, <1>m, <3>2
      <4>2. QED
        BY <1>1, <1>2, <1>4, <2>1, <3>2, <4>1
    <3>3. QED
      BY <3>1, <3>2
  <2>4. QED
    BY <1>1, <2>1, <2>2, <2>3, SeqEqual
<1>6. NoRepeats(r)
  <2>1. SUFFICES ASSUME NEW j \in 1..m, NEW k \in 1..m, r[j] = r[k] PROVE j = k
    BY <1>4 DEF NoRepeats
  <2>2. j + b \in DOMAIN d /\ k + b \in DOMAIN d /\ d[j + b] = d[k + b]
    BY <1>4, <1>a, <2>1
  <2>3. j + b = k + b
    BY <1>1, <2>2 DEF NoRepeats
  <2>4. QED
    BY <1>a, <2>3
<1>7. Elems(r) = Elems(q) \ Elems(p)
  <2>1. Elems(d) = Elems(p) \cup Elems(r)
    BY <1>4, <1>5, ConcatFacts
  <2>2. Elems(r) \cap Elems(p) = {}
    <3>1. SUFFICES ASSUME NEW j \in DOMAIN p, NEW k \in 1..m, p[j] = r[k] PROVE FALSE
      BY <1>4 DEF Elems
    <3>2. d[j] = d[k + Len(p)] /\ j \in DOMAIN d /\ k + Len(p) \in DOMAIN d /\ j # k + Len(p)
      BY <1>1, <1>2, <1>4, <3>1
    <3>3. QED
      BY <1>1, <3>2 DEF NoRepeats
  <2>3. QED
    BY <1>1, <2>1, <2>2
<1>8. r = <<>> \/ r \in UNION {[1..n -> Items] : n \in 1..Cardinality(Items)}
  <2>1. CASE m = 0
    BY <1>4, <2>1, EmptySeq
  <2>2. CASE m # 0
    <3>1. Cardinality(Items) \in Nat
      BY ItemsAssumption, FS_CardinalityType
    <3>2. m \in 1..Cardinality(Items)
      <4>1. PICK c \in Nat : c = Cardinality(Items)
        BY <3>1
      <4>2. a <= c
        BY <1>1, <1>a, <4>1
      <4>3. m \in 1..c
        BY <1>a, <1>m, <2>2, <4>2
      <4>4. QED
        BY <4>1, <4>3
    <3>3. r \in [1..m -> Items]
      BY <1>4
    <3>4. QED
      BY <3>2, <3>3
  <2>3. QED
    BY <2>1, <2>2
<1>9. QED
  <2>1. Appends(d, p, q, r)
    BY <1>5, <1>6, <1>7, <1>8 DEF Appends
  <2>2. QED
    BY <1>4, <2>1

\* The reset's last write puts the orphans it has in hand behind the waiting items;
\* if it fails, they rejoin the line all the same or are lost together.
LEMMA RequeueRefines ==
    ASSUME QueueInv, QueueInv', \A m, n \in Nodes : m = n, ResetRequeue
    PROVE  [Jobs!JobNext]_(Jobs!jobVars)
<1>1. /\ TypeOK /\ LockInv /\ FreshInv /\ LineInv /\ LineInv' /\ ResetInv /\ SingleNodeInv
      /\ PendingHasNoRepeats
  <2>1. LineInv /\ LineInv'
    BY LineFacts, PTL
  <2>2. QED
    BY <2>1 DEF QueueInv, SingleNodeInv, IndexInv
<1>2. /\ stage = "resetRequeue" /\ Release /\ cur = None /\ running = {}
      /\ UNCHANGED <<record, running, enq, wpc, job>> /\ ((UNCHANGED envVars) \/ Fault)
  BY <1>1 DEF ResetRequeue, ResetDone, ResetInv, hookVars, poolVars
<1>3. /\ ~Claiming /\ ~Claiming' /\ Line = pending /\ Line' = pending'
      /\ Executing = {} /\ Executing' = {}
  <2>1. \A w \in Workers : wpc[w] = "idle"
    BY <1>1, <1>2, OneThingAtATime DEF ResetStages
  <2>2. ~Claiming /\ ~Claiming'
    BY <1>2 DEF Claiming, ClaimStages, Release
  <2>3. QED
    BY <1>1, <1>2, <2>1, <2>2 DEF LineInv, Executing
<1>4. /\ Tracked = Elems(pending) \cup Elems(moved) /\ Tracked' = Elems(pending')
      /\ Elems(moved) \subseteq Items
  <2>1. Elems(moved) \subseteq Items
    BY <1>1 DEF TypeOK, Elems
  <2>2. InHand = Elems(moved) /\ InHand' = {}
    BY <1>2, <2>1, ItemsAssumption DEF InHand, Release
  <2>3. QED
    BY <1>2, <2>1, <2>2 DEF Tracked
<1> DEFINE Back == Elems(moved) \ Elems(pending)
<1>5. \A i \in Back : i \in Items /\ Phase(i) = "orphaned"
  <2>1. ASSUME NEW i \in Back
        PROVE  i \in Items /\ Phase(i) = "orphaned"
    <3>1. /\ i \in Items /\ enq[i] = "queued" /\ i \notin Executing /\ i \notin Elems(Line)
          /\ record[i] # "none" /\ i \in Tracked
      BY <1>1, <1>2, <1>3, <1>4 DEF FreshInv, ResetInv, ResetStages
    <3>2. QED
      BY <3>1, Zenon DEF Phase
  <2>2. QED
    BY <2>1
<1>6. PICK d \in Lists : /\ Dedupes(d, pending \o moved)
                         /\ \/ pending' = d
                            \/ pending' = pending /\ Fault
  BY DEF ResetRequeue
<1>7. PICK r \in Seq(Items) :
              /\ d = pending \o r /\ NoRepeats(r) /\ Elems(r) = Back
              /\ r = <<>> \/ r \in UNION {[1..n -> Items] : n \in 1..Cardinality(Items)}
  <2>1. pending \in Seq(Items) /\ moved \in Seq(Items) /\ NoRepeats(pending)
    BY <1>1 DEF TypeOK, PendingHasNoRepeats
  <2>2. PICK r \in Seq(Items) : Appends(d, pending, moved, r)
    BY <1>6, <2>1, DedupeAppends
  <2>3. QED
    BY <2>2 DEF Appends
<1>8. \A i \in Items \ Back : i \in Elems(Line') <=> i \in Elems(Line)
  <2>1. Elems(pending \o r) = Elems(pending) \cup Back
    BY <1>1, <1>7, ConcatFacts DEF TypeOK
  <2>2. Elems(pending') = Elems(pending) \/ Elems(pending') = Elems(pending) \cup Back
    BY <1>6, <1>7, <2>1, Zenon
  <2>3. QED
    BY <1>3, <2>2
<1>9. \A i \in Items \ Back : Phase(i)' = Phase(i)
  <2>1. \A i \in Items \ Back : i \in Tracked' <=> i \in Tracked
    BY <1>3, <1>4, <1>8
  <2>2. QED
    BY <1>2, <1>3, <1>8, <2>1, PhaseKept
<1>10. CASE pending' = d
  <2>1. Elems(Line') = Elems(pending) \cup Back
    <3>1. Elems(pending \o r) = Elems(pending) \cup Back
      BY <1>1, <1>7, ConcatFacts DEF TypeOK
    <3>2. QED
      BY <1>3, <1>7, <1>10, <3>1, Zenon
  <2>2. \A i \in Back : Phase(i)' = "waiting"
    <3>1. ASSUME NEW i \in Items, i \in Back
          PROVE  Phase(i)' = "waiting"
      <4>1. enq'[i] = "queued" /\ i \notin Executing' /\ i \in Elems(Line')
        BY <1>1, <1>2, <1>3, <2>1, <3>1 DEF FreshInv
      <4>2. QED
        BY <4>1, Zenon DEF Phase
    <3>2. QED
      BY <1>5, <3>1
  <2>3. CASE Fault
    <3>1. (faults + crashes)' = faults + crashes + 1
      BY <1>1, <2>3 DEF Fault, TypeOK
    <3>2. \A i \in Items : Phase(i)' = Phase(i) \/ Astray(i)
      BY <1>5, <1>9, <2>2 DEF Astray
    <3>3. \A i, j : Ahead(i, j, Line) => Ahead(i, j, Line')
      <4>1. \A i, j : Ahead(i, j, pending) => Ahead(i, j, pending \o r)
        BY <1>1, <1>7, OrderFacts, Zenon DEF TypeOK
      <4>2. QED
        BY <1>3, <1>7, <1>10, <4>1, Zenon
    <3>4. Jobs!Mishap
      BY <3>1, <3>2, <3>3, IsMishap
    <3>5. QED
      BY <3>4 DEF Jobs!JobNext
  <2>4. CASE (UNCHANGED envVars) /\ r = <<>>
    <3>1. Back = {}
      BY <1>7, <2>4, EmptyFacts
    <3>2. Line' = Line
      BY <1>1, <1>3, <1>7, <1>10, <2>4, ConcatEmptySeq DEF TypeOK
    <3>3. \A i \in Items : Phase(i)' = Phase(i)
      BY <1>9, <3>1
    <3>4. QED
      BY <1>2, <3>2, <3>3, QuietStep
  <2>5. CASE (UNCHANGED envVars) /\ r # <<>>
    <3>1. \A i \in Items : Phase(i)' = IF i \in Back THEN "waiting" ELSE Phase(i)
      BY <1>9, <2>2
    <3>2. Jobs!Move(Back, "waiting")
      BY <3>1, IsMove
    <3>3. {r[k] : k \in DOMAIN r} = Back
      BY <1>7 DEF Elems
    <3>4. \A j, k \in DOMAIN r : r[j] = r[k] => j = k
      BY <1>7 DEF NoRepeats
    <3>5. \A i \in Back : i \in Items /\ Shown[i] = "orphaned"
      BY <1>5 DEF Shown
    <3>6. Line' = Line \o r /\ (faults + crashes)' = faults + crashes
      BY <1>3, <1>7, <1>10, <2>5 DEF envVars
    <3>7. {r[k] : k \in DOMAIN r} \subseteq Jobs!InPhase("orphaned")
      BY <3>3, <3>5 DEF Jobs!InPhase, Shown
    <3>8. Jobs!Move({r[k] : k \in DOMAIN r}, "waiting")
      BY <3>2, <3>3
    <3>9. Jobs!Recover(r)
      BY <2>5, <3>4, <3>6, <3>7, <3>8 DEF Jobs!Recover
    <3>10. \E s \in UNION {[1..n -> Items] : n \in 1..Cardinality(Items)} : Jobs!Recover(s)
      BY <1>7, <2>5, <3>9, Zenon
    <3>a. Jobs!Cardinality(Items) = Cardinality(Items)
      BY DEF Jobs!Cardinality, Cardinality
    <3>11. Jobs!JobNext
      BY <3>10, <3>a, Zenon DEF Jobs!JobNext
    <3>12. QED
      BY <3>11
  <2>6. QED
    BY <1>2, <2>3, <2>4, <2>5
<1>11. CASE pending' = pending /\ Fault
  <2>1. (faults + crashes)' = faults + crashes + 1
    BY <1>1, <1>11 DEF Fault, TypeOK
  <2>2. \A i \in Back : Phase(i)' = "lost"
    <3>1. ASSUME NEW i \in Items, i \in Back
          PROVE  Phase(i)' = "lost"
      <4>1. /\ enq'[i] = "queued" /\ i \notin Executing' /\ i \notin Elems(Line')
            /\ record'[i] # "none" /\ i \notin Tracked'
        BY <1>1, <1>2, <1>3, <1>4, <1>11, <3>1 DEF FreshInv, ResetInv, ResetStages
      <4>2. QED
        BY <4>1, Zenon DEF Phase
    <3>2. QED
      BY <1>5, <3>1
  <2>3. \A i \in Items : Phase(i)' = Phase(i) \/ Astray(i)
    BY <1>5, <1>9, <2>2 DEF Astray
  <2>4. Jobs!Mishap
    BY <1>3, <1>11, <2>1, <2>3, IsMishap
  <2>5. QED
    BY <2>4 DEF Jobs!JobNext
<1>12. QED
  BY <1>6, <1>10, <1>11

\* On one node the queue implements JobQueue, whatever fails and however often it
\* restarts: items are started in line order, have one worker each, a finished one
\* never comes back, orphans rejoin the line behind the waiting ones, and only a
\* failing call or a crash parts an item from its worker or loses it.
THEOREM QueueImplementsJobQueue ==
    ASSUME \A m, n \in Nodes : m = n
    PROVE  Spec => ImplementsJobQueue
<1>1. Init => Jobs!JobInit
  <2> SUFFICES ASSUME Init PROVE Jobs!JobInit
    OBVIOUS
  <2>1. \A i \in Items : Phase(i) = "new"
    BY Unqueued DEF Init
  <2>2. Line = <<>>
    BY EmptyFacts, ConcatEmptySeq DEF Init, Line, ClaimStages
  <2>3. faults + crashes = 0
    BY DEF Init
  <2>4. QED
    BY <2>1, <2>2, <2>3 DEF Jobs!JobInit
<1>2. QueueInv /\ QueueInv' /\ [Next]_vars => [Jobs!JobNext]_(Jobs!jobVars)
  <2> SUFFICES ASSUME QueueInv, QueueInv', [Next]_vars
               PROVE  [Jobs!JobNext]_(Jobs!jobVars)
    OBVIOUS
  <2>1. CASE UNCHANGED vars
    <3>1. /\ UNCHANGED <<record, pending, running, enq, wpc, job, stage, cur, moved>>
          /\ UNCHANGED envVars
      BY <2>1 DEF vars, claimVars, hookVars, poolVars
    <3>2. Line' = Line /\ Executing' = Executing /\ Tracked' = Tracked
      BY <3>1 DEF Line, Executing, Tracked, InHand
    <3>3. \A i \in Items : Phase(i)' = Phase(i)
      BY <3>1, <3>2, PhaseKept
    <3>4. QED
      BY <3>1, <3>2, <3>3, QuietStep
  <2>2. CASE Next
    BY <2>2, EnqueueRefines, PopRefines, ClaimRefines, HandOverRefines, FinishRefines,
       NodesRefine, ResetRefines, RequeueRefines DEF Next
  <2>3. QED
    BY <2>1, <2>2
<1>3. QED
  BY <1>1, <1>2, QueueInvHolds, PTL DEF Spec, ImplementsJobQueue, Jobs!JobSpec
=============================================================================
