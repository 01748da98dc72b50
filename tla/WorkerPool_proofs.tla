-------------------------- MODULE WorkerPool_proofs --------------------------
(***************************************************************************)
(* Proofs about WorkerPool for any items, hook calls, pool size and bounds. *)
(***************************************************************************)
EXTENDS WorkerPool, FiniteSetTheorems, SequenceTheorems, TLAPS

(***************************************************************************)
(* The line of waiting items.                                              *)
(***************************************************************************)

\* Moving items changes the phase of those items only.
LEMMA MoveFacts ==
    ASSUME phase \in [Jobs -> Phases], NEW S, NEW p \in Phases, Move(S, p)
    PROVE  /\ phase' \in [Jobs -> Phases]
           /\ \A j \in Jobs : phase'[j] = IF j \in S THEN p ELSE phase[j]
BY DEF Move

\* What the line becomes when its head is taken away.
LEMMA TailFacts ==
    ASSUME line \in Seq(Jobs), line # <<>>, line' = Tail(line)
    PROVE  /\ line' \in Seq(Jobs) /\ Head(line) \in Jobs
           /\ \A k \in DOMAIN line' : k + 1 \in DOMAIN line /\ line'[k] = line[k + 1]
           /\ 1 \in DOMAIN line /\ Head(line) = line[1]
           /\ \A k \in DOMAIN line' : k \in Nat /\ k > 0
OBVIOUS

\* The head of the line leaves it for good: no other place in line holds it.
LEMMA HeadLeaves ==
    ASSUME TypeOK, LineInv, line # <<>>, line' = Tail(line),
           \A j \in Jobs : j # Head(line) /\ phase[j] = "waiting" => phase'[j] = "waiting"
    PROVE  LineInv' /\ line' \in Seq(Jobs) /\ Head(line) \in Jobs /\ phase[Head(line)] = "waiting"
<1> DEFINE h == Head(line)
<1>1. /\ line \in Seq(Jobs) /\ phase \in [Jobs -> Phases]
  BY DEF TypeOK
<1>2. /\ line' \in Seq(Jobs) /\ h \in Jobs /\ 1 \in DOMAIN line /\ h = line[1]
      /\ \A k \in DOMAIN line' : k + 1 \in DOMAIN line /\ line'[k] = line[k + 1] /\ k \in Nat /\ k > 0
  BY <1>1, TailFacts
<1>3. \A k \in DOMAIN line' : line'[k] # h /\ line'[k] \in Jobs
  BY <1>2 DEF LineInv
<1>4. \A k \in DOMAIN line' : phase'[line'[k]] = "waiting"
  BY <1>2, <1>3 DEF LineInv
<1>5. \A k, m \in DOMAIN line' : line'[k] = line'[m] => k = m
  BY <1>2 DEF LineInv
<1>6. QED
  BY <1>2, <1>4, <1>5 DEF LineInv

\* A new item joins the end of the line.
LEMMA JoinsLine ==
    ASSUME TypeOK, LineInv, NEW j \in Jobs, phase[j] = "new",
           Move({j}, "waiting"), line' = Append(line, j)
    PROVE  LineInv' /\ line' \in Seq(Jobs)
<1>1. line \in Seq(Jobs) /\ phase \in [Jobs -> Phases]
  BY DEF TypeOK
<1>2. \A i \in Jobs : phase'[i] = IF i = j THEN "waiting" ELSE phase[i]
  BY <1>1, MoveFacts DEF Phases
<1>3. /\ line' \in Seq(Jobs)
      /\ \A k \in DOMAIN line' :
            \/ k \in DOMAIN line /\ line'[k] = line[k] /\ line[k] \in Jobs
            \/ k = Len(line) + 1 /\ line'[k] = j
      /\ \A k \in DOMAIN line : line[k] # j
  BY <1>1 DEF LineInv
<1>4. \A k \in DOMAIN line' : phase'[line'[k]] = "waiting"
  BY <1>2, <1>3 DEF LineInv
<1>5. \A k, m \in DOMAIN line' : line'[k] = line'[m] => k = m
  BY <1>3 DEF LineInv
<1>6. QED
  BY <1>3, <1>4, <1>5 DEF LineInv

\* Orphans rejoin the line behind the waiting items.
LEMMA OrphansRejoin ==
    ASSUME TypeOK, LineInv,
           NEW s \in [1..Cardinality(InPhase("orphaned")) -> InPhase("orphaned")], Recover(s)
    PROVE  LineInv' /\ line' \in Seq(Jobs) /\ phase' \in [Jobs -> Phases] /\ mishaps' = mishaps
<1>1. /\ line \in Seq(Jobs) /\ phase \in [Jobs -> Phases]
  BY DEF TypeOK
<1>2. IsFiniteSet(InPhase("orphaned")) /\ Cardinality(InPhase("orphaned")) \in Nat
  BY JobsAssumption, FS_Subset, FS_CardinalityType DEF InPhase
<1>3. /\ s \in Seq(Jobs)
      /\ \A k \in DOMAIN s : s[k] \in Jobs /\ phase[s[k]] = "orphaned"
  <2>1. PICK n \in Nat : n = Cardinality(InPhase("orphaned"))
    BY <1>2
  <2>2. s \in [1..n -> Jobs]
    BY <2>1 DEF InPhase
  <2>3. s \in Seq(Jobs)
    BY <2>2, SeqDef
  <2>4. QED
    BY <2>3 DEF InPhase
<1>4. /\ line' = line \o s /\ mishaps' = mishaps
      /\ \A k, m \in DOMAIN s : s[k] = s[m] => k = m
      /\ Move({s[k] : k \in DOMAIN s}, "waiting")
  BY DEF Recover
<1>5. /\ phase' \in [Jobs -> Phases]
      /\ \A j \in Jobs : phase'[j] = IF j \in {s[k] : k \in DOMAIN s} THEN "waiting" ELSE phase[j]
  BY <1>1, <1>4, MoveFacts DEF Phases
<1>6. /\ line' \in Seq(Jobs)
      /\ \A k \in DOMAIN line' :
            \/ k \in DOMAIN line /\ line'[k] = line[k]
            \/ k - Len(line) \in DOMAIN s /\ line'[k] = s[k - Len(line)]
      /\ DOMAIN line' \subseteq Nat
  <2>1. /\ line \o s \in Seq(Jobs)
        /\ Len(line \o s) = Len(line) + Len(s)
        /\ \A k \in 1..Len(line) + Len(s) :
              (line \o s)[k] = IF k <= Len(line) THEN line[k] ELSE s[k - Len(line)]
    BY <1>1, <1>3, ConcatProperties
  <2>2. DOMAIN (line \o s) = 1..Len(line) + Len(s)
    BY <2>1
  <2>3. DOMAIN line = 1..Len(line) /\ DOMAIN s = 1..Len(s) /\ Len(line) \in Nat /\ Len(s) \in Nat
    BY <1>1, <1>3
  <2>4. QED
    BY <1>4, <2>1, <2>2, <2>3
<1>7. \A k \in DOMAIN line : line[k] \in Jobs /\ phase[line[k]] = "waiting"
  BY <1>1 DEF LineInv
<1>8. \A k \in DOMAIN line' : phase'[line'[k]] = "waiting"
  BY <1>3, <1>5, <1>6, <1>7
<1>9. ASSUME NEW k \in DOMAIN line', NEW m \in DOMAIN line', line'[k] = line'[m]
      PROVE  k = m
  <2>1. k \in Nat /\ m \in Nat /\ Len(line) \in Nat
    BY <1>1, <1>6
  <2>2. CASE k \in DOMAIN line /\ line'[k] = line[k] /\ m \in DOMAIN line /\ line'[m] = line[m]
    BY <1>9, <2>2 DEF LineInv
  <2>3. CASE /\ k - Len(line) \in DOMAIN s /\ line'[k] = s[k - Len(line)]
             /\ m - Len(line) \in DOMAIN s /\ line'[m] = s[m - Len(line)]
    <3>1. k - Len(line) = m - Len(line)
      BY <1>4, <1>9, <2>3
    <3>2. QED
      BY <2>1, <3>1
  <2>4. CASE /\ k \in DOMAIN line /\ line'[k] = line[k]
             /\ m - Len(line) \in DOMAIN s /\ line'[m] = s[m - Len(line)]
    BY <1>3, <1>7, <1>9, <2>4
  <2>5. CASE /\ m \in DOMAIN line /\ line'[m] = line[m]
             /\ k - Len(line) \in DOMAIN s /\ line'[k] = s[k - Len(line)]
    BY <1>3, <1>7, <1>9, <2>5
  <2>6. QED
    BY <1>6, <2>2, <2>3, <2>4, <2>5
<1>10. QED
  BY <1>4, <1>5, <1>6, <1>8, <1>9 DEF LineInv

\* A step that leaves the line and the waiting items alone keeps them in order.
LEMMA LineKept ==
    ASSUME LineInv, line' = line, line \in Seq(Jobs),
           \A j \in Jobs : phase[j] = "waiting" => phase'[j] = "waiting"
    PROVE  LineInv'
BY DEF LineInv

(***************************************************************************)
(* Counting workers.                                                       *)
(***************************************************************************)

LEMMA BusyIsFinite == IsFiniteSet(Busy) /\ Cardinality(Busy) \in Nat
BY JobsAssumption, FS_Subset, FS_CardinalityType DEF Busy

\* One more worker (ClaimItem).
LEMMA OneMoreBusy ==
    ASSUME step \in [Jobs -> Steps], NEW j \in Jobs, step[j] = "idle",
           step' = [step EXCEPT ![j] = "load"]
    PROVE  Cardinality(Busy') = Cardinality(Busy) + 1 /\ Busy' = Busy \cup {j}
           /\ step' \in [Jobs -> Steps]
<1>1. Busy' = Busy \cup {j} /\ j \notin Busy
  BY DEF Busy
<1>2. QED
  BY <1>1, BusyIsFinite, FS_AddElement DEF Steps

\* One worker less (the deferred <-sem).
LEMMA OneLessBusy ==
    ASSUME step \in [Jobs -> Steps], NEW j \in Busy, step' = [step EXCEPT ![j] = "idle"]
    PROVE  /\ Cardinality(Busy') = Cardinality(Busy) - 1 /\ Busy' = Busy \ {j}
           /\ Cardinality(Busy) > 0
           /\ step' \in [Jobs -> Steps]
<1>1. Busy' = Busy \ {j}
  BY DEF Busy
<1>2. Cardinality(Busy) > 0
  BY BusyIsFinite, FS_EmptySet
<1>3. QED
  BY <1>1, <1>2, BusyIsFinite, FS_RemoveElement DEF Steps, Busy

\* The same workers (a worker goes on).
LEMMA SameBusy ==
    ASSUME step \in [Jobs -> Steps], NEW j \in Busy, NEW s \in Steps \ {"idle"},
           step' = [step EXCEPT ![j] = s]
    PROVE  Busy' = Busy /\ step' \in [Jobs -> Steps]
BY DEF Busy, Steps

(***************************************************************************)
(* The pool invariant.                                                     *)
(***************************************************************************)

\* Leaving the queue touches the worker's own item only, whether or not it
\* succeeds.
LEMMA LeaveFacts ==
    ASSUME TypeOK, NEW j \in Jobs, LeaveQueue(j) \/ FinishAgain(j)
    PROVE  /\ line' = line /\ mishaps' \in Nat
           /\ phase' \in [Jobs -> Phases]
           /\ \A i \in Jobs : i # j => phase'[i] = phase[i]
           /\ phase'[j] \in {"orphaned", "done"}
BY DEF LeaveQueue, Finish, FinishAgain, Trouble, Move, TypeOK, Phases

\* What the steps of a worker have in common: it goes on or ends, and touches
\* no item but its own.
LEMMA WorkerFacts ==
    ASSUME PoolInv, NEW j \in Jobs, WorkerStep(j)
    PROVE  /\ j \in Busy /\ dpc # "down"
           /\ UNCHANGED <<dpc, filled, notify, stop, claimFailed, refused, notified, stops>>
           /\ EndWorker(j) \/ \E s \in Steps \ {"idle"} : GoOn(j, s)
           /\ line' = line /\ mishaps' \in Nat /\ phase' \in [Jobs -> Phases]
           /\ \A i \in Jobs : i # j => phase'[i] = phase[i] /\ why'[i] = why[i]
           /\ phase[j] # "waiting"
<1>1. TypeOK /\ SlotsAccounted /\ ShutdownInv /\ WorkerInv /\ step \in [Jobs -> Steps]
      /\ why \in [Jobs -> Reasons]
  BY DEF PoolInv, TypeOK
<1>2. j \in Busy /\ dpc # "down" /\ phase[j] # "waiting"
  BY <1>1 DEF WorkerStep, Load, Check, Execute, Settle, Record, Tell, Panic, Busy, ShutdownInv,
              WorkerInv
<1>3. UNCHANGED <<dpc, filled, notify, stop, claimFailed, refused, notified, stops>>
  BY DEF WorkerStep, Load, Check, Execute, Settle, Record, Tell, Panic, hookVars
<1>4. EndWorker(j) \/ \E s \in Steps \ {"idle"} : GoOn(j, s)
  <2>1. Settle(j) => AfterSettle(why[j]) \in {"end", "record", "notify"}
    BY <1>1 DEF Settle, AfterSettle, WorkerInv, Reasons
  <2>2. QED
    BY <2>1 DEF WorkerStep, Load, Check, Execute, Settle, Record, Tell, Panic, Steps
<1>5. /\ line' = line /\ mishaps' \in Nat /\ phase' \in [Jobs -> Phases]
      /\ \A i \in Jobs : i # j => phase'[i] = phase[i]
  <2>1. CASE LeaveQueue(j) \/ FinishAgain(j)
    BY <1>1, <2>1, LeaveFacts
  <2>2. CASE UNCHANGED jobVars
    BY <1>1, <2>2 DEF jobVars, TypeOK
  <2>4. CASE UNCHANGED <<phase, line>> /\ (Trouble \/ UNCHANGED mishaps)
    BY <1>1, <2>4 DEF Trouble, TypeOK
  <2>6. QED
    BY <2>1, <2>2, <2>4
       DEF WorkerStep, Load, Check, Execute, Settle, Record, Tell, Panic, jobVars
<1>6. \A i \in Jobs : i # j => why'[i] = why[i]
  BY <1>1 DEF WorkerStep, Load, Check, Execute, Settle, Record, Tell, Panic, Found
<1>7. QED
  BY <1>2, <1>3, <1>4, <1>5, <1>6

\* A worker goes on only with its item or after settling it (WorkerInv).
LEMMA WorkerInvKept ==
    ASSUME PoolInv, NEW j \in Jobs, WorkerStep(j)
    PROVE  WorkerInv'
<1>1. TypeOK /\ WorkerInv /\ step \in [Jobs -> Steps] /\ phase \in [Jobs -> Phases]
      /\ why \in [Jobs -> Reasons]
  BY DEF PoolInv, TypeOK
<1>2. \A i \in Jobs : i # j => phase'[i] = phase[i] /\ why'[i] = why[i] /\ step'[i] = step[i]
  BY <1>1, WorkerFacts DEF EndWorker, GoOn
<1> DEFINE Fine ==
        /\ step'[j] \in {"load", "check", "execute", "settle"} => phase'[j] = "active"
        /\ step'[j] \in {"record", "notify"} => phase'[j] \in {"orphaned", "done"}
        /\ step'[j] = "settle" => why'[j] \notin {"none", "panic"}
        /\ step'[j] = "record" => why'[j] \in {"transient", "denied", "success", "failed"}
        /\ step'[j] = "notify" => why'[j] \in {"failed", "denied"}
<1>3. CASE EndWorker(j)
  <2>1. step'[j] = "idle"
    BY <1>1, <1>3 DEF EndWorker
  <2>2. QED
    BY <1>1, <1>2, <2>1 DEF WorkerInv
<1>4. CASE Load(j) \/ Check(j) \/ Execute(j)
  <2>1. Fine
    BY <1>1, <1>3, <1>4 DEF Load, Check, Execute, GoOn, Found, WorkerInv, jobVars
  <2>2. QED
    BY <1>1, <1>2, <2>1 DEF WorkerInv
<1>5. CASE Settle(j) /\ ~EndWorker(j)
  <2>1. phase[j] = "active" /\ why[j] \in Reasons \ {"none", "panic"} /\ why' = why
    BY <1>1, <1>5 DEF Settle, WorkerInv
  <2>2. phase'[j] \in {"orphaned", "done"}
    BY <1>1, <1>5, <2>1, LeaveFacts DEF Settle
  <2>3. step'[j] = AfterSettle(why[j])
    BY <1>1, <1>5 DEF Settle, GoOn
  <2>4. AfterSettle(why[j]) \in {"end", "record", "notify"}
        /\ (AfterSettle(why[j]) = "record" => why[j] \in {"transient", "denied", "success"})
        /\ (AfterSettle(why[j]) = "notify" => why[j] = "failed")
    BY <2>1 DEF AfterSettle, Reasons
  <2>5. Fine
    BY <2>1, <2>2, <2>3, <2>4
  <2>6. QED
    BY <1>1, <1>2, <2>5 DEF WorkerInv
<1>6. CASE (Record(j) \/ Tell(j)) /\ ~EndWorker(j)
  <2>1. Fine
    BY <1>1, <1>6 DEF Record, Tell, GoOn, WorkerInv, jobVars
  <2>2. QED
    BY <1>1, <1>2, <2>1 DEF WorkerInv
<1>7. QED
  BY <1>3, <1>4, <1>5, <1>6 DEF WorkerStep, Panic

\* The steps of one worker keep the pool invariant: a worker that ends gives
\* its slot back.
LEMMA WorkerKeeps ==
    ASSUME PoolInv, NEW j \in Jobs, WorkerStep(j)
    PROVE  PoolInv'
<1>1. TypeOK /\ SlotsAccounted /\ LineInv /\ ShutdownInv /\ WorkerInv /\ step \in [Jobs -> Steps]
  BY DEF PoolInv, TypeOK
<1>2. /\ j \in Busy /\ dpc # "down"
      /\ UNCHANGED <<dpc, filled, notify, stop, claimFailed, refused, notified, stops>>
      /\ EndWorker(j) \/ \E s \in Steps \ {"idle"} : GoOn(j, s)
      /\ line' = line /\ mishaps' \in Nat /\ phase' \in [Jobs -> Phases]
      /\ \A i \in Jobs : i # j => phase'[i] = phase[i]
      /\ phase[j] # "waiting"
  BY WorkerFacts
<1>3. /\ why' \in [Jobs -> Reasons] /\ recorded' \in [Jobs -> {"none", "success", "failed"}]
      /\ told' \in [Jobs -> {"none", "failed", "denied"}] /\ unheard' \in Nat
  BY <1>1 DEF WorkerStep, Load, Check, Execute, Settle, Record, Tell, Panic, Found, Mute, TypeOK,
              Reasons, WorkerInv
<1>4. LineInv'
  BY <1>1, <1>2, LineKept DEF TypeOK
<1>5. /\ step' \in [Jobs -> Steps]
      /\ Cardinality(Busy') \in Int /\ slots' \in Int
      /\ slots' - Cardinality(Busy') = slots - Cardinality(Busy)
      /\ slots' <= slots /\ Cardinality(Busy') >= 0
  <2>1. slots \in Nat /\ Cardinality(Busy) \in Nat
    BY <1>1, BusyIsFinite, LimitsAssumption DEF TypeOK
  <2>2. CASE EndWorker(j)
    <3>1. slots' = slots - 1 /\ step' = [step EXCEPT ![j] = "idle"]
      BY <2>2 DEF EndWorker
    <3>2. /\ Cardinality(Busy') = Cardinality(Busy) - 1 /\ Cardinality(Busy) > 0
          /\ step' \in [Jobs -> Steps]
      BY <1>1, <1>2, <3>1, OneLessBusy
    <3>3. QED
      BY <2>1, <3>1, <3>2
  <2>3. CASE \E s \in Steps \ {"idle"} : GoOn(j, s)
    <3>1. Busy' = Busy /\ step' \in [Jobs -> Steps] /\ slots' = slots
      BY <1>1, <1>2, <2>3, SameBusy DEF GoOn
    <3>2. Cardinality(Busy') = Cardinality(Busy)
      BY <3>1
    <3>3. QED
      BY <2>1, <3>1, <3>2
  <2>4. QED
    BY <1>2, <2>2, <2>3
<1>6. slots' = Cardinality(Busy') + filled' + (IF dpc' = "claim" THEN 1 ELSE 0)
      /\ slots' \in 0..MaxWorkers
  <2>1. /\ dpc # "down" /\ dpc' = dpc /\ filled' = filled
        /\ slots \in 0..MaxWorkers /\ filled \in Nat /\ MaxWorkers \in Nat
    BY <1>1, <1>2, LimitsAssumption DEF TypeOK
  <2>2. Cardinality(Busy) \in Nat
    BY <1>1, BusyIsFinite DEF TypeOK
  <2>3. slots = Cardinality(Busy) + filled + (IF dpc = "claim" THEN 1 ELSE 0)
    BY <1>1, <2>1 DEF SlotsAccounted
  <2>4. QED
    BY <1>5, <2>1, <2>2, <2>3
<1>7. TypeOK'
  BY <1>1, <1>2, <1>3, <1>5, <1>6 DEF TypeOK
<1>8. SlotsAccounted' /\ ShutdownInv'
  BY <1>1, <1>2, <1>6 DEF SlotsAccounted, ShutdownInv
<1>9. QED
  BY <1>4, <1>7, <1>8, WorkerInvKept DEF PoolInv

\* A step that moves no item and no worker keeps what is said of them.
LEMMA NothingMoves ==
    ASSUME LineInv, WorkerInv, UNCHANGED <<phase, line, step, why>>
    PROVE  LineInv' /\ WorkerInv' /\ Busy' = Busy
BY DEF LineInv, WorkerInv, Busy

\* The steps of hook calls.
LEMMA HooksKeep ==
    ASSUME PoolInv, NEW e \in Events,
           HookNotify(e) \/ \E j \in Jobs : HookEnqueue(e, j)
    PROVE  PoolInv'
<1>1. TypeOK /\ SlotsAccounted /\ LineInv /\ ShutdownInv /\ WorkerInv
  BY DEF PoolInv
<1>2. UNCHANGED <<dpc, slots, filled, stop, claimFailed, step, why, recorded, told, unheard, stops>>
      /\ Busy' = Busy
  BY DEF HookNotify, HookEnqueue, dispatcherVars, workerVars, Busy
<1>3. SlotsAccounted' /\ ShutdownInv'
  BY <1>1, <1>2 DEF SlotsAccounted, ShutdownInv
<1>4. CASE HookNotify(e)
  <2>1. TypeOK' /\ UNCHANGED <<phase, line>>
    BY <1>1, <1>4 DEF HookNotify, TypeOK, jobVars, workerVars
  <2>2. QED
    BY <1>1, <1>2, <1>3, <2>1, NothingMoves DEF PoolInv
<1>5. ASSUME NEW j \in Jobs, HookEnqueue(e, j) PROVE PoolInv'
  <2>1. UNCHANGED <<notify, notified>> /\ refused' \in SUBSET Jobs /\ mishaps' \in Nat
        /\ phase[j] = "new"
    BY <1>1, <1>5 DEF HookEnqueue, Submit, Trouble, TypeOK, dispatcherVars
  <2>2. CASE UNCHANGED <<phase, line>>
    BY <1>1, <1>2, <1>3, <2>1, <2>2, NothingMoves DEF PoolInv, TypeOK
  <2>3. CASE Move({j}, "waiting") /\ line' = Append(line, j)
    <3>1. LineInv' /\ line' \in Seq(Jobs)
      BY <1>1, <2>1, <2>3, JoinsLine
    <3>2. /\ phase' \in [Jobs -> Phases]
          /\ \A i \in Jobs : phase'[i] = IF i = j THEN "waiting" ELSE phase[i]
      BY <1>1, <2>3, MoveFacts DEF TypeOK, Phases
    <3>3. WorkerInv'
      BY <1>1, <1>2, <2>1, <3>2 DEF WorkerInv
    <3>4. TypeOK'
      BY <1>1, <1>2, <2>1, <3>1, <3>2 DEF TypeOK
    <3>5. QED
      BY <1>3, <3>1, <3>3, <3>4 DEF PoolInv
  <2>4. QED
    BY <1>5, <2>2, <2>3 DEF HookEnqueue, Submit
<1>6. QED
  BY <1>4, <1>5

\* A claim hands the slot to a new worker.
LEMMA ClaimKeeps ==
    ASSUME PoolInv, NEW j \in Jobs, ClaimItem(j)
    PROVE  PoolInv'
<1>1. TypeOK /\ SlotsAccounted /\ LineInv /\ ShutdownInv /\ WorkerInv /\ dpc = "claim"
      /\ step \in [Jobs -> Steps] /\ why \in [Jobs -> Reasons] /\ phase \in [Jobs -> Phases]
  BY DEF PoolInv, ClaimItem, TypeOK
<1>2. /\ line # <<>> /\ j = Head(line) /\ line' = Tail(line) /\ mishaps' = mishaps
      /\ step' = [step EXCEPT ![j] = "load"] /\ why' = [why EXCEPT ![j] = "none"]
      /\ dpc' = "select" /\ claimFailed' = FALSE /\ Move({j}, "active")
      /\ UNCHANGED <<slots, filled, notify, stop, refused, notified, recorded, told, unheard, stops>>
  BY DEF ClaimItem, StartNext, hookVars
<1>3. /\ phase' \in [Jobs -> Phases]
      /\ \A i \in Jobs : phase'[i] = IF i = j THEN "active" ELSE phase[i]
  BY <1>1, <1>2, MoveFacts DEF Phases
<1>4. LineInv' /\ line' \in Seq(Jobs) /\ phase[j] = "waiting"
  BY <1>1, <1>2, <1>3, HeadLeaves
<1>5. step[j] = "idle"
  BY <1>1, <1>4 DEF WorkerInv, Steps
<1>6. Cardinality(Busy') = Cardinality(Busy) + 1 /\ step' \in [Jobs -> Steps]
  BY <1>1, <1>2, <1>5, OneMoreBusy
<1>7. WorkerInv'
  BY <1>1, <1>2, <1>3 DEF WorkerInv
<1>8. TypeOK'
  BY <1>1, <1>2, <1>3, <1>4, <1>6 DEF TypeOK, Reasons
<1>9. slots = Cardinality(Busy) + filled + 1
  BY <1>1 DEF SlotsAccounted
<1>10. Cardinality(Busy) \in Nat /\ filled \in Nat
  BY <1>1, BusyIsFinite, LimitsAssumption DEF TypeOK
<1>11. slots' = Cardinality(Busy') + filled' + 0
  BY <1>2, <1>6, <1>9, <1>10
<1>12. SlotsAccounted' /\ ShutdownInv'
  BY <1>1, <1>2, <1>11 DEF SlotsAccounted, ShutdownInv
<1>13. QED
  BY <1>4, <1>7, <1>8, <1>12 DEF PoolInv

\* A claim that fails gives the slot back, whatever became of the item.
LEMMA ClaimErrorKeeps ==
    ASSUME PoolInv, ClaimError
    PROVE  PoolInv'
<1>1. TypeOK /\ SlotsAccounted /\ LineInv /\ ShutdownInv /\ WorkerInv /\ dpc = "claim"
      /\ phase \in [Jobs -> Phases]
  BY DEF PoolInv, ClaimError, TypeOK
<1>2. /\ slots' = slots - 1 /\ dpc' = "wait" /\ claimFailed' = TRUE /\ mishaps' \in Nat
      /\ UNCHANGED <<filled, notify, stop, refused, notified, step, why, recorded, told, unheard, stops>>
      /\ Busy' = Busy
  BY <1>1 DEF ClaimError, Trouble, hookVars, workerVars, Busy, TypeOK
<1>3. Cardinality(Busy) \in Nat /\ filled \in 0..MaxWorkers /\ slots \in 0..MaxWorkers
  BY <1>1, BusyIsFinite DEF TypeOK
<1>4. slots = Cardinality(Busy) + filled + 1
  BY <1>1 DEF SlotsAccounted
<1>5. slots' = Cardinality(Busy') + filled' /\ slots' \in 0..MaxWorkers
  BY <1>2, <1>3, <1>4, LimitsAssumption
<1>6. SlotsAccounted' /\ ShutdownInv'
  BY <1>1, <1>2, <1>5, <1>3 DEF SlotsAccounted, ShutdownInv
<1>7. CASE UNCHANGED <<phase, line>>
  BY <1>1, <1>2, <1>5, <1>6, <1>7, NothingMoves DEF PoolInv, TypeOK
<1>8. CASE /\ line # <<>> /\ line' = Tail(line)
           /\ Move({Head(line)}, "lost") \/ Move({Head(line)}, "orphaned")
  <2>1. /\ phase' \in [Jobs -> Phases]
        /\ \A j \in Jobs : j # Head(line) => phase'[j] = phase[j]
    BY <1>1, <1>8, MoveFacts DEF Phases
  <2>2. LineInv' /\ line' \in Seq(Jobs) /\ phase[Head(line)] = "waiting" /\ Head(line) \in Jobs
    BY <1>1, <1>8, <2>1, HeadLeaves
  <2>3. WorkerInv'
    BY <1>1, <1>2, <2>1, <2>2 DEF WorkerInv
  <2>4. TypeOK'
    BY <1>1, <1>2, <1>5, <2>1, <2>2 DEF TypeOK
  <2>5. QED
    BY <1>6, <2>2, <2>3, <2>4 DEF PoolInv
<1>9. QED
  BY <1>7, <1>8 DEF ClaimError

\* The dispatcher takes and returns slots one at a time.
LEMMA DispatcherKeeps ==
    ASSUME PoolInv, DispatcherStep
    PROVE  PoolInv'
<1>1. TypeOK /\ SlotsAccounted /\ LineInv /\ ShutdownInv /\ WorkerInv
  BY DEF PoolInv
<1>2. Cardinality(Busy) \in Nat /\ filled \in 0..MaxWorkers /\ slots \in 0..MaxWorkers
  BY <1>1, BusyIsFinite DEF TypeOK
<1>3. CASE (\E j \in Jobs : ClaimItem(j)) \/ ClaimError
  BY <1>3, ClaimKeeps, ClaimErrorKeeps
<1>4. CASE SelectStop \/ SelectSlot \/ ClaimNothing \/ WaitNotify \/ WaitTick \/ WaitStop \/ Fill
  <2>1. /\ UNCHANGED <<phase, line, mishaps, stop, refused, notified, step, why, recorded, told, unheard, stops>>
        /\ notify' \in BOOLEAN /\ claimFailed' \in BOOLEAN
    BY <1>1, <1>4 DEF SelectStop, SelectSlot, ClaimNothing, WaitNotify, WaitTick, WaitStop, Fill,
                      jobVars, hookVars, workerVars, TypeOK
  <2>2. LineInv' /\ WorkerInv' /\ Busy' = Busy
    BY <1>1, <2>1, NothingMoves
  <2>3. slots = Cardinality(Busy) + filled + (IF dpc = "claim" THEN 1 ELSE 0)
    BY <1>1, <1>4 DEF SlotsAccounted, SelectStop, SelectSlot, ClaimNothing, WaitNotify, WaitTick,
                      WaitStop, Fill
  <2>4. /\ slots' = Cardinality(Busy) + filled' + (IF dpc' = "claim" THEN 1 ELSE 0)
        /\ slots' \in 0..MaxWorkers /\ filled' \in 0..MaxWorkers
        /\ dpc' \in {"select", "claim", "wait", "fill", "exited"}
    <3>1. CASE SelectStop \/ WaitNotify \/ WaitTick \/ WaitStop
      BY <1>2, <2>3, <3>1 DEF SelectStop, WaitNotify, WaitTick, WaitStop
    <3>2. CASE SelectSlot
      BY <1>2, <2>3, <3>2, LimitsAssumption DEF SelectSlot
    <3>3. CASE ClaimNothing
      BY <1>2, <2>3, <3>3, LimitsAssumption DEF ClaimNothing
    <3>4. CASE Fill
      BY <1>2, <2>3, <3>4, LimitsAssumption DEF Fill
    <3>5. QED
      BY <1>4, <3>1, <3>2, <3>3, <3>4
  <2>5. Cardinality(Busy') = Cardinality(Busy)
    BY <2>2
  <2>6. SlotsAccounted'
    BY <2>4, <2>5 DEF SlotsAccounted
  <2>7. ShutdownInv'
    BY <1>1, <1>4, <2>4 DEF ShutdownInv, SelectStop, SelectSlot, ClaimNothing, WaitNotify, WaitTick,
                            WaitStop, Fill
  <2>8. TypeOK'
    BY <1>1, <2>1, <2>4 DEF TypeOK
  <2>9. QED
    BY <2>2, <2>6, <2>7, <2>8 DEF PoolInv
<1>5. QED
  BY <1>3, <1>4 DEF DispatcherStep

\* A crash ends every worker and parts it from its item.
LEMMA CrashKeeps ==
    ASSUME PoolInv, Crash
    PROVE  PoolInv'
<1>1. TypeOK /\ LineInv /\ ShutdownInv /\ WorkerInv /\ phase \in [Jobs -> Phases]
  BY DEF PoolInv, TypeOK
<1>2. /\ dpc' = "down" /\ step' = [j \in Jobs |-> "idle"] /\ mishaps' \in Nat
      /\ UNCHANGED <<slots, filled, notify, stop, claimFailed, refused, why, recorded, told, unheard, stops>>
      /\ notified' \subseteq Events
  BY <1>1 DEF Crash, CutOff, Trouble, TypeOK
<1>3. PICK dropped \in {{}, IF dpc = "claim" /\ line # <<>> THEN {Head(line)} ELSE {}} :
          /\ phase' = [j \in Jobs |-> IF phase[j] = "active" THEN "orphaned"
                                      ELSE IF j \in dropped THEN "lost" ELSE phase[j]]
          /\ line' = IF dropped = {} THEN line ELSE Tail(line)
  BY DEF Crash
<1>4. phase' \in [Jobs -> Phases]
  BY <1>1, <1>3 DEF Phases
<1>5. LineInv' /\ line' \in Seq(Jobs)
  <2>1. CASE dropped = {}
    BY <1>1, <1>3, <2>1, LineKept DEF TypeOK
  <2>2. CASE dropped = {Head(line)} /\ line # <<>>
    <3>1. \A j \in Jobs : j # Head(line) /\ phase[j] = "waiting" => phase'[j] = "waiting"
      BY <1>3, <2>2
    <3>2. line' = Tail(line)
      BY <1>3, <2>2
    <3>3. QED
      BY <1>1, <2>2, <3>1, <3>2, HeadLeaves
  <2>3. QED
    BY <1>3, <2>1, <2>2
<1>6. WorkerInv' /\ SlotsAccounted' /\ ShutdownInv'
  BY <1>2 DEF WorkerInv, SlotsAccounted, ShutdownInv, Busy
<1>7. TypeOK'
  BY <1>1, <1>2, <1>4, <1>5 DEF TypeOK, Steps
<1>8. QED
  BY <1>5, <1>6, <1>7 DEF PoolInv

\* A restart begins with an empty semaphore, and no worker is left by then.
LEMMA RestartKeeps ==
    ASSUME PoolInv, Restart
    PROVE  PoolInv'
<1>1. TypeOK /\ SlotsAccounted /\ LineInv /\ ShutdownInv /\ WorkerInv /\ phase \in [Jobs -> Phases]
      /\ step \in [Jobs -> Steps]
  BY DEF PoolInv, TypeOK
<1>2. /\ dpc' = "select" /\ slots' = 0 /\ filled' = 0 /\ notify' = FALSE /\ stop' = FALSE
      /\ claimFailed' = FALSE
      /\ UNCHANGED <<refused, step, why, recorded, told, unheard, stops>>
      /\ notified' \subseteq Events
  BY <1>1 DEF Restart, CutOff, workerVars, TypeOK
<1>3. Busy = {}
  <2>1. CASE dpc = "exited"
    <3>1. slots = Cardinality(Busy) + MaxWorkers
      BY <1>1, <2>1, BusyIsFinite, LimitsAssumption DEF SlotsAccounted, ShutdownInv, TypeOK
    <3>2. Cardinality(Busy) = 0
      BY <1>1, <3>1, BusyIsFinite, LimitsAssumption DEF TypeOK
    <3>3. QED
      BY <3>2, BusyIsFinite, FS_EmptySet
  <2>2. QED
    BY <1>1, <2>1 DEF Restart, ShutdownInv
<1>4. LineInv' /\ line' \in Seq(Jobs) /\ phase' \in [Jobs -> Phases] /\ mishaps' \in Nat
  <2>1. CASE UNCHANGED jobVars
    BY <1>1, <2>1 DEF jobVars, LineInv, TypeOK
  <2>2. ASSUME NEW s \in [1..Cardinality(InPhase("orphaned")) -> InPhase("orphaned")], Recover(s)
        PROVE  LineInv' /\ line' \in Seq(Jobs) /\ phase' \in [Jobs -> Phases] /\ mishaps' \in Nat
    BY <1>1, <2>2, OrphansRejoin DEF TypeOK
  <2>3. CASE Trouble /\ UNCHANGED <<phase, line>>
    BY <1>1, <2>3 DEF Trouble, LineInv, TypeOK
  <2>4. CASE Trouble /\ UNCHANGED line /\ Move(InPhase("orphaned"), "lost")
    <3>1. /\ phase' \in [Jobs -> Phases]
          /\ \A j \in Jobs : phase[j] = "waiting" => phase'[j] = "waiting"
      BY <1>1, <2>4, MoveFacts DEF Phases, InPhase
    <3>2. QED
      BY <1>1, <2>4, <3>1, LineKept DEF TypeOK, Trouble
  <2>5. QED
    BY <2>1, <2>2, <2>3, <2>4 DEF Restart, Reset
<1>5. Busy' = {} /\ \A j \in Jobs : step'[j] = "idle"
  BY <1>2, <1>3 DEF Busy
<1>6. Cardinality(Busy') = 0
  BY <1>5, FS_EmptySet
<1>7. SlotsAccounted' /\ WorkerInv' /\ ShutdownInv'
  BY <1>2, <1>5, <1>6 DEF SlotsAccounted, WorkerInv, ShutdownInv
<1>8. TypeOK'
  <2>1. 0 \in 0..MaxWorkers
    BY LimitsAssumption
  <2>2. dpc' \in {"select", "claim", "wait", "fill", "exited", "down"} /\ notified' \in SUBSET Events
    BY <1>2
  <2>3. QED
    BY <1>1, <1>2, <1>4, <2>1, <2>2 DEF TypeOK
<1>9. QED
  BY <1>4, <1>7, <1>8 DEF PoolInv

(***************************************************************************)
(* Theorems.                                                               *)
(***************************************************************************)

\* The pool invariant holds in every reachable state, for any number of items,
\* hook calls, workers, mishaps and shutdowns (worker.go:80-146).
THEOREM PoolInvHolds == Spec => []PoolInv
<1>1. Init => PoolInv
  <2> SUFFICES ASSUME Init PROVE PoolInv
    OBVIOUS
  <2>1. Busy = {} /\ Cardinality(Busy) = 0
    BY FS_EmptySet DEF Init, Busy
  <2>2. 0 \in 0..MaxWorkers /\ 0 \in Nat /\ <<>> \in Seq(Jobs)
    BY LimitsAssumption
  <2>3. phase \in [Jobs -> Phases] /\ step \in [Jobs -> Steps] /\ why \in [Jobs -> Reasons]
        /\ recorded \in [Jobs -> {"none", "success", "failed"}]
        /\ told \in [Jobs -> {"none", "failed", "denied"}]
    BY DEF Init, JobInit, Phases, Steps, Reasons
  <2>4. TypeOK
    BY <2>2, <2>3 DEF Init, JobInit, TypeOK
  <2>5. QED
    BY <2>1, <2>4 DEF Init, JobInit, PoolInv, SlotsAccounted, LineInv, ShutdownInv, WorkerInv
<1>2. PoolInv /\ [Next]_vars => PoolInv'
  <2> SUFFICES ASSUME PoolInv, [Next]_vars PROVE PoolInv'
    OBVIOUS
  <2>1. CASE UNCHANGED vars
    BY <2>1 DEF vars, jobVars, dispatcherVars, hookVars, workerVars, PoolInv, TypeOK, LineInv,
                SlotsAccounted, ShutdownInv, WorkerInv, Busy
  <2>2. CASE Stop
    BY <2>2 DEF Stop, jobVars, hookVars, workerVars, PoolInv, TypeOK, LineInv,
                SlotsAccounted, ShutdownInv, WorkerInv, Busy
  <2>3. QED
    BY <2>1, <2>2, HooksKeep, DispatcherKeeps, WorkerKeeps, CrashKeeps, RestartKeeps DEF Next
<1>3. QED
  BY <1>1, <1>2, PTL DEF Spec

\* Every token in the semaphore has an owner (worker.go:80-146).
THEOREM NoSlotLeaks == Spec => []SlotsAccounted
BY PoolInvHolds, PTL DEF PoolInv

\* The pool never runs more automations than the semaphore has room for
\* (worker.go:36-52 and plugin.go:120-123).
THEOREM ConcurrencyIsBounded == Spec => []BoundedConcurrency
<1>1. PoolInv => BoundedConcurrency
  <2> SUFFICES ASSUME PoolInv PROVE BoundedConcurrency
    OBVIOUS
  <2>1. CASE dpc = "down"
    BY <2>1, FS_EmptySet, LimitsAssumption DEF PoolInv, ShutdownInv, BoundedConcurrency
  <2>2. CASE dpc # "down"
    BY <2>2, BusyIsFinite, LimitsAssumption DEF PoolInv, SlotsAccounted, TypeOK, BoundedConcurrency
  <2>3. QED
    BY <2>1, <2>2
<1>2. QED
  BY <1>1, PoolInvHolds, PTL

\* Stop returns only when no worker is left: the shutdown loop holds every slot
\* (worker.go:63-70 and 94-97).
THEOREM StoppedIsQuiet == Spec => []ExitedMeansQuiet
<1>1. PoolInv => ExitedMeansQuiet
  <2> SUFFICES ASSUME PoolInv, dpc = "exited" PROVE Busy = {}
    BY DEF ExitedMeansQuiet
  <2>1. slots = Cardinality(Busy) + MaxWorkers /\ slots \in 0..MaxWorkers
    BY BusyIsFinite, LimitsAssumption DEF PoolInv, SlotsAccounted, ShutdownInv, TypeOK
  <2>2. Cardinality(Busy) = 0
    BY <2>1, BusyIsFinite, LimitsAssumption
  <2>3. QED
    BY <2>2, BusyIsFinite, FS_EmptySet
<1>2. QED
  BY <1>1, PoolInvHolds, PTL

(***************************************************************************)
(* Wake-ups.                                                               *)
(***************************************************************************)

\* A step that leaves the line alone, and does not put the dispatcher to sleep.
LEMMA StaysAwake ==
    ASSUME NoLostWakeup, line' = line, notified' = notified,
           \/ dpc' # "wait"
           \/ dpc' = dpc /\ (notify => notify') /\ (claimFailed => claimFailed') /\ (stop => stop')
    PROVE  NoLostWakeup'
BY DEF NoLostWakeup

\* The dispatcher goes to sleep after a drain that found nothing, that failed or
\* that was stopped; an item that joins the line while it sleeps is followed by
\* its hook's Notify.
LEMMA WakeupSteps ==
    ASSUME PoolInv, NoLostWakeup, [Next]_vars
    PROVE  NoLostWakeup'
<1>1. TypeOK
  BY DEF PoolInv
<1>2. CASE \E e \in Events : HookNotify(e)
  BY <1>2 DEF HookNotify, NoLostWakeup
<1>3. ASSUME NEW e \in Events, NEW j \in Jobs, HookEnqueue(e, j)
      PROVE  NoLostWakeup'
  <2>1. UNCHANGED <<dpc, notify, stop, claimFailed, notified>> /\ e \notin notified /\ j \in e
    BY <1>3 DEF HookEnqueue, dispatcherVars
  <2>2. CASE line' = line
    BY <2>1, <2>2 DEF NoLostWakeup
  <2>3. CASE line' = Append(line, j)
    <3>1. \A k \in DOMAIN line' : line'[k] = j \/ (k \in DOMAIN line /\ line'[k] = line[k])
      BY <1>1, <2>3 DEF TypeOK
    <3>2. QED
      BY <2>1, <3>1 DEF NoLostWakeup
  <2>4. QED
    BY <1>3, <2>2, <2>3 DEF HookEnqueue, Submit
<1>4. CASE DispatcherStep
  <2>1. CASE SelectStop
    BY <2>1 DEF SelectStop, NoLostWakeup
  <2>2. CASE ClaimNothing
    BY <2>2 DEF ClaimNothing, NoLostWakeup, jobVars
  <2>3. CASE ClaimError
    BY <2>3 DEF ClaimError, NoLostWakeup
  <2>4. CASE \E j \in Jobs : ClaimItem(j)
    BY <2>4 DEF ClaimItem, NoLostWakeup
  <2>5. CASE SelectSlot \/ WaitNotify \/ WaitTick \/ WaitStop \/ Fill
    BY <2>5 DEF SelectSlot, WaitNotify, WaitTick, WaitStop, Fill, NoLostWakeup
  <2>6. QED
    BY <1>4, <2>1, <2>2, <2>3, <2>4, <2>5 DEF DispatcherStep
<1>5. CASE \E j \in Jobs : WorkerStep(j)
  BY <1>5, WorkerFacts, StaysAwake
<1>6. CASE Stop
  BY <1>6, StaysAwake DEF Stop, jobVars, hookVars
<1>7. CASE Crash \/ Restart
  BY <1>7 DEF Crash, Restart, NoLostWakeup
<1>8. CASE UNCHANGED vars
  BY <1>8, StaysAwake DEF vars, jobVars, dispatcherVars, hookVars
<1>9. QED
  BY <1>2, <1>3, <1>4, <1>5, <1>6, <1>7, <1>8 DEF Next

\* An item is never left waiting for the ticker alone, unless a claim failed or
\* the pool is stopping, for any number of hooks and workers (worker.go:54-136).
THEOREM WakeupsAreNotLost == Spec => []NoLostWakeup
<1>1. Init => NoLostWakeup
  BY DEF Init, NoLostWakeup
<1>2. PoolInv /\ NoLostWakeup /\ [Next]_vars => NoLostWakeup'
  BY WakeupSteps
<1>3. QED
  BY <1>1, <1>2, PoolInvHolds, PTL DEF Spec

(***************************************************************************)
(* Outcomes.                                                               *)
(***************************************************************************)

LEMMA AstrayIsFinite == IsFiniteSet(Astray) /\ Cardinality(Astray) \in Nat
BY JobsAssumption, FS_Subset, FS_CardinalityType DEF Astray

LEMMA BusyIsBounded ==
    ASSUME PoolInv
    PROVE  Cardinality(Busy) <= MaxWorkers
<1>1. CASE dpc = "down"
  BY <1>1, FS_EmptySet, LimitsAssumption DEF PoolInv, ShutdownInv
<1>2. CASE dpc # "down"
  BY <1>2, BusyIsFinite, LimitsAssumption DEF PoolInv, SlotsAccounted, TypeOK
<1>3. QED
  BY <1>1, <1>2

\* A step without a mishap leads nobody astray, unless it is the end of a run
\* nobody hears of, and then nobody else; one with a mishap at most the items that
\* have a worker.
LEMMA MishapsAreCounted ==
    ASSUME PoolInv, ReportInv, unheard' \in {unheard, unheard + 1},
           \/ Astray' \subseteq Astray /\ mishaps' = mishaps
           \/ /\ \E j \in Jobs : Astray' \subseteq Astray \cup {j}
              /\ unheard' = unheard + 1 /\ mishaps' = mishaps
           \/ Astray' \subseteq Astray \cup Busy /\ mishaps' = mishaps + 1
    PROVE  ReportInv'
<1>1. mishaps \in Nat /\ MaxWorkers \in Nat /\ unheard \in Nat /\ unheard' \in Nat
      /\ unheard <= unheard'
  BY LimitsAssumption DEF PoolInv, TypeOK
<1>2. PICK n \in Nat, u \in Nat, v \in Nat, a \in Nat :
         n = MaxWorkers * mishaps /\ u = unheard /\ v = unheard' /\ a = Cardinality(Astray)
  <2>1. MaxWorkers * mishaps \in Nat
    BY <1>1
  <2>2. QED
    BY <1>1, <2>1, AstrayIsFinite, Zenon
<1>3. a <= n + u /\ u <= v
  BY <1>1, <1>2 DEF ReportInv
<1>4. CASE Astray' \subseteq Astray /\ mishaps' = mishaps
  <2>1. Cardinality(Astray') <= a /\ Cardinality(Astray') \in Nat
    BY <1>2, <1>4, AstrayIsFinite, FS_Subset, FS_CardinalityType
  <2>2. MaxWorkers * mishaps' = n
    BY <1>2, <1>4
  <2>3. QED
    BY <1>2, <1>3, <2>1, <2>2 DEF ReportInv
<1>5. ASSUME NEW j \in Jobs, Astray' \subseteq Astray \cup {j}, unheard' = unheard + 1,
             mishaps' = mishaps
      PROVE  ReportInv'
  <2>1. IsFiniteSet(Astray \cup {j}) /\ Cardinality(Astray \cup {j}) \in {a, a + 1}
    BY <1>2, AstrayIsFinite, FS_AddElement
  <2>2. Cardinality(Astray') <= Cardinality(Astray \cup {j}) /\ Cardinality(Astray') \in Nat
    BY <1>5, <2>1, FS_Subset, FS_CardinalityType
  <2>3. MaxWorkers * mishaps' = n /\ v = u + 1
    BY <1>2, <1>5
  <2>4. QED
    BY <1>2, <1>3, <2>1, <2>2, <2>3 DEF ReportInv
<1>6. CASE Astray' \subseteq Astray \cup Busy /\ mishaps' = mishaps + 1
  <2>1. IsFiniteSet(Astray \cup Busy)
        /\ Cardinality(Astray \cup Busy)
              = Cardinality(Astray) + Cardinality(Busy) - Cardinality(Astray \cap Busy)
    BY AstrayIsFinite, BusyIsFinite, FS_Union
  <2>2. Cardinality(Astray \cap Busy) \in Nat
    BY AstrayIsFinite, FS_Subset, FS_CardinalityType
  <2>3. Cardinality(Astray') <= Cardinality(Astray \cup Busy) /\ Cardinality(Astray') \in Nat
    BY <1>6, <2>1, FS_Subset, FS_CardinalityType
  <2>4. Cardinality(Astray') <= a + MaxWorkers
    <3>1. Cardinality(Busy) <= MaxWorkers /\ Cardinality(Busy) \in Nat
      BY BusyIsBounded, BusyIsFinite
    <3>2. Cardinality(Astray \cup Busy) \in Nat
      BY <2>1, FS_CardinalityType
    <3>3. QED
      BY <1>1, <1>2, <2>1, <2>2, <2>3, <3>1, <3>2
  <2>5. MaxWorkers * mishaps' = n + MaxWorkers
    BY <1>1, <1>2, <1>6
  <2>6. QED
    BY <1>1, <1>2, <1>3, <2>3, <2>4, <2>5 DEF ReportInv
<1>7. QED
  BY <1>4, <1>5, <1>6

\* An item that only moves in the queue stays on its way.
LEMMA MovedOnItsWay ==
    ASSUME NEW j \in Jobs, OnItsWay(j),
           step'[j] = step[j] /\ why'[j] = why[j],
           recorded'[j] = recorded[j] /\ told'[j] = told[j],
           \/ phase'[j] \in {phase[j], "lost"}
           \/ phase[j] \in {"new", "orphaned"} /\ phase'[j] = "waiting"
           \/ phase[j] = "waiting" /\ step[j] = "idle" /\ phase'[j] = "orphaned"
    PROVE  OnItsWay(j)'
BY DEF OnItsWay, Reported

\* Hook calls and the dispatcher lead nobody astray.
LEMMA QueueStepReports ==
    ASSUME PoolInv, ReportInv,
           \/ \E e \in Events : HookNotify(e) \/ \E j \in Jobs : HookEnqueue(e, j)
           \/ DispatcherStep \/ Restart
    PROVE  ReportInv'
<1>1. /\ TypeOK /\ LineInv /\ WorkerInv /\ phase \in [Jobs -> Phases] /\ step \in [Jobs -> Steps]
      /\ why \in [Jobs -> Reasons] /\ line \in Seq(Jobs)
  BY DEF PoolInv, TypeOK
<1>2. mishaps' = mishaps \/ mishaps' = mishaps + 1
  BY DEF HookNotify, HookEnqueue, DispatcherStep, SelectStop, SelectSlot, ClaimItem, ClaimNothing,
         ClaimError, WaitNotify, WaitTick, WaitStop, Fill, Restart, Reset, Trouble, Submit,
         StartNext, Recover, jobVars
<1>3. ASSUME NEW j \in Jobs, OnItsWay(j) PROVE OnItsWay(j)'
  <2>1. CASE \E e \in Events : HookNotify(e)
    BY <1>3, <2>1, MovedOnItsWay DEF HookNotify, jobVars, workerVars
  <2>2. CASE \E e \in Events, i \in Jobs : HookEnqueue(e, i)
    <3>1. PICK e \in Events, i \in Jobs : HookEnqueue(e, i)
      BY <2>2
    <3>2. UNCHANGED workerVars /\ phase[i] = "new" /\ (UNCHANGED phase \/ Move({i}, "waiting"))
      BY <3>1 DEF HookEnqueue, Submit
    <3>3. QED
      BY <1>3, <3>2, MovedOnItsWay DEF Move, workerVars
  <2>3. CASE \E i \in Jobs : ClaimItem(i)
    <3>1. PICK i \in Jobs : ClaimItem(i)
      BY <2>3
    <3>2. /\ line # <<>> /\ i = Head(line) /\ Move({i}, "active")
          /\ step' = [step EXCEPT ![i] = "load"] /\ why' = [why EXCEPT ![i] = "none"]
          /\ UNCHANGED <<recorded, told>>
      BY <3>1 DEF ClaimItem, StartNext
    <3>3. phase[i] = "waiting"
      BY <1>1, <3>2 DEF LineInv
    <3>4. CASE j = i
      BY <1>1, <1>3, <3>2, <3>3, <3>4 DEF Move, OnItsWay
    <3>5. CASE j # i
      BY <1>1, <1>3, <3>2, <3>5, MovedOnItsWay DEF Move
    <3>6. QED
      BY <3>4, <3>5
  <2>4. CASE ClaimError
    <3>1. UNCHANGED workerVars
      BY <2>4 DEF ClaimError
    <3>2. \/ UNCHANGED phase
          \/ line # <<>> /\ (Move({Head(line)}, "lost") \/ Move({Head(line)}, "orphaned"))
      BY <2>4 DEF ClaimError
    <3>3. line # <<>> => phase[Head(line)] = "waiting" /\ Head(line) \in Jobs
      BY <1>1 DEF LineInv
    <3>4. phase[j] = "waiting" => step[j] = "idle"
      BY <1>1 DEF WorkerInv, Steps
    <3>5. QED
      BY <1>3, <3>1, <3>2, <3>3, <3>4, MovedOnItsWay DEF Move, workerVars
  <2>5. CASE SelectStop \/ SelectSlot \/ ClaimNothing \/ WaitNotify \/ WaitTick \/ WaitStop \/ Fill
    <3>1. UNCHANGED <<phase, workerVars>>
      BY <2>5 DEF SelectStop, SelectSlot, ClaimNothing, WaitNotify, WaitTick, WaitStop, Fill, jobVars
    <3>2. QED
      BY <1>3, <3>1, MovedOnItsWay DEF workerVars
  <2>6. CASE Restart
    <3>1. UNCHANGED workerVars
      BY <2>6 DEF Restart
    <3>2. \/ UNCHANGED phase
          \/ Move(InPhase("orphaned"), "lost")
          \/ \E s \in [1..Cardinality(InPhase("orphaned")) -> InPhase("orphaned")] : Recover(s)
      BY <2>6 DEF Restart, Reset, jobVars
    <3>3. CASE UNCHANGED phase
      BY <1>3, <3>1, <3>3, MovedOnItsWay DEF workerVars
    <3>4. CASE Move(InPhase("orphaned"), "lost")
      BY <1>3, <3>1, <3>4, MovedOnItsWay DEF Move, workerVars
    <3>5. ASSUME NEW s \in [1..Cardinality(InPhase("orphaned")) -> InPhase("orphaned")], Recover(s)
          PROVE  OnItsWay(j)'
      <4>1. phase'[j] = phase[j] \/ (phase[j] = "orphaned" /\ phase'[j] = "waiting")
        BY <3>5 DEF Recover, Move, InPhase
      <4>2. QED
        BY <1>3, <3>1, <4>1, MovedOnItsWay DEF workerVars
    <3>6. QED
      BY <3>2, <3>3, <3>4, <3>5
  <2>7. QED
    BY <2>1, <2>2, <2>3, <2>4, <2>5, <2>6 DEF DispatcherStep
<1>4. Astray' \subseteq Astray
  BY <1>3 DEF Astray
<1>5. unheard' = unheard
  BY DEF HookNotify, HookEnqueue, DispatcherStep, SelectStop, SelectSlot, ClaimItem, ClaimNothing,
         ClaimError, WaitNotify, WaitTick, WaitStop, Fill, Restart, workerVars
<1>6. unheard \in Nat /\ Astray' \subseteq Astray \cup Busy
  BY <1>1, <1>4 DEF TypeOK
<1>7. QED
  BY <1>2, <1>4, <1>5, <1>6, MishapsAreCounted

\* A worker that meets no mishap, and ends neither in a panic nor on an unreadable
\* automation, brings its item on its way.
LEMMA UndisturbedWorker ==
    ASSUME PoolInv, NEW j \in Jobs, WorkerStep(j), mishaps' = mishaps, unheard' = unheard,
           OnItsWay(j)
    PROVE  OnItsWay(j)'
<1>1. /\ TypeOK /\ WorkerInv /\ phase \in [Jobs -> Phases] /\ step \in [Jobs -> Steps]
      /\ why \in [Jobs -> Reasons] /\ recorded \in [Jobs -> {"none", "success", "failed"}]
      /\ told \in [Jobs -> {"none", "failed", "denied"}] /\ mishaps \in Nat /\ unheard \in Nat
  BY DEF PoolInv, TypeOK
<1>2. ~Trouble /\ ~Mute
  BY <1>1 DEF Trouble, Mute
<1>3. CASE Load(j) \/ Check(j) \/ Execute(j)
  <2>1. /\ phase[j] = "active" /\ UNCHANGED <<phase, recorded, told>>
    BY <1>1, <1>3 DEF Load, Check, Execute, WorkerInv, jobVars
  <2>2. QED
    BY <2>1 DEF OnItsWay
<1>4. CASE Settle(j)
  <2>1. phase[j] = "active" /\ UNCHANGED <<why, recorded, told>>
    BY <1>1, <1>4 DEF Settle, WorkerInv
  <2>2. phase'[j] = "done"
    BY <1>1, <1>2, <1>4 DEF Settle, LeaveQueue, Finish, Move
  <2>3. why[j] \in Reasons \ {"none", "panic", "loadError"}
    BY <1>1, <1>2, <1>4 DEF Settle, WorkerInv
  <2>4. step'[j] = IF AfterSettle(why[j]) = "end" THEN "idle" ELSE AfterSettle(why[j])
    BY <1>1, <1>4 DEF Settle, EndWorker, GoOn
  <2>5. /\ why[j] \in {"loadError", "absent"} => step'[j] = "idle"
        /\ why[j] \in {"transient", "denied", "success"} => step'[j] = "record"
        /\ why[j] = "failed" => step'[j] = "notify"
    BY <2>4 DEF AfterSettle
  <2>6. recorded'[j] = "none" /\ told'[j] = "none" /\ why'[j] = why[j]
    BY <2>1 DEF OnItsWay
  <2>7. QED
    BY <2>2, <2>3, <2>5, <2>6 DEF OnItsWay, Reported, Reasons
<1>5. CASE Record(j)
  <2>1. phase[j] = "done" /\ UNCHANGED <<phase, why, told>>
        /\ why[j] \in {"transient", "denied", "success", "failed"}
    BY <1>1, <1>5 DEF Record, WorkerInv, OnItsWay
  <2>2. recorded'[j] = IF why[j] = "success" THEN "success" ELSE "failed"
    BY <1>1, <1>2, <1>5 DEF Record
  <2>3. step'[j] = IF why[j] = "denied" THEN "notify" ELSE "idle"
    BY <1>1, <1>5 DEF Record, EndWorker, GoOn
  <2>4. told[j] = IF why[j] = "failed" THEN "failed" ELSE "none"
    BY <1>5, <2>1 DEF Record, OnItsWay
  <2>5. QED
    BY <2>1, <2>2, <2>3, <2>4 DEF OnItsWay, Reported
<1>6. CASE Tell(j)
  <2>1. phase[j] = "done" /\ UNCHANGED <<phase, why, recorded>> /\ why[j] \in {"failed", "denied"}
    BY <1>1, <1>6 DEF Tell, WorkerInv, OnItsWay, jobVars
  <2>2. told'[j] = why[j]
    BY <1>1, <1>6 DEF Tell
  <2>3. step'[j] = IF why[j] = "failed" THEN "record" ELSE "idle"
    BY <1>1, <1>6 DEF Tell, EndWorker, GoOn
  <2>4. why[j] = "denied" => recorded[j] = "failed"
    BY <1>6, <2>1 DEF Tell, OnItsWay
  <2>5. QED
    BY <2>1, <2>2, <2>3, <2>4 DEF OnItsWay, Reported
<1>7. ~Panic(j)
  BY <1>2 DEF Panic
<1>8. QED
  BY <1>3, <1>4, <1>5, <1>6, <1>7 DEF WorkerStep

LEMMA WorkerReports ==
    ASSUME PoolInv, ReportInv, NEW j \in Jobs, WorkerStep(j)
    PROVE  ReportInv'
<1>1. /\ step \in [Jobs -> Steps] /\ recorded \in [Jobs -> {"none", "success", "failed"}]
      /\ told \in [Jobs -> {"none", "failed", "denied"}]
  BY DEF PoolInv, TypeOK
<1>2. mishaps' = mishaps \/ mishaps' = mishaps + 1
  BY DEF WorkerStep, Load, Check, Execute, Settle, Record, Tell, Panic, LeaveQueue, Finish, FinishAgain,
         Trouble, jobVars
<1>3. j \in Busy
  BY WorkerFacts
<1>4. ASSUME NEW i \in Jobs, i # j, OnItsWay(i) PROVE OnItsWay(i)'
  <2>1. phase'[i] = phase[i] /\ why'[i] = why[i] /\ step'[i] = step[i]
    BY <1>1, <1>4, WorkerFacts DEF EndWorker, GoOn
  <2>2. recorded'[i] = recorded[i] /\ told'[i] = told[i]
    BY <1>1, <1>4 DEF WorkerStep, Load, Check, Execute, Settle, Record, Tell, Panic
  <2>3. QED
    BY <1>4, <2>1, <2>2, MovedOnItsWay
<1>5. unheard' \in {unheard, unheard + 1}
  BY DEF WorkerStep, Load, Check, Execute, Settle, Record, Tell, Panic, Mute
<1>6. Astray' \subseteq Astray \cup {j}
  BY <1>4 DEF Astray
<1>7. CASE mishaps' = mishaps /\ unheard' = unheard
  <2>1. Astray' \subseteq Astray
    BY <1>4, <1>7, UndisturbedWorker DEF Astray
  <2>2. QED
    BY <1>5, <1>7, <2>1, MishapsAreCounted
<1>8. CASE mishaps' = mishaps /\ unheard' = unheard + 1
  BY <1>5, <1>6, <1>8, MishapsAreCounted
<1>9. CASE mishaps' = mishaps + 1
  <2>1. Astray' \subseteq Astray \cup Busy
    BY <1>3, <1>6
  <2>2. QED
    BY <1>5, <1>9, <2>1, MishapsAreCounted
<1>10. QED
  BY <1>2, <1>5, <1>7, <1>8, <1>9

\* A crash leads astray at most what had a worker.
LEMMA CrashReports ==
    ASSUME PoolInv, ReportInv, Crash
    PROVE  ReportInv'
<1>1. /\ LineInv /\ WorkerInv /\ step \in [Jobs -> Steps] /\ line \in Seq(Jobs)
  BY DEF PoolInv, TypeOK
<1>2. /\ step' = [j \in Jobs |-> "idle"] /\ mishaps' = mishaps + 1
      /\ UNCHANGED <<why, recorded, told, unheard>>
  BY DEF Crash, Trouble
<1>3. PICK dropped \in {{}, IF dpc = "claim" /\ line # <<>> THEN {Head(line)} ELSE {}} :
          phase' = [j \in Jobs |-> IF phase[j] = "active" THEN "orphaned"
                                   ELSE IF j \in dropped THEN "lost" ELSE phase[j]]
  BY DEF Crash
<1>4. ASSUME NEW j \in Jobs, OnItsWay(j), j \notin Busy PROVE OnItsWay(j)'
  <2>1. step[j] = "idle" /\ step'[j] = "idle"
    BY <1>2, <1>4 DEF Busy
  <2>2. CASE phase[j] = "active"
    BY <1>2, <1>3, <1>4, <2>1, <2>2 DEF OnItsWay
  <2>3. CASE phase[j] # "active"
    BY <1>2, <1>3, <1>4, <2>1, <2>3, MovedOnItsWay
  <2>4. QED
    BY <2>2, <2>3
<1>5. Astray' \subseteq Astray \cup Busy
  BY <1>4 DEF Astray
<1>6. QED
  BY <1>2, <1>5, MishapsAreCounted

\* However the items are spread over workers, hooks and restarts, a mishap
\* leads no more of them astray than there are workers, and a run that ends unheard
\* no other.
THEOREM ReportInvHolds == Spec => []ReportInv
<1>1. Init => ReportInv
  <2> SUFFICES ASSUME Init PROVE ReportInv
    OBVIOUS
  <2>1. Astray = {}
    BY DEF Init, JobInit, Astray, OnItsWay
  <2>2. MaxWorkers * mishaps = 0
    BY LimitsAssumption DEF Init, JobInit
  <2>3. QED
    BY <2>1, <2>2, FS_EmptySet DEF ReportInv, Init
<1>2. PoolInv /\ ReportInv /\ [Next]_vars => ReportInv'
  <2> SUFFICES ASSUME PoolInv, ReportInv, [Next]_vars PROVE ReportInv'
    OBVIOUS
  <2>1. CASE Stop \/ UNCHANGED vars
    <3>1. UNCHANGED <<phase, mishaps, step, why, recorded, told, unheard>>
      BY <2>1 DEF Stop, vars, jobVars, workerVars
    <3>2. Astray' \subseteq Astray
      BY <3>1, MovedOnItsWay DEF Astray
    <3>3. QED
      BY <3>1, <3>2, MishapsAreCounted
  <2>2. QED
    BY <2>1, QueueStepReports, WorkerReports, CrashReports DEF Next
<1>3. QED
  BY <1>1, <1>2, PoolInvHolds, PTL DEF Spec

\* Without mishaps the only outcomes that are not reported are panics and unreadable
\* automations, each of which costs its own report and no other; with mishaps, at most
\* MaxWorkers more for each of them are missing (worker.go:128-330).
THEOREM LossesStayBounded == Spec => []LossesAreBounded
<1>1. PoolInv /\ ReportInv => LossesAreBounded
  <2> SUFFICES ASSUME PoolInv, ReportInv PROVE LossesAreBounded
    OBVIOUS
  <2> DEFINE lost == {j \in Jobs : phase[j] = "done" /\ step[j] = "idle" /\ ~Reported(j)}
  <2>1. lost \subseteq Astray
    BY DEF Astray, OnItsWay
  <2>2. Cardinality(lost) <= Cardinality(Astray) /\ Cardinality(lost) \in Nat
    BY <2>1, AstrayIsFinite, FS_Subset, FS_CardinalityType
  <2>3. MaxWorkers * mishaps \in Nat /\ unheard \in Nat
    BY LimitsAssumption DEF PoolInv, TypeOK
  <2>4. QED
    BY <2>2, <2>3, AstrayIsFinite DEF ReportInv, LossesAreBounded
<1>2. QED
  BY <1>1, PoolInvHolds, ReportInvHolds, PTL
(***************************************************************************)
(* The pool deals with the queue as JobQueue allows.                        *)
(***************************************************************************)

\* A mishap that moves items as the queue allows and keeps the line in order.
LEMMA IsMishap ==
    ASSUME TypeOK, TypeOK', LineInv', WaitingInLine', mishaps' = mishaps + 1,
           \A j \in Jobs : phase'[j] # phase[j] =>
              \/ phase[j] = "new" /\ phase'[j] = "waiting"
              \/ phase[j] = "waiting" /\ phase'[j] \in {"lost", "orphaned"}
              \/ phase[j] = "active" /\ phase'[j] \in {"orphaned", "done"}
              \/ phase[j] = "orphaned" /\ phase'[j] \in {"waiting", "lost", "done"},
           \A i, j \in Jobs : phase'[i] = "waiting" /\ phase'[j] = "waiting" /\ Ahead(i, j, line)
                                  => Ahead(i, j, line')
    PROVE  Mishap
<1>1. DOMAIN phase' = Jobs /\ line' \in Seq(Jobs)
  BY DEF TypeOK
<1>2. {line'[k] : k \in DOMAIN line'} = InPhase("waiting")'
  BY <1>1 DEF LineInv, WaitingInLine, InPhase
<1>3. InLineOnce(line', InPhase("waiting")')
  BY <1>1, <1>2 DEF InLineOnce, LineInv
<1>4. \A i, j \in InPhase("waiting") \cap InPhase("waiting")' :
         Ahead(i, j, line) => Ahead(i, j, line')
  BY DEF InPhase
<1>5. QED
  BY <1>1, <1>3, <1>4 DEF Mishap

\* Nothing joins the line without its place, whatever the step of the queue.
LEMMA PlacesKept ==
    ASSUME WaitingInLine, line \in Seq(Jobs),
           \/ line' = line /\ \A j \in Jobs : phase'[j] = "waiting" => phase[j] = "waiting"
           \/ \E i \in Jobs : /\ line' = Append(line, i)
                              /\ \A j \in Jobs : phase'[j] = "waiting" => phase[j] = "waiting" \/ j = i
           \/ /\ line # <<>> /\ line' = Tail(line)
              /\ \A j \in Jobs : phase'[j] = "waiting" => phase[j] = "waiting" /\ j # Head(line)
    PROVE  WaitingInLine'
<1>1. CASE line' = line /\ \A j \in Jobs : phase'[j] = "waiting" => phase[j] = "waiting"
  BY <1>1 DEF WaitingInLine
<1>2. ASSUME NEW i \in Jobs, line' = Append(line, i),
             \A j \in Jobs : phase'[j] = "waiting" => phase[j] = "waiting" \/ j = i
      PROVE  WaitingInLine'
  <2>1. /\ \A k \in DOMAIN line : k \in DOMAIN line' /\ line'[k] = line[k]
        /\ Len(line) + 1 \in DOMAIN line' /\ line'[Len(line) + 1] = i
    BY <1>2
  <2>2. QED
    BY <1>2, <2>1 DEF WaitingInLine
<1>3. CASE /\ line # <<>> /\ line' = Tail(line)
           /\ \A j \in Jobs : phase'[j] = "waiting" => phase[j] = "waiting" /\ j # Head(line)
  <2>1. \A k \in DOMAIN line : k # 1 => k - 1 \in DOMAIN line' /\ line'[k - 1] = line[k]
    BY <1>3
  <2>2. Head(line) = line[1]
    BY <1>3
  <2>3. ASSUME NEW j \in Jobs, phase'[j] = "waiting"
        PROVE  \E k \in DOMAIN line' : line'[k] = j
    <3>1. PICK k \in DOMAIN line : line[k] = j
      BY <1>3, <2>3 DEF WaitingInLine
    <3>2. k # 1
      BY <1>3, <2>2, <2>3, <3>1
    <3>3. QED
      BY <2>1, <3>1, <3>2
  <2>4. QED
    BY <2>3 DEF WaitingInLine
<1>4. QED
  BY <1>1, <1>2, <1>3

\* An item that is taken from the head of the line leaves the others in order.
LEMMA OrderKept ==
    ASSUME LineInv, line \in Seq(Jobs), NEW i \in Jobs, NEW j \in Jobs, Ahead(i, j, line),
           \/ line' = line
           \/ \E e \in Jobs : line' = Append(line, e)
           \/ line # <<>> /\ line' = Tail(line) /\ i # Head(line)
    PROVE  Ahead(i, j, line')
<1>1. PICK k, m \in DOMAIN line : k < m /\ line[k] = i /\ line[m] = j
  BY DEF Ahead
<1>2. k \in Nat /\ m \in Nat /\ k > 0
  BY <1>1
<1>3. CASE line' = line
  BY <1>3 DEF Ahead
<1>4. CASE \E e \in Jobs : line' = Append(line, e)
  <2>1. k \in DOMAIN line' /\ m \in DOMAIN line' /\ line'[k] = i /\ line'[m] = j
    BY <1>1, <1>4
  <2>2. QED
    BY <1>1, <2>1 DEF Ahead
<1>5. CASE line # <<>> /\ line' = Tail(line) /\ i # Head(line)
  <2>1. k # 1
    BY <1>1, <1>5
  <2>2. /\ k - 1 \in DOMAIN line' /\ line'[k - 1] = i
        /\ m - 1 \in DOMAIN line' /\ line'[m - 1] = j
    BY <1>1, <1>2, <1>5, <2>1
  <2>3. k - 1 < m - 1
    BY <1>1, <1>2
  <2>4. QED
    BY <2>2, <2>3 DEF Ahead
<1>6. QED
  BY <1>3, <1>4, <1>5

\* A step of a worker, which moves its own item only.
LEMMA WorkerTakesQueueStep ==
    ASSUME PoolInv, PoolInv', WaitingInLine, NEW j \in Jobs, WorkerStep(j)
    PROVE  [JobNext]_jobVars /\ WaitingInLine'
<1>1. /\ TypeOK /\ TypeOK' /\ LineInv' /\ WorkerInv /\ line \in Seq(Jobs) /\ phase \in [Jobs -> Phases]
  BY DEF PoolInv, TypeOK
<1>2. line' = line /\ \A i \in Jobs : i # j => phase'[i] = phase[i]
  BY WorkerFacts
<1>3. ASSUME phase'[j] # "waiting" \/ phase'[j] = phase[j]
      PROVE  WaitingInLine'
  BY <1>1, <1>2, <1>3, PlacesKept
<1>4. ASSUME UNCHANGED phase \/ UNCHANGED jobVars,
             UNCHANGED mishaps \/ Trouble
      PROVE  [JobNext]_jobVars /\ WaitingInLine'
  <2>1. phase' = phase
    BY <1>4 DEF jobVars
  <2>2. WaitingInLine'
    BY <1>3, <2>1
  <2>3. CASE UNCHANGED mishaps
    BY <1>2, <2>1, <2>2, <2>3 DEF jobVars
  <2>4. CASE Trouble
    <3>1. Mishap
      BY <1>1, <1>2, <2>1, <2>2, <2>4, IsMishap DEF Trouble
    <3>2. QED
      BY <2>2, <3>1 DEF JobNext
  <2>5. QED
    BY <1>4, <2>3, <2>4
<1>5. ASSUME LeaveQueue(j) \/ FinishAgain(j), phase[j] \in {"active", "orphaned"}
      PROVE  [JobNext]_jobVars /\ WaitingInLine'
  <2>1. phase'[j] \in {"orphaned", "done"}
    BY <1>1, <1>5, LeaveFacts
  <2>2. WaitingInLine'
    BY <1>3, <2>1
  <2>3. CASE Finish(j) \/ FinishAgain(j)
    BY <2>2, <2>3 DEF JobNext
  <2>4. CASE Trouble
    <3>1. Mishap
      BY <1>1, <1>2, <1>5, <2>1, <2>2, <2>4, IsMishap DEF Trouble
    <3>2. QED
      BY <2>2, <3>1 DEF JobNext
  <2>5. QED
    BY <1>5, <2>3, <2>4 DEF LeaveQueue
<1>6. CASE Load(j) \/ Check(j) \/ Execute(j) \/ Tell(j) \/ Record(j)
  <2>1. UNCHANGED phase /\ (UNCHANGED mishaps \/ Trouble)
    BY <1>6 DEF Load, Check, Execute, Tell, Record, jobVars
  <2>2. QED
    BY <1>4, <2>1
<1>7. CASE Settle(j)
  BY <1>1, <1>5, <1>7 DEF Settle, WorkerInv
<1>8. CASE Panic(j)
  <2>1. CASE UNCHANGED jobVars
    BY <1>4, <2>1 DEF jobVars
  <2>2. CASE phase[j] # "done" /\ (LeaveQueue(j) \/ FinishAgain(j))
    <3>1. phase[j] \in {"active", "orphaned", "done"}
      BY <1>1, <1>8 DEF Panic, WorkerInv
    <3>2. QED
      BY <1>5, <2>2, <3>1
  <2>3. QED
    BY <1>8, <2>1, <2>2 DEF Panic
<1>9. QED
  BY <1>6, <1>7, <1>8 DEF WorkerStep

\* A hook, which may fail to append its item, or report that it failed when it did.
LEMMA HooksTakeQueueSteps ==
    ASSUME PoolInv, PoolInv', WaitingInLine, NEW e \in Events, NEW j \in Jobs, HookEnqueue(e, j)
    PROVE  [JobNext]_jobVars /\ WaitingInLine'
<1>1. /\ TypeOK /\ TypeOK' /\ LineInv /\ LineInv' /\ line \in Seq(Jobs) /\ phase \in [Jobs -> Phases]
      /\ phase[j] = "new"
  BY DEF PoolInv, TypeOK, HookEnqueue
<1>2. CASE Submit(j)
  <2>1. line' = Append(line, j) /\ \A i \in Jobs : i # j => phase'[i] = phase[i]
    BY <1>1, <1>2 DEF Submit, Move
  <2>2. WaitingInLine'
    BY <1>1, <2>1, PlacesKept
  <2>3. QED
    BY <1>2, <2>2 DEF JobNext
<1>3. CASE Trouble /\ UNCHANGED <<phase, line>>
  <2>1. WaitingInLine'
    BY <1>1, <1>3, PlacesKept
  <2>2. Mishap
    BY <1>1, <1>3, <2>1, IsMishap DEF Trouble
  <2>3. QED
    BY <2>1, <2>2 DEF JobNext
<1>4. CASE Trouble /\ Move({j}, "waiting") /\ line' = Append(line, j)
  <2>1. phase'[j] = "waiting" /\ \A i \in Jobs : i # j => phase'[i] = phase[i]
    BY <1>1, <1>4 DEF Move
  <2>2. WaitingInLine'
    BY <1>1, <1>4, <2>1, PlacesKept
  <2>3. Mishap
    BY <1>1, <1>4, <2>1, <2>2, IsMishap, OrderKept DEF Trouble
  <2>4. QED
    BY <2>2, <2>3 DEF JobNext
<1>5. QED
  BY <1>2, <1>3, <1>4 DEF HookEnqueue

\* A claim, which starts the first item of the line or costs the queue that item.
LEMMA ClaimsTakeQueueSteps ==
    ASSUME PoolInv, PoolInv', WaitingInLine, ClaimError \/ \E j \in Jobs : ClaimItem(j)
    PROVE  [JobNext]_jobVars /\ WaitingInLine'
<1>1. /\ TypeOK /\ TypeOK' /\ LineInv /\ LineInv' /\ line \in Seq(Jobs) /\ phase \in [Jobs -> Phases]
  BY DEF PoolInv, TypeOK
<1>2. line # <<>> => Head(line) \in Jobs /\ phase[Head(line)] = "waiting"
  BY <1>1 DEF LineInv
<1>3. ASSUME line # <<>>, line' = Tail(line), NEW p \in {"active", "lost", "orphaned"}, Move({Head(line)}, p)
      PROVE  /\ WaitingInLine'
             /\ \A i \in Jobs : phase'[i] = IF i = Head(line) THEN p ELSE phase[i]
  <2>1. \A i \in Jobs : phase'[i] = IF i = Head(line) THEN p ELSE phase[i]
    BY <1>3 DEF Move
  <2>2. QED
    BY <1>1, <1>3, <2>1, PlacesKept
<1>4. ASSUME NEW j \in Jobs, ClaimItem(j)
      PROVE  [JobNext]_jobVars /\ WaitingInLine'
  <2>1. StartNext(j)
    BY <1>4 DEF ClaimItem
  <2>2. QED
    BY <1>3, <2>1 DEF StartNext, JobNext
<1>5. CASE ClaimError /\ UNCHANGED <<phase, line>>
  <2>1. WaitingInLine'
    BY <1>1, <1>5, PlacesKept
  <2>2. Mishap
    BY <1>1, <1>5, <2>1, IsMishap DEF ClaimError, Trouble
  <2>3. QED
    BY <2>1, <2>2 DEF JobNext
<1>6. ASSUME ClaimError, NEW p \in {"lost", "orphaned"}, line # <<>>, line' = Tail(line), Move({Head(line)}, p)
      PROVE  [JobNext]_jobVars /\ WaitingInLine'
  <2>1. /\ WaitingInLine'
        /\ \A i \in Jobs : phase'[i] = IF i = Head(line) THEN p ELSE phase[i]
    BY <1>3, <1>6
  <2>2. \A i, j \in Jobs : phase'[i] = "waiting" /\ Ahead(i, j, line) => Ahead(i, j, line')
    BY <1>1, <1>6, <2>1, OrderKept
  <2>3. Mishap
    BY <1>1, <1>2, <1>6, <2>1, <2>2, IsMishap DEF ClaimError, Trouble
  <2>4. QED
    BY <2>1, <2>3 DEF JobNext
<1>7. QED
  BY <1>4, <1>5, <1>6 DEF ClaimError

\* A crash parts every worker from its item and may cost the claim under way its.
LEMMA CrashIsMishap ==
    ASSUME PoolInv, PoolInv', WaitingInLine, Crash
    PROVE  Mishap /\ WaitingInLine'
<1>1. /\ TypeOK /\ TypeOK' /\ LineInv /\ LineInv' /\ line \in Seq(Jobs) /\ phase \in [Jobs -> Phases]
  BY DEF PoolInv, TypeOK
<1>2. PICK dropped \in {{}, IF dpc = "claim" /\ line # <<>> THEN {Head(line)} ELSE {}} :
          /\ phase' = [j \in Jobs |-> IF phase[j] = "active" THEN "orphaned"
                                   ELSE IF j \in dropped THEN "lost" ELSE phase[j]]
          /\ line' = IF dropped = {} THEN line ELSE Tail(line)
  BY DEF Crash
<1>3. mishaps' = mishaps + 1
  BY DEF Crash, Trouble
<1>4. CASE dropped = {}
  <2>1. /\ line' = line
        /\ \A j \in Jobs : phase'[j] = IF phase[j] = "active" THEN "orphaned" ELSE phase[j]
    BY <1>2, <1>4
  <2>2. WaitingInLine'
    BY <1>1, <2>1, PlacesKept
  <2>3. Mishap
    BY <1>1, <1>3, <2>1, <2>2, IsMishap
  <2>4. QED
    BY <2>2, <2>3
<1>5. CASE line # <<>> /\ dropped = {Head(line)}
  <2>1. Head(line) \in Jobs /\ phase[Head(line)] = "waiting"
    BY <1>1, <1>5 DEF LineInv
  <2>2. /\ line' = Tail(line)
        /\ \A j \in Jobs : phase'[j] = IF phase[j] = "active" THEN "orphaned"
                                      ELSE IF j = Head(line) THEN "lost" ELSE phase[j]
    BY <1>2, <1>5
  <2>3. WaitingInLine'
    BY <1>1, <1>5, <2>1, <2>2, PlacesKept
  <2>4. \A i, j \in Jobs : phase'[i] = "waiting" /\ Ahead(i, j, line) => Ahead(i, j, line')
    BY <1>1, <1>5, <2>1, <2>2, OrderKept
  <2>5. Mishap
    BY <1>1, <1>3, <2>1, <2>2, <2>3, <2>4, IsMishap
  <2>6. QED
    BY <2>3, <2>5
<1>6. QED
  BY <1>2, <1>4, <1>5

\* A restart, whose reset puts the orphans back or, failing, perhaps loses them.
LEMMA RestartTakesQueueStep ==
    ASSUME PoolInv, PoolInv', WaitingInLine, Restart
    PROVE  [JobNext]_jobVars /\ WaitingInLine'
<1>1. /\ TypeOK /\ TypeOK' /\ LineInv /\ LineInv' /\ line \in Seq(Jobs) /\ phase \in [Jobs -> Phases]
  BY DEF PoolInv, TypeOK
<1>2. CASE UNCHANGED jobVars
  BY <1>1, <1>2, PlacesKept DEF jobVars
<1>3. ASSUME NEW s \in [1..Cardinality(InPhase("orphaned")) -> InPhase("orphaned")], Recover(s)
      PROVE  [JobNext]_jobVars /\ WaitingInLine'
  <2>1. PICK n \in Nat : n = Cardinality(InPhase("orphaned")) /\ n <= Cardinality(Jobs)
    BY JobsAssumption, FS_Subset, FS_CardinalityType DEF InPhase
  <2>2. s \in [1..n -> Jobs]
    BY <2>1 DEF InPhase
  <2>3. s \in Seq(Jobs) /\ n # 0
    <3>1. s \in Seq(Jobs)
      BY <2>2, SeqDef
    <3>2. s # <<>>
      BY <1>3 DEF Recover
    <3>3. QED
      BY <2>2, <3>1, <3>2
  <2>4. n \in 1..Cardinality(Jobs)
    BY <2>1, <2>3, JobsAssumption, FS_CardinalityType
  <2>5. JobNext
    BY <1>3, <2>2, <2>4 DEF JobNext
  <2>6. /\ \A k \in DOMAIN line : k \in DOMAIN line' /\ line'[k] = line[k]
        /\ \A k \in DOMAIN s : Len(line) + k \in DOMAIN line' /\ line'[Len(line) + k] = s[k]
    <3>1. /\ line \o s \in Seq(Jobs)
          /\ Len(line \o s) = Len(line) + Len(s)
          /\ \A k \in 1..Len(line) + Len(s) :
                (line \o s)[k] = IF k <= Len(line) THEN line[k] ELSE s[k - Len(line)]
      BY <1>1, <2>3, ConcatProperties
    <3>2. line' = line \o s
      BY <1>3 DEF Recover
    <3>3. /\ DOMAIN line = 1..Len(line) /\ DOMAIN s = 1..Len(s) /\ Len(line) \in Nat /\ Len(s) \in Nat
          /\ DOMAIN line' = 1..Len(line) + Len(s)
      BY <1>1, <2>3, <3>1, <3>2
    <3>4. QED
      BY <3>1, <3>2, <3>3
  <2>7. \A j \in Jobs : phase'[j] = "waiting" => phase[j] = "waiting" \/ \E k \in DOMAIN s : s[k] = j
    BY <1>3 DEF Recover, Move
  <2>8. WaitingInLine'
    BY <2>6, <2>7 DEF WaitingInLine
  <2>9. QED
    BY <2>5, <2>8
<1>4. CASE Trouble /\ UNCHANGED line /\ (UNCHANGED phase \/ Move(InPhase("orphaned"), "lost"))
  <2>1. \A j \in Jobs : phase'[j] = phase[j] \/ (phase[j] = "orphaned" /\ phase'[j] = "lost")
    BY <1>4 DEF Move, InPhase
  <2>2. WaitingInLine'
    BY <1>1, <1>4, <2>1, PlacesKept
  <2>3. Mishap
    BY <1>1, <1>4, <2>1, <2>2, IsMishap DEF Trouble
  <2>4. QED
    BY <2>2, <2>3 DEF JobNext
<1>5. QED
  BY <1>2, <1>3, <1>4 DEF Restart, Reset

\* Hooks, dispatcher, workers, shutdowns, crashes and restarts together take only
\* steps of the abstract queue, the one that the KV store implements: however they
\* interleave, no item is started out of its turn, twice at a time or after its end.
THEOREM PoolTakesQueueSteps == Spec => JobSpec
<1>1. Init => JobInit /\ WaitingInLine
  BY DEF Init, JobInit, WaitingInLine
<1>2. PoolInv /\ PoolInv' /\ WaitingInLine /\ [Next]_vars => [JobNext]_jobVars /\ WaitingInLine'
  <2> SUFFICES ASSUME PoolInv, PoolInv', WaitingInLine, [Next]_vars
               PROVE  [JobNext]_jobVars /\ WaitingInLine'
    OBVIOUS
  <2>1. CASE UNCHANGED jobVars
    BY <2>1, PlacesKept DEF PoolInv, TypeOK, jobVars
  <2>2. CASE Crash
    BY <2>2, CrashIsMishap DEF JobNext
  <2>3. CASE /\ ~UNCHANGED jobVars /\ ~Crash
    <3>1. \/ \E e \in Events, j \in Jobs : HookEnqueue(e, j)
          \/ ClaimError \/ \E j \in Jobs : ClaimItem(j)
          \/ \E j \in Jobs : WorkerStep(j)
          \/ Restart
      BY <2>3 DEF Next, DispatcherStep, HookNotify, SelectStop, SelectSlot, ClaimNothing,
                  WaitNotify, WaitTick, WaitStop, Fill, Stop, vars
    <3>2. QED
      BY <3>1, HooksTakeQueueSteps, ClaimsTakeQueueSteps, WorkerTakesQueueStep, RestartTakesQueueStep
  <2>4. QED
    BY <2>1, <2>2, <2>3
<1>3. QED
  BY <1>1, <1>2, PoolInvHolds, PTL DEF Spec, JobSpec
=============================================================================
