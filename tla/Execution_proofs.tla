--------------------------- MODULE Execution_proofs ---------------------------
(***************************************************************************)
(* First of Executor, for every list of actions and every trigger: the typing  *)
(* goroutine ends before its action does, the outputs tell of the posts, and    *)
(* the one who is shown typing is the one who posts.  Then of Delivery: until  *)
(* the worker has loaded the automation the execution is in its initial state, *)
(* whatever the list and the trigger will be, and from then on only the        *)
(* execution moves.  Then of History, where an execution is recorded, for any  *)
(* number of processes, records, purges and lists: every index is in order and *)
(* has what is alive, a first purge is thorough, and a list shows the newest.  *)
(***************************************************************************)
EXTENDS Delivery, History, FiniteSetTheorems, SequenceTheorems, TLAPS

(***************************************************************************)
(* The execution of any list of actions.                                   *)
(***************************************************************************)

LEMMA LenActions ==
    ASSUME TypeOK
    PROVE  actions \in Seq(Actions) /\ Len(actions) \in Nat
  BY ProgramsAssumption DEF TypeOK

(* What an end of an action does to the loop. *)
LEMMA SettleMoves ==
    ASSUME TypeOK, k <= Len(actions),
           NEW o \in {"done", "failed", "panicked"}, Settle(o)
    PROVE  /\ k' \in 1..(Len(actions) + 1) /\ pc' \in {"next", "ended"}
           /\ result' \in {"done", "failed", "panicked"}
           /\ steps' \subseteq 1..Len(actions)
  <1>1. /\ k \in Nat /\ k >= 1 /\ Len(actions) \in Nat
        /\ k \in 1..Len(actions) /\ k + 1 \in 1..(Len(actions) + 1) /\ k \in 1..(Len(actions) + 1)
    BY LenActions DEF TypeOK
  <1>2. steps \subseteq 1..Len(actions)
    BY DEF TypeOK
  <1>3. CASE o = "done"
    BY <1>1, <1>2, <1>3 DEF Settle
  <1>4. CASE o # "done"
    BY <1>1, <1>2, <1>4 DEF Settle
  <1> QED BY <1>3, <1>4

LEMMA InitExecutor == Init => ExecutorInv
  <1> SUFFICES ASSUME Init PROVE ExecutorInv
    OBVIOUS
  <1>1. Len(actions) \in Nat
    BY ProgramsAssumption DEF Init
  <1>2. k \in 1..(Len(actions) + 1)
    BY <1>1 DEF Init
  <1>3. TypeOK
    <2>1. actions \in Programs /\ trigger \in Triggers /\ steps \subseteq 1..Len(actions)
      BY DEF Init
    <2>2. due \in BOOLEAN /\ cancelled \in BOOLEAN
      BY Zenon DEF Init
    <2>4. late \in 0..2
      BY DEF Init
    <2>3. /\ pc \in {"next", "call", "cancel", "wait", "ended"}
          /\ result \in {"done", "failed", "panicked"}
          /\ typist \in {"none", "select", "recheck", "publish", "gone"}
      BY DEF Init
    <2> QED BY <1>2, <2>1, <2>2, <2>3, <2>4 DEF TypeOK
  <1> QED BY <1>3 DEF Init, ExecutorInv, QuietAfterwards, CancelInv

(* An action is at hand whenever the loop is not between two of them. *)
AtHand == pc \in {"call", "cancel", "wait"} => k <= Len(actions)

LEMMA NextExecutor ==
    ASSUME ExecutorInv, AtHand, [Next]_vars
    PROVE  ExecutorInv' /\ AtHand'
  <1> USE DEF ExecutorInv, QuietAfterwards, CancelInv, AtHand
  <1>1. CASE Refuse
    BY <1>1, SettleMoves DEF Refuse, TypeOK, typistVars
  <1>2. CASE SendMessage
    <2>1. k <= Len(actions)
      BY <1>2 DEF SendMessage, Is
    <2> QED BY <1>2, <2>1, SettleMoves DEF SendMessage, TypeOK, typistVars
  <1>3. CASE StartPrompt
    <2>1. k <= Len(actions) /\ typist = "none" /\ UNCHANGED <<actions, trigger, k, result, steps>>
      BY <1>3 DEF StartPrompt, Is
    <2>2. pc' = "call" /\ typist' \in {"none", "select"} /\ late' = 0 /\ ~cancelled' /\ due' = FALSE
      BY <1>3, <2>1 DEF StartPrompt
    <2>3. cancelled' \in BOOLEAN
      BY <1>3 DEF StartPrompt
    <2>4. TypeOK'
      <3>1. due' \in BOOLEAN
        BY <2>2, Zenon
      <3>3. late' \in 0..2
        BY <2>2
      <3>2. /\ pc' \in {"next", "call", "cancel", "wait", "ended"}
            /\ typist' \in {"none", "select", "recheck", "publish", "gone"}
        BY <2>2
      <3> QED BY <2>1, <2>3, <3>1, <3>2, <3>3 DEF TypeOK
    <2> QED BY <2>1, <2>2, <2>4
  <1>4. CASE Respond
    <2>1. PICK o \in {"done", "failed", "panicked"} :
             IF typist = "none" THEN Settle(o)
             ELSE result' = o /\ pc' = "cancel" /\ UNCHANGED <<k, steps>>
      BY <1>4 DEF Respond
    <2>2. CASE typist = "none"
      BY <1>4, <2>1, <2>2, SettleMoves DEF Respond, TypeOK, typistVars
    <2>3. CASE typist # "none"
      BY <1>4, <2>1, <2>3 DEF Respond, TypeOK, typistVars
    <2> QED BY <2>2, <2>3
  <1>5. CASE Cancel
    BY <1>5 DEF Cancel, TypeOK
  <1>6. CASE Join
    BY <1>6, SettleMoves DEF Join, TypeOK
  <1>7. CASE Finish
    BY <1>7 DEF Finish, TypeOK, typistVars
  <1>8. CASE Tick
    BY <1>8 DEF Tick, TypeOK, runVars
  <1>9. CASE SelectDone
    BY <1>9 DEF SelectDone, TypeOK, runVars
  <1>10. CASE SelectTick
    BY <1>10 DEF SelectTick, TypeOK, runVars
  <1>11. CASE Recheck
    BY <1>11 DEF Recheck, TypeOK, runVars
  <1>12. CASE Publish
    BY <1>12 DEF Publish, TypeOK, runVars
  <1>13. CASE UNCHANGED vars
    BY <1>13 DEF vars, runVars, typistVars, TypeOK
  <1> QED BY <1>1, <1>2, <1>3, <1>4, <1>5, <1>6, <1>7, <1>8, <1>9, <1>10, <1>11, <1>12, <1>13
          DEF Next, ActionStep, TypistStep

LEMMA ExecutorHolds == Spec => [](ExecutorInv /\ AtHand)
  <1>1. Init => ExecutorInv /\ AtHand
    BY InitExecutor DEF Init, AtHand
  <1> QED BY <1>1, NextExecutor, PTL DEF Spec

(* startTypingIndicator: the goroutine and the context it watches go through    *)
(* their stages together, with every list of actions.                         *)
THEOREM ExecutorInvHolds == Spec => []ExecutorInv
  BY ExecutorHolds, PTL

(* startTypingIndicator: no goroutine is left when its action is over.          *)
THEOREM NothingTypesAfterwards == Spec => []QuietAfterwards
  BY ExecutorHolds, PTL DEF ExecutorInv

(* stopTyping: one publication at most is later than the cancellation.          *)
THEOREM StoppingWins == Spec => []StopWins
  <1>1. ExecutorInv => StopWins
    BY DEF ExecutorInv, CancelInv, StopWins
  <1> QED BY <1>1, ExecutorHolds, PTL

----------------------------------------------------------------------------
(* Outputs and posts.                                                       *)

LEMMA SettleTells ==
    ASSUME TypeOK, OutputsTellPosts, k <= Len(actions), pc # "ended", UNCHANGED posts,
           NEW o \in {"done", "failed", "panicked"}, Settle(o)
    PROVE  OutputsTellPosts'
  <1>1. k \in Nat /\ k >= 1
    BY LenActions DEF TypeOK
  <1>2. \A p \in posts : p.from \in 1..(k - 1)
    BY DEF OutputsTellPosts
  <1>3. CASE o = "done"
    <2>1. steps' = 1..(k' - 1)
      <3>1. k' = k + 1 /\ steps' = (1..(k - 1)) \cup {k}
        BY <1>3 DEF Settle, OutputsTellPosts
      <3> QED BY <1>1, <3>1
    <2>2. \A p \in posts' : p.from \in steps'
      BY <1>1, <1>2, <1>3, <2>1 DEF Settle
    <2> QED BY <2>1, <2>2 DEF OutputsTellPosts
  <1>4. CASE o # "done"
    BY <1>1, <1>2, <1>4 DEF Settle, OutputsTellPosts
  <1> QED BY <1>3, <1>4

LEMMA NextTells ==
    ASSUME ExecutorInv, AtHand, OutputsTellPosts, [Next]_vars
    PROVE  OutputsTellPosts'
  <1> USE DEF ExecutorInv, AtHand
  <1>1. CASE Refuse
    BY <1>1, SettleTells DEF Refuse
  <1>2. CASE SendMessage
    <2>1. k \in Nat /\ k >= 1 /\ pc = "next"
      BY <1>2, LenActions DEF SendMessage, TypeOK
    <2>2. \A p \in posts' : p.from \in 1..(k - 1) \/ p.from = k
      BY <1>2, <2>1 DEF SendMessage, OutputsTellPosts
    <2>3. steps = 1..(k - 1)
      BY DEF OutputsTellPosts
    <2>4. CASE Settle("done")
      <3>1. k' = k + 1 /\ steps' = steps \cup {k}
        BY <2>4 DEF Settle
      <3>2. steps' = 1..(k' - 1)
        BY <2>1, <2>3, <3>1
      <3>3. \A p \in posts' : p.from \in steps'
        BY <2>1, <2>2, <3>1, <3>2
      <3> QED BY <3>2, <3>3 DEF OutputsTellPosts
    <2>5. CASE Settle("failed")
      BY <2>1, <2>2, <2>3, <2>5 DEF Settle, OutputsTellPosts
    <2> QED BY <1>2, <2>4, <2>5 DEF SendMessage
  <1>3. CASE StartPrompt
    BY <1>3 DEF StartPrompt, OutputsTellPosts
  <1>4. CASE Respond
    <2>1. PICK o \in {"done", "failed", "panicked"} :
             IF typist = "none" THEN Settle(o)
             ELSE result' = o /\ pc' = "cancel" /\ UNCHANGED <<k, steps>>
      BY <1>4 DEF Respond
    <2>2. CASE typist = "none"
      BY <1>4, <2>1, <2>2, SettleTells DEF Respond
    <2>3. CASE typist # "none"
      BY <1>4, <2>1, <2>3 DEF Respond, OutputsTellPosts
    <2> QED BY <2>2, <2>3
  <1>5. CASE Join
    BY <1>5, SettleTells DEF Join, TypeOK
  <1>6. CASE Cancel \/ Finish
    BY <1>6 DEF Cancel, Finish, OutputsTellPosts
  <1>7. CASE Tick \/ TypistStep \/ UNCHANGED vars
    BY <1>7 DEF Tick, TypistStep, SelectDone, SelectTick, Recheck, Publish, vars, runVars,
                OutputsTellPosts
  <1> QED BY <1>1, <1>2, <1>3, <1>4, <1>5, <1>6, <1>7 DEF Next, ActionStep

(* Executor.Execute: after any number of actions the outputs are those of the   *)
(* actions that went well, and no message but the last one is missing there.    *)
THEOREM OutputsAlwaysTell == Spec => []OutputsTellPosts
  <1>1. Init => OutputsTellPosts
    BY DEF Init, OutputsTellPosts
  <1> QED BY <1>1, NextTells, ExecutorHolds, PTL DEF Spec

----------------------------------------------------------------------------
(* Who types and who posts.                                                 *)

(* Everything shown was worked out from the list of actions alone. *)
ShownInv ==
    /\ \A t \in typed : t.for \in 1..Len(actions) /\ t.by = Typing(t.for).by
    /\ \A p \in posts : Is(p.from, "send_message") /\ p.from \in 1..Len(actions)
                        /\ p.by = Author(p.from)

LEMMA NextShown ==
    ASSUME ExecutorInv, AtHand, ShownInv, [Next]_vars
    PROVE  ShownInv'
  <1> USE DEF ExecutorInv, AtHand
  <1>1. k \in Nat /\ k >= 1 /\ UNCHANGED <<actions, trigger>>
    BY LenActions
    DEF TypeOK, Next, ActionStep, TypistStep, Refuse, SendMessage, StartPrompt, Respond, Cancel,
        Join, Finish, Tick, SelectDone, SelectTick, Recheck, Publish, vars, runVars
  <1>2. \A i : UNCHANGED <<Typing(i), Author(i)>> /\ (Is(i, "send_message")' <=> Is(i, "send_message"))
    BY <1>1 DEF Typing, NextSend, Author, Is
  <1>3. CASE UNCHANGED <<typed, posts>>
    BY <1>1, <1>2, <1>3 DEF ShownInv
  <1>4. CASE SendMessage
    <2>1. /\ typed' = typed /\ posts' = posts \cup {[by |-> Author(k), from |-> k]}
          /\ Is(k, "send_message") /\ k \in 1..Len(actions)
      BY <1>1, <1>4, LenActions DEF SendMessage, Is, typistVars
    <2> QED BY <1>1, <1>2, <2>1 DEF ShownInv
  <1>5. CASE StartPrompt \/ Publish
    <2>1. /\ posts' = posts /\ (typed' = typed \/ typed' = typed \cup {Typing(k)})
          /\ k \in 1..Len(actions)
      BY <1>1, <1>5, LenActions DEF StartPrompt, Publish, Is, runVars, QuietAfterwards
    <2>2. Typing(k).for = k
      BY DEF Typing
    <2> QED BY <1>1, <1>2, <2>1, <2>2 DEF ShownInv
  <1> QED BY <1>3, <1>4, <1>5
          DEF Next, ActionStep, TypistStep, Refuse, Respond, Cancel, Join, Finish, Tick, SelectDone,
              SelectTick, Recheck, vars, runVars, typistVars

(* nextSendMessageAfter finds the message a prompt is followed by. *)
LEMMA NextSendIsNext ==
    ASSUME Len(actions) \in Nat,
           NEW i \in 1..Len(actions), NEW j \in 1..Len(actions), i < j,
           Is(j, "send_message"),
           \A m \in (i + 1)..(j - 1) : actions[m].kind # "send_message"
    PROVE  NextSend(i) = j
  <1> DEFINE sends == {m \in (i + 1)..Len(actions) : Is(m, "send_message")}
  <1>1. j \in sends /\ sends \subseteq Nat
    OBVIOUS
  <1>2. \A m \in sends : j <= m
    BY DEF Is
  <1>3. NextSend(i) = CHOOSE m \in sends : \A l \in sends : m <= l
    BY <1>1 DEF NextSend
  <1>4. NextSend(i) \in sends /\ \A l \in sends : NextSend(i) <= l
    BY <1>1, <1>2, <1>3
  <1> QED BY <1>1, <1>2, <1>4

(* What is worked out from the list of actions fits together. *)
LEMMA ShownFits == ExecutorInv /\ ShownInv => TypistPosts
  <1> SUFFICES ASSUME ExecutorInv, ShownInv, NEW t \in typed, NEW p \in posts, t.for < p.from,
                      \A j \in (t.for + 1)..(p.from - 1) : actions[j].kind # "send_message"
               PROVE  t.by = p.by
    BY DEF TypistPosts
  <1>1. NextSend(t.for) = p.from
    BY NextSendIsNext, LenActions DEF ExecutorInv, ShownInv
  <1>2. p.from # 0
    BY DEF ShownInv
  <1> QED BY <1>1, <1>2 DEF ShownInv, Typing

(* typingUserID: in every list of actions, the user shown typing for a prompt    *)
(* is the one that posts the message that follows it.                         *)
THEOREM TypistAlwaysPosts == Spec => []TypistPosts
  <1>1. Init => ShownInv
    BY DEF Init, ShownInv
  <1> QED BY <1>1, ShownFits, NextShown, ExecutorHolds, PTL DEF Spec

(***************************************************************************)
(* The thread that goes with a reply: ranks.                               *)
(***************************************************************************)

LEMMA ThreadFacts ==
  ASSUME list \in Threads
  PROVE  /\ list \in Seq([at: Nat, by: Authors]) /\ Len(list) \in Nat \ {0}
         /\ DOMAIN list = 1..Len(list)
         /\ IsFiniteSet(DOMAIN list) /\ Cardinality(DOMAIN list) = Len(list)
         /\ \A i \in DOMAIN list : i \in Nat /\ list[i].at \in Nat /\ list[i].by \in Authors
  <1>1. PICK n \in 1..MaxPosts : list \in [1..n -> [at : 0..MaxTime, by : Authors]]
    BY DEF Threads
  <1>2. n \in Nat \ {0} /\ list \in Seq([at: Nat, by: Authors]) /\ Len(list) = n
    <2>1. n \in Nat \ {0} /\ DOMAIN list = 1..n
      BY <1>1, ThreadAssumption
    <2>2. \A i \in 1..n : list[i] \in [at: Nat, by: Authors]
      BY <1>1, ThreadAssumption
    <2>3. list \in [1..n -> [at: Nat, by: Authors]]
      BY <1>1, <2>2
    <2>4. list \in Seq([at: Nat, by: Authors])
      BY <2>1, <2>3, SeqDef
    <2> QED BY <2>1, <2>4, LenProperties
  <1>3. IsFiniteSet(1..n) /\ Cardinality(1..n) = n
    BY <1>2, FS_Interval
  <1> QED BY <1>1, <1>2, <1>3

(* Before is a strict total order of the posts, *)
LEMMA BeforeIsOrder ==
  ASSUME list \in Threads, NEW i \in DOMAIN list, NEW j \in DOMAIN list
  PROVE  /\ ~Before(i, i)
         /\ i # j => Before(i, j) \/ Before(j, i)
         /\ \A h \in DOMAIN list : Before(h, i) /\ Before(i, j) => Before(h, j)
         /\ Before(i, j) => list[i].at <= list[j].at
  BY ThreadFacts DEF Before

(* so ranks follow it. *)
LEMMA RanksFollow ==
  ASSUME list \in Threads
  PROVE  /\ \A i \in DOMAIN list : Rank(i) \in DOMAIN list
         /\ \A i, j \in DOMAIN list : Before(i, j) => Rank(i) < Rank(j)
  <1> DEFINE D == DOMAIN list
             Ahead(i) == {j \in D : Before(j, i)}
  <1>1. IsFiniteSet(D) /\ Cardinality(D) = Len(list) /\ Len(list) \in Nat /\ D = 1..Len(list)
    BY ThreadFacts
  <1>2. ASSUME NEW i \in D
        PROVE  /\ IsFiniteSet(Ahead(i)) /\ Cardinality(Ahead(i)) \in Nat
               /\ Cardinality(Ahead(i)) < Len(list)
    <2>1. Ahead(i) \in SUBSET D /\ i \notin Ahead(i)
      BY BeforeIsOrder
    <2> HIDE DEF Ahead
    <2>2. /\ IsFiniteSet(Ahead(i)) /\ Cardinality(Ahead(i)) <= Cardinality(D)
          /\ Cardinality(D) = Cardinality(Ahead(i)) => D = Ahead(i)
      BY <1>1, <2>1, FS_Subset
    <2>3. Cardinality(Ahead(i)) \in Nat
      BY <2>2, FS_CardinalityType
    <2> QED BY <1>1, <2>1, <2>2, <2>3
  <1>3. ASSUME NEW i \in D, NEW j \in D, Before(i, j)
        PROVE  Cardinality(Ahead(i)) < Cardinality(Ahead(j))
    <2>1. Ahead(i) \in SUBSET Ahead(j)
      BY <1>3, BeforeIsOrder
    <2>2. i \in Ahead(j) /\ i \notin Ahead(i)
      BY <1>3, BeforeIsOrder
    <2>3. /\ IsFiniteSet(Ahead(j)) /\ Cardinality(Ahead(j)) \in Nat /\ Cardinality(Ahead(i)) \in Nat
      BY <1>2
    <2> HIDE DEF Ahead
    <2>4. /\ Cardinality(Ahead(i)) <= Cardinality(Ahead(j))
          /\ Cardinality(Ahead(j)) = Cardinality(Ahead(i)) => Ahead(j) = Ahead(i)
      BY <2>1, <2>3, FS_Subset
    <2> QED BY <2>2, <2>3, <2>4
  <1>4. \A i \in D : Rank(i) = Cardinality(Ahead(i)) + 1
    BY DEF Rank
  <1> HIDE DEF Ahead
  <1> QED BY <1>1, <1>2, <1>3, <1>4

(* Each rank is that of one post: the list is sorted. *)
LEMMA SortedFacts ==
  ASSUME list \in Threads
  PROVE  /\ Sorted \in Seq(DOMAIN list) /\ Len(Sorted) = Len(list)
         /\ \A n \in DOMAIN list : Sorted[n] \in DOMAIN list
         /\ \A i \in DOMAIN list : Sorted[Rank(i)] = i
         /\ \A m, n \in DOMAIN list : m < n => Before(Sorted[m], Sorted[n])
  <1> DEFINE D == DOMAIN list
             rank == [i \in D |-> Rank(i)]
  <1>1. /\ IsFiniteSet(D) /\ D = 1..Len(list) /\ Len(list) \in Nat
        /\ \A i \in D : Rank(i) \in D /\ Rank(i) \in Nat
    BY ThreadFacts, RanksFollow
  <1>2. \A i, j \in D : Rank(i) = Rank(j) => i = j
    BY <1>1, RanksFollow, BeforeIsOrder
  <1>3. rank \in Injection(D, D)
    BY <1>1, <1>2 DEF Injection, IsInjective
  <1>4. rank \in Surjection(D, D)
    BY <1>1, <1>3, FS_Injection
  <1>5. \A n \in D : \E i \in D : Rank(i) = n
    BY <1>4 DEF Surjection
  <1>6. \A n \in D : Sorted[n] \in D /\ Rank(Sorted[n]) = n
    BY <1>5 DEF Sorted
  <1>7. DOMAIN Sorted = D
    BY DEF Sorted
  <1>8. Sorted \in Seq(D) /\ Len(Sorted) = Len(list)
    <2>1. Sorted \in [1..Len(list) -> D]
      BY <1>1, <1>6 DEF Sorted
    <2> QED BY <1>1, <2>1
  <1>9. \A i \in D : Sorted[Rank(i)] = i
    BY <1>1, <1>2, <1>6
  <1>10. ASSUME NEW m \in D, NEW n \in D, m < n PROVE Before(Sorted[m], Sorted[n])
    <2>1. m \in Nat /\ n \in Nat /\ Sorted[m] # Sorted[n]
      BY <1>1, <1>6, <1>10
    <2>2. ~Before(Sorted[n], Sorted[m])
      BY <1>6, <1>10, <2>1, RanksFollow
    <2> QED BY <1>6, <2>1, <2>2, BeforeIsOrder
  <1> QED BY <1>6, <1>8, <1>9, <1>10

(* Where a post of the cut list was before the cut: the first stays, the others
   follow those that are left out. *)
Left == IF Len(list) > MaxThreadReplies + 1 THEN Len(list) - (MaxThreadReplies + 1) ELSE 0
Place(i) == IF i = 1 THEN 1 ELSE i + Left

LEMMA CutFacts ==
  ASSUME list \in Threads
  PROVE  /\ Cut(Sorted) \in Seq(DOMAIN list)
         /\ Left \in Nat /\ Len(Cut(Sorted)) = Len(list) - Left /\ Len(Cut(Sorted)) >= 1
         /\ \A i \in 1..Len(Cut(Sorted)) :
               Place(i) \in DOMAIN list /\ Cut(Sorted)[i] = Sorted[Place(i)]
  <1> DEFINE n == Len(list)
             M == MaxThreadReplies
  <1>1. /\ n \in Nat \ {0} /\ DOMAIN list = 1..n /\ Sorted \in Seq(1..n) /\ Len(Sorted) = n
        /\ M \in Nat
    BY ThreadFacts, SortedFacts, ThreadAssumption
  <1> HIDE DEF n, M
  <1>2. CASE n > M + 1
    <2> DEFINE first == <<Sorted[1]>>
               recent == SubSeq(Sorted, n - M + 1, n)
    <2>1. Cut(Sorted) = first \o recent /\ Left = n - (M + 1)
      BY <1>1, <1>2 DEF Cut, Left, n, M
    <2>2. first \in Seq(1..n) /\ Len(first) = 1 /\ first[1] = Sorted[1]
      BY <1>1
    <2>3. /\ recent \in Seq(1..n) /\ Len(recent) = M
          /\ \A i \in 1..M : recent[i] = Sorted[n - M + i]
      BY <1>1, <1>2
    <2> HIDE DEF first, recent
    <2>4. /\ Cut(Sorted) \in Seq(1..n) /\ Len(Cut(Sorted)) = M + 1
          /\ Cut(Sorted)[1] = Sorted[1]
          /\ \A i \in 2..(M + 1) : Cut(Sorted)[i] = recent[i - 1]
      <3>1. /\ first \o recent \in Seq(1..n) /\ Len(first \o recent) = 1 + M
            /\ \A i \in 1..(1 + M) :
                 (first \o recent)[i] = IF i <= 1 THEN first[i] ELSE recent[i - 1]
        <4> DEFINE D == 1..n
        <4>1. first \in Seq(D) /\ recent \in Seq(D)
          BY <2>2, <2>3
        <4> HIDE DEF D
        <4>2. /\ first \o recent \in Seq(D) /\ Len(first \o recent) = Len(first) + Len(recent)
              /\ \A i \in 1..(Len(first) + Len(recent)) :
                   (first \o recent)[i] =
                      IF i <= Len(first) THEN first[i] ELSE recent[i - Len(first)]
          BY <4>1, ConcatProperties
        <4> QED BY SMTT(30), <2>2, <2>3, <4>2 DEF D
      <3>2. PICK c : c = first \o recent
        OBVIOUS
      <3>3. /\ c \in Seq(1..n) /\ Len(c) = 1 + M
            /\ \A i \in 1..(1 + M) : c[i] = IF i <= 1 THEN first[i] ELSE recent[i - 1]
        BY <3>1, <3>2, Zenon
      <3>4. Len(c) = M + 1 /\ c[1] = Sorted[1] /\ \A i \in 2..(M + 1) : c[i] = recent[i - 1]
        <4>1. 1 + M = M + 1 /\ 1 \in 1..(1 + M) /\ 1 <= 1
          BY <1>1
        <4>2. \A i \in 2..(M + 1) : i \in 1..(1 + M) /\ ~(i <= 1)
          BY <1>1
        <4> QED BY <2>2, <3>3, <4>1, <4>2, Zenon
      <3> QED BY <2>1, <3>2, <3>3, <3>4, Zenon
    <2>5. \A i \in 2..(M + 1) : Cut(Sorted)[i] = Sorted[i + Left]
      <3>1. ASSUME NEW i \in 2..(M + 1) PROVE Cut(Sorted)[i] = Sorted[i + Left]
        <4>1. i - 1 \in 1..M /\ n - M + (i - 1) = i + Left
          BY <1>1, <2>1
        <4> QED BY <2>3, <2>4, <4>1
      <3> QED BY <3>1
    <2>6. \A i \in 1..(M + 1) : Place(i) \in 1..n /\ Cut(Sorted)[i] = Sorted[Place(i)]
      <3>1. Place(1) = 1 /\ \A i \in 2..(M + 1) : Place(i) = i + Left
        BY <1>1 DEF Place
      <3>2. \A i \in 2..(M + 1) : i + Left \in 1..n
        BY <1>1, <1>2, <2>1
      <3>3. \A i \in 1..(M + 1) : i = 1 \/ i \in 2..(M + 1)
        BY <1>1
      <3> HIDE DEF Place
      <3>4. 1 \in 1..n
        BY <1>1
      <3> QED BY <2>4, <2>5, <3>1, <3>2, <3>3, <3>4
    <2>7. Left \in Nat /\ Len(Cut(Sorted)) = n - Left /\ Len(Cut(Sorted)) >= 1
      <3>1. Left = n - (M + 1) /\ Len(Cut(Sorted)) = M + 1
        BY <2>1, <2>4
      <3>2. n \in Nat /\ M \in Nat
        BY <1>1
      <3> QED BY <1>2, <3>1, <3>2
    <2> QED BY <1>1, <2>4, <2>6, <2>7 DEF n
  <1>3. CASE ~(n > M + 1)
    <2>1. Cut(Sorted) = Sorted /\ Left = 0
      <3>1. n = Len(list) /\ M = MaxThreadReplies
        BY DEF n, M
      <3>2. Left = 0
        BY <1>3, <3>1 DEF Left
      <3>3. Cut(Sorted) = Sorted
        BY <1>1, <1>3, <3>1 DEF Cut
      <3> QED BY <3>2, <3>3
    <2>2. \A i \in 1..n : Place(i) = i
      BY <2>1 DEF Place
    <2>3. n \in Nat /\ n >= 1 /\ n - 0 = n /\ 0 \in Nat /\ Len(list) = n
      BY <1>1 DEF n
    <2> QED BY <1>1, <2>1, <2>2, <2>3
  <1> QED BY <1>2, <1>3

(***************************************************************************)
(* The thread that goes with a reply: the steps.                           *)
(***************************************************************************)

LEMMA NoThreadIsFine == NoThread => SnapshotInv
  <1> SUFFICES ASSUME NoThread PROVE SnapshotInv
    OBVIOUS
  <1>1. OrderInv
    BY DEF NoThread, OrderInv
  <1>2. CacheInv
    BY DEF NoThread, CacheInv
  <1> QED BY <1>1, <1>2 DEF SnapshotInv

LEMMA FetchKeeps ==
  ASSUME SnapshotInv, Fetch
  PROVE  SnapshotInv'
  <1>1. /\ list = <<>> /\ list' \in Threads /\ count = 0
        /\ UNCHANGED <<messages, truncated, count, todo, cache, asked>>
    BY DEF Fetch, SnapshotInv, OrderInv
  <1>2. /\ messages = <<>> /\ todo = <<>> /\ list' # <<>>
        /\ root' \in DOMAIN list' /\ \A i \in DOMAIN list' : list'[root'].at <= list'[i].at
    <2>1. list' \in Threads => list' # <<>>
      BY ThreadAssumption DEF Threads
    <2> QED BY <1>1, <2>1 DEF Fetch, SnapshotInv, OrderInv
  <1>3. OrderInv'
    BY <1>1, <1>2 DEF OrderInv
  <1>4. CacheInv'
    BY <1>1, <1>2 DEF SnapshotInv, CacheInv
  <1> QED BY <1>3, <1>4 DEF SnapshotInv

LEMMA ArrangeKeeps ==
  ASSUME SnapshotInv, Arrange
  PROVE  SnapshotInv'
  <1>1. /\ list # <<>> /\ list \in Threads /\ messages = <<>> /\ count = 0
        /\ todo' = Cut(Sorted) /\ count' = Len(Sorted)
        /\ truncated' = (Len(Sorted) > MaxThreadReplies + 1)
        /\ UNCHANGED <<list, root, messages, cache, asked>>
    BY DEF Arrange, SnapshotInv, OrderInv
  <1>2. /\ Cut(Sorted) \in Seq(DOMAIN list) /\ Len(Sorted) = Len(list) /\ Len(list) \in Nat \ {0}
        /\ Len(Cut(Sorted)) \in Nat
    BY <1>1, CutFacts, SortedFacts, ThreadFacts
  <1>3. (Cut(Sorted))' = Cut(Sorted)
    BY <1>1 DEF Cut, Sorted, Rank, Before
  <1>4. OrderInv'
    <2>1. messages' = <<>> /\ Len(messages') = 0 /\ DOMAIN messages' = {}
      BY <1>1
    <2>2. messages' \in Seq([id: DOMAIN list', name: Authors \cup {NoName}])
      BY <2>1, EmptySeq
    <2>3. \A i \in DOMAIN todo' : i \in Nat /\ todo'[i] = Cut(Sorted)'[Len(messages') + i]
      BY <1>1, <1>2, <1>3, <2>1
    <2> QED BY <1>1, <1>2, <1>3, <2>1, <2>2, <2>3 DEF SnapshotInv, OrderInv
  <1>5. CacheInv'
    BY <1>1 DEF SnapshotInv, CacheInv
  <1> QED BY <1>4, <1>5 DEF SnapshotInv

LEMMA NameKeeps ==
  ASSUME SnapshotInv, Name
  PROVE  SnapshotInv'
  <1> DEFINE id == Head(todo)
             a == list[id].by
             Messages == [id: DOMAIN list, name: Authors \cup {NoName}]
  <1>1. /\ todo # <<>> /\ todo' = Tail(todo)
        /\ UNCHANGED <<list, root, truncated, count>>
    BY DEF Name
  <1>2. PICK name \in IF a \in DOMAIN cache THEN {cache[a]} ELSE {a, NoName} :
          /\ messages' = Append(messages, [id |-> id, name |-> name])
          /\ cache' = [b \in DOMAIN cache \cup {a} |-> IF b = a THEN name ELSE cache[b]]
          /\ asked' = IF a \in DOMAIN cache THEN asked ELSE [asked EXCEPT ![a] = @ + 1]
    BY DEF Name
  <1>3. /\ count # 0 /\ list # <<>> /\ list \in Threads
        /\ messages \in Seq(Messages) /\ todo \in Seq(DOMAIN list)
    BY <1>1 DEF SnapshotInv, OrderInv
  <1>4. /\ id \in DOMAIN list /\ a \in Authors /\ name \in Authors \cup {NoName}
        /\ id = todo[1] /\ 1 \in DOMAIN todo
    <2>1. id \in DOMAIN list /\ id = todo[1] /\ 1 \in DOMAIN todo
      BY <1>1, <1>3
    <2>2. a \in Authors
      BY <1>3, <2>1, ThreadFacts
    <2> QED BY <1>2, <2>1, <2>2 DEF SnapshotInv, CacheInv
  <1>5. (Cut(Sorted))' = Cut(Sorted)
    BY <1>1 DEF Cut, Sorted, Rank, Before
  <1> DEFINE message == [id |-> id, name |-> name]
             n == Len(messages)
  <1>6. message \in Messages /\ message.id = id /\ message.name = name
    BY <1>4
  <1> HIDE DEF message, Messages
  <1>7. /\ n \in Nat /\ messages' \in Seq(Messages) /\ Len(messages') = n + 1
        /\ DOMAIN messages = 1..n /\ DOMAIN messages' = 1..(n + 1)
        /\ \A i \in 1..n : messages'[i] = messages[i]
        /\ messages'[n + 1] = message
    BY <1>2, <1>3, <1>6 DEF message
  <1>8. /\ todo' \in Seq(DOMAIN list) /\ Len(todo) \in Nat /\ Len(todo') = Len(todo) - 1
        /\ DOMAIN todo' = 1..Len(todo') /\ DOMAIN todo = 1..Len(todo)
        /\ \A i \in 1..Len(todo') : todo'[i] = todo[i + 1]
    BY <1>1, <1>3, HeadTailProperties, LenProperties
  <1>9. OrderInv'
    <2>1. Len(messages') + Len(todo') = Len(Cut(Sorted))
      <3>1. n + Len(todo) = Len(Cut(Sorted))
        BY <1>3 DEF SnapshotInv, OrderInv
      <3>2. n \in Nat /\ Len(messages') = n + 1
        BY <1>7
      <3>3. Len(todo) \in Nat /\ Len(todo') = Len(todo) - 1
        BY <1>8
      <3> HIDE DEF n
      <3> QED BY <3>1, <3>2, <3>3
    <2>2. \A i \in DOMAIN messages' : messages'[i].id = Cut(Sorted)[i]
      <3>1. id = Cut(Sorted)[n + 1]
        BY <1>3, <1>4 DEF SnapshotInv, OrderInv
      <3>2. \A i \in 1..n : messages[i].id = Cut(Sorted)[i]
        BY <1>3, <1>7 DEF SnapshotInv, OrderInv
      <3>3. \A i \in 1..(n + 1) : i \in 1..n \/ i = n + 1
        BY <1>7
      <3> QED BY <1>6, <1>7, <3>1, <3>2, <3>3
    <2>3. \A i \in DOMAIN todo' : todo'[i] = Cut(Sorted)[Len(messages') + i]
      <3>1. \A i \in 1..Len(todo) : todo[i] = Cut(Sorted)[n + i]
        BY <1>3, <1>8 DEF SnapshotInv, OrderInv
      <3>2. \A i \in 1..Len(todo') : i + 1 \in 1..Len(todo) /\ n + (i + 1) = Len(messages') + i
        BY <1>7, <1>8
      <3> QED BY <1>8, <3>1, <3>2
    <2> QED BY <1>1, <1>3, <1>5, <1>7, <1>8, <2>1, <2>2, <2>3
            DEF SnapshotInv, OrderInv, Messages
  <1>10. CacheInv'
    <2>1. /\ DOMAIN cache' = DOMAIN cache \cup {a} /\ cache'[a] = name
          /\ \A b \in DOMAIN cache : cache'[b] = cache[b]
          /\ DOMAIN cache' \subseteq Authors
          /\ cache' \in [DOMAIN cache' -> Authors \cup {NoName}]
      BY <1>2, <1>4 DEF SnapshotInv, CacheInv
    <2>2. asked' = [b \in Authors |-> IF b \in DOMAIN cache' THEN 1 ELSE 0]
      <3>1. asked = [b \in Authors |-> IF b \in DOMAIN cache THEN 1 ELSE 0]
        BY DEF SnapshotInv, CacheInv
      <3>2. CASE a \in DOMAIN cache
        BY <1>2, <2>1, <3>1, <3>2
      <3>3. CASE a \notin DOMAIN cache
        BY <1>2, <1>4, <2>1, <3>1, <3>3
      <3> QED BY <3>2, <3>3
    <2>3. ASSUME NEW i \in DOMAIN messages'
          PROVE  /\ list[messages'[i].id].by \in DOMAIN cache'
                 /\ messages'[i].name = cache'[list[messages'[i].id].by]
      <3>1. CASE i \in 1..n
        BY <1>7, <2>1, <3>1 DEF SnapshotInv, CacheInv
      <3>2. CASE i = n + 1
        BY <1>6, <1>7, <2>1, <3>2
      <3> QED BY <1>7, <3>1, <3>2
    <2> QED BY <1>1, <1>3, <2>1, <2>2, <2>3 DEF CacheInv
  <1> QED BY <1>9, <1>10 DEF SnapshotInv

(* The invariant is about what the snapshot consists of, and nothing else. *)
LEMMA SnapshotStays ==
  ASSUME SnapshotInv, UNCHANGED snapshotVars
  PROVE  SnapshotInv'
  <1>1. /\ UNCHANGED <<list, root, messages, truncated, count, todo, cache, asked>>
        /\ (Cut(Sorted))' = Cut(Sorted)
    BY DEF snapshotVars, Cut, Sorted, Rank, Before
  <1>2. OrderInv'
    BY <1>1 DEF SnapshotInv, OrderInv
  <1>3. CacheInv'
    BY <1>1 DEF SnapshotInv, CacheInv
  <1> QED BY <1>2, <1>3 DEF SnapshotInv

LEMMA ForgetKeeps == Forget => SnapshotInv'
  <1>1. Forget => NoThread'
    BY DEF Forget, NoThread
  <1>2. NoThread' => SnapshotInv'
    BY NoThreadIsFine, PTL
  <1> QED BY <1>1, <1>2

(***************************************************************************)
(* The whole way of an event.                                              *)
(***************************************************************************)

DeliveryInv ==
    /\ ExecutorInv /\ AtHand /\ OutputsTellPosts /\ ShownInv
    /\ stage # "run" => Init

(* An execution that has not begun is as it should be. *)
LEMMA FreshIsFine == Init => ExecutorInv /\ AtHand /\ OutputsTellPosts /\ ShownInv
  BY InitExecutor DEF Init, AtHand, OutputsTellPosts, ShownInv

(* On its way the event changes what will be executed, and for whom. *)
LEMMA NotBegunYet ==
    ASSUME DeliveryInv, OnItsWay
    PROVE  Init'
  <1>1. Init
    BY DEF DeliveryInv, OnItsWay, BuildThread, QueueWithThread, QueueWithoutThread, LoadAutomation
  <1>2. CASE BuildThread \/ QueueWithoutThread
    BY <1>1, <1>2 DEF BuildThread, QueueWithoutThread, vars, runVars, typistVars, Init
  <1>3. CASE QueueWithThread
    BY <1>1, <1>3 DEF QueueWithThread, typistVars, Init, Triggers
  <1>4. CASE LoadAutomation
    BY <1>1, <1>4 DEF LoadAutomation, typistVars, Init
  <1> QED BY <1>2, <1>3, <1>4 DEF OnItsWay

LEMMA DeliveryStep ==
    ASSUME DeliveryInv, [DeliveryNext]_allVars
    PROVE  DeliveryInv'
  <1>1. CASE OnItsWay
    <2>1. Init'
      BY <1>1, NotBegunYet
    <2>2. Init' => (ExecutorInv /\ AtHand /\ OutputsTellPosts /\ ShownInv)'
      BY FreshIsFine, PTL
    <2> QED BY <2>1, <2>2 DEF DeliveryInv
  <1>2. CASE RunsOn(ActionStep) \/ RunsOn(TypistStep) \/ RunsOn(Tick)
    <2>1. Next /\ stage' = "run"
      BY <1>2 DEF RunsOn, Next
    <2>2. (ExecutorInv /\ AtHand /\ OutputsTellPosts /\ ShownInv)'
      BY <2>1, NextExecutor, NextTells, NextShown DEF DeliveryInv
    <2> QED BY <2>1, <2>2 DEF DeliveryInv
  <1>3. CASE UNCHANGED allVars
    <2>1. UNCHANGED vars /\ stage' = stage
      BY <1>3 DEF allVars
    <2>2. (ExecutorInv /\ AtHand /\ OutputsTellPosts /\ ShownInv)'
      BY <2>1, NextExecutor, NextTells, NextShown DEF DeliveryInv
    <2>3. Init => Init'
      BY <2>1 DEF Init, vars, runVars, typistVars
    <2> QED BY <2>1, <2>2, <2>3 DEF DeliveryInv
  <1> QED BY <1>1, <1>2, <1>3 DEF DeliveryNext

LEMMA DeliveryHolds == DeliverySpec => []DeliveryInv
  <1>1. DeliveryInit => DeliveryInv
    BY FreshIsFine DEF DeliveryInit, DeliveryInv
  <1> QED BY <1>1, DeliveryStep, PTL DEF DeliverySpec

(* startTypingIndicator: whatever fired and whatever the automation has become  *)
(* in the meantime, the goroutine and its context go through their stages       *)
(* together.                                                                  *)
THEOREM ExecutionsAreOrderly == DeliverySpec => []ExecutorInv
  <1>1. DeliveryInv => ExecutorInv
    BY DEF DeliveryInv
  <1> QED BY <1>1, DeliveryHolds, PTL

(* Executor.Execute: the outputs tell of the messages an event has led to.      *)
THEOREM DeliveriesTellPosts == DeliverySpec => []OutputsTellPosts
  <1>1. DeliveryInv => OutputsTellPosts
    BY DEF DeliveryInv
  <1> QED BY <1>1, DeliveryHolds, PTL

(* typingUserID: who is shown typing for an event is who answers it.            *)
THEOREM TypistAnswers == DeliverySpec => []TypistPosts
  <1>1. DeliveryInv => TypistPosts
    BY ShownFits DEF DeliveryInv
  <1> QED BY <1>1, DeliveryHolds, PTL

LEMMA SnapshotHolds == DeliverySpec => []SnapshotInv
  <1>1. DeliveryInit => SnapshotInv
    BY NoThreadIsFine DEF DeliveryInit
  <1>2. SnapshotInv /\ [DeliveryNext]_allVars => SnapshotInv'
    <2> SUFFICES ASSUME SnapshotInv, [DeliveryNext]_allVars PROVE SnapshotInv'
      OBVIOUS
    <2>1. CASE BuildThread
      BY <2>1, FetchKeeps, ArrangeKeeps, NameKeeps DEF BuildThread, SnapshotStep
    <2>2. CASE QueueWithThread
      BY <2>2, ForgetKeeps DEF QueueWithThread
    <2>3. CASE QueueWithoutThread \/ LoadAutomation \/ UNCHANGED allVars
      <3>1. UNCHANGED snapshotVars
        BY <2>3 DEF QueueWithoutThread, LoadAutomation, allVars, snapshotVars
      <3> QED BY <3>1, SnapshotStays
    <2>4. CASE RunsOn(ActionStep) \/ RunsOn(TypistStep) \/ RunsOn(Tick)
      BY <2>4, SnapshotStays DEF RunsOn
    <2> QED BY <2>1, <2>2, <2>3, <2>4 DEF DeliveryNext, OnItsWay
  <1> QED BY <1>1, <1>2, PTL DEF DeliverySpec

(* What Min of a pair is. *)
LEMMA MinOfTwo ==
  ASSUME NEW x \in Nat, NEW y \in Nat
  PROVE  Min({x, y}) = IF x <= y THEN x ELSE y
  <1> DEFINE m == IF x <= y THEN x ELSE y
  <1>1. m \in {x, y} /\ \A z \in {x, y} : m <= z
    OBVIOUS
  <1>2. \A w \in {x, y} : (\A z \in {x, y} : w <= z) => w = m
    OBVIOUS
  <1> HIDE DEF m
  <1>3. Min({x, y}) = m
    BY <1>1, <1>2 DEF Min
  <1> QED BY <1>3 DEF m

(* A snapshot of a thread has the oldest post and the most recent replies, in order
   and each once, and says whether something was left out. *)
THEOREM SnapshotsKeepTheRecent == DeliverySpec => []KeepsTheRecent
  <1>1. SnapshotInv => KeepsTheRecent
    <2> SUFFICES ASSUME SnapshotInv, Done PROVE KeepsTheRecent
      BY DEF KeepsTheRecent
    <2> DEFINE n == Len(list)
               c == Len(Cut(Sorted))
    <2>1. /\ list \in Threads /\ count = n /\ count # 0 /\ todo = <<>>
          /\ truncated = (n > MaxThreadReplies + 1)
          /\ root \in DOMAIN list /\ \A i \in DOMAIN list : list[root].at <= list[i].at
      BY DEF Done, SnapshotInv, OrderInv
    <2>2. /\ n \in Nat \ {0} /\ DOMAIN list = 1..n
          /\ \A i \in DOMAIN list : i \in Nat /\ list[i].at \in Nat
      BY <2>1, ThreadFacts
    <2>3. /\ Left \in Nat /\ c = n - Left /\ c >= 1
          /\ \A i \in 1..c : Place(i) \in DOMAIN list /\ Cut(Sorted)[i] = Sorted[Place(i)]
      BY <2>1, CutFacts
    <2>4. Len(messages) = c /\ DOMAIN messages = 1..c
      <3>1. /\ Len(messages) + Len(todo) = c
            /\ messages \in Seq([id: DOMAIN list, name: Authors \cup {NoName}])
        BY <2>1 DEF SnapshotInv, OrderInv
      <3> QED BY <2>1, <3>1, LenProperties, EmptySeq
    <2>5. \A i \in 1..c : messages[i].id = Sorted[Place(i)] /\ messages[i].id \in DOMAIN list
      <3>1. \A i \in 1..c : messages[i].id = Cut(Sorted)[i]
        BY <2>1, <2>4 DEF SnapshotInv, OrderInv
      <3> QED BY <2>1, <2>3, <3>1, SortedFacts
    <2>6. MaxThreadReplies \in Nat
      BY ThreadAssumption
    <2>7. Left = IF n > MaxThreadReplies + 1 THEN n - (MaxThreadReplies + 1) ELSE 0
      BY DEF Left
    <2> HIDE DEF n, c
    <2>8. Len(messages) = Min({count, MaxThreadReplies + 1})
      <3>1. Min({n, MaxThreadReplies + 1}) = IF n <= MaxThreadReplies + 1 THEN n ELSE MaxThreadReplies + 1
        BY <2>2, <2>6, MinOfTwo
      <3> QED BY <2>1, <2>2, <2>3, <2>4, <2>6, <2>7, <3>1
    <2>9. truncated <=> Len(messages) < count
      <3>1. Len(messages) < count <=> n > MaxThreadReplies + 1
        BY <2>1, <2>2, <2>3, <2>4, <2>6, <2>7
      <3>2. truncated = (n > MaxThreadReplies + 1)
        BY <2>1
      <3> QED BY <3>1, <3>2, Zenon
    <2>10. ASSUME NEW i \in 1..c, NEW j \in 1..c, i < j
           PROVE  /\ list[messages[i].id].at <= list[messages[j].id].at
                  /\ messages[i].id # messages[j].id
      <3>1. Place(i) < Place(j) /\ Place(i) \in DOMAIN list /\ Place(j) \in DOMAIN list
        BY <2>3, <2>10 DEF Place
      <3>2. Before(messages[i].id, messages[j].id)
        BY <2>1, <2>5, <3>1, SortedFacts
      <3> QED BY <2>1, <2>5, <3>2, BeforeIsOrder
    <2> DEFINE first == messages[1].id
    <2>11. 1 \in 1..c /\ first \in DOMAIN list /\ first = Sorted[1]
      BY <2>3, <2>5 DEF Place
    <2>12. \A i \in DOMAIN list : i # first => Before(first, i)
      <3>1. ASSUME NEW i \in DOMAIN list, i # first PROVE Before(first, i)
        <4>1. Rank(i) \in DOMAIN list /\ Sorted[Rank(i)] = i
          BY <2>1, RanksFollow, SortedFacts
        <4>2. 1 \in DOMAIN list /\ 1 < Rank(i)
          BY <2>2, <2>11, <3>1, <4>1
        <4> QED BY <2>1, <2>11, <4>1, <4>2, SortedFacts
      <3> QED BY <3>1
    <2>13. \A i \in DOMAIN list : list[first].at <= list[i].at
      BY <2>1, <2>2, <2>11, <2>12, BeforeIsOrder
    <2>14. first = root \/ \E i \in DOMAIN list \ {root} : list[i].at = list[root].at
      BY <2>1, <2>2, <2>11, <2>13
    <2>15. ASSUME NEW i \in 1..c, i > 1 PROVE Later(messages[i].id) \subseteq Kept
      <3> DEFINE id == messages[i].id
      <3>1. SUFFICES ASSUME NEW j \in DOMAIN list, list[j].at > list[id].at PROVE j \in Kept
        BY DEF Later
      <3>2. /\ id = Sorted[Place(i)] /\ id \in DOMAIN list /\ Place(i) \in DOMAIN list
            /\ Place(i) = i + Left
        BY <2>3, <2>5, <2>15 DEF Place
      <3>3. Rank(j) \in DOMAIN list /\ Sorted[Rank(j)] = j
        BY <2>1, RanksFollow, SortedFacts
      <3>4. ~Before(j, id) /\ j # id
        BY <2>2, <3>1, <3>2 DEF Before
      <3>5. Rank(j) > Place(i)
        <4>1. ~(Rank(j) < Place(i))
          BY <2>1, <3>2, <3>3, <3>4, SortedFacts
        <4>2. Rank(j) # Place(i)
          BY <3>2, <3>3, <3>4
        <4> QED BY <2>2, <3>2, <3>3, <4>1, <4>2
      <3>6. /\ Rank(j) - Left \in 1..c /\ Rank(j) - Left # 1
            /\ Place(Rank(j) - Left) = Rank(j)
        BY <2>2, <2>3, <2>15, <3>2, <3>3, <3>5 DEF Place
      <3>7. messages[Rank(j) - Left].id = j
        BY <2>5, <3>3, <3>6
      <3> QED BY <2>4, <3>6, <3>7 DEF Kept
    <2> QED BY <2>1, <2>4, <2>8, <2>9, <2>10, <2>13, <2>14, <2>15 DEF KeepsTheRecent, n
  <1> QED BY <1>1, SnapshotHolds, PTL

(* No author is looked up twice, and each has one name throughout. *)
THEOREM NamesAlwaysAgree == DeliverySpec => []NamesAgree
  <1>1. SnapshotInv => NamesAgree
    <2> SUFFICES ASSUME SnapshotInv PROVE NamesAgree
      OBVIOUS
    <2>1. \A a \in Authors : asked[a] <= 1
      BY DEF SnapshotInv, CacheInv
    <2> QED BY <2>1 DEF SnapshotInv, CacheInv, NamesAgree
  <1> QED BY <1>1, SnapshotHolds, PTL

(***************************************************************************)
(* Sequences and their subsequences.                                       *)
(***************************************************************************)

LEMMA RangeFacts ==
  ASSUME NEW S, NEW s \in Seq(S)
  PROVE  /\ DOMAIN s = 1..Len(s) /\ Len(s) \in Nat
         /\ Range(s) \subseteq S
         /\ \A i \in DOMAIN s : s[i] \in S /\ s[i] \in Range(s)
         /\ \A x \in Range(s) : \E i \in DOMAIN s : s[i] = x
         /\ s = <<>> <=> Len(s) = 0
         /\ s = <<>> <=> Range(s) = {}
  <1>1. DOMAIN s = 1..Len(s) /\ Len(s) \in Nat /\ \A i \in DOMAIN s : s[i] \in S
    OBVIOUS
  <1>2. s = <<>> <=> Len(s) = 0
    BY EmptySeq
  <1>3. s # <<>> => 1 \in DOMAIN s
    BY <1>1, <1>2
  <1>4. s = <<>> => DOMAIN s = {}
    BY <1>1, <1>2
  <1> QED BY <1>1, <1>2, <1>3, <1>4 DEF Range

LEMMA EmptyRange == Range(<<>>) = {} /\ DOMAIN <<>> = {} /\ Len(<<>>) = 0
  BY DEF Range

\* prependToIndex puts an id before the others.
LEMMA PrependFacts ==
  ASSUME NEW S, NEW s \in Seq(S), NEW x \in S
  PROVE  /\ <<x>> \o s \in Seq(S) /\ Len(<<x>> \o s) = Len(s) + 1
         /\ (<<x>> \o s)[1] = x
         /\ \A i \in 1..Len(s) : (<<x>> \o s)[i + 1] = s[i]
         /\ \A i \in 2..(Len(s) + 1) : (<<x>> \o s)[i] = s[i - 1]
         /\ Range(<<x>> \o s) = Range(s) \cup {x}
  <1> DEFINE one == <<x>>
  <1>1. one \in Seq(S) /\ Len(one) = 1 /\ one[1] = x
    OBVIOUS
  <1> HIDE DEF one
  <1>2. /\ one \o s \in Seq(S) /\ Len(one \o s) = Len(one) + Len(s)
        /\ \A i \in 1..(Len(one) + Len(s)) :
             (one \o s)[i] = IF i <= Len(one) THEN one[i] ELSE s[i - Len(one)]
    BY <1>1, ConcatProperties
  <1>3. PICK t \in Seq(S) : t = one \o s
    BY <1>2
  <1>4. /\ Len(t) = Len(s) + 1 /\ Len(s) \in Nat /\ t[1] = x
        /\ \A i \in 1..Len(s) : t[i + 1] = s[i]
        /\ \A i \in 2..(Len(s) + 1) : t[i] = s[i - 1]
    BY <1>1, <1>2, <1>3
  <1>5. Range(t) \subseteq Range(s) \cup {x}
    <2>1. ASSUME NEW i \in 1..Len(t) PROVE t[i] = x \/ t[i] \in Range(s)
      <3>1. CASE i = 1
        BY <1>4, <3>1
      <3>2. CASE i # 1
        <4>1. i \in 2..(Len(s) + 1) /\ i - 1 \in DOMAIN s
          BY <1>4, <3>2
        <4> QED BY <1>4, <4>1 DEF Range
      <3> QED BY <3>1, <3>2
    <2> QED BY <2>1 DEF Range
  <1>6. Range(s) \cup {x} \subseteq Range(t)
    <2>1. \A i \in DOMAIN s : i + 1 \in DOMAIN t /\ t[i + 1] = s[i]
      BY <1>4
    <2>2. 1 \in DOMAIN t
      BY <1>4
    <2>3. x \in Range(t)
      BY <1>4, <2>2, Zenon DEF Range
    <2>4. \A i \in DOMAIN s : s[i] \in Range(t)
      BY <2>1, Zenon DEF Range
    <2>5. Range(s) \subseteq Range(t)
      BY <2>4, Zenon DEF Range
    <2> QED BY <2>3, <2>5
  <1> QED BY <1>3, <1>4, <1>5, <1>6 DEF one

LEMMA NewestFacts ==
  ASSUME NEW S, NEW s \in Seq(S), NEW n \in Nat
  PROVE  /\ Newest(s, n) \in Seq(S)
         /\ Len(Newest(s, n)) = IF n < Len(s) THEN n ELSE Len(s)
         /\ \A i \in 1..Len(Newest(s, n)) : Newest(s, n)[i] = s[i]
         /\ Range(Newest(s, n)) \subseteq Range(s)
         /\ \A i \in DOMAIN s : i <= n => s[i] \in Range(Newest(s, n))
  <1> DEFINE c == IF n < Len(s) THEN n ELSE Len(s)
  <1>1. c \in Nat /\ c <= Len(s) /\ c <= n /\ 1 \in Nat /\ Len(s) \in Nat
    OBVIOUS
  <1>2. PICK t : t = Newest(s, n)
    OBVIOUS
  <1>3. t = [i \in 1..c |-> s[i]]
    BY <1>1, <1>2 DEF Newest
  <1>4. \A i \in 1..c : i \in DOMAIN s /\ s[i] \in S
    BY <1>1
  <1>5. t \in Seq(S) /\ Len(t) = c /\ DOMAIN t = 1..c /\ \A i \in 1..c : t[i] = s[i]
    BY <1>1, <1>3, <1>4
  <1>6. Range(t) \subseteq Range(s)
    BY <1>4, <1>5 DEF Range
  <1>7. \A i \in DOMAIN s : i <= n => i \in 1..c
    BY <1>1
  <1> QED BY <1>2, <1>5, <1>6, <1>7 DEF Range

LEMMA SubRange ==
  ASSUME NEW s, NEW l, Subsequence(s, l)
  PROVE  Range(s) \subseteq Range(l)
  BY DEF Subsequence, Range

LEMMA SubEmpty == ASSUME NEW S, NEW l \in Seq(S) PROVE Subsequence(<<>>, l)
  <1> DEFINE f == [i \in DOMAIN <<>> |-> 1]
  <1>1. DOMAIN <<>> = {}
    OBVIOUS
  <1>2. f \in [DOMAIN <<>> -> DOMAIN l]
    BY <1>1
  <1> QED BY <1>1, <1>2 DEF Subsequence

LEMMA SubTrans ==
  ASSUME NEW S, NEW s \in Seq(S), NEW t \in Seq(S), NEW l \in Seq(S),
         Subsequence(s, t), Subsequence(t, l)
  PROVE  Subsequence(s, l)
  <1>1. PICK f \in [DOMAIN s -> DOMAIN t] :
           /\ \A i \in DOMAIN s : s[i] = t[f[i]]
           /\ \A i, j \in DOMAIN s : i < j => f[i] < f[j]
    BY DEF Subsequence
  <1>2. PICK g \in [DOMAIN t -> DOMAIN l] :
           /\ \A i \in DOMAIN t : t[i] = l[g[i]]
           /\ \A i, j \in DOMAIN t : i < j => g[i] < g[j]
    BY DEF Subsequence
  <1> DEFINE h == [i \in DOMAIN s |-> g[f[i]]]
  <1>3. h \in [DOMAIN s -> DOMAIN l]
    BY <1>1, <1>2
  <1>4. /\ \A i \in DOMAIN s : s[i] = l[h[i]]
        /\ \A i, j \in DOMAIN s : i < j => h[i] < h[j]
    BY <1>1, <1>2
  <1> QED BY <1>3, <1>4 DEF Subsequence

\* Places given by a rising function make a subsequence.
LEMMA SubPrefix ==
  ASSUME NEW S, NEW s \in Seq(S), NEW t \in Seq(S), NEW d \in Nat, Len(t) + d <= Len(s),
         \A i \in 1..Len(t) : t[i] = s[i + d]
  PROVE  Subsequence(t, s)
  <1> DEFINE f == [i \in DOMAIN t |-> i + d]
  <1>1. DOMAIN t = 1..Len(t) /\ Len(t) \in Nat /\ DOMAIN s = 1..Len(s) /\ Len(s) \in Nat
    OBVIOUS
  <1>2. f \in [DOMAIN t -> DOMAIN s]
    BY <1>1
  <1>3. \A i \in DOMAIN t : t[i] = s[f[i]]
    BY <1>1
  <1>4. \A i, j \in DOMAIN t : i < j => f[i] < f[j]
    BY <1>1
  <1> QED BY <1>2, <1>3, <1>4 DEF Subsequence

LEMMA SubNewest ==
  ASSUME NEW S, NEW s \in Seq(S), NEW n \in Nat
  PROVE  Subsequence(Newest(s, n), s)
  <1>1. PICK t \in Seq(S) : t = Newest(s, n)
    BY NewestFacts
  <1>2. Len(t) <= Len(s) /\ \A i \in 1..Len(t) : t[i] = s[i]
    BY <1>1, NewestFacts
  <1>3. Len(t) + 0 <= Len(s) /\ \A i \in 1..Len(t) : t[i] = s[i + 0]
    BY <1>2
  <1>4. Subsequence(t, s)
    BY <1>3, SubPrefix
  <1> QED BY <1>1, <1>4

LEMMA SubTail ==
  ASSUME NEW S, NEW s \in Seq(S), s # <<>>
  PROVE  /\ Tail(s) \in Seq(S) /\ Len(Tail(s)) = Len(s) - 1
         /\ \A i \in 1..(Len(s) - 1) : Tail(s)[i] = s[i + 1]
         /\ Head(s) = s[1] /\ Head(s) \in S /\ Len(s) >= 1
         /\ Range(s) = Range(Tail(s)) \cup {Head(s)}
         /\ Subsequence(Tail(s), s)
  <1>0. Tail(s) \in Seq(S)
    BY HeadTailProperties
  <1>1. PICK t \in Seq(S) : t = Tail(s)
    BY <1>0, Zenon
  <1>2. /\ Len(t) = Len(s) - 1 /\ \A i \in 1..Len(t) : t[i] = s[i + 1]
        /\ Len(s) \in Nat /\ Len(s) >= 1 /\ Head(s) = s[1] /\ s[1] \in S
    BY <1>1
  <1>3. Len(t) + 1 <= Len(s)
    BY <1>2
  <1>4. Subsequence(t, s)
    BY <1>2, <1>3, SubPrefix
  <1>5. Range(s) \subseteq Range(t) \cup {s[1]}
    <2>1. ASSUME NEW i \in 1..Len(s) PROVE s[i] = s[1] \/ s[i] \in Range(t)
      <3>1. CASE i # 1
        <4>1. i - 1 \in 1..Len(t) /\ t[i - 1] = s[i] /\ DOMAIN t = 1..Len(t)
          BY <1>2, <3>1
        <4> QED BY <4>1 DEF Range
      <3> QED BY <3>1
    <2> QED BY <2>1 DEF Range
  <1>6. Range(t) \cup {s[1]} \subseteq Range(s)
    BY <1>2, <1>4, SubRange DEF Range
  <1> QED BY <1>1, <1>2, <1>4, <1>5, <1>6

LEMMA SubGrow ==
  ASSUME NEW S, NEW s \in Seq(S), NEW l \in Seq(S), NEW x \in S, Subsequence(s, l)
  PROVE  Subsequence(s, <<x>> \o l)
  <1>1. PICK t \in Seq(S) : t = <<x>> \o l
    BY PrependFacts
  <1>2. Len(l) + 1 <= Len(t) /\ \A i \in 1..Len(l) : l[i] = t[i + 1]
    BY <1>1, PrependFacts
  <1>3. Subsequence(l, t)
    BY <1>2, SubPrefix
  <1>4. Subsequence(s, t)
    BY <1>3, SubTrans
  <1> QED BY <1>1, <1>4

LEMMA SubPrepend ==
  ASSUME NEW S, NEW s \in Seq(S), NEW l \in Seq(S), NEW x \in S, Subsequence(s, l)
  PROVE  Subsequence(<<x>> \o s, <<x>> \o l)
  <1>1. PICK f \in [DOMAIN s -> DOMAIN l] :
           /\ \A i \in DOMAIN s : s[i] = l[f[i]]
           /\ \A i, j \in DOMAIN s : i < j => f[i] < f[j]
    BY DEF Subsequence
  <1>2. PICK t \in Seq(S) : t = <<x>> \o s
    BY PrependFacts
  <1>3. PICK m \in Seq(S) : m = <<x>> \o l
    BY PrependFacts
  <1>4. /\ Len(t) = Len(s) + 1 /\ t[1] = x /\ \A i \in 2..(Len(s) + 1) : t[i] = s[i - 1]
        /\ DOMAIN t = 1..Len(t) /\ Len(s) \in Nat /\ DOMAIN s = 1..Len(s)
    BY <1>2, PrependFacts
  <1>5. /\ Len(m) = Len(l) + 1 /\ m[1] = x /\ \A i \in 1..Len(l) : m[i + 1] = l[i]
        /\ DOMAIN m = 1..Len(m) /\ Len(l) \in Nat /\ DOMAIN l = 1..Len(l)
    BY <1>3, PrependFacts
  <1> DEFINE g == [i \in DOMAIN t |-> IF i = 1 THEN 1 ELSE f[i - 1] + 1]
  <1>6. \A i \in DOMAIN t : i # 1 => i - 1 \in DOMAIN s /\ i \in 2..(Len(s) + 1)
    BY <1>4
  <1>7. \A i \in DOMAIN s : f[i] \in 1..Len(l) /\ f[i] + 1 \in DOMAIN m
    BY <1>1, <1>5
  <1>8. g \in [DOMAIN t -> DOMAIN m]
    BY <1>5, <1>6, <1>7
  <1>9. \A i \in DOMAIN t : t[i] = m[g[i]]
    BY <1>1, <1>4, <1>5, <1>6, <1>7
  <1>10. ASSUME NEW i \in DOMAIN t, NEW j \in DOMAIN t, i < j PROVE g[i] < g[j]
    <2>1. i \in Nat /\ j \in Nat /\ j # 1 /\ j - 1 \in DOMAIN s /\ f[j - 1] \in Nat /\ f[j - 1] >= 1
      BY <1>4, <1>6, <1>7, <1>10
    <2>2. CASE i = 1
      BY <2>1, <2>2
    <2>3. CASE i # 1
      <3>a. i - 1 \in DOMAIN s /\ i - 1 < j - 1
        BY <1>6, <1>10, <2>1, <2>3
      <3>1. i - 1 \in DOMAIN s /\ i - 1 < j - 1 /\ f[i - 1] \in Nat
        BY <1>7, <3>a
      <3>2. f[i - 1] < f[j - 1]
        BY <1>1, <2>1, <3>1
      <3> QED BY <2>1, <2>3, <3>1, <3>2
    <2> QED BY <2>2, <2>3
  <1> HIDE DEF g
  <1>11. Subsequence(t, m)
    BY <1>8, <1>9, <1>10 DEF Subsequence
  <1> QED BY <1>2, <1>3, <1>11
\* An id that is once in l is no further in s than in l.
LEMMA SubPlace ==
  ASSUME NEW S, NEW s \in Seq(S), NEW l \in Seq(S), Subsequence(s, l),
         NEW n \in DOMAIN l, l[n] \in Range(s), \A m \in DOMAIN l : l[m] = l[n] => m = n
  PROVE  \E i \in DOMAIN s : i <= n /\ s[i] = l[n]
  <1>1. PICK f \in [DOMAIN s -> DOMAIN l] :
           /\ \A i \in DOMAIN s : s[i] = l[f[i]]
           /\ \A i, j \in DOMAIN s : i < j => f[i] < f[j]
    BY DEF Subsequence
  <1>2. PICK i \in DOMAIN s : s[i] = l[n]
    BY DEF Range
  <1>3. f[i] = n
    BY <1>1, <1>2
  <1>4. /\ DOMAIN s = 1..Len(s) /\ Len(s) \in Nat /\ DOMAIN l = 1..Len(l) /\ Len(l) \in Nat
        /\ i \in Nat /\ n \in Nat
    OBVIOUS
  <1> DEFINE g == [j \in 1..i |-> f[j]]
  <1>5. \A j \in 1..i : j \in DOMAIN s
    BY <1>2, <1>4
  <1>6. \A j \in 1..i : f[j] \in 1..n
    <2>1. ASSUME NEW j \in 1..i PROVE f[j] \in 1..n
      <3>1. f[j] \in 1..Len(l)
        BY <1>1, <1>4, <1>5
      <3>2. j = i \/ f[j] < f[i]
        BY <1>1, <1>2, <1>4, <1>5
      <3> QED BY <1>3, <1>4, <3>1, <3>2
    <2> QED BY <2>1
  <1>7. ASSUME NEW j \in 1..i, NEW key \in 1..i, f[j] = f[key] PROVE j = key
    <2>1. j \in DOMAIN s /\ key \in DOMAIN s /\ f[j] \in Nat /\ f[key] \in Nat /\ j \in Nat /\ key \in Nat
      BY <1>4, <1>5, <1>6
    <2>2. ~(f[j] < f[key]) /\ ~(f[key] < f[j])
      BY <1>7, <2>1
    <2>3. ~(j < key) /\ ~(key < j)
      BY <1>1, <2>1, <2>2
    <2> QED BY <2>1, <2>3
  <1>8. g \in Injection(1..i, 1..n)
    <2>1. g \in [1..i -> 1..n]
      BY <1>6
    <2>2. \A j, key \in 1..i : g[j] = g[key] => j = key
      BY <1>7
    <2> QED BY <2>1, <2>2 DEF Injection, IsInjective
  <1>9. IsFiniteSet(1..n) /\ Cardinality(1..n) = n /\ Cardinality(1..i) = i /\ IsFiniteSet(1..i)
    BY <1>4, FS_Interval
  <1>10. i <= n
    BY <1>8, <1>9, FS_Injection
  <1> QED BY <1>2, <1>10

\* The numbers of S up to m are the rank of m.
Upto(S, m) == {j \in S : j <= m}

LEMMA Ranks ==
  ASSUME NEW S, S \subseteq Nat, IsFiniteSet(S)
  PROVE  /\ Cardinality(S) \in Nat
         /\ \A m \in S : Cardinality(Upto(S, m)) \in 1..Cardinality(S)
         /\ \A m, key \in S : m < key => Cardinality(Upto(S, m)) < Cardinality(Upto(S, key))
  <1>1. PICK C \in Nat : C = Cardinality(S)
    BY FS_CardinalityType
  <1>2. ASSUME NEW m \in S
        PROVE  Cardinality(Upto(S, m)) \in 1..C /\ IsFiniteSet(Upto(S, m))
    <2>1. Upto(S, m) \subseteq S /\ m \in Upto(S, m)
      BY DEF Upto
    <2>2. PICK U : U = Upto(S, m)
      OBVIOUS
    <2>3. IsFiniteSet(U) /\ Cardinality(U) \in Nat /\ Cardinality(U) <= C
      BY <1>1, <2>1, <2>2, FS_Subset, FS_CardinalityType
    <2>4. Cardinality(U) # 0
      BY <2>1, <2>2, <2>3, FS_EmptySet
    <2> QED BY <1>1, <2>2, <2>3, <2>4
  <1>3. ASSUME NEW m \in S, NEW key \in S, m < key
        PROVE  Cardinality(Upto(S, m)) < Cardinality(Upto(S, key))
    <2>1. Upto(S, m) \subseteq Upto(S, key) /\ key \in Upto(S, key) /\ key \notin Upto(S, m)
      <3>1. m \in Nat /\ key \in Nat /\ ~(key <= m) /\ key <= key
        BY <1>3
      <3>2. \A j \in S : j <= m => j <= key
        BY <1>3, <3>1
      <3> QED BY <3>1, <3>2 DEF Upto
    <2>2. PICK U, V : U = Upto(S, m) /\ V = Upto(S, key)
      OBVIOUS
    <2>3. IsFiniteSet(V) /\ Cardinality(V) \in 1..C /\ Cardinality(U) \in 1..C
      BY <1>2, <2>2
    <2>4. U \subseteq V /\ U # V
      BY <2>1, <2>2, Zenon
    <2>5. Cardinality(U) <= Cardinality(V) /\ (Cardinality(U) = Cardinality(V) => U = V)
      BY <2>3, <2>4, FS_Subset
    <2>6. PICK u \in 1..C, v \in 1..C : u = Cardinality(U) /\ v = Cardinality(V)
      BY <2>3
    <2>7. u <= v /\ u # v
      BY <2>4, <2>5, <2>6
    <2> QED BY <1>1, <2>2, <2>6, <2>7
  <1> QED BY <1>1, <1>2, <1>3

\* Without keeps the order, by counting the places before one.
LEMMA WithoutFacts ==
  ASSUME NEW S, NEW s \in Seq(S), NEW D
  PROVE  /\ Without(s, D) \in Seq(S) /\ Len(Without(s, D)) <= Len(s)
         /\ Range(Without(s, D)) = Range(s) \ D
         /\ Subsequence(Without(s, D), s)
  <1> DEFINE kept == {n \in DOMAIN s : s[n] \notin D}
             C == Cardinality(kept)
             Nth(n) == CHOOSE m \in kept : Cardinality(Upto(kept, m)) = n
             t == [n \in 1..C |-> s[Nth(n)]]
  <1>1. Without(s, D) = t
    BY DEF Without, Upto
  <1>2. /\ DOMAIN s = 1..Len(s) /\ Len(s) \in Nat /\ kept \subseteq 1..Len(s) /\ kept \subseteq Nat
        /\ \A m \in kept : s[m] \in S
    OBVIOUS
  <1>3. IsFiniteSet(1..Len(s)) /\ Cardinality(1..Len(s)) = Len(s)
    BY <1>2, FS_Interval
  <1>4. IsFiniteSet(kept) /\ C \in Nat /\ C <= Len(s)
    BY <1>2, <1>3, FS_Subset, FS_CardinalityType
  <1>5. \A m \in kept : Cardinality(Upto(kept, m)) \in 1..C
    BY <1>2, <1>4, Ranks
  <1>6. \A m, key \in kept : m < key => Cardinality(Upto(kept, m)) < Cardinality(Upto(kept, key))
    BY <1>2, <1>4, Ranks
  <1> DEFINE rank == [m \in kept |-> Cardinality(Upto(kept, m))]
  <1>7. rank \in Injection(kept, 1..C)
    <2>1. rank \in [kept -> 1..C]
      BY <1>5
    <2>2. ASSUME NEW m \in kept, NEW key \in kept, rank[m] = rank[key] PROVE m = key
      <3>a. Cardinality(Upto(kept, m)) \in 1..C
        BY <1>5
      <3>1. Cardinality(Upto(kept, m)) = Cardinality(Upto(kept, key)) /\ Cardinality(Upto(kept, m)) \in Nat
        BY <2>2, <3>a
      <3>2. ~(m < key) /\ ~(key < m)
        BY <1>5, <1>6, <3>1
      <3> QED BY <1>2, <3>2
    <2> QED BY <2>1, <2>2 DEF Injection, IsInjective
  <1>8. IsFiniteSet(1..C) /\ Cardinality(1..C) = C
    BY <1>4, FS_Interval
  <1> HIDE DEF C
  <1>9. rank \in Surjection(kept, 1..C)
    <2>1. Cardinality(kept) = Cardinality(1..C)
      BY <1>8 DEF C
    <2> HIDE DEF kept, rank
    <2> QED BY <1>4, <1>7, <1>8, <2>1, FS_Injection
  <1>10. \A n \in 1..C : \E m \in kept : Cardinality(Upto(kept, m)) = n
    BY <1>9 DEF Surjection
  <1>11. \A n \in 1..C : Nth(n) \in kept /\ Cardinality(Upto(kept, Nth(n))) = n
    BY <1>10
  <1>12. \A m \in kept : \E n \in 1..C : Nth(n) = m
    <2>1. ASSUME NEW m \in kept PROVE Nth(Cardinality(Upto(kept, m))) = m
      <3>1. Cardinality(Upto(kept, m)) \in 1..C
        BY <1>5
      <3>2. PICK key \in kept : key = Nth(Cardinality(Upto(kept, m)))
        BY <1>11, <3>1
      <3>3. Cardinality(Upto(kept, key)) = Cardinality(Upto(kept, m))
        BY <1>11, <3>1, <3>2
      <3>4. rank[key] = rank[m]
        BY <3>3
      <3>5. key = m
        BY <1>7, <3>4 DEF Injection, IsInjective
      <3> QED BY <3>2, <3>5
    <2> QED BY <1>5, <2>1
  <1> HIDE DEF Nth, rank
  <1>13. t \in Seq(S) /\ Len(t) = C /\ DOMAIN t = 1..C
    <2>1. t \in [1..C -> S]
      BY <1>2, <1>11
    <2>2. C \in Nat
      BY <1>4 DEF C
    <2> QED BY <2>1, <2>2
  <1>14. Range(t) = Range(s) \ D
    <2>1. \A n \in 1..C : s[Nth(n)] \in Range(s) \ D
      BY <1>11 DEF Range
    <2>2. \A m \in DOMAIN s : s[m] \notin D => \E n \in 1..C : t[n] = s[m]
      BY <1>12
    <2> QED BY <1>13, <2>1, <2>2 DEF Range
  <1>15. Subsequence(t, s)
    <2> DEFINE f == [n \in DOMAIN t |-> Nth(n)]
    <2>1. f \in [DOMAIN t -> DOMAIN s]
      BY <1>11, <1>13
    <2>2. \A n \in DOMAIN t : t[n] = s[f[n]]
      BY <1>13
    <2>3. ASSUME NEW m \in DOMAIN t, NEW n \in DOMAIN t, m < n PROVE f[m] < f[n]
      <3>1. PICK a \in kept, b \in kept : a = Nth(m) /\ b = Nth(n)
        BY <1>11, <1>13
      <3>2. Cardinality(Upto(kept, a)) = m /\ Cardinality(Upto(kept, b)) = n
        BY <1>11, <1>13, <3>1
      <3>3. m \in Nat /\ n \in Nat /\ ~(n < m)
        BY <1>13, <2>3
      <3>4. ~(b < a) /\ a # b
        BY <1>6, <2>3, <3>2, <3>3
      <3> QED BY <1>2, <3>1, <3>4
    <2> HIDE DEF f, t
    <2> QED BY <2>1, <2>2, <2>3 DEF Subsequence
  <1>16. C <= Len(s)
    BY <1>4 DEF C
  <1> HIDE DEF t
  <1> QED BY <1>1, <1>13, <1>14, <1>15, <1>16

(***************************************************************************)
(* What the steps do to a process.                                         *)
(***************************************************************************)

data == <<rec, idx, life, log, saves, wiped, clean>>

\* Only p moves.
Only(p) == /\ run' \in [Procs -> RunStates]
           /\ \A q \in Procs : q # p => run'[q] = run[q]

\* p has nothing more to do; as in Release and Return.
Ends(p) ==
    /\ run[p].pc # "idle" /\ run' = [run EXCEPT ![p] = Idle]
    /\ Release(p) /\ UNCHANGED <<data, purges>>

\* p goes on without a write.
Passes(p) ==
    /\ \/ run[p].pc \in {"own", "own set"} /\ Goto(p, "all")
       \/ run[p].pc \in {"prune", "prune set"} /\ Goto(p, "answer")
       \/ run[p].pc = "strip" /\ idx[All] = <<>> /\ lock = Nobody /\ Goto(p, "drop")
    /\ Release(p) /\ UNCHANGED <<data, purges>>

EntersWith(p, key, at) ==
    /\ lock = Nobody /\ lock' = p
    /\ run' = [run EXCEPT ![p].pc = at, ![p].ids = idx[key]]
    /\ UNCHANGED <<data, purges>>

Enters(p) ==
    \/ run[p].pc = "own" /\ EntersWith(p, AutomationOf[run[p].id], "own set")
    \/ run[p].pc = "all" /\ EntersWith(p, All, "all set")
    \/ run[p].pc = "strip" /\ EntersWith(p, All, "strip set")
    \/ run[p].pc = "prune" /\ EntersWith(p, run[p].key, "prune set")

LEMMA IdleFacts ==
  /\ Idle \in RunStates /\ Idle.pc = "idle" /\ Idle.id = Nobody /\ Idle.key = All
  /\ Idle.ids = <<>> /\ Idle.drop = {} /\ Idle.out = <<>> /\ Idle.want = {} /\ Idle.alone = FALSE
  <1>1. <<>> \in Seq(Ids) /\ {} \in SUBSET Ids /\ FALSE \in BOOLEAN /\ All \in Keys
    BY DEF Keys
  <1>2. "idle" \in {"idle", "own", "own set", "all", "all set", "wipe", "strip", "strip set", "drop",
           "get", "prune", "prune set", "answer"}
    OBVIOUS
  <1>3. Idle \in RunStates
    BY <1>1, <1>2, Zenon DEF Idle, RunStates
  <1> QED BY <1>3 DEF Idle

LEMMA NextIs ==
  ASSUME StateInv, HistoryNext
  PROVE  \/ \E p \in Procs :
               \/ Ends(p) \/ Passes(p) \/ Enters(p)
               \/ \E id \in Ids : SaveRecord(p, id)
               \/ \E a \in Automations : PurgeRead(p, a)
               \/ \E key \in Keys : ListRead(p, key)
               \/ PrependWrite(p) \/ PurgeRecord(p) \/ PurgeStripWrite(p) \/ PurgeIndex(p)
               \/ ListGet(p) \/ PruneWrite(p)
         \/ Expire
  <1>1. ASSUME NEW p \in Procs, Answer(p) PROVE Ends(p)
    <2>1. lock # p
      BY <1>1 DEF Answer, StateInv, Locking
    <2> QED BY <1>1, <2>1 DEF Answer, Ends, Return, Release, data, bounds
  <1>2. ASSUME NEW p \in Procs, PrependRead(p) PROVE Enters(p)
    BY <1>2 DEF PrependRead, Enter, Enters, EntersWith, data, bounds
  <1>3. ASSUME NEW p \in Procs, PurgeStripRead(p) PROVE Enters(p) \/ Passes(p)
    BY <1>3 DEF PurgeStripRead, Enter, Leave, Enters, EntersWith, Passes, Release, data, bounds
  <1>4. ASSUME NEW p \in Procs, PruneRead(p) PROVE Enters(p) \/ Passes(p)
    BY <1>4 DEF PruneRead, Enter, Leave, Enters, EntersWith, Passes, Release, data, bounds
  <1>5. ASSUME NEW p \in Procs, Crash(p) PROVE Ends(p)
    BY <1>5 DEF Crash, Ends, Return, data
  <1>6. ASSUME NEW p \in Procs, Fail(p) PROVE Ends(p) \/ Passes(p)
    <2>1. CASE run[p].pc \in {"own", "own set"}
      BY <1>6, <2>1 DEF Fail, Passes, data
    <2>2. CASE run[p].pc \in {"prune", "prune set"}
      BY <1>6, <2>2 DEF Fail, Passes, data
    <2>3. CASE run[p].pc \notin {"own", "own set", "prune", "prune set"}
      BY <1>6, <2>3 DEF Fail, Ends, Return, data
    <2> QED BY <2>1, <2>2, <2>3
  <1> QED BY <1>1, <1>2, <1>3, <1>4, <1>5, <1>6 DEF HistoryNext, Steps

\* The process after a step in which it goes on with other ids.
LEMMA SetRun ==
  ASSUME StateInv, NEW p \in Procs, NEW at, NEW s \in Seq(Ids),
         at \in {"all", "answer", "drop", "own set", "all set", "strip set", "prune set", "strip", "wipe"},
         run' = [run EXCEPT ![p].pc = at, ![p].ids = s]
  PROVE  /\ Only(p) /\ run'[p].pc = at /\ run'[p].ids = s
         /\ run'[p].id = run[p].id /\ run'[p].key = run[p].key /\ run'[p].drop = run[p].drop
         /\ run'[p].out = run[p].out /\ run'[p].want = run[p].want /\ run'[p].alone = run[p].alone
  <1> DEFINE r == [run[p] EXCEPT !.pc = at, !.ids = s]
  <1>1. run \in [Procs -> RunStates] /\ run[p] \in RunStates
    BY DEF StateInv
  <1>2. r \in RunStates /\ r.pc = at /\ r.ids = s
        /\ r.id = run[p].id /\ r.key = run[p].key /\ r.drop = run[p].drop
        /\ r.out = run[p].out /\ r.want = run[p].want /\ r.alone = run[p].alone
    BY <1>1 DEF RunStates
  <1>3. run' = [run EXCEPT ![p] = r]
    BY <1>1
  <1> HIDE DEF r
  <1> QED BY <1>1, <1>2, <1>3 DEF Only

LEMMA EndRun ==
  ASSUME StateInv, NEW p \in Procs, run' = [run EXCEPT ![p] = Idle]
  PROVE  /\ Only(p) /\ run'[p] = Idle /\ run'[p].pc = "idle" /\ run'[p].key = All
         /\ run'[p].drop = {} /\ run'[p].ids = <<>>
  BY IdleFacts DEF StateInv, Only

LEMMA GotoFacts ==
  ASSUME StateInv, NEW p \in Procs, NEW at \in {"all", "answer", "drop"}, Goto(p, at)
  PROVE  /\ Only(p) /\ run'[p].pc = at /\ run'[p].ids = <<>>
         /\ run'[p].id = run[p].id /\ run'[p].key = run[p].key /\ run'[p].drop = run[p].drop
         /\ run'[p].out = run[p].out /\ run'[p].want = run[p].want /\ run'[p].alone = run[p].alone
  <1>1. <<>> \in Seq(Ids) /\ run' = [run EXCEPT ![p].pc = at, ![p].ids = <<>>]
    BY DEF Goto
  <1> QED BY <1>1, SetRun

LEMMA EntersFacts ==
  ASSUME StateInv, NEW p \in Procs, Enters(p)
  PROVE  /\ Only(p) /\ run'[p].ids = idx[KeyOf(p)'] /\ KeyOf(p)' \in Keys
         /\ run'[p].id = run[p].id /\ run'[p].key = run[p].key /\ run'[p].drop = run[p].drop
         /\ run'[p].out = run[p].out /\ run'[p].want = run[p].want /\ run'[p].alone = run[p].alone
         /\ lock = Nobody /\ lock' = p /\ UNCHANGED <<data, purges>>
         /\ \/ run[p].pc = "own" /\ run'[p].pc = "own set" /\ KeyOf(p)' = AutomationOf[run[p].id]
            \/ run[p].pc = "all" /\ run'[p].pc = "all set" /\ KeyOf(p)' = All
            \/ run[p].pc = "strip" /\ run'[p].pc = "strip set" /\ KeyOf(p)' = All
            \/ run[p].pc = "prune" /\ run'[p].pc = "prune set" /\ KeyOf(p)' = run[p].key
  <1>1. PICK key, at : /\ EntersWith(p, key, at)
                       /\ \/ run[p].pc = "own" /\ key = AutomationOf[run[p].id] /\ at = "own set"
                          \/ run[p].pc = "all" /\ key = All /\ at = "all set"
                          \/ run[p].pc = "strip" /\ key = All /\ at = "strip set"
                          \/ run[p].pc = "prune" /\ key = run[p].key /\ at = "prune set"
    BY DEF Enters
  <1>2. key \in Keys /\ idx[key] \in Seq(Ids)
    <2>1. run[p].key \in Keys /\ All \in Keys
      BY DEF StateInv, RunStates, Keys
    <2>2. Saving(p) => AutomationOf[run[p].id] \in Keys
      BY KeysAssumption DEF StateInv, Keys
    <2> QED BY <1>1, <2>1, <2>2 DEF Saving, StateInv
  <1>3. at \in {"own set", "all set", "strip set", "prune set"}
    BY <1>1
  <1>4. /\ Only(p) /\ run'[p].pc = at /\ run'[p].ids = idx[key]
        /\ run'[p].id = run[p].id /\ run'[p].key = run[p].key /\ run'[p].drop = run[p].drop
        /\ run'[p].out = run[p].out /\ run'[p].want = run[p].want /\ run'[p].alone = run[p].alone
    <2>1. run' = [run EXCEPT ![p].pc = at, ![p].ids = idx[key]]
      BY <1>1, Zenon DEF EntersWith
    <2>2. PICK s \in Seq(Ids) : s = idx[key]
      BY <1>2, Zenon
    <2>3. at \in {"all", "answer", "drop", "own set", "all set", "strip set", "prune set", "strip", "wipe"}
      BY <1>3
    <2>4. run' = [run EXCEPT ![p].pc = at, ![p].ids = s]
      BY <2>1, <2>2, Zenon
    <2> QED BY <2>2, <2>3, <2>4, SetRun
  <1>5. KeyOf(p)' = key
    BY <1>1, <1>4 DEF KeyOf
  <1> QED BY <1>1, <1>2, <1>4, <1>5 DEF EntersWith

\* As process q was, but for a save beside its purge.
Stays(q) ==
    /\ run'[q].pc = run[q].pc /\ run'[q].id = run[q].id /\ run'[q].key = run[q].key
    /\ run'[q].ids = run[q].ids /\ run'[q].drop = run[q].drop /\ run'[q].out = run[q].out
    /\ run'[q].want = run[q].want /\ (run'[q].alone => run[q].alone)

\* p goes on with what it knows.
Keeps(p) ==
    /\ run'[p].id = run[p].id /\ run'[p].key = run[p].key /\ run'[p].drop = run[p].drop
    /\ run'[p].out = run[p].out /\ run'[p].want = run[p].want /\ run'[p].alone = run[p].alone

LEMMA OnlyStays == ASSUME NEW p, Only(p), NEW q \in Procs, q # p PROVE Stays(q)
  BY DEF Only, Stays

LEMMA PassesFacts ==
  ASSUME StateInv, NEW p \in Procs, Passes(p)
  PROVE  /\ Only(p) /\ Keeps(p) /\ run'[p].ids = <<>>
         /\ \/ run[p].pc \in {"own", "own set"} /\ run'[p].pc = "all"
            \/ run[p].pc \in {"prune", "prune set"} /\ run'[p].pc = "answer"
            \/ run[p].pc = "strip" /\ idx[All] = <<>> /\ lock = Nobody /\ run'[p].pc = "drop"
         /\ Release(p) /\ UNCHANGED <<data, purges>>
  <1>1. CASE run[p].pc \in {"own", "own set"} /\ Goto(p, "all")
    BY <1>1, GotoFacts DEF Passes, Keeps
  <1>2. CASE run[p].pc \in {"prune", "prune set"} /\ Goto(p, "answer")
    BY <1>2, GotoFacts DEF Passes, Keeps
  <1>3. CASE run[p].pc = "strip" /\ idx[All] = <<>> /\ lock = Nobody /\ Goto(p, "drop")
    BY <1>3, GotoFacts DEF Passes, Keeps
  <1> QED BY <1>1, <1>2, <1>3 DEF Passes

LEMMA SaveFacts ==
  ASSUME StateInv, NEW p \in Procs, NEW id \in Ids, SaveRecord(p, id)
  PROVE  /\ run' \in [Procs -> RunStates] /\ run[p].pc = "idle"
         /\ run'[p].pc = "own" /\ run'[p].id = id /\ run'[p].alone = FALSE
         /\ \A q \in Procs : q # p =>
               Stays(q) /\ (run'[q].alone => run[q].key # AutomationOf[id])
         /\ \A q \in Procs : Saving(q) => run[q].id # id
         /\ rec' = [rec EXCEPT ![id] = TTL] /\ saves' = [saves EXCEPT ![id] = @ + 1]
         /\ clean' = clean \ {AutomationOf[id]}
         /\ UNCHANGED <<idx, life, lock, log, wiped, purges>>
  <1> DEFINE r == [Idle EXCEPT !.pc = "own", !.id = id]
             o(q) == [run[q] EXCEPT !.alone = @ /\ run[q].key # AutomationOf[id]]
  <1>1. run \in [Procs -> RunStates]
    BY DEF StateInv
  <1>2. r \in RunStates /\ r.pc = "own" /\ r.id = id /\ r.alone = FALSE
    BY IdleFacts DEF RunStates, Idle
  <1>3. ASSUME NEW q \in Procs
        PROVE  /\ o(q) \in RunStates
               /\ o(q).pc = run[q].pc /\ o(q).id = run[q].id /\ o(q).key = run[q].key
               /\ o(q).ids = run[q].ids /\ o(q).drop = run[q].drop /\ o(q).out = run[q].out
               /\ o(q).want = run[q].want
               /\ o(q).alone = (run[q].alone /\ run[q].key # AutomationOf[id])
    <2>1. PICK b \in BOOLEAN : b = (run[q].alone /\ run[q].key # AutomationOf[id])
      BY Zenon
    <2>2. run[q] \in RunStates
      BY <1>1
    <2>3. o(q) = [run[q] EXCEPT !.alone = b]
      BY <2>1, Zenon
    <2>4. PICK c : c = [run[q] EXCEPT !.alone = b]
      BY Zenon
    <2>5. /\ c \in RunStates
          /\ c.pc = run[q].pc /\ c.id = run[q].id /\ c.key = run[q].key
          /\ c.ids = run[q].ids /\ c.drop = run[q].drop /\ c.out = run[q].out
          /\ c.want = run[q].want /\ c.alone = b
      BY <2>2, <2>4 DEF RunStates
    <2> QED BY <2>1, <2>3, <2>4, <2>5, Zenon
  <1>4. run' = [q \in Procs |-> IF q = p THEN r ELSE o(q)]
    BY DEF SaveRecord
  <1> HIDE DEF r, o
  <1>5. run' \in [Procs -> RunStates] /\ run'[p] = r /\ \A q \in Procs : q # p => run'[q] = o(q)
    BY <1>2, <1>3, <1>4
  <1>6. ASSUME NEW q \in Procs, q # p
        PROVE  Stays(q) /\ (run'[q].alone => run[q].key # AutomationOf[id])
    BY <1>3, <1>5, <1>6, Zenon DEF Stays
  <1> QED BY <1>2, <1>5, <1>6 DEF SaveRecord

LEMMA PurgeReadFacts ==
  ASSUME StateInv, NEW p \in Procs, NEW a \in Automations, PurgeRead(p, a)
  PROVE  /\ Only(p) /\ run[p].pc = "idle"
         /\ run'[p].pc = (IF idx[a] = <<>> THEN "drop" ELSE "wipe")
         /\ run'[p].key = a /\ run'[p].ids = idx[a] /\ run'[p].drop = Range(idx[a])
         /\ run'[p].alone = (SavesOf(a) = {} /\ purges[a] = 0)
         /\ purges' = [purges EXCEPT ![a] = @ + 1] /\ lock' = lock /\ UNCHANGED data
  <1>1. PICK b \in BOOLEAN : b = (SavesOf(a) = {} /\ purges[a] = 0)
    BY Zenon
  <1>2. PICK at \in {"drop", "wipe"} : at = (IF idx[a] = <<>> THEN "drop" ELSE "wipe")
    OBVIOUS
  <1> DEFINE r == [Idle EXCEPT !.pc = at, !.key = a, !.ids = idx[a], !.drop = Range(idx[a]), !.alone = b]
  <1>3. run' = [run EXCEPT ![p] = r]
    BY <1>1, <1>2, Zenon DEF PurgeRead
  <1>4. idx[a] \in Seq(Ids) /\ a \in Keys /\ Range(idx[a]) \subseteq Ids
    BY RangeFacts DEF StateInv, Keys
  <1>5. /\ r \in RunStates /\ r.pc = at /\ r.key = a /\ r.ids = idx[a]
        /\ r.drop = Range(idx[a]) /\ r.alone = b
    BY <1>4, IdleFacts DEF RunStates, Idle
  <1> HIDE DEF r
  <1>6. Only(p) /\ run'[p] = r
    BY <1>3, <1>5 DEF StateInv, Only
  <1>7. /\ run[p].pc = "idle" /\ purges' = [purges EXCEPT ![a] = @ + 1]
        /\ lock' = lock /\ UNCHANGED data
    BY DEF PurgeRead, data
  <1> QED BY <1>1, <1>2, <1>5, <1>6, <1>7

LEMMA PurgeRecordFacts ==
  ASSUME StateInv, NEW p \in Procs, PurgeRecord(p)
  PROVE  /\ Only(p) /\ Keeps(p) /\ run[p].pc = "wipe"
         /\ run[p].ids \in Seq(Ids) /\ run[p].ids # <<>> /\ run'[p].ids = Tail(run[p].ids)
         /\ \/ run'[p].pc = "wipe" /\ run'[p].ids # <<>>
            \/ run'[p].pc = "strip" /\ run'[p].ids = <<>>
         /\ rec' = [rec EXCEPT ![Head(run[p].ids)] = 0] /\ Head(run[p].ids) \in Ids
         /\ UNCHANGED <<idx, life, lock, log, saves, wiped, clean, purges>>
  <1>1. run[p].ids \in Seq(Ids) /\ run[p].ids # <<>> /\ run[p].pc = "wipe"
    BY DEF StateInv, RunStates, PurgeRecord
  <1>2. PICK t \in Seq(Ids) : t = Tail(run[p].ids)
    BY <1>1, HeadTailProperties
  <1>3. Head(run[p].ids) \in Ids /\ Len(t) = Len(run[p].ids) - 1 /\ Len(run[p].ids) \in Nat
    BY <1>1, <1>2, SubTail
  <1>4. (Len(run[p].ids) = 1) <=> (t = <<>>)
    <2>1. t = <<>> <=> Len(t) = 0
      BY RangeFacts
    <2>2. Len(run[p].ids) = 1 <=> Len(t) = 0
      BY <1>3
    <2> QED BY <2>1, <2>2
  <1>5. PICK at : at = IF Len(run[p].ids) = 1 THEN "strip" ELSE "wipe"
    OBVIOUS
  <1>6. run' = [run EXCEPT ![p].pc = at, ![p].ids = t]
    BY <1>1, <1>2, <1>5 DEF PurgeRecord, StateInv, RunStates
  <1>7. at \in {"strip", "wipe"}
    BY <1>5
  <1>8. Only(p) /\ Keeps(p) /\ run'[p].pc = at /\ run'[p].ids = t
    <2>1. at \in {"all", "answer", "drop", "own set", "all set", "strip set", "prune set", "strip", "wipe"}
      BY <1>7
    <2> QED BY <1>6, <2>1, SetRun DEF Keeps
  <1>9. /\ rec' = [rec EXCEPT ![Head(run[p].ids)] = 0]
        /\ UNCHANGED <<idx, life, lock, log, saves, wiped, clean, purges>>
    BY DEF PurgeRecord, bounds
  <1>10. \/ at = "wipe" /\ t # <<>>
         \/ at = "strip" /\ t = <<>>
    BY <1>4, <1>5
  <1> QED BY <1>1, <1>2, <1>3, <1>8, <1>9, <1>10

LEMMA PurgeIndexFacts ==
  ASSUME StateInv, NEW p \in Procs, PurgeIndex(p)
  PROVE  /\ Only(p) /\ run'[p].pc = "idle" /\ run[p].pc = "drop" /\ run[p].key \in Automations
         /\ idx' = [idx EXCEPT ![run[p].key] = <<>>] /\ life' = [life EXCEPT ![run[p].key] = 0]
         /\ IF run[p].alone THEN clean' = clean \cup {run[p].key} /\ wiped' = wiped \cup run[p].drop
            ELSE UNCHANGED <<clean, wiped>>
         /\ UNCHANGED <<rec, lock, log, saves, purges>>
  <1>1. run' = [run EXCEPT ![p] = Idle]
    BY DEF PurgeIndex, Return
  <1>2. run[p].pc = "drop" /\ run[p].key \in Automations
    BY DEF PurgeIndex, StateInv, Purging
  <1> QED BY <1>1, <1>2, EndRun DEF PurgeIndex, SetIndex, bounds

LEMMA ExpireFacts ==
  ASSUME StateInv, Expire
  PROVE  /\ rec' = [id \in Ids |-> Less(rec[id])] /\ life' = [key \in Keys |-> Less(life[key])]
         /\ idx' = [key \in Keys |-> IF life'[key] = 0 THEN <<>> ELSE idx[key]]
         /\ UNCHANGED <<lock, run, log, saves, wiped, clean, purges>>
  BY DEF Expire

\* A critical section writes the index that it has read.
LEMMA WriteFacts ==
  ASSUME StateInv, NEW p \in Procs, PrependWrite(p) \/ PurgeStripWrite(p) \/ PruneWrite(p)
  PROVE  /\ Only(p) /\ lock = p /\ lock' = Nobody /\ KeyOf(p) \in Keys /\ run[p].ids \in Seq(Ids)
         /\ \/ run[p].pc = "own set" /\ run'[p].pc = "all" /\ KeyOf(p) = AutomationOf[run[p].id]
            \/ run[p].pc = "all set" /\ run'[p].pc = "idle" /\ KeyOf(p) = All
            \/ run[p].pc = "strip set" /\ run'[p].pc = "drop" /\ KeyOf(p) = All
            \/ run[p].pc = "prune set" /\ run'[p].pc = "answer" /\ KeyOf(p) = run[p].key
         /\ run'[p].pc # "idle" => Keeps(p) /\ run'[p].ids = <<>>
         /\ IF Saving(p)
            THEN /\ run[p].id \in Ids
                 /\ SetIndex(KeyOf(p), Prepend(run[p].ids, run[p].id, Cap[KeyOf(p)]))
                 /\ log' = [log EXCEPT ![KeyOf(p)] = <<run[p].id>> \o @]
            ELSE SetIndex(KeyOf(p), Remaining(p)) /\ log' = log
         /\ UNCHANGED <<rec, saves, wiped, clean, purges>>
  <1>0. /\ run[p].ids \in Seq(Ids) /\ run[p].key \in Keys /\ All \in Keys
        /\ run[p].pc \in Locking => lock = p
        /\ Saving(p) => run[p].id \in Ids /\ AutomationOf[run[p].id] \in Automations
    BY KeysAssumption DEF StateInv, RunStates, Keys
  <1>1. CASE PrependWrite(p) /\ run[p].pc = "own set"
    <2>1. /\ Saving(p) /\ KeyOf(p) = AutomationOf[run[p].id] /\ AutomationOf[run[p].id] # All
          /\ AutomationOf[run[p].id] \in Keys
      BY <1>0, <1>1, KeysAssumption DEF Saving, KeyOf, Keys
    <2>2. Goto(p, "all") /\ lock' = Nobody
      BY <1>1, <2>1 DEF PrependWrite
    <2>3. Only(p) /\ Keeps(p) /\ run'[p].pc = "all" /\ run'[p].ids = <<>>
      BY <2>2, GotoFacts DEF Keeps
    <2>4. /\ SetIndex(KeyOf(p), Prepend(run[p].ids, run[p].id, Cap[KeyOf(p)]))
          /\ log' = [log EXCEPT ![KeyOf(p)] = <<run[p].id>> \o @]
          /\ UNCHANGED <<rec, saves, wiped, clean, purges>>
      BY <1>1, <2>1 DEF PrependWrite, bounds
    <2>5. lock = p /\ run[p].id \in Ids
      BY <1>0, <1>1, <2>1 DEF Locking
    <2> QED BY <1>0, <1>1, <2>1, <2>2, <2>3, <2>4, <2>5
  <1>2. CASE PrependWrite(p) /\ run[p].pc = "all set"
    <2>1. Saving(p) /\ KeyOf(p) = All
      BY <1>2 DEF Saving, KeyOf
    <2>2. Return(p) /\ lock' = Nobody
      BY <1>2 DEF PrependWrite
    <2>3. Only(p) /\ run'[p].pc = "idle"
      BY <2>2, EndRun DEF Return
    <2>4. /\ SetIndex(KeyOf(p), Prepend(run[p].ids, run[p].id, Cap[KeyOf(p)]))
          /\ log' = [log EXCEPT ![KeyOf(p)] = <<run[p].id>> \o @]
          /\ UNCHANGED <<rec, saves, wiped, clean, purges>>
      BY <1>2, <2>1 DEF PrependWrite, bounds
    <2>5. lock = p /\ run[p].id \in Ids
      BY <1>0, <1>2, <2>1 DEF Locking
    <2> QED BY <1>0, <1>2, <2>1, <2>2, <2>3, <2>4, <2>5
  <1>3. CASE PurgeStripWrite(p)
    <2>1. ~Saving(p) /\ KeyOf(p) = All /\ lock = p /\ run[p].pc = "strip set"
      BY <1>0, <1>3 DEF PurgeStripWrite, Saving, KeyOf, Locking
    <2>2. Only(p) /\ Keeps(p) /\ run'[p].pc = "drop" /\ run'[p].ids = <<>>
      BY <1>3, GotoFacts DEF Keeps, PurgeStripWrite
    <2> QED BY <1>0, <1>3, <2>1, <2>2 DEF PurgeStripWrite, bounds
  <1>4. CASE PruneWrite(p)
    <2>1. ~Saving(p) /\ KeyOf(p) = run[p].key /\ lock = p /\ run[p].pc = "prune set"
      BY <1>0, <1>4 DEF PruneWrite, Saving, KeyOf, Locking
    <2>2. Only(p) /\ Keeps(p) /\ run'[p].pc = "answer" /\ run'[p].ids = <<>>
      BY <1>4, GotoFacts DEF Keeps, PruneWrite
    <2> QED BY <1>0, <1>4, <2>1, <2>2 DEF PruneWrite, bounds
  <1>5. PrependWrite(p) => run[p].pc \in {"own set", "all set"}
    BY DEF PrependWrite
  <1> QED BY <1>1, <1>2, <1>3, <1>4, <1>5

LEMMA ShownRange ==
  ASSUME StateInv, NEW key \in Keys
  PROVE  Shown(key) \subseteq Range(log[key]) /\ Shown(key) \subseteq Ids
  <1>1. PICK new : new = Newest(log[key], Cap[key])
    OBVIOUS
  <1>2. log[key] \in Seq(Ids) /\ Cap[key] \in Nat
    BY SizesAssumption DEF StateInv
  <1>3. Range(new) \subseteq Range(log[key]) /\ Range(log[key]) \subseteq Ids
    BY <1>1, <1>2, NewestFacts, RangeFacts
  <1>4. Shown(key) \subseteq Range(new)
    BY <1>1, Zenon DEF Shown, Range
  <1> QED BY <1>3, <1>4

LEMMA ListReadFacts ==
  ASSUME StateInv, NEW p \in Procs, NEW key \in Keys, ListRead(p, key)
  PROVE  /\ Only(p) /\ run[p].pc = "idle" /\ idx[key] # <<>>
         /\ run'[p].pc = "get" /\ run'[p].key = key /\ run'[p].ids = idx[key] /\ run'[p].drop = {}
         /\ run'[p].out = <<>> /\ run'[p].want = Shown(key)
         /\ lock' = lock /\ UNCHANGED <<data, purges>>
  <1> DEFINE r == [Idle EXCEPT !.pc = "get", !.key = key, !.ids = idx[key], !.want = Shown(key)]
  <1>1. run' = [run EXCEPT ![p] = r] /\ run[p].pc = "idle" /\ idx[key] # <<>>
    BY DEF ListRead
  <1>2. idx[key] \in Seq(Ids) /\ Shown(key) \subseteq Ids
    BY ShownRange DEF StateInv
  <1>3. PICK w \in SUBSET Ids : w = Shown(key)
    BY <1>2
  <1>4. /\ r \in RunStates /\ r.pc = "get" /\ r.key = key /\ r.ids = idx[key] /\ r.drop = {}
        /\ r.out = <<>> /\ r.want = Shown(key)
    BY <1>2, <1>3, IdleFacts DEF RunStates, Idle
  <1> HIDE DEF r
  <1>5. Only(p) /\ run'[p] = r
    BY <1>1, <1>4 DEF StateInv, Only
  <1>6. lock' = lock /\ UNCHANGED <<data, purges>>
    BY DEF ListRead, data, bounds
  <1> QED BY <1>1, <1>4, <1>5, <1>6

LEMMA ListGetFacts ==
  ASSUME StateInv, NEW p \in Procs, ListGet(p), NEW id, id = Head(run[p].ids)
  PROVE  /\ Only(p) /\ run[p].pc = "get" /\ run[p].ids \in Seq(Ids) /\ run[p].ids # <<>>
         /\ id \in Ids /\ run'[p].key = run[p].key /\ run'[p].want = run[p].want
         /\ IF rec[id] > 0 THEN run'[p].out = Append(run[p].out, id) /\ run'[p].drop = run[p].drop
            ELSE run'[p].out = run[p].out /\ run'[p].drop = run[p].drop \cup {id}
         /\ \/ /\ run'[p].pc = "get" /\ run'[p].ids = Tail(run[p].ids) /\ run'[p].ids # <<>>
               /\ Len(run'[p].out) # Limit
            \/ /\ run'[p].pc \in {"prune", "answer"} /\ run'[p].ids = <<>>
               /\ Tail(run[p].ids) = <<>> \/ Len(run'[p].out) = Limit
         /\ lock' = lock /\ UNCHANGED <<data, purges>>
  <1>1. run[p] \in RunStates /\ run[p].pc = "get" /\ run[p].ids \in Seq(Ids) /\ run[p].ids # <<>>
    BY DEF StateInv, ListGet, RunStates
  <1>2. PICK t \in Seq(Ids) : t = Tail(run[p].ids)
    BY <1>1, SubTail
  <1>3. id \in Ids
    BY <1>1, SubTail
  <1>4. PICK o \in Seq(Ids), d \in SUBSET Ids :
           IF rec[id] > 0 THEN o = Append(run[p].out, id) /\ d = run[p].drop
           ELSE o = run[p].out /\ d = run[p].drop \cup {id}
    <2>1. run[p].out \in Seq(Ids) /\ run[p].drop \in SUBSET Ids
      BY <1>1 DEF RunStates
    <2>2. Append(run[p].out, id) \in Seq(Ids) /\ run[p].drop \cup {id} \in SUBSET Ids
      BY <1>3, <2>1
    <2>3. CASE rec[id] > 0
      BY <2>1, <2>2, <2>3, Zenon
    <2>4. CASE ~(rec[id] > 0)
      BY <2>1, <2>2, <2>4, Zenon
    <2> QED BY <2>3, <2>4
  <1>5. PICK at \in {"answer", "prune"} : at = IF d = {} THEN "answer" ELSE "prune"
    OBVIOUS
  <1> DEFINE n == [run[p] EXCEPT !.ids = t, !.out = o, !.drop = d]
             r == IF t = <<>> \/ Len(o) = Limit THEN [n EXCEPT !.pc = at, !.ids = <<>>] ELSE n
  <1>6. [run[p] EXCEPT !.ids = Tail(@), !.out = IF rec[id] > 0 THEN Append(@, id) ELSE @,
                       !.drop = IF rec[id] > 0 THEN @ ELSE @ \cup {id}] = n
    BY <1>2, <1>4
  <1>7. n.ids = t /\ n.out = o /\ n.drop = d
    BY <1>1 DEF RunStates
  <1>8. run' = [run EXCEPT ![p] = r]
    BY <1>1, <1>5, <1>6, <1>7 DEF ListGet, Enough
  <1>9. CASE t = <<>> \/ Len(o) = Limit
    <2>a. PICK m : m = n
      OBVIOUS
    <2>b. m \in RunStates /\ m.out = o /\ m.drop = d /\ m.key = run[p].key /\ m.want = run[p].want
      BY <1>1, <2>a DEF RunStates
    <2>1. r = [m EXCEPT !.pc = at, !.ids = <<>>]
      BY <1>9, <2>a
    <2>2. /\ r \in RunStates /\ r.pc = at /\ r.ids = <<>> /\ r.out = o /\ r.drop = d
          /\ r.key = run[p].key /\ r.want = run[p].want
      <3> HIDE DEF n, r
      <3>1. PICK x \in RunStates : x = m
        BY <2>b
      <3>2. PICK c \in {"answer", "prune"} : c = at
        OBVIOUS
      <3>3. PICK y : y = [x EXCEPT !.pc = c, !.ids = <<>>]
        OBVIOUS
      <3>4. <<>> \in Seq(Ids)
        OBVIOUS
      <3>5. /\ y \in RunStates /\ y.pc = c /\ y.ids = <<>> /\ y.out = x.out /\ y.drop = x.drop
            /\ y.key = x.key /\ y.want = x.want
        BY <3>3, <3>4 DEF RunStates
      <3>6. r = y
        BY <2>1, <3>1, <3>2, <3>3, Zenon
      <3> QED BY <2>b, <3>1, <3>2, <3>5, <3>6, Zenon
    <2> HIDE DEF r
    <2>3. Only(p) /\ run'[p] = r
      BY <1>8, <2>2 DEF StateInv, Only
    <2> QED BY <1>1, <1>2, <1>3, <1>4, <1>5, <1>9, <2>2, <2>3 DEF ListGet, data, bounds
  <1>10. CASE ~(t = <<>> \/ Len(o) = Limit)
    <2>1. r = n
      BY <1>10
    <2>2. /\ r \in RunStates /\ r.pc = "get" /\ r.ids = t /\ r.out = o /\ r.drop = d
          /\ r.key = run[p].key /\ r.want = run[p].want
      BY <1>1, <2>1 DEF RunStates
    <2> HIDE DEF r
    <2>3. Only(p) /\ run'[p] = r
      BY <1>8, <2>2 DEF StateInv, Only
    <2> QED BY <1>1, <1>2, <1>3, <1>4, <1>10, <2>2, <2>3 DEF ListGet, data, bounds
  <1> QED BY <1>9, <1>10

(***************************************************************************)
(* The types, and whose critical section it is.                            *)
(***************************************************************************)

Typed ==
    /\ rec \in [Ids -> 0..TTL] /\ life \in [Keys -> 0..TTL]
    /\ idx \in [Keys -> Seq(Ids)] /\ log \in [Keys -> Seq(Ids)]
    /\ saves \in [Ids -> Nat] /\ purges \in [Automations -> Nat]
    /\ wiped \subseteq Ids /\ clean \subseteq Automations

\* p moves, the others stay.
Moves(p) == run' \in [Procs -> RunStates] /\ \A q \in Procs : q # p => Stays(q)

LEMMA OnlyMoves == ASSUME NEW p, Only(p) PROVE Moves(p)
  BY OnlyStays DEF Only, Moves

LEMMA StateMoves ==
  ASSUME StateInv, NEW p \in Procs, Moves(p), Typed',
         lock' = lock \/ (lock \in {p, Nobody} /\ lock' \in {p, Nobody}),
         run'[p].pc \in Locking <=> lock' = p,
         Saving(p)' => run'[p].id \in Ids,
         Purging(p)' => run'[p].key \in Automations /\ purges'[run'[p].key] > 0,
         \A a \in Automations : purges[a] > 0 => purges'[a] > 0,
         run'[p].pc \in {"wipe", "get"} => run'[p].ids # <<>>
  PROVE  StateInv'
  <1>1. lock' \in Procs \cup {Nobody} /\ run' \in [Procs -> RunStates]
    BY DEF StateInv, Moves
  <1>2. Nobody \notin Procs
    BY KeysAssumption
  <1>3. ASSUME NEW q \in Procs
        PROVE  /\ run'[q].pc \in Locking <=> lock' = q
               /\ Saving(q)' => run'[q].id \in Ids
               /\ Purging(q)' => run'[q].key \in Automations /\ purges'[run'[q].key] > 0
               /\ run'[q].pc \in {"wipe", "get"} => run'[q].ids # <<>>
    <2>1. CASE q = p
      BY <2>1
    <2>2. CASE q # p
      <3>1. /\ run'[q].pc = run[q].pc /\ run'[q].id = run[q].id /\ run'[q].key = run[q].key
            /\ run'[q].ids = run[q].ids
        BY <2>2 DEF Moves, Stays
      <3>2. lock' = q <=> lock = q
        BY <1>2, <2>2
      <3>3. /\ run[q].pc \in Locking <=> lock = q
            /\ Saving(q) => run[q].id \in Ids
            /\ Purging(q) => run[q].key \in Automations /\ purges[run[q].key] > 0
            /\ run[q].pc \in {"wipe", "get"} => run[q].ids # <<>>
        BY DEF StateInv
      <3> QED BY <3>1, <3>2, <3>3 DEF Saving, Purging
    <2> QED BY <2>1, <2>2
  <1> QED BY <1>1, <1>3 DEF StateInv, Typed

LEMMA StateTyped == ASSUME StateInv PROVE Typed /\ lock \in Procs \cup {Nobody} /\ TTL \in Nat
  BY SizesAssumption DEF StateInv, Typed

\* What a critical section writes is of the type of an index.
LEMMA SetIndexTyped ==
  ASSUME StateInv, NEW key \in Keys, NEW s \in Seq(Ids), SetIndex(key, s)
  PROVE  /\ idx' \in [Keys -> Seq(Ids)] /\ life' \in [Keys -> 0..TTL]
         /\ idx'[key] = s /\ life'[key] = (IF s = <<>> THEN 0 ELSE TTL)
         /\ \A j \in Keys : j # key => idx'[j] = idx[j] /\ life'[j] = life[j]
  BY SizesAssumption DEF StateInv, SetIndex

LEMMA WrittenTyped ==
  ASSUME StateInv, NEW p \in Procs, PrependWrite(p) \/ PurgeStripWrite(p) \/ PruneWrite(p)
  PROVE  \E s \in Seq(Ids) :
            /\ SetIndex(KeyOf(p), s)
            /\ IF Saving(p) THEN s = Prepend(run[p].ids, run[p].id, Cap[KeyOf(p)])
               ELSE s = Remaining(p)
  <1>1. /\ KeyOf(p) \in Keys /\ run[p].ids \in Seq(Ids)
        /\ IF Saving(p)
           THEN run[p].id \in Ids /\ SetIndex(KeyOf(p), Prepend(run[p].ids, run[p].id, Cap[KeyOf(p)]))
           ELSE SetIndex(KeyOf(p), Remaining(p))
    BY WriteFacts
  <1>2. Cap[KeyOf(p)] \in Nat
    BY <1>1, SizesAssumption
  <1>3. Remaining(p) \in Seq(Ids)
    BY <1>1, WithoutFacts DEF Remaining
  <1>4. Saving(p) => <<run[p].id>> \o run[p].ids \in Seq(Ids)
    BY <1>1, PrependFacts
  <1>5. Saving(p) => Prepend(run[p].ids, run[p].id, Cap[KeyOf(p)]) \in Seq(Ids)
    BY <1>2, <1>4, NewestFacts DEF Prepend
  <1> QED BY <1>1, <1>3, <1>5

LEMMA StateStep == ASSUME StateInv, HistoryNext PROVE StateInv'
  <1> USE StateTyped
  <1>0. Nobody \notin Procs /\ TTL \in Nat /\ Typed
    BY KeysAssumption
  <1>1. ASSUME NEW p \in Procs, Ends(p) PROVE StateInv'
    <2>1. Only(p) /\ run'[p].pc = "idle" /\ UNCHANGED <<data, purges>> /\ Release(p)
      BY <1>1, EndRun DEF Ends
    <2>2. Typed'
      BY <1>0, <2>1 DEF Typed, data
    <2>3. lock' # p /\ (lock' = lock \/ (lock = p /\ lock' = Nobody))
      BY <1>0, <2>1 DEF Release
    <2> QED BY <2>1, <2>2, <2>3, StateMoves, OnlyMoves DEF Saving, Purging, Locking
  <1>2. ASSUME NEW p \in Procs, Passes(p) PROVE StateInv'
    <2>1. /\ Only(p) /\ Keeps(p) /\ UNCHANGED <<data, purges>> /\ Release(p)
          /\ \/ run[p].pc \in {"own", "own set"} /\ run'[p].pc = "all"
             \/ run[p].pc \in {"prune", "prune set"} /\ run'[p].pc = "answer"
             \/ run[p].pc = "strip" /\ run'[p].pc = "drop"
      BY <1>2, PassesFacts
    <2>2. Typed'
      BY <1>0, <2>1 DEF Typed, data
    <2>3. lock' # p /\ (lock' = lock \/ (lock = p /\ lock' = Nobody))
      BY <1>0, <2>1 DEF Release
    <2>4. Saving(p)' => run'[p].id \in Ids
      BY <2>1 DEF Keeps, StateInv, Saving
    <2>5. Purging(p)' => run'[p].key \in Automations /\ purges[run[p].key] > 0 /\ run'[p].key = run[p].key
      BY <2>1 DEF Keeps, StateInv, Purging
    <2> QED BY <2>1, <2>2, <2>3, <2>4, <2>5, StateMoves, OnlyMoves DEF Locking
  <1>3. ASSUME NEW p \in Procs, Enters(p) PROVE StateInv'
    <2>1. /\ Only(p) /\ lock = Nobody /\ lock' = p /\ UNCHANGED <<data, purges>>
          /\ run'[p].id = run[p].id /\ run'[p].key = run[p].key
          /\ \/ run[p].pc = "own" /\ run'[p].pc = "own set"
             \/ run[p].pc = "all" /\ run'[p].pc = "all set"
             \/ run[p].pc = "strip" /\ run'[p].pc = "strip set"
             \/ run[p].pc = "prune" /\ run'[p].pc = "prune set"
      BY <1>3, EntersFacts
    <2>2. Typed'
      BY <1>0, <2>1 DEF Typed, data
    <2>3. Saving(p)' => run'[p].id \in Ids
      BY <2>1 DEF StateInv, Saving
    <2>4. Purging(p)' => run'[p].key \in Automations /\ purges[run[p].key] > 0 /\ run'[p].key = run[p].key
      BY <2>1 DEF StateInv, Purging
    <2> QED BY <2>1, <2>2, <2>3, <2>4, StateMoves, OnlyMoves DEF Locking
  <1>4. ASSUME NEW p \in Procs, NEW id \in Ids, SaveRecord(p, id) PROVE StateInv'
    <2>1. /\ run' \in [Procs -> RunStates] /\ run[p].pc = "idle"
          /\ run'[p].pc = "own" /\ run'[p].id = id /\ \A q \in Procs : q # p => Stays(q)
          /\ rec' = [rec EXCEPT ![id] = TTL] /\ saves' = [saves EXCEPT ![id] = @ + 1]
          /\ clean' = clean \ {AutomationOf[id]}
          /\ UNCHANGED <<idx, life, lock, log, wiped, purges>>
      BY <1>4, SaveFacts
    <2>2. Typed'
      BY <1>0, <2>1 DEF Typed
    <2>3. lock # p
      BY <2>1 DEF StateInv, Locking
    <2>4. Moves(p)
      BY <2>1 DEF Moves
    <2> QED BY <2>1, <2>2, <2>3, <2>4, StateMoves DEF Saving, Purging, Locking
  <1>5. ASSUME NEW p \in Procs, NEW a \in Automations, PurgeRead(p, a) PROVE StateInv'
    <2>1. /\ Only(p) /\ run[p].pc = "idle"
          /\ run'[p].pc = (IF idx[a] = <<>> THEN "drop" ELSE "wipe")
          /\ run'[p].key = a /\ run'[p].ids = idx[a]
          /\ purges' = [purges EXCEPT ![a] = @ + 1] /\ lock' = lock /\ UNCHANGED data
      BY <1>5, PurgeReadFacts
    <2>2. Typed'
      BY <1>0, <2>1 DEF Typed, data
    <2>3. lock # p
      BY <2>1 DEF StateInv, Locking
    <2>4. purges'[a] > 0 /\ \A b \in Automations : purges[b] > 0 => purges'[b] > 0
      BY <1>0, <2>1 DEF Typed
    <2> QED BY <2>1, <2>2, <2>3, <2>4, StateMoves, OnlyMoves DEF Saving, Purging, Locking
  <1>6. ASSUME NEW p \in Procs, NEW key \in Keys, ListRead(p, key) PROVE StateInv'
    <2>1. /\ Only(p) /\ run[p].pc = "idle" /\ run'[p].pc = "get" /\ run'[p].ids = idx[key]
          /\ idx[key] # <<>> /\ lock' = lock /\ UNCHANGED <<data, purges>>
      BY <1>6, ListReadFacts
    <2>2. Typed'
      BY <1>0, <2>1 DEF Typed, data
    <2>3. lock # p
      BY <2>1 DEF StateInv, Locking
    <2> QED BY <2>1, <2>2, <2>3, StateMoves, OnlyMoves DEF Saving, Purging, Locking
  <1>7. ASSUME NEW p \in Procs, PrependWrite(p) \/ PurgeStripWrite(p) \/ PruneWrite(p)
        PROVE  StateInv'
    <2>1. PICK s \in Seq(Ids) : SetIndex(KeyOf(p), s)
      BY <1>7, WrittenTyped
    <2>2. /\ Only(p) /\ lock = p /\ lock' = Nobody /\ KeyOf(p) \in Keys
          /\ UNCHANGED <<rec, saves, wiped, clean, purges>>
          /\ run'[p].pc # "idle" => Keeps(p)
          /\ \/ run[p].pc = "own set" /\ run'[p].pc = "all"
             \/ run[p].pc = "all set" /\ run'[p].pc = "idle"
             \/ run[p].pc = "strip set" /\ run'[p].pc = "drop"
             \/ run[p].pc = "prune set" /\ run'[p].pc = "answer"
      BY <1>7, WriteFacts
    <2>3. \/ log' = log
          \/ run[p].id \in Ids /\ log' = [log EXCEPT ![KeyOf(p)] = <<run[p].id>> \o @]
      BY <1>7, WriteFacts
    <2>4. log' \in [Keys -> Seq(Ids)]
      <3>1. log \in [Keys -> Seq(Ids)] /\ log[KeyOf(p)] \in Seq(Ids)
        BY <2>2 DEF StateInv
      <3>2. run[p].id \in Ids => <<run[p].id>> \o log[KeyOf(p)] \in Seq(Ids)
        BY <3>1, PrependFacts
      <3> QED BY <2>3, <3>1, <3>2
    <2>5. idx' \in [Keys -> Seq(Ids)] /\ life' \in [Keys -> 0..TTL]
      BY <2>1, <2>2, SetIndexTyped
    <2>6. Typed'
      BY <1>0, <2>2, <2>4, <2>5 DEF Typed
    <2>7. Saving(p)' => run'[p].id \in Ids
      BY <2>2 DEF Keeps, StateInv, Saving
    <2>8. Purging(p)' => run'[p].key \in Automations /\ purges[run[p].key] > 0 /\ run'[p].key = run[p].key
      BY <2>2 DEF Keeps, StateInv, Purging
    <2> QED BY <1>0, <2>2, <2>6, <2>7, <2>8, StateMoves, OnlyMoves DEF Locking
  <1>8. ASSUME NEW p \in Procs, PurgeRecord(p) PROVE StateInv'
    <2>1. /\ Only(p) /\ Keeps(p) /\ run[p].pc = "wipe"
          /\ \/ run'[p].pc = "wipe" /\ run'[p].ids # <<>>
             \/ run'[p].pc = "strip"
          /\ rec' = [rec EXCEPT ![Head(run[p].ids)] = 0] /\ Head(run[p].ids) \in Ids
          /\ UNCHANGED <<idx, life, lock, log, saves, wiped, clean, purges>>
      BY <1>8, PurgeRecordFacts
    <2>2. Typed'
      BY <1>0, <2>1 DEF Typed
    <2>3. lock # p
      BY <2>1 DEF StateInv, Locking
    <2>4. run'[p].key \in Automations /\ purges[run[p].key] > 0 /\ run'[p].key = run[p].key
      BY <2>1 DEF Keeps, StateInv, Purging
    <2> QED BY <2>1, <2>2, <2>3, <2>4, StateMoves, OnlyMoves DEF Saving, Purging, Locking
  <1>9. ASSUME NEW p \in Procs, PurgeIndex(p) PROVE StateInv'
    <2>1. /\ Only(p) /\ run'[p].pc = "idle" /\ run[p].pc = "drop" /\ run[p].key \in Automations
          /\ idx' = [idx EXCEPT ![run[p].key] = <<>>] /\ life' = [life EXCEPT ![run[p].key] = 0]
          /\ clean' \in {clean, clean \cup {run[p].key}} /\ wiped' \in {wiped, wiped \cup run[p].drop}
          /\ UNCHANGED <<rec, lock, log, saves, purges>>
      BY <1>9, PurgeIndexFacts
    <2>2. run[p].drop \subseteq Ids
      BY DEF StateInv, RunStates
    <2>3. Typed'
      <3>1. idx' \in [Keys -> Seq(Ids)] /\ life' \in [Keys -> 0..TTL]
        <4>1. <<>> \in Seq(Ids) /\ 0 \in 0..TTL
          BY <1>0
        <4>2. idx \in [Keys -> Seq(Ids)] /\ life \in [Keys -> 0..TTL]
          BY <1>0 DEF Typed
        <4> QED BY <2>1, <4>1, <4>2
      <3> QED BY <1>0, <2>1, <2>2, <3>1 DEF Typed
    <2>4. lock # p
      BY <2>1 DEF StateInv, Locking
    <2> QED BY <2>1, <2>3, <2>4, StateMoves, OnlyMoves DEF Saving, Purging, Locking
  <1>10. ASSUME NEW p \in Procs, ListGet(p) PROVE StateInv'
    <2>1. PICK id : id = Head(run[p].ids)
      OBVIOUS
    <2>2. /\ Only(p) /\ run[p].pc = "get"
          /\ \/ run'[p].pc = "get" /\ run'[p].ids # <<>>
             \/ run'[p].pc \in {"prune", "answer"}
          /\ lock' = lock /\ UNCHANGED <<data, purges>>
      BY <1>10, <2>1, ListGetFacts
    <2>3. Typed'
      BY <1>0, <2>2 DEF Typed, data
    <2>4. lock # p
      BY <2>2 DEF StateInv, Locking
    <2> QED BY <2>2, <2>3, <2>4, StateMoves, OnlyMoves DEF Saving, Purging, Locking
  <1>11. ASSUME Expire PROVE StateInv'
    <2>1. /\ rec' = [id \in Ids |-> Less(rec[id])] /\ life' = [key \in Keys |-> Less(life[key])]
          /\ idx' = [key \in Keys |-> IF life'[key] = 0 THEN <<>> ELSE idx[key]]
          /\ UNCHANGED <<lock, run, log, saves, wiped, clean, purges>>
      BY <1>11, ExpireFacts
    <2>2. \A n \in 0..TTL : Less(n) \in 0..TTL
      BY <1>0 DEF Less
    <2>3. Typed'
      BY <1>0, <2>1, <2>2 DEF Typed
    <2> QED BY <2>1, <2>3 DEF StateInv, Typed, Saving, Purging
  <1> QED BY <1>1, <1>2, <1>3, <1>4, <1>5, <1>6, <1>7, <1>8, <1>9, <1>10, <1>11, NextIs

(***************************************************************************)
(* What every step leaves behind.                                          *)
(***************************************************************************)

\* An id that was saved once grows older, no log loses an id, and a purge is not undone.
Onward ==
    /\ \A id \in Ids : saves[id] > 0 =>
          saves'[id] > 0 /\ (Once(id)' => Once(id) /\ rec'[id] <= rec[id])
    /\ \A a \in Automations : purges'[a] = 0 => purges[a] = 0
    /\ \A key \in Keys :
          /\ Range(log[key]) \subseteq Range(log'[key])
          /\ \A s \in Seq(Ids) : Subsequence(s, log[key]) => Subsequence(s, log'[key])

Writes(p) == PrependWrite(p) \/ PurgeStripWrite(p) \/ PruneWrite(p)

LEMMA LoggedFacts ==
  ASSUME StateInv, NEW p \in Procs, Writes(p), Saving(p)
  PROVE  \E key \in Keys, id \in Ids :
            /\ key = KeyOf(p) /\ id = run[p].id /\ log[key] \in Seq(Ids)
            /\ \A j \in Keys : j # key => log'[j] = log[j]
            /\ Len(log[key]) \in Nat /\ DOMAIN log[key] = 1..Len(log[key])
            /\ DOMAIN log'[key] = 1..(Len(log[key]) + 1)
            /\ log'[key][1] = id /\ \A n \in 2..(Len(log[key]) + 1) : log'[key][n] = log[key][n - 1]
            /\ Range(log'[key]) = Range(log[key]) \cup {id}
  <1>0. PICK key, id : key = KeyOf(p) /\ id = run[p].id
    OBVIOUS
  <1>1. key \in Keys /\ id \in Ids /\ log' = [log EXCEPT ![key] = <<id>> \o @]
    BY <1>0, WriteFacts DEF Writes
  <1>2. log \in [Keys -> Seq(Ids)] /\ log[key] \in Seq(Ids)
    BY <1>1 DEF StateInv
  <1>3. log'[key] = <<id>> \o log[key] /\ \A j \in Keys : j # key => log'[j] = log[j]
    BY <1>1, <1>2
  <1>4. PICK l \in Seq(Ids) : l = log[key]
    BY <1>2
  <1>5. PICK m : m = <<id>> \o l
    OBVIOUS
  <1>6. /\ m \in Seq(Ids) /\ Len(m) = Len(l) + 1 /\ m[1] = id
        /\ \A n \in 2..(Len(l) + 1) : m[n] = l[n - 1]
        /\ Range(m) = Range(l) \cup {id}
    BY <1>1, <1>5, PrependFacts
  <1>7. DOMAIN m = 1..Len(m) /\ DOMAIN l = 1..Len(l) /\ Len(l) \in Nat
    BY <1>6
  <1>8. log'[key] = m
    BY <1>3, <1>4, <1>5
  <1>9. DOMAIN m = 1..(Len(l) + 1)
    BY <1>6, <1>7, Zenon
  <1>10. /\ key = KeyOf(p) /\ id = run[p].id /\ log[key] \in Seq(Ids)
         /\ \A j \in Keys : j # key => log'[j] = log[j]
         /\ Len(log[key]) \in Nat /\ DOMAIN log[key] = 1..Len(log[key])
         /\ DOMAIN log'[key] = 1..(Len(log[key]) + 1)
         /\ log'[key][1] = id /\ \A n \in 2..(Len(log[key]) + 1) : log'[key][n] = log[key][n - 1]
         /\ Range(log'[key]) = Range(log[key]) \cup {id}
    <2>1. log[key] \in Seq(Ids) /\ \A j \in Keys : j # key => log'[j] = log[j]
      BY <1>2, <1>3, Zenon
    <2>2. /\ Len(log[key]) \in Nat /\ DOMAIN log[key] = 1..Len(log[key])
          /\ DOMAIN log'[key] = 1..(Len(log[key]) + 1) /\ log'[key][1] = id
          /\ Range(log'[key]) = Range(log[key]) \cup {id}
      BY <1>4, <1>6, <1>7, <1>8, <1>9, Zenon
    <2>3. \A n \in 2..(Len(log[key]) + 1) : log'[key][n] = log[key][n - 1]
      BY <1>4, <1>6, <1>8, Zenon
    <2> QED BY <1>0, <2>1, <2>2, <2>3, Zenon
  <1> QED BY <1>1, <1>10, Zenon

LEMMA OnwardSame ==
  ASSUME StateInv, log' = log,
         \A id \in Ids : saves[id] > 0 =>
            saves'[id] > 0 /\ (saves'[id] = 1 => saves[id] = 1 /\ rec'[id] <= rec[id]),
         \A a \in Automations : purges'[a] = 0 => purges[a] = 0
  PROVE  Onward
  BY DEF Onward, Once

\* What an index or a purge may do to the life of a record.
LEMMA OnwardQuiet ==
  ASSUME StateInv, log' = log, saves' = saves, \A id \in Ids : rec'[id] <= rec[id],
         \A a \in Automations : purges'[a] = 0 => purges[a] = 0
  PROVE  Onward
  BY DEF Onward, Once

LEMMA OnwardStep == ASSUME StateInv, HistoryNext PROVE Onward
  <1>1. ASSUME NEW p \in Procs, Ends(p) \/ Passes(p) \/ Enters(p) PROVE Onward
    <2>1. UNCHANGED <<data, purges>>
      BY <1>1 DEF Ends, Passes, Enters, EntersWith
    <2>2. \A id \in Ids : rec[id] <= rec[id]
      BY DEF StateInv
    <2> QED BY <2>1, <2>2, OnwardQuiet DEF data
  <1>2. ASSUME NEW p \in Procs, NEW id \in Ids, SaveRecord(p, id) PROVE Onward
    <2>1. /\ rec' = [rec EXCEPT ![id] = TTL] /\ saves' = [saves EXCEPT ![id] = @ + 1]
          /\ log' = log /\ purges' = purges
      BY <1>2, SaveFacts
    <2>2. rec \in [Ids -> 0..TTL] /\ saves \in [Ids -> Nat]
      BY DEF StateInv
    <2>3. ASSUME NEW x \in Ids, saves[x] > 0
          PROVE  saves'[x] > 0 /\ (saves'[x] = 1 => saves[x] = 1 /\ rec'[x] <= rec[x])
      BY <2>1, <2>2, <2>3
    <2> QED BY <2>1, <2>3, OnwardSame
  <1>3. ASSUME NEW p \in Procs, NEW a \in Automations, PurgeRead(p, a) PROVE Onward
    <2>1. purges' = [purges EXCEPT ![a] = @ + 1] /\ UNCHANGED data
      BY <1>3, PurgeReadFacts
    <2>2. \A id \in Ids : rec[id] <= rec[id]
      BY DEF StateInv
    <2>3. \A b \in Automations : purges'[b] = 0 => purges[b] = 0
      BY <2>1 DEF StateInv
    <2> QED BY <2>1, <2>2, <2>3, OnwardQuiet DEF data
  <1>4. ASSUME NEW p \in Procs, NEW key \in Keys, ListRead(p, key) PROVE Onward
    <2>1. UNCHANGED <<data, purges>>
      BY <1>4, ListReadFacts
    <2>2. \A id \in Ids : rec[id] <= rec[id]
      BY DEF StateInv
    <2> QED BY <2>1, <2>2, OnwardQuiet DEF data
  <1>5. ASSUME NEW p \in Procs, Writes(p) PROVE Onward
    <2>1. rec' = rec /\ saves' = saves /\ purges' = purges /\ (~Saving(p) => log' = log)
      BY <1>5, WriteFacts DEF Writes
    <2>2. \A id \in Ids : rec[id] <= rec[id]
      BY DEF StateInv
    <2>3. CASE ~Saving(p)
      BY <2>1, <2>2, <2>3, OnwardQuiet
    <2>4. CASE Saving(p)
      <3>1. PICK key \in Keys, id \in Ids :
               /\ key = KeyOf(p) /\ id = run[p].id /\ log[key] \in Seq(Ids)
               /\ \A j \in Keys : j # key => log'[j] = log[j]
               /\ Len(log[key]) \in Nat /\ DOMAIN log[key] = 1..Len(log[key])
               /\ DOMAIN log'[key] = 1..(Len(log[key]) + 1)
               /\ log'[key][1] = id /\ \A n \in 2..(Len(log[key]) + 1) : log'[key][n] = log[key][n - 1]
               /\ Range(log'[key]) = Range(log[key]) \cup {id}
        BY <1>5, <2>4, LoggedFacts, Zenon
      <3>a. log'[key] = <<id>> \o log[key]
        <4>1. log' = [log EXCEPT ![key] = <<id>> \o @]
          BY <1>5, <2>4, <3>1, WriteFacts DEF Writes
        <4>2. log \in [Keys -> Seq(Ids)]
          BY DEF StateInv
        <4> QED BY <4>1, <4>2
      <3>2. \A j \in Keys : Range(log[j]) \subseteq Range(log'[j])
        BY <3>1
      <3>3. ASSUME NEW j \in Keys, NEW s \in Seq(Ids), Subsequence(s, log[j])
            PROVE  Subsequence(s, log'[j])
        <4>1. CASE j = key
          <5>1. PICK l \in Seq(Ids) : l = log[key]
            BY <3>1
          <5>2. Subsequence(s, <<id>> \o l)
            BY <3>3, <4>1, <5>1, SubGrow
          <5> QED BY <3>a, <4>1, <5>1, <5>2
        <4>2. CASE j # key
          BY <3>1, <3>3, <4>2
        <4> QED BY <4>1, <4>2
      <3> QED BY <2>1, <2>2, <3>2, <3>3 DEF Onward, Once
    <2> QED BY <2>3, <2>4
  <1>6. ASSUME NEW p \in Procs, PurgeRecord(p) PROVE Onward
    <2>1. /\ rec' = [rec EXCEPT ![Head(run[p].ids)] = 0]
          /\ log' = log /\ saves' = saves /\ purges' = purges
      BY <1>6, PurgeRecordFacts
    <2>2. \A id \in Ids : rec'[id] <= rec[id]
      BY <2>1 DEF StateInv
    <2> QED BY <2>1, <2>2, OnwardQuiet
  <1>7. ASSUME NEW p \in Procs, PurgeIndex(p) PROVE Onward
    <2>1. rec' = rec /\ log' = log /\ saves' = saves /\ purges' = purges
      BY <1>7, PurgeIndexFacts
    <2>2. \A id \in Ids : rec'[id] <= rec[id]
      BY <2>1 DEF StateInv
    <2> QED BY <2>1, <2>2, OnwardQuiet
  <1>8. ASSUME NEW p \in Procs, ListGet(p) PROVE Onward
    <2>0. PICK id : id = Head(run[p].ids)
      OBVIOUS
    <2>1. UNCHANGED <<data, purges>>
      BY <1>8, <2>0, ListGetFacts
    <2>2. \A x \in Ids : rec[x] <= rec[x]
      BY DEF StateInv
    <2> QED BY <2>1, <2>2, OnwardQuiet DEF data
  <1>9. ASSUME Expire PROVE Onward
    <2>1. rec' = [id \in Ids |-> Less(rec[id])] /\ log' = log /\ saves' = saves /\ purges' = purges
      BY <1>9, ExpireFacts
    <2>2. \A id \in Ids : rec'[id] <= rec[id]
      BY <2>1 DEF StateInv, Less
    <2> QED BY <2>1, <2>2, OnwardQuiet
  <1> QED BY <1>1, <1>2, <1>3, <1>4, <1>5, <1>6, <1>7, <1>8, <1>9, NextIs DEF Writes

(***************************************************************************)
(* The logs.                                                               *)
(***************************************************************************)

LEMMA LogMoves ==
  ASSUME StateInv, LogInv, log' = log, saves' = saves,
         \A q \in Procs : Saving(q)' =>
            /\ Saving(q) /\ run'[q].id = run[q].id
            /\ run'[q].pc \in {"own", "own set"} => run[q].pc \in {"own", "own set"}
  PROVE  LogInv'
  BY DEF LogInv, Once

\* When p moves and saves nothing new.
LEMMA LogOnly ==
  ASSUME StateInv, LogInv, NEW p \in Procs, Only(p), log' = log, saves' = saves,
         Saving(p)' =>
            /\ Saving(p) /\ run'[p].id = run[p].id
            /\ run'[p].pc \in {"own", "own set"} => run[p].pc \in {"own", "own set"}
  PROVE  LogInv'
  <1>1. ASSUME NEW q \in Procs, Saving(q)'
        PROVE  /\ Saving(q) /\ run'[q].id = run[q].id
               /\ run'[q].pc \in {"own", "own set"} => run[q].pc \in {"own", "own set"}
    <2>1. CASE q = p
      BY <1>1, <2>1
    <2>2. CASE q # p
      BY <1>1, <2>2 DEF Only, Saving
    <2> QED BY <2>1, <2>2
  <1> QED BY <1>1, LogMoves

LEMMA LogSaved ==
  ASSUME StateInv, LogInv, NEW p \in Procs, NEW id \in Ids, SaveRecord(p, id)
  PROVE  LogInv'
  <1>1. /\ run'[p].pc = "own" /\ run'[p].id = id
        /\ \A q \in Procs : q # p => Stays(q)
        /\ \A q \in Procs : Saving(q) => run[q].id # id
        /\ saves' = [saves EXCEPT ![id] = @ + 1] /\ log' = log
    BY SaveFacts
  <1>2. saves \in [Ids -> Nat] /\ \A key \in Keys : Range(log[key]) \subseteq Ids
    BY RangeFacts DEF StateInv
  <1>3. \A x \in Ids : saves[x] > 0 => saves'[x] > 0 /\ (saves'[x] = 1 => saves[x] = 1)
    BY <1>1, <1>2
  <1>4. saves'[id] > 0 /\ (saves'[id] = 1 => saves[id] = 0)
    BY <1>1, <1>2
  <1>5. saves'[id] = 1 => \A key \in Keys : id \notin Range(log[key])
    <2>1. \A key \in Keys : \A x \in Range(log[key]) : saves[x] > 0
      BY DEF LogInv
    <2> QED BY <1>4, <2>1
  <1>6. ASSUME NEW key \in Keys
        PROVE  /\ \A x \in Range(log[key]) : saves'[x] > 0
               /\ \A m, n \in DOMAIN log[key] :
                    log[key][m] = log[key][n] /\ saves'[log[key][m]] = 1 => m = n
    <2>1. \A x \in Range(log[key]) : x \in Ids /\ saves[x] > 0
      BY <1>2 DEF LogInv
    <2>2. ASSUME NEW m \in DOMAIN log[key], NEW n \in DOMAIN log[key],
                 log[key][m] = log[key][n], saves'[log[key][m]] = 1
          PROVE  m = n
      <3>1. log[key][m] \in Range(log[key])
        BY DEF Range
      <3>2. saves[log[key][m]] = 1
        BY <1>3, <2>1, <2>2, <3>1
      <3> QED BY <2>2, <3>2 DEF LogInv, Once
    <2> QED BY <1>3, <2>1, <2>2
  <1>7. ASSUME NEW q \in Procs, Saving(q)'
        PROVE  /\ saves'[run'[q].id] > 0
               /\ \A o \in Procs : Saving(o)' /\ run'[o].id = run'[q].id => o = q
               /\ saves'[run'[q].id] = 1 => run'[q].id \notin Range(log[All])
               /\ saves'[run'[q].id] = 1 /\ run'[q].pc \in {"own", "own set"} =>
                     run'[q].id \notin Range(log[AutomationOf[run'[q].id]])
    <2>1. All \in Keys /\ \A x \in Ids : AutomationOf[x] \in Keys
      BY KeysAssumption DEF Keys
    <2>2. \A o \in Procs : o # p => Saving(o)' = Saving(o) /\ run'[o].id = run[o].id
                                   /\ run'[o].pc = run[o].pc
      BY <1>1 DEF Stays, Saving
    <2>3. CASE q = p
      BY <1>1, <1>4, <1>5, <2>1, <2>2, <2>3
    <2>4. CASE q # p
      <3>1. Saving(q) /\ run'[q].id = run[q].id /\ run[q].id \in Ids /\ run[q].id # id
        BY <1>1, <1>7, <2>2, <2>4 DEF StateInv
      <3>2. /\ saves[run[q].id] > 0
            /\ \A o \in Procs : Saving(o) /\ run[o].id = run[q].id => o = q
            /\ Once(run[q].id) => run[q].id \notin Range(log[All])
            /\ Once(run[q].id) /\ run[q].pc \in {"own", "own set"} =>
                 run[q].id \notin Range(log[AutomationOf[run[q].id]])
        BY <3>1 DEF LogInv
      <3> QED BY <1>1, <1>3, <2>2, <2>4, <3>1, <3>2 DEF Once
    <2> QED BY <2>3, <2>4
  <1>8. \A a \in Automations : \A x \in Range(log[a]) : AutomationOf[x] = a
    BY DEF LogInv
  <1>9. \A q \in Procs : Saving(q)' =>
           LET x == run'[q].id
           IN  /\ saves'[x] > 0
               /\ \A o \in Procs : Saving(o)' /\ run'[o].id = x => o = q
               /\ saves'[x] = 1 => x \notin Range(log[All])
               /\ saves'[x] = 1 /\ run'[q].pc \in {"own", "own set"} =>
                     x \notin Range(log[AutomationOf[x]])
    BY <1>7, Zenon
  <1>10. log' = log
    BY <1>1
  <1> QED BY <1>6, <1>8, <1>9, <1>10, Zenon DEF LogInv, Once

LEMMA LogWritten ==
  ASSUME StateInv, LogInv, NEW p \in Procs, Writes(p), Saving(p)
  PROVE  LogInv'
  <1>2. PICK key \in Keys, id \in Ids :
           /\ key = KeyOf(p) /\ id = run[p].id /\ log[key] \in Seq(Ids)
           /\ \A j \in Keys : j # key => log'[j] = log[j]
           /\ Len(log[key]) \in Nat /\ DOMAIN log[key] = 1..Len(log[key])
           /\ DOMAIN log'[key] = 1..(Len(log[key]) + 1)
           /\ log'[key][1] = id /\ \A n \in 2..(Len(log[key]) + 1) : log'[key][n] = log[key][n - 1]
           /\ Range(log'[key]) = Range(log[key]) \cup {id}
    BY LoggedFacts, Zenon
  <1>1. key = KeyOf(p) /\ id = run[p].id
    BY <1>2, Zenon
  <1>3. /\ Only(p) /\ saves' = saves
        /\ \/ run[p].pc = "own set" /\ run'[p].pc = "all" /\ key = AutomationOf[id]
           \/ run[p].pc = "all set" /\ run'[p].pc = "idle" /\ key = All
        /\ run'[p].pc # "idle" => Keeps(p)
    BY <1>1, WriteFacts DEF Writes, Saving
  <1>4. /\ saves[id] > 0
        /\ \A q \in Procs : Saving(q) /\ run[q].id = id => q = p
        /\ Once(id) => id \notin Range(log[All])
        /\ Once(id) /\ run[p].pc \in {"own", "own set"} => id \notin Range(log[AutomationOf[id]])
    BY <1>1 DEF LogInv
  <1>5. Once(id) => id \notin Range(log[key])
    BY <1>3, <1>4
  <1>6. \A a \in Automations : \A x \in Range(log'[a]) : AutomationOf[x] = a
    <2>1. ASSUME NEW a \in Automations, NEW x \in Range(log'[a]) PROVE AutomationOf[x] = a
      <3>1. a \in Keys /\ a # All /\ (x \in Range(log[a]) => AutomationOf[x] = a)
        BY KeysAssumption DEF Keys, LogInv
      <3>2. CASE a = key
        BY <1>2, <1>3, <2>1, <3>1, <3>2
      <3>3. CASE a # key
        BY <1>2, <2>1, <3>1, <3>3
      <3> QED BY <3>2, <3>3
    <2> QED BY <2>1
  <1>7. ASSUME NEW j \in Keys PROVE \A x \in Range(log'[j]) : saves[x] > 0
    BY <1>2, <1>4 DEF LogInv
  <1>8. ASSUME NEW j \in Keys, NEW m \in DOMAIN log'[j], NEW n \in DOMAIN log'[j],
               log'[j][m] = log'[j][n], Once(log'[j][m])
        PROVE  m = n
    <2>1. CASE j # key
      BY <1>2, <1>8, <2>1 DEF LogInv
    <2>2. CASE j = key
      <3>1. \A i \in DOMAIN log'[key] : i # 1 =>
              /\ i - 1 \in DOMAIN log[key] /\ log'[key][i] = log[key][i - 1] /\ i \in Nat
        BY <1>2
      <3>2. \A i \in DOMAIN log'[key] : i # 1 => log'[key][i] \in Range(log[key])
        BY <3>1, Zenon DEF Range
      <3>3. CASE m = 1
        BY <1>2, <1>5, <1>8, <2>2, <3>2, <3>3
      <3>4. CASE n = 1
        BY <1>2, <1>5, <1>8, <2>2, <3>2, <3>4
      <3>5. CASE m # 1 /\ n # 1
        <4>1. log[key][m - 1] = log[key][n - 1] /\ Once(log[key][m - 1])
          BY <1>8, <2>2, <3>1, <3>5
        <4>2. m - 1 = n - 1
          BY <2>2, <3>1, <3>5, <4>1 DEF LogInv
        <4> QED BY <2>2, <3>1, <3>5, <4>2
      <3> QED BY <3>3, <3>4, <3>5
    <2> QED BY <2>1, <2>2
  <1>9. ASSUME NEW q \in Procs, Saving(q)'
        PROVE  /\ Saving(q) /\ run'[q].id = run[q].id
               /\ Once(run[q].id) => run[q].id \notin Range(log'[All])
               /\ Once(run[q].id) /\ run'[q].pc \in {"own", "own set"} =>
                     run[q].id \notin Range(log'[AutomationOf[run[q].id]])
               /\ run'[q].pc \in {"own", "own set"} => run[q].pc \in {"own", "own set"}
    <2>1. All \in Keys /\ \A x \in Ids : AutomationOf[x] \in Keys /\ AutomationOf[x] # All
      BY KeysAssumption DEF Keys
    <2>2. CASE q = p
      <3>1. run'[p].pc = "all" /\ key = AutomationOf[id] /\ Keeps(p)
        BY <1>3, <1>9, <2>2 DEF Saving
      <3>2. log'[All] = log[All]
        BY <1>2, <2>1, <3>1
      <3> QED BY <1>1, <1>4, <2>2, <3>1, <3>2 DEF Keeps
    <2>3. CASE q # p
      <3>1. run'[q] = run[q] /\ Saving(q)
        BY <1>3, <1>9, <2>3 DEF Only, Saving
      <3>2. run[q].id # id /\ run[q].id \in Ids
        BY <1>4, <2>3, <3>1 DEF StateInv
      <3>3. \A j \in Keys : run[q].id \in Range(log'[j]) => run[q].id \in Range(log[j])
        BY <1>2, <3>2
      <3>4. /\ Once(run[q].id) => run[q].id \notin Range(log[All])
            /\ Once(run[q].id) /\ run[q].pc \in {"own", "own set"} =>
                 run[q].id \notin Range(log[AutomationOf[run[q].id]])
        BY <3>1 DEF LogInv
      <3> QED BY <2>1, <3>1, <3>2, <3>3, <3>4
    <2> QED BY <2>2, <2>3
  <1>10. \A q \in Procs : Saving(q) =>
            saves[run[q].id] > 0 /\ \A o \in Procs : Saving(o) /\ run[o].id = run[q].id => o = q
    BY DEF LogInv
  <1>11. \A q \in Procs : Saving(q)' =>
           LET x == run'[q].id
           IN  /\ saves[x] > 0
               /\ \A o \in Procs : Saving(o)' /\ run'[o].id = x => o = q
               /\ saves[x] = 1 => x \notin Range(log'[All])
               /\ saves[x] = 1 /\ run'[q].pc \in {"own", "own set"} =>
                     x \notin Range(log'[AutomationOf[x]])
    BY <1>9, <1>10, Zenon DEF Once
  <1>12. saves' = saves
    BY <1>3
  <1> QED BY <1>6, <1>7, <1>8, <1>11, <1>12, Zenon DEF LogInv, Once

LEMMA LogStep == ASSUME StateInv, LogInv, HistoryNext PROVE LogInv'
  <1>1. ASSUME NEW p \in Procs, Ends(p) PROVE LogInv'
    BY <1>1, EndRun, LogOnly DEF Ends, data, Saving
  <1>2. ASSUME NEW p \in Procs, Passes(p) PROVE LogInv'
    <2>1. /\ Only(p) /\ log' = log /\ saves' = saves /\ run'[p].id = run[p].id
          /\ \/ run[p].pc \in {"own", "own set"} /\ run'[p].pc = "all"
             \/ run'[p].pc \in {"answer", "drop"}
      BY <1>2, PassesFacts DEF data, Keeps
    <2> QED BY <2>1, LogOnly DEF Saving
  <1>3. ASSUME NEW p \in Procs, Enters(p) PROVE LogInv'
    <2>1. /\ Only(p) /\ log' = log /\ saves' = saves /\ run'[p].id = run[p].id
          /\ \/ run[p].pc = "own" /\ run'[p].pc = "own set"
             \/ run[p].pc = "all" /\ run'[p].pc = "all set"
             \/ run'[p].pc \in {"strip set", "prune set"}
      BY <1>3, EntersFacts DEF data
    <2> QED BY <2>1, LogOnly DEF Saving
  <1>4. ASSUME NEW p \in Procs, NEW a \in Automations, PurgeRead(p, a) PROVE LogInv'
    <2>1. Only(p) /\ log' = log /\ saves' = saves /\ run'[p].pc \in {"drop", "wipe"}
      BY <1>4, PurgeReadFacts DEF data
    <2> QED BY <2>1, LogOnly DEF Saving
  <1>5. ASSUME NEW p \in Procs, NEW key \in Keys, ListRead(p, key) PROVE LogInv'
    <2>1. Only(p) /\ log' = log /\ saves' = saves /\ run'[p].pc = "get"
      BY <1>5, ListReadFacts DEF data
    <2> QED BY <2>1, LogOnly DEF Saving
  <1>6. ASSUME NEW p \in Procs, Writes(p), ~Saving(p) PROVE LogInv'
    <2>1. /\ Only(p) /\ log' = log /\ saves' = saves
          /\ \/ run[p].pc \in {"own set", "all set"}
             \/ run'[p].pc \in {"drop", "answer"}
      BY <1>6, WriteFacts DEF Writes
    <2> QED BY <1>6, <2>1, LogOnly DEF Saving
  <1>7. ASSUME NEW p \in Procs, PurgeRecord(p) PROVE LogInv'
    <2>1. Only(p) /\ log' = log /\ saves' = saves /\ run'[p].pc \in {"strip", "wipe"}
      BY <1>7, PurgeRecordFacts
    <2> QED BY <2>1, LogOnly DEF Saving
  <1>8. ASSUME NEW p \in Procs, PurgeIndex(p) PROVE LogInv'
    <2>1. Only(p) /\ log' = log /\ saves' = saves /\ run'[p].pc = "idle"
      BY <1>8, PurgeIndexFacts
    <2> QED BY <2>1, LogOnly DEF Saving
  <1>9. ASSUME NEW p \in Procs, ListGet(p) PROVE LogInv'
    <2>0. PICK id : id = Head(run[p].ids)
      OBVIOUS
    <2>1. Only(p) /\ log' = log /\ saves' = saves /\ run'[p].pc \in {"get", "prune", "answer"}
      BY <1>9, <2>0, ListGetFacts DEF data
    <2> QED BY <2>1, LogOnly DEF Saving
  <1>10. ASSUME Expire PROVE LogInv'
    <2>1. log' = log /\ saves' = saves /\ run' = run
      BY <1>10, ExpireFacts
    <2> QED BY <2>1, LogMoves DEF Saving
  <1> QED BY <1>1, <1>2, <1>3, <1>4, <1>5, <1>6, <1>7, <1>8, <1>9, <1>10, LogSaved, LogWritten, NextIs
          DEF Writes

(***************************************************************************)
(* The indexes.                                                            *)
(***************************************************************************)

LEMMA LoggedLater ==
  ASSUME StateInv, LogInv, Onward, NEW key \in Keys, NEW id \in Range(log[key])
  PROVE  id \in Ids /\ saves[id] > 0 /\ (Once(id)' => Once(id) /\ rec'[id] <= rec[id])
  <1>1. id \in Ids
    BY RangeFacts DEF StateInv
  <1>2. saves[id] > 0
    BY DEF LogInv
  <1> QED BY <1>1, <1>2 DEF Onward

LEMMA KeyFacts == ASSUME StateInv, NEW p \in Procs PROVE KeyOf(p) \in Keys
  <1>1. run[p].key \in Keys /\ All \in Keys
    BY DEF StateInv, RunStates, Keys
  <1>2. run[p].pc = "own set" => AutomationOf[run[p].id] \in Keys
    BY KeysAssumption DEF StateInv, Saving, Keys
  <1> QED BY <1>1, <1>2 DEF KeyOf

\* In order, in size, and there as long as what it lists.
Sound(key) ==
    /\ life[key] = 0 <=> idx[key] = <<>>
    /\ Subsequence(idx[key], log[key]) /\ Len(idx[key]) <= Cap[key]
    /\ \A id \in Range(idx[key]) : Once(id) => rec[id] <= life[key]

Copied(p) ==
    lock = p =>
      /\ Subsequence(run[p].ids, log[KeyOf(p)]) /\ Len(run[p].ids) <= Cap[KeyOf(p)]
      /\ idx[KeyOf(p)] \in {<<>>, run[p].ids}

LEMMA IndexParts == IndexInv <=> (\A key \in Keys : Sound(key)) /\ \A p \in Procs : Copied(p)
  BY DEF IndexInv, Sound, Copied

LEMMA SoundFacts ==
  ASSUME StateInv, NEW key \in Keys, Sound(key)
  PROVE  Range(idx[key]) \subseteq Range(log[key])
  BY SubRange DEF Sound

\* An index that is not written.
LEMMA SoundKept ==
  ASSUME StateInv, StateInv', LogInv, Onward, NEW key \in Keys, Sound(key),
         idx'[key] = idx[key], life'[key] = life[key]
  PROVE  Sound(key)'
  <1>1. idx[key] \in Seq(Ids) /\ log[key] \in Seq(Ids) /\ life[key] \in Nat
    BY SizesAssumption DEF StateInv
  <1>2. Subsequence(idx[key], log'[key])
    BY <1>1 DEF Sound, Onward
  <1>3. ASSUME NEW id \in Range(idx[key]), Once(id)' PROVE rec'[id] <= life[key]
    <2>1. id \in Range(log[key])
      BY SoundFacts
    <2>2. id \in Ids /\ Once(id) /\ rec'[id] <= rec[id]
      BY <1>3, <2>1, LoggedLater
    <2>3. rec[id] <= life[key]
      BY <2>2 DEF Sound
    <2>4. rec[id] \in Nat /\ rec'[id] \in Nat
      BY <2>2, SizesAssumption DEF StateInv
    <2> QED BY <1>1, <2>2, <2>3, <2>4
  <1> QED BY <1>2, <1>3 DEF Sound

LEMMA CopyKept ==
  ASSUME StateInv, StateInv', Onward, NEW q \in Procs, Copied(q), lock' = q => lock = q,
         run'[q].ids = run[q].ids, KeyOf(q)' = KeyOf(q),
         \A key \in Keys : idx'[key] \in {<<>>, idx[key]}
  PROVE  Copied(q)'
  <1>1. PICK key \in Keys : key = KeyOf(q)
    BY KeyFacts
  <1>2. run[q].ids \in Seq(Ids)
    BY DEF StateInv, RunStates
  <1>3. ASSUME lock = q
        PROVE  /\ Subsequence(run[q].ids, log'[key]) /\ Len(run[q].ids) <= Cap[key]
               /\ idx'[key] \in {<<>>, run[q].ids}
    BY <1>1, <1>2, <1>3 DEF Copied, Onward
  <1> QED BY <1>1, <1>3 DEF Copied

LEMMA StaysKey == ASSUME NEW q \in Procs, Stays(q) PROVE KeyOf(q)' = KeyOf(q)
  BY DEF Stays, KeyOf

\* Steps that write no index.
LEMMA IndexMoves ==
  ASSUME StateInv, StateInv', LogInv, IndexInv, Onward, idx' = idx, life' = life,
         NEW p \in Procs, Moves(p), \A q \in Procs : q # p => (lock' = q => lock = q),
         lock' = p => run'[p].ids = idx[KeyOf(p)']
  PROVE  IndexInv'
  <1>1. \A key \in Keys : Sound(key)'
    BY SoundKept, IndexParts
  <1>2. ASSUME NEW q \in Procs PROVE Copied(q)'
    <2>1. CASE q # p
      <3>1. Stays(q)
        BY <2>1 DEF Moves
      <3>2. run'[q].ids = run[q].ids /\ KeyOf(q)' = KeyOf(q)
        BY <3>1, StaysKey DEF Stays
      <3> QED BY <2>1, <3>2, CopyKept, IndexParts
    <2>2. CASE q = p /\ lock' = p
      <3>1. KeyOf(p)' \in Keys
        <4>1. run'[p].key \in Keys /\ All \in Keys
          BY DEF StateInv, RunStates, Keys
        <4>2. run'[p].pc = "own set" => AutomationOf[run'[p].id] \in Keys
          BY KeysAssumption DEF StateInv, Saving, Keys
        <4> QED BY <4>1, <4>2 DEF KeyOf
      <3>2. PICK key \in Keys : key = KeyOf(p)'
        BY <3>1
      <3>3. Sound(key)' /\ run'[p].ids = idx'[key]
        BY <1>1, <2>2, <3>2
      <3>4. /\ Subsequence(run'[p].ids, log'[key]) /\ Len(run'[p].ids) <= Cap[key]
            /\ idx'[key] \in {<<>>, run'[p].ids}
        BY <3>3 DEF Sound
      <3> QED BY <2>2, <3>2, <3>4 DEF Copied
    <2>3. CASE q = p /\ lock' # p
      BY <2>3 DEF Copied
    <2> QED BY <2>1, <2>2, <2>3
  <1>3. (\A key \in Keys : Sound(key)') /\ \A q \in Procs : Copied(q)'
    BY <1>1, <1>2
  <1> QED BY <1>3 DEF IndexInv, Sound, Copied

\* What a critical section leaves.
LEMMA WrittenIndex ==
  ASSUME StateInv, StateInv', LogInv, IndexInv, Onward, NEW p \in Procs, Writes(p)
  PROVE  IndexInv'
  <1>1. PICK key \in Keys : key = KeyOf(p)
    BY KeyFacts
  <1>2. /\ lock = p /\ lock' = Nobody /\ run[p].ids \in Seq(Ids)
        /\ IF Saving(p) THEN run[p].id \in Ids /\ log' = [log EXCEPT ![key] = <<run[p].id>> \o @]
           ELSE log' = log
    BY <1>1, WriteFacts DEF Writes
  <1>3. PICK s \in Seq(Ids) :
           /\ SetIndex(key, s)
           /\ IF Saving(p) THEN s = Prepend(run[p].ids, run[p].id, Cap[key]) ELSE s = Remaining(p)
    BY <1>1, WrittenTyped DEF Writes
  <1>4. /\ idx'[key] = s /\ life'[key] = (IF s = <<>> THEN 0 ELSE TTL)
        /\ \A j \in Keys : j # key => idx'[j] = idx[j] /\ life'[j] = life[j]
    BY <1>3, SetIndexTyped
  <1>5. PICK c \in Seq(Ids) : c = run[p].ids
    BY <1>2
  <1>6. Subsequence(c, log[key]) /\ Len(c) <= Cap[key]
    BY <1>1, <1>2, <1>5, IndexParts DEF Copied
  <1>7. log[key] \in Seq(Ids) /\ log'[key] \in Seq(Ids) /\ Cap[key] \in Nat /\ TTL \in Nat /\ TTL # 0
    BY SizesAssumption DEF StateInv
  <1>8. Subsequence(s, log'[key]) /\ Len(s) <= Cap[key]
    <2>1. CASE Saving(p)
      <3>1. PICK id \in Ids : id = run[p].id
        BY <1>2, <2>1
      <3>2. PICK t \in Seq(Ids) : t = <<id>> \o c
        BY PrependFacts
      <3>3. s = Newest(t, Cap[key])
        BY <1>3, <1>5, <2>1, <3>1, <3>2 DEF Prepend
      <3>4. Len(s) <= Cap[key]
        <4>1. Len(s) = IF Cap[key] < Len(t) THEN Cap[key] ELSE Len(t)
          BY <1>7, <3>3, NewestFacts
        <4>2. Cap[key] \in Nat /\ Len(t) \in Nat
          BY <1>7
        <4> QED BY <4>1, <4>2
      <3>5. Subsequence(s, t)
        BY <1>7, <3>3, SubNewest
      <3>6. log'[key] = <<id>> \o log[key]
        BY <1>2, <2>1, <3>1 DEF StateInv
      <3>7. PICK l \in Seq(Ids) : l = log[key]
        BY <1>7
      <3>8. Subsequence(t, <<id>> \o l)
        BY <1>6, <3>2, <3>7, SubPrepend
      <3>9. PICK m \in Seq(Ids) : m = log'[key]
        BY <1>7
      <3>10. Subsequence(t, m)
        BY <3>6, <3>7, <3>8, <3>9
      <3> QED BY <3>4, <3>5, <3>9, <3>10, SubTrans
    <2>2. CASE ~Saving(p)
      <3>1. s = Without(c, run[p].drop)
        BY <1>3, <1>5, <2>2 DEF Remaining
      <3>2. Len(s) <= Len(c) /\ Subsequence(s, c)
        BY <3>1, WithoutFacts
      <3>3. PICK l \in Seq(Ids) : l = log[key]
        BY <1>7
      <3>4. Subsequence(s, l)
        BY <1>6, <3>2, <3>3, SubTrans
      <3>5. Len(s) <= Cap[key]
        BY <1>6, <1>7, <3>2
      <3> QED BY <1>2, <2>2, <3>3, <3>4, <3>5
    <2> QED BY <2>1, <2>2
  <1>9. Sound(key)'
    <2>1. life'[key] = 0 <=> s = <<>>
      BY <1>4, <1>7
    <2>2. ASSUME NEW id \in Range(s) PROVE rec'[id] <= life'[key]
      <3>1. s # <<>> /\ id \in Ids
        BY RangeFacts, <2>2
      <3>2. rec'[id] \in 0..TTL
        BY <3>1 DEF StateInv
      <3> QED BY <1>4, <1>7, <3>1, <3>2
    <2> QED BY <1>4, <1>8, <2>1, <2>2 DEF Sound
  <1>10. \A j \in Keys : Sound(j)'
    <2>1. ASSUME NEW j \in Keys, j # key PROVE Sound(j)'
      BY <1>4, <2>1, SoundKept, IndexParts
    <2> QED BY <1>9, <2>1
  <1>11. \A q \in Procs : lock' # q
    BY <1>2, KeysAssumption
  <1>12. \A q \in Procs : Copied(q)'
    BY <1>11 DEF Copied
  <1> QED BY <1>10, <1>12 DEF IndexInv, Sound, Copied

LEMMA IndexDropped ==
  ASSUME StateInv, StateInv', LogInv, IndexInv, Onward, NEW p \in Procs, PurgeIndex(p)
  PROVE  IndexInv'
  <1>1. PICK key \in Keys : key = run[p].key
    BY DEF StateInv, RunStates
  <1>2. /\ Only(p) /\ idx' = [idx EXCEPT ![key] = <<>>] /\ life' = [life EXCEPT ![key] = 0] /\ lock' = lock
        /\ run[p].pc = "drop"
    BY <1>1, PurgeIndexFacts
  <1>3. /\ idx'[key] = <<>> /\ life'[key] = 0
        /\ \A j \in Keys : j # key => idx'[j] = idx[j] /\ life'[j] = life[j]
    BY <1>2 DEF StateInv
  <1>4. log'[key] \in Seq(Ids) /\ Cap[key] \in Nat
    BY SizesAssumption DEF StateInv
  <1>5. Sound(key)'
    BY <1>3, <1>4, SubEmpty, EmptyRange DEF Sound
  <1>6. \A j \in Keys : j # key => Sound(j)'
    BY <1>3, SoundKept, IndexParts
  <1>7. \A j \in Keys : idx'[j] \in {<<>>, idx[j]}
    BY <1>3
  <1>8. lock # p
    BY <1>2 DEF StateInv, Locking
  <1>9. ASSUME NEW q \in Procs PROVE Copied(q)'
    <2>1. CASE q = p
      BY <1>2, <1>8, <2>1 DEF Copied
    <2>2. CASE q # p
      <3>1. run'[q].ids = run[q].ids /\ KeyOf(q)' = KeyOf(q)
        BY <1>2, <2>2, OnlyStays, StaysKey DEF Stays
      <3> QED BY <1>2, <1>7, <3>1, CopyKept, IndexParts
    <2> QED BY <2>1, <2>2
  <1>10. (\A j \in Keys : Sound(j)') /\ \A q \in Procs : Copied(q)'
    BY <1>5, <1>6, <1>9
  <1> QED BY <1>10 DEF IndexInv, Sound, Copied

LEMMA IndexExpired ==
  ASSUME StateInv, StateInv', LogInv, IndexInv, Onward, Expire
  PROVE  IndexInv'
  <1>1. /\ rec' = [id \in Ids |-> Less(rec[id])] /\ life' = [key \in Keys |-> Less(life[key])]
        /\ idx' = [key \in Keys |-> IF life'[key] = 0 THEN <<>> ELSE idx[key]]
        /\ lock' = lock /\ run' = run /\ log' = log /\ saves' = saves
    BY ExpireFacts
  <1>2. ASSUME NEW key \in Keys PROVE Sound(key)'
    <2>1. /\ life'[key] = Less(life[key]) /\ life[key] \in Nat /\ log[key] \in Seq(Ids) /\ Cap[key] \in Nat
          /\ idx[key] \in Seq(Ids) /\ idx'[key] = (IF life'[key] = 0 THEN <<>> ELSE idx[key])
      BY <1>1, SizesAssumption DEF StateInv
    <2>2. CASE life'[key] = 0
      BY <1>1, <2>1, <2>2, SubEmpty, EmptyRange DEF Sound
    <2>3. CASE life'[key] # 0
      <3>1. idx'[key] = idx[key] /\ life[key] # 0 /\ life'[key] = life[key] - 1
        BY <2>1, <2>3 DEF Less
      <3>2. Sound(key)
        BY IndexParts
      <3>3. ASSUME NEW id \in Range(idx[key]), Once(id) PROVE rec'[id] <= life'[key]
        <4>1. id \in Ids /\ rec[id] <= life[key]
          BY <2>1, <3>2, <3>3, RangeFacts DEF Sound
        <4>2. rec'[id] = Less(rec[id]) /\ rec[id] \in Nat
          BY <1>1, <4>1, SizesAssumption DEF StateInv
        <4> QED BY <2>1, <3>1, <4>1, <4>2 DEF Less
      <3>4. idx[key] # <<>>
        BY <3>1, <3>2 DEF Sound
      <3> QED BY <1>1, <2>3, <3>1, <3>2, <3>3, <3>4 DEF Sound, Once
    <2> QED BY <2>2, <2>3
  <1>3. \A j \in Keys : idx'[j] \in {<<>>, idx[j]}
    BY <1>1
  <1>4. ASSUME NEW q \in Procs PROVE Copied(q)'
    <2>1. run'[q].ids = run[q].ids /\ KeyOf(q)' = KeyOf(q)
      BY <1>1 DEF KeyOf
    <2> QED BY <1>1, <1>3, <2>1, CopyKept, IndexParts
  <1>5. (\A j \in Keys : Sound(j)') /\ \A q \in Procs : Copied(q)'
    BY <1>2, <1>4
  <1> QED BY <1>5 DEF IndexInv, Sound, Copied

LEMMA IndexStep ==
  ASSUME StateInv, StateInv', LogInv, IndexInv, Onward, HistoryNext
  PROVE  IndexInv'
  <1>0. Nobody \notin Procs
    BY KeysAssumption
  <1>1. ASSUME NEW p \in Procs, Ends(p) PROVE IndexInv'
    <2>1. Only(p) /\ Release(p) /\ idx' = idx /\ life' = life
      BY <1>1, EndRun DEF Ends, data
    <2>2. lock' # p /\ \A q \in Procs : q # p => (lock' = q => lock = q)
      BY <1>0, <2>1 DEF Release
    <2> QED BY <2>1, <2>2, OnlyMoves, IndexMoves
  <1>2. ASSUME NEW p \in Procs, Passes(p) PROVE IndexInv'
    <2>1. Only(p) /\ Release(p) /\ idx' = idx /\ life' = life
      BY <1>2, PassesFacts DEF data
    <2>2. lock' # p /\ \A q \in Procs : q # p => (lock' = q => lock = q)
      BY <1>0, <2>1 DEF Release
    <2> QED BY <2>1, <2>2, OnlyMoves, IndexMoves
  <1>3. ASSUME NEW p \in Procs, Enters(p) PROVE IndexInv'
    <2>1. Only(p) /\ run'[p].ids = idx[KeyOf(p)'] /\ lock' = p /\ idx' = idx /\ life' = life
      BY <1>3, EntersFacts DEF data
    <2> QED BY <2>1, OnlyMoves, IndexMoves
  <1>4. ASSUME NEW p \in Procs, NEW id \in Ids, SaveRecord(p, id) PROVE IndexInv'
    <2>1. /\ run' \in [Procs -> RunStates] /\ run[p].pc = "idle"
          /\ \A q \in Procs : q # p => Stays(q)
          /\ lock' = lock /\ idx' = idx /\ life' = life
      BY <1>4, SaveFacts
    <2>2. lock # p
      BY <2>1 DEF StateInv, Locking
    <2> QED BY <2>1, <2>2, IndexMoves DEF Moves
  <1>5. ASSUME NEW p \in Procs, NEW a \in Automations, PurgeRead(p, a) PROVE IndexInv'
    <2>1. Only(p) /\ run[p].pc = "idle" /\ lock' = lock /\ idx' = idx /\ life' = life
      BY <1>5, PurgeReadFacts DEF data
    <2>2. lock # p
      BY <2>1 DEF StateInv, Locking
    <2> QED BY <2>1, <2>2, OnlyMoves, IndexMoves
  <1>6. ASSUME NEW p \in Procs, NEW key \in Keys, ListRead(p, key) PROVE IndexInv'
    <2>1. Only(p) /\ run[p].pc = "idle" /\ lock' = lock /\ idx' = idx /\ life' = life
      BY <1>6, ListReadFacts DEF data
    <2>2. lock # p
      BY <2>1 DEF StateInv, Locking
    <2> QED BY <2>1, <2>2, OnlyMoves, IndexMoves
  <1>7. ASSUME NEW p \in Procs, PurgeRecord(p) PROVE IndexInv'
    <2>1. Only(p) /\ run[p].pc = "wipe" /\ lock' = lock /\ idx' = idx /\ life' = life
      BY <1>7, PurgeRecordFacts
    <2>2. lock # p
      BY <2>1 DEF StateInv, Locking
    <2> QED BY <2>1, <2>2, OnlyMoves, IndexMoves
  <1>8. ASSUME NEW p \in Procs, ListGet(p) PROVE IndexInv'
    <2>0. PICK id : id = Head(run[p].ids)
      OBVIOUS
    <2>1. Only(p) /\ run[p].pc = "get" /\ lock' = lock /\ idx' = idx /\ life' = life
      BY <1>8, <2>0, ListGetFacts DEF data
    <2>2. lock # p
      BY <2>1 DEF StateInv, Locking
    <2> QED BY <2>1, <2>2, OnlyMoves, IndexMoves
  <1> QED BY <1>1, <1>2, <1>3, <1>4, <1>5, <1>6, <1>7, <1>8, WrittenIndex, IndexDropped, IndexExpired,
             NextIs DEF Writes

(***************************************************************************)
(* Records that are alive are listed.                                      *)
(***************************************************************************)

Listed(key) ==
    \A n \in DOMAIN log[key] :
        n <= Cap[key] /\ Once(log[key][n]) /\ rec[log[key][n]] > 0 /\ (key # All => purges[key] = 0)
        => log[key][n] \in Range(idx[key])

LEMMA ListedParts == LivingRecordsAreListed <=> \A key \in Keys : Listed(key)
  BY DEF LivingRecordsAreListed, Listed

\* What is alive after a step was alive before it.
LEMMA AliveBefore ==
  ASSUME StateInv, StateInv', LogInv, Onward, NEW key \in Keys, NEW id \in Range(log[key]),
         Once(id)', rec'[id] > 0
  PROVE  id \in Ids /\ Once(id) /\ rec[id] > 0
  <1>1. id \in Ids /\ Once(id) /\ rec'[id] <= rec[id]
    BY LoggedLater
  <1>2. rec[id] \in Nat /\ rec'[id] \in Nat
    BY <1>1, SizesAssumption DEF StateInv
  <1> QED BY <1>1, <1>2

LEMMA ListedBefore ==
  ASSUME StateInv, StateInv', LogInv, Onward, NEW key \in Keys, Listed(key),
         NEW n \in DOMAIN log[key], n <= Cap[key], saves'[log[key][n]] = 1, rec'[log[key][n]] > 0,
         key # All => purges'[key] = 0
  PROVE  log[key][n] \in Range(idx[key]) /\ Once(log[key][n]) /\ rec[log[key][n]] > 0
  <1>1. PICK id : id = log[key][n]
    OBVIOUS
  <1>2. id \in Range(log[key])
    BY <1>1, Zenon DEF Range
  <1>3. Once(id) /\ rec[id] > 0
    <2>1. Once(id)' /\ rec'[id] > 0
      BY <1>1 DEF Once
    <2> QED BY <1>2, <2>1, AliveBefore
  <1>4. key # All => purges[key] = 0
    BY DEF Onward, Keys
  <1> QED BY <1>1, <1>3, <1>4 DEF Listed

LEMMA ListedKept ==
  ASSUME StateInv, StateInv', LogInv, Onward, NEW key \in Keys, Listed(key),
         log'[key] = log[key], idx'[key] = idx[key]
  PROVE  Listed(key)'
  <1>1. ASSUME NEW n \in DOMAIN log[key], n <= Cap[key], saves'[log[key][n]] = 1, rec'[log[key][n]] > 0,
               key # All => purges'[key] = 0
        PROVE  log[key][n] \in Range(idx'[key])
    BY <1>1, ListedBefore
  <1> QED BY <1>1 DEF Listed, Once

LEMMA LivingMoves ==
  ASSUME StateInv, StateInv', LogInv, Onward, LivingRecordsAreListed, log' = log, idx' = idx
  PROVE  LivingRecordsAreListed'
  <1>1. \A key \in Keys : Listed(key)'
    BY ListedKept, ListedParts
  <1> QED BY <1>1 DEF LivingRecordsAreListed, Listed

\* The id that is saved becomes the first, and the others move on by one.
LEMMA PrependedListed ==
  ASSUME StateInv, StateInv', LogInv, IndexInv, Onward, LivingRecordsAreListed,
         NEW p \in Procs, Writes(p), Saving(p)
  PROVE  LivingRecordsAreListed'
  <1>1. PICK key \in Keys, id \in Ids :
          /\ key = KeyOf(p) /\ id = run[p].id /\ log[key] \in Seq(Ids)
          /\ \A j \in Keys : j # key => log'[j] = log[j]
          /\ Len(log[key]) \in Nat /\ DOMAIN log[key] = 1..Len(log[key])
          /\ DOMAIN log'[key] = 1..(Len(log[key]) + 1)
          /\ log'[key][1] = id /\ \A n \in 2..(Len(log[key]) + 1) : log'[key][n] = log[key][n - 1]
          /\ Range(log'[key]) = Range(log[key]) \cup {id}
    BY LoggedFacts, Zenon
  <1>2. PICK s \in Seq(Ids) :
           SetIndex(KeyOf(p), s) /\ s = Prepend(run[p].ids, run[p].id, Cap[KeyOf(p)])
    BY WrittenTyped DEF Writes
  <1>3. PICK c \in Seq(Ids) : c = run[p].ids
    BY DEF StateInv, RunStates
  <1>4. SetIndex(key, s) /\ s = Prepend(c, id, Cap[key])
    BY <1>1, <1>2, <1>3
  <1>5. idx'[key] = s /\ \A j \in Keys : j # key => idx'[j] = idx[j]
    BY <1>4, SetIndexTyped
  <1>6. lock = p /\ rec' = rec /\ saves' = saves
    BY WriteFacts DEF Writes
  <1>7. Subsequence(c, log[key]) /\ idx[key] \in {<<>>, c}
    BY <1>1, <1>3, <1>6, IndexParts DEF Copied
  <1>8. Cap[key] \in Nat /\ Cap[key] >= 1
    BY SizesAssumption
  <1>9. PICK t \in Seq(Ids) : t = <<id>> \o c
    BY PrependFacts
  <1>10. /\ Len(t) = Len(c) + 1 /\ t[1] = id /\ \A i \in 1..Len(c) : t[i + 1] = c[i]
         /\ DOMAIN t = 1..Len(t) /\ Len(c) \in Nat /\ DOMAIN c = 1..Len(c)
    BY <1>9, PrependFacts
  <1>11. \A i \in DOMAIN t : i <= Cap[key] => t[i] \in Range(s)
    BY <1>4, <1>8, <1>9, NewestFacts DEF Prepend
  <1>12. Listed(key)'
    <2>1. ASSUME NEW n \in DOMAIN log'[key], n <= Cap[key], saves'[log'[key][n]] = 1, rec'[log'[key][n]] > 0,
                 key # All => purges'[key] = 0
          PROVE  log'[key][n] \in Range(s)
      <3>1. CASE n = 1
        <4>1. 1 \in DOMAIN t
          BY <1>10
        <4> QED BY <1>1, <1>8, <1>10, <1>11, <3>1, <4>1
      <3>2. CASE n # 1
        <4>1. /\ n - 1 \in DOMAIN log[key] /\ log'[key][n] = log[key][n - 1] /\ n - 1 <= Cap[key]
              /\ n \in Nat /\ n - 1 \in Nat /\ n \in 2..(Len(log[key]) + 1)
          <5>1. PICK L \in Nat : L = Len(log[key])
            BY <1>1
          <5>2. n \in 1..(L + 1) /\ DOMAIN log[key] = 1..L
            BY <1>1, <2>1, <5>1
          <5>3. n \in 2..(L + 1) /\ n - 1 \in 1..L /\ n \in Nat /\ n - 1 \in Nat
            BY <3>2, <5>2
          <5>4. n - 1 <= Cap[key]
            BY <1>8, <2>1, <5>3
          <5>5. log'[key][n] = log[key][n - 1]
            BY <1>1, <5>1, <5>3
          <5> QED BY <5>1, <5>2, <5>3, <5>4, <5>5
        <4>2. PICK m \in DOMAIN log[key] : m = n - 1
          BY <4>1
        <4>3. log[key][m] \in Range(idx[key]) /\ Once(log[key][m])
          <5>1. m <= Cap[key] /\ saves'[log[key][m]] = 1 /\ rec'[log[key][m]] > 0
            BY <2>1, <4>1, <4>2
          <5> QED BY <2>1, <5>1, ListedBefore, ListedParts
        <4>4. log[key][m] \in Range(c)
          BY <1>7, <4>3, EmptyRange
        <4>5. \A i \in DOMAIN log[key] : log[key][i] = log[key][m] => i = m
          BY <4>3 DEF LogInv
        <4>6. PICK l \in Seq(Ids) : l = log[key]
          BY <1>1
        <4>7. PICK i \in DOMAIN c : i <= m /\ c[i] = l[m]
          BY <1>7, <4>4, <4>5, <4>6, SubPlace
        <4>8. i + 1 \in DOMAIN t /\ i + 1 <= Cap[key] /\ t[i + 1] = c[i]
          BY <1>8, <1>10, <2>1, <4>1, <4>2, <4>7
        <4> QED BY <1>11, <4>1, <4>2, <4>6, <4>7, <4>8
      <3> QED BY <3>1, <3>2
    <2> QED BY <1>5, <2>1 DEF Listed, Once
  <1>13. \A j \in Keys : j # key => Listed(j)'
    BY <1>1, <1>5, ListedKept, ListedParts
  <1>14. \A j \in Keys : Listed(j)'
    BY <1>12, <1>13
  <1> QED BY <1>14 DEF LivingRecordsAreListed, Listed

\* Only ids whose records are gone are removed.
LEMMA RemovedListed ==
  ASSUME StateInv, StateInv', LogInv, IndexInv, DropInv, Onward, LivingRecordsAreListed,
         NEW p \in Procs, Writes(p), ~Saving(p)
  PROVE  LivingRecordsAreListed'
  <1>1. PICK key \in Keys : key = KeyOf(p)
    BY KeyFacts
  <1>2. PICK s \in Seq(Ids) : SetIndex(key, s) /\ s = Remaining(p)
    BY <1>1, WrittenTyped DEF Writes
  <1>3. PICK c \in Seq(Ids) : c = run[p].ids
    BY DEF StateInv, RunStates
  <1>4. idx'[key] = s /\ \A j \in Keys : j # key => idx'[j] = idx[j]
    BY <1>2, SetIndexTyped
  <1>5. lock = p /\ log' = log /\ run[p].pc \in {"strip set", "prune set"}
    BY WriteFacts DEF Writes, Saving
  <1>6. idx[key] \in {<<>>, c}
    BY <1>1, <1>3, <1>5, IndexParts DEF Copied
  <1>7. Range(s) = Range(c) \ run[p].drop
    BY <1>2, <1>3, WithoutFacts DEF Remaining
  <1>8. \A id \in run[p].drop : Once(id) => rec[id] = 0
    BY <1>5 DEF DropInv, Purging, Listing
  <1>9. Listed(key)'
    <2>1. ASSUME NEW n \in DOMAIN log[key], n <= Cap[key], saves'[log[key][n]] = 1, rec'[log[key][n]] > 0,
                 key # All => purges'[key] = 0
          PROVE  log[key][n] \in Range(s)
      <3>1. log[key][n] \in Range(idx[key]) /\ Once(log[key][n]) /\ rec[log[key][n]] > 0
        BY <2>1, ListedBefore, ListedParts
      <3>2. log[key][n] \in Range(c)
        BY <1>6, <3>1, EmptyRange
      <3>3. log[key][n] \notin run[p].drop
        BY <1>8, <3>1
      <3> QED BY <1>7, <3>2, <3>3
    <2> QED BY <1>4, <1>5, <2>1 DEF Listed, Once
  <1>10. \A j \in Keys : j # key => Listed(j)'
    BY <1>4, <1>5, ListedKept, ListedParts
  <1>11. \A j \in Keys : Listed(j)'
    BY <1>9, <1>10
  <1> QED BY <1>11 DEF LivingRecordsAreListed, Listed

LEMMA DroppedListed ==
  ASSUME StateInv, StateInv', LogInv, Onward, LivingRecordsAreListed, NEW p \in Procs, PurgeIndex(p)
  PROVE  LivingRecordsAreListed'
  <1>1. PICK key \in Automations : key = run[p].key /\ purges[key] > 0
    BY PurgeIndexFacts DEF StateInv, Purging
  <1>2. idx' = [idx EXCEPT ![key] = <<>>] /\ log' = log /\ purges' = purges
    BY <1>1, PurgeIndexFacts
  <1>3. key # All /\ key \in Keys /\ purges'[key] # 0
    BY <1>1, <1>2, KeysAssumption DEF Keys
  <1>4. Listed(key)'
    BY <1>3 DEF Listed
  <1>5. \A j \in Keys : j # key => idx'[j] = idx[j]
    BY <1>2 DEF StateInv
  <1>6. \A j \in Keys : j # key => Listed(j)'
    BY <1>2, <1>5, ListedKept, ListedParts
  <1>7. \A j \in Keys : Listed(j)'
    BY <1>4, <1>6
  <1> QED BY <1>7 DEF LivingRecordsAreListed, Listed

\* An index lives as long as what it lists.
LEMMA ExpiredListed ==
  ASSUME StateInv, StateInv', LogInv, IndexInv, Onward, LivingRecordsAreListed, Expire
  PROVE  LivingRecordsAreListed'
  <1>1. /\ rec' = [id \in Ids |-> Less(rec[id])] /\ life' = [key \in Keys |-> Less(life[key])]
        /\ idx' = [key \in Keys |-> IF life'[key] = 0 THEN <<>> ELSE idx[key]]
        /\ log' = log /\ saves' = saves
    BY ExpireFacts
  <1>2. ASSUME NEW key \in Keys PROVE Listed(key)'
    <2>1. ASSUME NEW n \in DOMAIN log[key], n <= Cap[key], saves'[log[key][n]] = 1, rec'[log[key][n]] > 0,
                 key # All => purges'[key] = 0
          PROVE  log[key][n] \in Range(idx'[key])
      <3>1. PICK id : id = log[key][n]
        OBVIOUS
      <3>2. id \in Range(idx[key]) /\ Once(id)
        BY <2>1, <3>1, ListedBefore, ListedParts
      <3>3. rec[id] <= life[key] /\ idx[key] \in Seq(Ids)
        BY <3>2, IndexParts DEF Sound, StateInv
      <3>4. id \in Ids
        BY <3>2, <3>3, RangeFacts
      <3>5. rec[id] \in Nat /\ life[key] \in Nat /\ rec'[id] = Less(rec[id]) /\ life'[key] = Less(life[key])
        BY <1>1, <3>4, SizesAssumption DEF StateInv
      <3>6. life'[key] # 0
        BY <2>1, <3>1, <3>3, <3>5 DEF Less
      <3> QED BY <1>1, <3>1, <3>2, <3>6
    <2> QED BY <1>1, <2>1 DEF Listed, Once
  <1>3. \A j \in Keys : Listed(j)'
    BY <1>2
  <1> QED BY <1>3 DEF LivingRecordsAreListed, Listed

LEMMA LivingStep ==
  ASSUME StateInv, StateInv', LogInv, IndexInv, DropInv, Onward, LivingRecordsAreListed, HistoryNext
  PROVE  LivingRecordsAreListed'
  <1>1. ASSUME NEW p \in Procs, Ends(p) \/ Passes(p) \/ Enters(p) PROVE LivingRecordsAreListed'
    <2>1. UNCHANGED data
      BY <1>1 DEF Ends, Passes, Enters, EntersWith
    <2> QED BY <2>1, LivingMoves DEF data
  <1>2. ASSUME NEW p \in Procs, NEW id \in Ids, SaveRecord(p, id) PROVE LivingRecordsAreListed'
    BY <1>2, SaveFacts, LivingMoves
  <1>3. ASSUME NEW p \in Procs, NEW a \in Automations, PurgeRead(p, a) PROVE LivingRecordsAreListed'
    BY <1>3, PurgeReadFacts, LivingMoves DEF data
  <1>4. ASSUME NEW p \in Procs, NEW key \in Keys, ListRead(p, key) PROVE LivingRecordsAreListed'
    BY <1>4, ListReadFacts, LivingMoves DEF data
  <1>5. ASSUME NEW p \in Procs, PurgeRecord(p) PROVE LivingRecordsAreListed'
    BY <1>5, PurgeRecordFacts, LivingMoves
  <1>6. ASSUME NEW p \in Procs, ListGet(p) PROVE LivingRecordsAreListed'
    <2>0. PICK id : id = Head(run[p].ids)
      OBVIOUS
    <2> QED BY <1>6, <2>0, ListGetFacts, LivingMoves DEF data
  <1> QED BY <1>1, <1>2, <1>3, <1>4, <1>5, <1>6, PrependedListed, RemovedListed, DroppedListed,
             ExpiredListed, NextIs DEF Writes

(***************************************************************************)
(* What is about to be removed is gone.                                    *)
(***************************************************************************)

Drops(p) ==
    /\ Purging(p) \/ Listing(p) =>
          /\ run[p].drop \subseteq Range(log[run[p].key])
          /\ \A id \in run[p].drop :
                Once(id) => rec[id] = 0 \/ (run[p].pc = "wipe" /\ id \in Range(run[p].ids))
    /\ run[p].pc = "wipe" => Range(run[p].ids) \subseteq run[p].drop

LEMMA DropParts == DropInv <=> \A p \in Procs : Drops(p)
  BY DEF DropInv, Drops

\* A process that drops nothing else.
LEMMA DropsKept ==
  ASSUME StateInv, StateInv', LogInv, Onward, NEW q \in Procs, Drops(q),
         Purging(q)' \/ Listing(q)' =>
            /\ Purging(q) \/ Listing(q)
            /\ run'[q].key = run[q].key /\ run'[q].drop = run[q].drop
            /\ run[q].pc = "wipe" \/ run'[q].pc = "wipe" =>
                  run'[q].pc = run[q].pc /\ run'[q].ids = run[q].ids
  PROVE  Drops(q)'
  <1>1. CASE ~(Purging(q)' \/ Listing(q)')
    BY <1>1 DEF Drops, Purging
  <1>2. CASE Purging(q)' \/ Listing(q)'
    <2>1. /\ run'[q].key = run[q].key /\ run'[q].drop = run[q].drop
          /\ run'[q].pc = "wipe" => run[q].pc = "wipe" /\ run'[q].ids = run[q].ids
          /\ run[q].pc = "wipe" => run'[q].pc = "wipe" /\ run'[q].ids = run[q].ids
          /\ Purging(q) \/ Listing(q)
      BY <1>2
    <2>2. PICK key \in Keys : key = run[q].key
      BY DEF StateInv, RunStates
    <2>3. run[q].drop \subseteq Range(log[key])
      BY <2>1, <2>2 DEF Drops
    <2>4. Range(log[key]) \subseteq Range(log'[key])
      BY DEF Onward
    <2>5. ASSUME NEW id \in run[q].drop, Once(id)'
          PROVE  rec'[id] = 0 \/ (run'[q].pc = "wipe" /\ id \in Range(run'[q].ids))
      <3>1. id \in Ids /\ Once(id) /\ rec'[id] <= rec[id]
        BY <2>3, <2>5, LoggedLater
      <3>2. rec[id] = 0 \/ (run[q].pc = "wipe" /\ id \in Range(run[q].ids))
        BY <2>1, <2>5, <3>1 DEF Drops
      <3>3. rec[id] \in Nat /\ rec'[id] \in Nat
        BY <3>1, SizesAssumption DEF StateInv
      <3> QED BY <2>1, <3>1, <3>2, <3>3
    <2>6. run'[q].pc = "wipe" => Range(run'[q].ids) \subseteq run'[q].drop
      BY <2>1 DEF Drops
    <2> QED BY <2>1, <2>2, <2>3, <2>4, <2>5, <2>6 DEF Drops
  <1> QED BY <1>1, <1>2

LEMMA DropsStay ==
  ASSUME StateInv, StateInv', LogInv, Onward, NEW q \in Procs, Drops(q), Stays(q)
  PROVE  Drops(q)'
  BY DropsKept DEF Stays, Purging, Listing

LEMMA DropMoves ==
  ASSUME StateInv, StateInv', LogInv, Onward, DropInv, NEW p \in Procs, Moves(p), Drops(p)'
  PROVE  DropInv'
  <1>1. \A q \in Procs : Drops(q)'
    BY DropsStay, DropParts DEF Moves
  <1> QED BY <1>1 DEF DropInv, Drops

LEMMA DropStep ==
  ASSUME StateInv, StateInv', LogInv, IndexInv, ListInv, Onward, DropInv, HistoryNext
  PROVE  DropInv'
  <1>1. ASSUME NEW p \in Procs, Ends(p) PROVE DropInv'
    <2>1. Only(p) /\ run'[p].pc = "idle"
      BY <1>1, EndRun DEF Ends
    <2> QED BY <2>1, OnlyMoves, DropMoves DEF Drops, Purging, Listing
  <1>2. ASSUME NEW p \in Procs, Passes(p) PROVE DropInv'
    <2>1. /\ Only(p) /\ run'[p].key = run[p].key /\ run'[p].drop = run[p].drop
          /\ \/ run'[p].pc = "all"
             \/ run[p].pc \in {"prune", "prune set"} /\ run'[p].pc = "answer"
             \/ run[p].pc = "strip" /\ run'[p].pc = "drop"
      BY <1>2, PassesFacts DEF Keeps
    <2>2. Drops(p)'
      BY <2>1, DropsKept, DropParts DEF Purging, Listing
    <2> QED BY <2>1, <2>2, OnlyMoves, DropMoves
  <1>3. ASSUME NEW p \in Procs, Enters(p) PROVE DropInv'
    <2>1. /\ Only(p) /\ run'[p].key = run[p].key /\ run'[p].drop = run[p].drop
          /\ \/ run'[p].pc \in {"own set", "all set"}
             \/ run[p].pc = "strip" /\ run'[p].pc = "strip set"
             \/ run[p].pc = "prune" /\ run'[p].pc = "prune set"
      BY <1>3, EntersFacts
    <2>2. Drops(p)'
      BY <2>1, DropsKept, DropParts DEF Purging, Listing
    <2> QED BY <2>1, <2>2, OnlyMoves, DropMoves
  <1>4. ASSUME NEW p \in Procs, NEW id \in Ids, SaveRecord(p, id) PROVE DropInv'
    <2>1. Moves(p) /\ run'[p].pc = "own"
      BY <1>4, SaveFacts DEF Moves
    <2> QED BY <2>1, DropMoves DEF Drops, Purging, Listing
  <1>5. ASSUME NEW p \in Procs, NEW a \in Automations, PurgeRead(p, a) PROVE DropInv'
    <2>1. /\ Only(p) /\ run'[p].pc = (IF idx[a] = <<>> THEN "drop" ELSE "wipe")
          /\ run'[p].key = a /\ run'[p].ids = idx[a] /\ run'[p].drop = Range(idx[a])
          /\ log' = log
      BY <1>5, PurgeReadFacts DEF data
    <2>2. a \in Keys
      BY DEF Keys
    <2>3. Range(idx[a]) \subseteq Range(log[a])
      BY <2>2, SoundFacts, IndexParts
    <2>4. idx[a] = <<>> => Range(idx[a]) = {}
      BY EmptyRange
    <2>5. Drops(p)'
      BY <2>1, <2>3, <2>4 DEF Drops
    <2> QED BY <2>1, <2>5, OnlyMoves, DropMoves
  <1>6. ASSUME NEW p \in Procs, NEW key \in Keys, ListRead(p, key) PROVE DropInv'
    <2>1. Only(p) /\ run'[p].pc = "get" /\ run'[p].drop = {}
      BY <1>6, ListReadFacts
    <2> QED BY <2>1, OnlyMoves, DropMoves DEF Drops
  <1>7. ASSUME NEW p \in Procs, Writes(p) PROVE DropInv'
    <2>1. /\ Only(p)
          /\ run'[p].pc # "idle" => run'[p].key = run[p].key /\ run'[p].drop = run[p].drop
          /\ \/ run'[p].pc \in {"all", "idle"}
             \/ run[p].pc = "strip set" /\ run'[p].pc = "drop"
             \/ run[p].pc = "prune set" /\ run'[p].pc = "answer"
      BY <1>7, WriteFacts DEF Writes, Keeps
    <2>2. Drops(p)'
      BY <2>1, DropsKept, DropParts DEF Purging, Listing
    <2> QED BY <2>1, <2>2, OnlyMoves, DropMoves
  <1>8. ASSUME NEW p \in Procs, PurgeRecord(p) PROVE DropInv'
    <2>1. PICK c \in Seq(Ids), id \in Ids : c = run[p].ids /\ c # <<>> /\ id = Head(c)
      BY <1>8, PurgeRecordFacts
    <2>2. /\ Only(p) /\ Keeps(p) /\ run[p].pc = "wipe" /\ run'[p].ids = Tail(c)
          /\ \/ run'[p].pc = "wipe" /\ run'[p].ids # <<>>
             \/ run'[p].pc = "strip" /\ run'[p].ids = <<>>
          /\ rec' = [rec EXCEPT ![id] = 0] /\ log' = log /\ saves' = saves
      BY <1>8, <2>1, PurgeRecordFacts
    <2>3. Range(c) = Range(Tail(c)) \cup {id}
      BY <2>1, SubTail
    <2>4. Drops(p)
      BY DropParts
    <2>5. run[p].drop \subseteq Range(log[run[p].key]) /\ Range(c) \subseteq run[p].drop
      BY <2>1, <2>2, <2>4 DEF Drops, Purging
    <2>6. ASSUME NEW x \in run[p].drop, Once(x)
          PROVE  rec'[x] = 0 \/ (run'[p].pc = "wipe" /\ x \in Range(Tail(c)))
      <3>1. x \in Ids
        BY DEF StateInv, RunStates
      <3>2. rec[x] = 0 \/ x \in Range(c)
        BY <2>1, <2>2, <2>4, <2>6 DEF Drops, Purging
      <3>3. rec[x] = 0 => rec'[x] = 0
        BY <2>2, <3>1 DEF StateInv
      <3>4. rec'[id] = 0
        BY <2>2 DEF StateInv
      <3>5. run'[p].pc = "strip" => Range(Tail(c)) = {}
        BY <2>2, EmptyRange
      <3> QED BY <2>2, <2>3, <3>2, <3>3, <3>4, <3>5
    <2>7. Drops(p)'
      BY <2>2, <2>3, <2>5, <2>6 DEF Drops, Once, Keeps
    <2> QED BY <2>2, <2>7, OnlyMoves, DropMoves
  <1>9. ASSUME NEW p \in Procs, PurgeIndex(p) PROVE DropInv'
    <2>1. Only(p) /\ run'[p].pc = "idle"
      BY <1>9, PurgeIndexFacts
    <2> QED BY <2>1, OnlyMoves, DropMoves DEF Drops, Purging, Listing
  <1>10. ASSUME NEW p \in Procs, ListGet(p) PROVE DropInv'
    <2>1. PICK id : id = Head(run[p].ids)
      OBVIOUS
    <2>2. /\ Only(p) /\ run[p].pc = "get" /\ run[p].ids \in Seq(Ids) /\ run[p].ids # <<>>
          /\ id \in Ids /\ run'[p].key = run[p].key
          /\ IF rec[id] > 0 THEN run'[p].drop = run[p].drop ELSE run'[p].drop = run[p].drop \cup {id}
          /\ run'[p].pc \in {"get", "prune", "answer"} /\ UNCHANGED data
      BY <1>10, <2>1, ListGetFacts
    <2>3. id \in Range(run[p].ids)
      BY <2>1, <2>2, SubTail
    <2>4. Range(run[p].ids) \subseteq Range(log[run[p].key])
      BY <2>2 DEF ListInv, Listing
    <2>5. /\ run[p].drop \subseteq Range(log[run[p].key])
          /\ \A x \in run[p].drop : Once(x) => rec[x] = 0
      BY <2>2, DropParts DEF Drops, Listing
    <2>6. rec[id] > 0 \/ rec[id] = 0
      BY <2>2, SizesAssumption DEF StateInv
    <2>7. log' = log /\ rec' = rec /\ saves' = saves
      BY <2>2 DEF data
    <2>8. /\ run'[p].drop \subseteq Range(log[run[p].key])
          /\ \A x \in run'[p].drop : Once(x) => rec[x] = 0
      BY <2>2, <2>3, <2>4, <2>5, <2>6
    <2>9. Drops(p)'
      BY <2>2, <2>7, <2>8 DEF Drops, Once
    <2> QED BY <2>2, <2>9, OnlyMoves, DropMoves
  <1>11. ASSUME Expire PROVE DropInv'
    <2>1. run' = run
      BY <1>11, ExpireFacts
    <2>2. \A q \in Procs : Drops(q)'
      BY <2>1, DropsStay, DropParts DEF Stays
    <2> QED BY <2>2 DEF DropInv, Drops
  <1> QED BY <1>1, <1>2, <1>3, <1>4, <1>5, <1>6, <1>7, <1>8, <1>9, <1>10, <1>11, NextIs DEF Writes

(***************************************************************************)
(* Purges.                                                                 *)
(***************************************************************************)

LEMMA StrippedMoves ==
  ASSUME StateInv, StateInv', NEW id, Stripped(id), NEW p \in Procs, Moves(p),
         Range(idx'[All]) \subseteq Range(idx[All]),
         \A q \in Procs : q # p => (lock' = q => lock = q),
         lock' = p /\ KeyOf(p)' = All => run'[p].ids = idx[All],
         Saving(p)' => (Saving(p) /\ run'[p].id = run[p].id) \/ run'[p].id # id
  PROVE  Stripped(id)'
  <1>1. id \notin Range(idx'[All])
    BY DEF Stripped
  <1>2. ASSUME NEW q \in Procs
        PROVE  /\ lock' = q /\ KeyOf(q)' = All => id \notin Range(run'[q].ids)
               /\ Saving(q)' => run'[q].id # id
    <2>1. CASE q = p
      BY <2>1 DEF Stripped
    <2>2. CASE q # p
      <3>1. Stays(q)
        BY <2>2 DEF Moves
      <3>2. run'[q].ids = run[q].ids /\ KeyOf(q)' = KeyOf(q) /\ run'[q].id = run[q].id
            /\ Saving(q)' = Saving(q)
        BY <3>1, StaysKey DEF Stays, Saving
      <3> QED BY <2>2, <3>2 DEF Stripped
    <2> QED BY <2>1, <2>2
  <1> QED BY <1>1, <1>2 DEF Stripped

\* p has or gets the mutex, or leaves it.
LEMMA LockMoves ==
  ASSUME NEW p \in Procs, lock' = lock \/ lock' \in {p, Nobody}
  PROVE  \A q \in Procs : q # p => (lock' = q => lock = q)
  BY KeysAssumption

LEMMA StrippedStep ==
  ASSUME StateInv, StateInv', IndexInv, HistoryNext,
         NEW id \in Ids, saves[id] > 0, Once(id)', Stripped(id)
  PROVE  Stripped(id)'
  <1>0. Nobody \notin Procs /\ All \in Keys
    BY KeysAssumption DEF Keys
  <1>1. ASSUME NEW p \in Procs, Ends(p) PROVE Stripped(id)'
    <2>1. Only(p) /\ Release(p) /\ idx' = idx /\ run'[p].pc = "idle"
      BY <1>1, EndRun DEF Ends, data
    <2>2. lock' # p /\ (lock' = lock \/ lock' \in {p, Nobody})
      BY <1>0, <2>1 DEF Release
    <2> QED BY <2>1, <2>2, LockMoves, OnlyMoves, StrippedMoves DEF Saving
  <1>2. ASSUME NEW p \in Procs, Passes(p) PROVE Stripped(id)'
    <2>1. /\ Only(p) /\ Release(p) /\ idx' = idx /\ run'[p].id = run[p].id
          /\ run'[p].pc = "all" => run[p].pc \in {"own", "own set"}
          /\ run'[p].pc \in {"all", "answer", "drop"}
      BY <1>2, PassesFacts DEF data, Keeps
    <2>2. lock' # p /\ (lock' = lock \/ lock' \in {p, Nobody})
      BY <1>0, <2>1 DEF Release
    <2> QED BY <2>1, <2>2, LockMoves, OnlyMoves, StrippedMoves DEF Saving
  <1>3. ASSUME NEW p \in Procs, Enters(p) PROVE Stripped(id)'
    <2>1. /\ Only(p) /\ lock' = p /\ idx' = idx /\ run'[p].id = run[p].id
          /\ run'[p].ids = idx[KeyOf(p)']
          /\ \/ run[p].pc = "own" /\ run'[p].pc = "own set"
             \/ run[p].pc = "all" /\ run'[p].pc = "all set"
             \/ run'[p].pc \in {"strip set", "prune set"}
      BY <1>3, EntersFacts DEF data
    <2> QED BY <2>1, LockMoves, OnlyMoves, StrippedMoves DEF Saving
  <1>4. ASSUME NEW p \in Procs, NEW x \in Ids, SaveRecord(p, x) PROVE Stripped(id)'
    <2>1. /\ run[p].pc = "idle" /\ run'[p].id = x /\ saves' = [saves EXCEPT ![x] = @ + 1]
          /\ Moves(p) /\ lock' = lock /\ idx' = idx
      BY <1>4, SaveFacts DEF Moves
    <2>2. x # id
      BY <2>1 DEF StateInv, Once
    <2>3. lock # p
      BY <2>1 DEF StateInv, Locking
    <2> QED BY <2>1, <2>2, <2>3, LockMoves, StrippedMoves
  <1>5. ASSUME NEW p \in Procs, NEW a \in Automations, PurgeRead(p, a) PROVE Stripped(id)'
    <2>1. /\ Only(p) /\ run[p].pc = "idle" /\ lock' = lock /\ idx' = idx
          /\ run'[p].pc \in {"drop", "wipe"}
      BY <1>5, PurgeReadFacts DEF data
    <2>3. lock # p
      BY <2>1 DEF StateInv, Locking
    <2> QED BY <2>1, <2>3, LockMoves, OnlyMoves, StrippedMoves DEF Saving
  <1>6. ASSUME NEW p \in Procs, NEW key \in Keys, ListRead(p, key) PROVE Stripped(id)'
    <2>1. Only(p) /\ run[p].pc = "idle" /\ lock' = lock /\ idx' = idx /\ run'[p].pc = "get"
      BY <1>6, ListReadFacts DEF data
    <2>3. lock # p
      BY <2>1 DEF StateInv, Locking
    <2> QED BY <2>1, <2>3, LockMoves, OnlyMoves, StrippedMoves DEF Saving
  <1>7. ASSUME NEW p \in Procs, Writes(p) PROVE Stripped(id)'
    <2>1. /\ Only(p) /\ lock = p /\ lock' = Nobody
          /\ \/ run[p].pc = "own set" /\ run'[p].pc = "all" /\ Keeps(p)
             \/ run[p].pc = "all set" /\ run'[p].pc = "idle"
             \/ run'[p].pc \in {"drop", "answer"}
      BY <1>7, WriteFacts DEF Writes
    <2>2. PICK key \in Keys : key = KeyOf(p)
      BY KeyFacts
    <2>3. PICK s \in Seq(Ids) :
             /\ SetIndex(key, s)
             /\ IF Saving(p) THEN s = Prepend(run[p].ids, run[p].id, Cap[key]) ELSE s = Remaining(p)
      BY <1>7, <2>2, WrittenTyped DEF Writes
    <2>4. idx'[key] = s /\ \A j \in Keys : j # key => idx'[j] = idx[j]
      BY <2>3, SetIndexTyped
    <2>5. PICK c \in Seq(Ids) : c = run[p].ids
      BY DEF StateInv, RunStates
    <2>6. key = All => id \notin Range(c)
      BY <2>1, <2>2, <2>5 DEF Stripped
    <2>7. key = All => id \notin Range(s)
      <3>1. CASE Saving(p)
        <4>1. PICK x \in Ids : x = run[p].id /\ x # id
          BY <3>1 DEF StateInv, Stripped
        <4>2. PICK t \in Seq(Ids) : t = <<x>> \o c
          BY PrependFacts
        <4>3. Range(t) = Range(c) \cup {x}
          BY <4>2, PrependFacts
        <4>4. s = Newest(t, Cap[key]) /\ Cap[key] \in Nat
          BY <2>3, <2>5, <3>1, <4>1, <4>2, SizesAssumption DEF Prepend
        <4>5. Range(s) \subseteq Range(t)
          BY <4>4, NewestFacts
        <4> QED BY <2>6, <4>1, <4>3, <4>5
      <3>2. CASE ~Saving(p)
        <4>1. Range(s) = Range(c) \ run[p].drop
          BY <2>3, <2>5, <3>2, WithoutFacts DEF Remaining
        <4> QED BY <2>6, <4>1
      <3> QED BY <3>1, <3>2
    <2>8. id \notin Range(idx'[All])
      BY <1>0, <2>4, <2>7 DEF Stripped
    <2>9. ASSUME NEW q \in Procs, Saving(q)' PROVE run'[q].id # id
      <3>1. CASE q = p
        BY <2>1, <2>9, <3>1 DEF Stripped, Saving, Keeps
      <3>2. CASE q # p
        BY <2>1, <2>9, <3>2 DEF Stripped, Saving, Only
      <3> QED BY <3>1, <3>2
    <2>10. \A q \in Procs : lock' # q
      BY <1>0, <2>1
    <2> QED BY <2>8, <2>9, <2>10 DEF Stripped
  <1>8. ASSUME NEW p \in Procs, PurgeRecord(p) PROVE Stripped(id)'
    <2>1. /\ Only(p) /\ run[p].pc = "wipe" /\ lock' = lock /\ idx' = idx
          /\ run'[p].pc \in {"strip", "wipe"}
      BY <1>8, PurgeRecordFacts
    <2>3. lock # p
      BY <2>1 DEF StateInv, Locking
    <2> QED BY <2>1, <2>3, LockMoves, OnlyMoves, StrippedMoves DEF Saving
  <1>9. ASSUME NEW p \in Procs, PurgeIndex(p) PROVE Stripped(id)'
    <2>1. /\ Only(p) /\ run[p].pc = "drop" /\ lock' = lock /\ run'[p].pc = "idle"
          /\ run[p].key \in Automations /\ idx' = [idx EXCEPT ![run[p].key] = <<>>]
      BY <1>9, PurgeIndexFacts
    <2>2. idx'[All] = idx[All]
      BY <1>0, <2>1, KeysAssumption DEF StateInv
    <2>3. lock # p
      BY <2>1 DEF StateInv, Locking
    <2> QED BY <2>1, <2>2, <2>3, LockMoves, OnlyMoves, StrippedMoves DEF Saving
  <1>10. ASSUME NEW p \in Procs, ListGet(p) PROVE Stripped(id)'
    <2>0. PICK x : x = Head(run[p].ids)
      OBVIOUS
    <2>1. /\ Only(p) /\ run[p].pc = "get" /\ lock' = lock /\ idx' = idx
          /\ run'[p].pc \in {"get", "prune", "answer"}
      BY <1>10, <2>0, ListGetFacts DEF data
    <2>3. lock # p
      BY <2>1 DEF StateInv, Locking
    <2> QED BY <2>1, <2>3, LockMoves, OnlyMoves, StrippedMoves DEF Saving
  <1>11. ASSUME Expire PROVE Stripped(id)'
    <2>1. /\ idx' = [key \in Keys |-> IF life'[key] = 0 THEN <<>> ELSE idx[key]]
          /\ lock' = lock /\ run' = run
      BY <1>11, ExpireFacts
    <2>2. Range(idx'[All]) \subseteq Range(idx[All])
      BY <1>0, <2>1, EmptyRange
    <2> QED BY <2>1, <2>2 DEF Stripped, KeyOf, Saving
  <1> QED BY <1>1, <1>2, <1>3, <1>4, <1>5, <1>6, <1>7, <1>8, <1>9, <1>10, <1>11, NextIs DEF Writes

\* Nobody begins to save for an automation.
Unsaved == \A a \in Automations : SavesOf(a) = {} => SavesOf(a)' = {}

LEMMA UnsavedMoves ==
  ASSUME NEW p \in Procs, Moves(p), Saving(p)' => Saving(p) /\ run'[p].id = run[p].id
  PROVE  Unsaved
  <1>1. ASSUME NEW q \in Procs, Saving(q)' PROVE Saving(q) /\ run'[q].id = run[q].id
    BY <1>1 DEF Moves, Stays, Saving
  <1> QED BY <1>1 DEF Unsaved, SavesOf

\* The log of an automation grows only by its saves.
LEMMA QuietLog ==
  ASSUME StateInv, NEW p \in Procs, Writes(p), NEW a \in Automations, SavesOf(a) = {}
  PROVE  log'[a] = log[a]
  <1>1. CASE ~Saving(p)
    BY <1>1, WriteFacts DEF Writes
  <1>2. CASE Saving(p)
    <2>1. PICK key \in Keys : key = KeyOf(p) /\ \A j \in Keys : j # key => log'[j] = log[j]
      BY <1>2, LoggedFacts
    <2>2. \/ key = AutomationOf[run[p].id]
          \/ key = All
      BY <1>2, <2>1, WriteFacts DEF Writes, Saving
    <2>3. AutomationOf[run[p].id] # a
      BY <1>2 DEF SavesOf
    <2> QED BY <2>1, <2>2, <2>3, KeysAssumption DEF Keys
  <1> QED BY <1>1, <1>2

LEMMA NewestRange ==
  ASSUME StateInv, NEW key \in Keys
  PROVE  Range(Newest(log[key], Cap[key])) \subseteq Range(log[key])
  BY NewestFacts, SizesAssumption DEF StateInv

\* A record that is gone stays gone.
LEMMA GoneStays ==
  ASSUME StateInv, StateInv', LogInv, Onward, NEW key \in Keys, NEW id \in Range(log[key]),
         Once(id)', rec[id] = 0
  PROVE  rec'[id] = 0
  <1>1. id \in Ids /\ rec'[id] <= rec[id]
    BY LoggedLater
  <1>2. rec'[id] \in Nat
    BY <1>1, SizesAssumption DEF StateInv
  <1> QED BY <1>1, <1>2

LEMMA ClearedStays ==
  ASSUME StateInv, StateInv', LogInv, Onward, NEW a \in Automations, log'[a] = log[a], Cleared(a)
  PROVE  Cleared(a)'
  <1>1. a \in Keys
    BY DEF Keys
  <1>2. ASSUME NEW id \in Range(Newest(log[a], Cap[a])), Once(id)' PROVE rec'[id] = 0
    <2>1. id \in Ids /\ Once(id) /\ rec'[id] <= rec[id]
      BY <1>1, <1>2, NewestRange, LoggedLater
    <2>2. rec[id] = 0 /\ rec'[id] \in Nat
      BY <1>2, <2>1, SizesAssumption DEF Cleared, StateInv
    <2> QED BY <2>1, <2>2
  <1> QED BY <1>2 DEF Cleared

Purges(p) ==
    Purging(p) /\ run[p].alone =>
          /\ SavesOf(run[p].key) = {}
          /\ IF run[p].pc = "wipe"
             THEN \A id \in Range(Newest(log[run[p].key], Cap[run[p].key])) :
                     Once(id) => rec[id] = 0 \/ id \in Range(run[p].ids)
             ELSE Cleared(run[p].key)
          /\ run[p].pc = "drop" => \A id \in run[p].drop : Once(id) => Stripped(id)

LEMMA PurgeParts ==
  PurgeInv <=>
    /\ \A p \in Procs : Purges(p)
    /\ \A a \in clean : SavesOf(a) = {} /\ Cleared(a)
    /\ \A id \in wiped : saves[id] > 0 /\ (Once(id) => Stripped(id))
  BY DEF PurgeInv, Purges

\* A purge that is where it was, or waits for the mutex or has it.
LEMMA PurgesKept ==
  ASSUME StateInv, StateInv', LogInv, IndexInv, DropInv, Onward, HistoryNext,
         NEW q \in Procs, Purges(q),
         NEW a \in Automations, run[q].key = a, run'[q].key = a,
         SavesOf(a)' = {}, SavesOf(a) = {} => log'[a] = log[a],
         Purging(q)' /\ run'[q].alone => Purging(q) /\ run[q].alone,
         run'[q].drop = run[q].drop,
         \/ run'[q].pc = run[q].pc /\ run'[q].ids = run[q].ids
         \/ run[q].pc \in {"strip", "strip set"} /\ run'[q].pc \in {"strip", "strip set"}
  PROVE  Purges(q)'
  <1> SUFFICES ASSUME Purging(q)', run'[q].alone
               PROVE  /\ IF run'[q].pc = "wipe"
                         THEN \A id \in Range(Newest(log'[a], Cap[a])) :
                                Once(id)' => rec'[id] = 0 \/ id \in Range(run'[q].ids)
                         ELSE Cleared(a)'
                      /\ run'[q].pc = "drop" => \A id \in run'[q].drop : Once(id)' => Stripped(id)'
    <2>1. SavesOf(run[q].key)' = {} /\ (Cleared(run[q].key)' <=> Cleared(a)')
      BY DEF SavesOf, Cleared
    <2> QED BY <2>1 DEF Purges, Once
  <1>1. /\ Purging(q) /\ SavesOf(a) = {} /\ log'[a] = log[a] /\ a \in Keys
        /\ run[q].pc = "wipe" => \A id \in Range(Newest(log[a], Cap[a])) :
                                   Once(id) => rec[id] = 0 \/ id \in Range(run[q].ids)
        /\ run[q].pc # "wipe" => Cleared(a)
        /\ run[q].pc = "drop" => \A id \in run[q].drop : Once(id) => Stripped(id)
    BY DEF Purges, Keys
  <1>2. CASE run'[q].pc = "wipe"
    <2>1. run[q].pc = "wipe" /\ run'[q].ids = run[q].ids
      BY <1>2
    <2>2. ASSUME NEW id \in Range(Newest(log[a], Cap[a])), Once(id)'
          PROVE  rec'[id] = 0 \/ id \in Range(run[q].ids)
      <3>1. id \in Range(log[a]) /\ Once(id)
        BY <1>1, <2>2, NewestRange, LoggedLater
      <3>2. rec[id] = 0 \/ id \in Range(run[q].ids)
        BY <1>1, <2>1, <2>2, <3>1
      <3>3. rec[id] = 0 => rec'[id] = 0
        BY <1>1, <2>2, <3>1, GoneStays
      <3> QED BY <3>2, <3>3
    <2> QED BY <1>1, <1>2, <2>1, <2>2
  <1>3. CASE run'[q].pc # "wipe"
    <2>1. Cleared(a)'
      BY <1>1, <1>3, ClearedStays
    <2>2. ASSUME run'[q].pc = "drop", NEW id \in run[q].drop, Once(id)' PROVE Stripped(id)'
      <3>1. run[q].pc = "drop"
        BY <2>2
      <3>2. id \in Range(log[a])
        BY <3>1, DropParts DEF Drops, Purging
      <3>3. id \in Ids /\ saves[id] > 0 /\ Once(id)
        BY <1>1, <2>2, <3>2, LoggedLater
      <3>4. Stripped(id)
        BY <1>1, <2>2, <3>1, <3>3
      <3> QED BY <2>2, <3>3, <3>4, StrippedStep
    <2> QED BY <1>3, <2>1, <2>2
  <1> QED BY <1>2, <1>3

\* The step of p, who begins or ends no purge of all there was.
LEMMA PurgeMoves ==
  ASSUME StateInv, StateInv', LogInv, IndexInv, DropInv, PurgeInv, Onward, HistoryNext,
         NEW p \in Procs, Moves(p), Purges(p)',
         \A q \in Procs : q # p /\ Purging(q) /\ run'[q].alone =>
            \E a \in Automations : a = run[q].key /\ SavesOf(a)' = {},
         \A a \in Automations : SavesOf(a) = {} => log'[a] = log[a],
         \A a \in clean' : SavesOf(a)' = {} /\ (a \in clean \/ Cleared(a)'),
         \A id \in wiped' : id \in wiped \/ (saves'[id] > 0 /\ (Once(id)' => Stripped(id)'))
  PROVE  PurgeInv'
  <1>1. ASSUME NEW q \in Procs PROVE Purges(q)'
    <2>1. CASE q = p
      BY <2>1
    <2>2. CASE q # p /\ Purging(q) /\ run'[q].alone
      <3>1. Stays(q)
        BY <2>2 DEF Moves
      <3>2. PICK a \in Automations : a = run[q].key /\ SavesOf(a)' = {}
        BY <2>2
      <3>3. Purging(q)' /\ run'[q].alone => Purging(q) /\ run[q].alone
        BY <3>1 DEF Stays, Purging
      <3> QED BY <3>1, <3>2, <3>3, PurgesKept, PurgeParts DEF Stays
    <2>3. CASE q # p /\ ~(Purging(q) /\ run'[q].alone)
      BY <2>3 DEF Moves, Stays, Purges, Purging
    <2> QED BY <2>1, <2>2, <2>3
  <1>2. ASSUME NEW a \in clean' PROVE SavesOf(a)' = {} /\ Cleared(a)'
    <2>1. a \in Automations
      BY DEF StateInv
    <2>2. CASE a \in clean
      <3>1. SavesOf(a) = {} /\ Cleared(a)
        BY <2>2 DEF PurgeInv
      <3> QED BY <2>1, <3>1, ClearedStays
    <2> QED BY <2>2
  <1>3. ASSUME NEW id \in wiped' PROVE saves'[id] > 0 /\ (Once(id)' => Stripped(id)')
    <2>1. CASE id \in wiped
      <3>1. id \in Ids /\ saves[id] > 0 /\ (Once(id) => Stripped(id))
        BY <2>1 DEF StateInv, PurgeInv
      <3> QED BY <3>1, StrippedStep DEF Onward
    <2> QED BY <2>1
  <1> QED BY <1>1, <1>2, <1>3 DEF PurgeInv, Purges

LEMMA PurgeQuiet ==
  ASSUME StateInv, StateInv', LogInv, IndexInv, DropInv, PurgeInv, Onward, HistoryNext,
         NEW p \in Procs, Moves(p), Purges(p)', Unsaved,
         \A a \in Automations : SavesOf(a) = {} => log'[a] = log[a],
         clean' = clean, wiped' = wiped
  PROVE  PurgeInv'
  <1>1. ASSUME NEW q \in Procs, q # p, Purging(q), run'[q].alone
        PROVE  \E a \in Automations : a = run[q].key /\ SavesOf(a)' = {}
    <2>1. PICK a \in Automations : a = run[q].key
      BY <1>1 DEF StateInv
    <2>2. SavesOf(a) = {}
      BY <1>1, <2>1, PurgeParts DEF Moves, Stays, Purges
    <2> QED BY <2>1, <2>2 DEF Unsaved
  <1>2. \A a \in clean' : SavesOf(a)' = {} /\ a \in clean
    BY DEF Unsaved, PurgeInv, StateInv
  <1> QED BY <1>1, <1>2, PurgeMoves

\* The global index is rid of the ids that a purge deletes.
LEMMA StripDone ==
  ASSUME StateInv, StateInv', LogInv, DropInv, NEW p \in Procs, Purges(p), Unsaved,
         run[p].pc \in {"strip", "strip set"}, run'[p].pc = "drop", Keeps(p),
         log' = log, rec' = rec, saves' = saves,
         \A id \in run[p].drop : id \notin Range(idx'[All]), \A q \in Procs : lock' # q
  PROVE  Purges(p)'
  <1>1. PICK a \in Automations : a = run[p].key
    BY DEF StateInv, Purging
  <1>2. ASSUME run'[p].alone
        PROVE  /\ SavesOf(a)' = {} /\ Cleared(a)'
               /\ \A id \in run[p].drop : Stripped(id)'
    <2>1. SavesOf(a) = {} /\ Cleared(a)
      BY <1>1, <1>2 DEF Purges, Purging, Keeps
    <2>2. SavesOf(a)' = {} /\ Cleared(a)'
      BY <2>1 DEF Unsaved, Cleared, Once
    <2>3. ASSUME NEW id \in run[p].drop PROVE Stripped(id)'
      <3>1. AutomationOf[id] = a
        <4>1. id \in Range(log[a])
          BY <1>1, DropParts DEF Drops, Purging
        <4> QED BY <4>1 DEF LogInv
      <3>2. \A q \in Procs : Saving(q)' => run'[q].id # id
        BY <2>2, <3>1 DEF SavesOf
      <3> QED BY <3>2 DEF Stripped
    <2> QED BY <2>2, <2>3
  <1>3. run'[p].key = a /\ run'[p].drop = run[p].drop
    BY <1>1 DEF Keeps
  <1>4. run'[p].alone => SavesOf(run[p].key)' = {} /\ Cleared(run[p].key)'
    BY <1>2, <1>3 DEF SavesOf, Cleared
  <1> QED BY <1>2, <1>3, <1>4 DEF Purges, SavesOf, Cleared

LEMMA NewestPlace ==
  ASSUME StateInv, NEW key \in Keys, NEW id \in Range(Newest(log[key], Cap[key]))
  PROVE  \E n \in DOMAIN log[key] : n <= Cap[key] /\ log[key][n] = id
  <1>1. PICK l \in Seq(Ids) : l = log[key]
    BY DEF StateInv
  <1>2. PICK c \in Nat : c = Cap[key]
    BY SizesAssumption
  <1>3. PICK t \in Seq(Ids) : t = Newest(l, c)
    BY NewestFacts
  <1>4. Len(t) = (IF c < Len(l) THEN c ELSE Len(l)) /\ \A i \in 1..Len(t) : t[i] = l[i]
    BY <1>3, NewestFacts
  <1>5. PICK n \in DOMAIN t : t[n] = id
    BY <1>1, <1>2, <1>3 DEF Range
  <1>6. n \in 1..Len(t) /\ Len(l) \in Nat /\ DOMAIN l = 1..Len(l)
    BY <1>5
  <1>7. n \in DOMAIN l /\ n <= c
    BY <1>4, <1>6
  <1> QED BY <1>1, <1>2, <1>4, <1>5, <1>6, <1>7

LEMMA PurgeStep ==
  ASSUME StateInv, StateInv', LogInv, IndexInv, LivingRecordsAreListed, DropInv, PurgeInv, Onward,
         HistoryNext
  PROVE  PurgeInv'
  <1>0. Nobody \notin Procs /\ All \in Keys /\ All \notin Automations /\ \A a \in Automations : a \in Keys
    BY KeysAssumption DEF Keys
  <1>1. ASSUME NEW p \in Procs, Ends(p) PROVE PurgeInv'
    <2>1. /\ Only(p) /\ run'[p].pc = "idle"
          /\ log' = log /\ clean' = clean /\ wiped' = wiped
      BY <1>1, EndRun DEF Ends, data
    <2>2. Unsaved
      BY <2>1, OnlyMoves, UnsavedMoves DEF Saving
    <2>3. Purges(p)'
      BY <2>1 DEF Purges, Purging
    <2> QED BY <2>1, <2>2, <2>3, OnlyMoves, PurgeQuiet
  <1>2. ASSUME NEW p \in Procs, Passes(p) PROVE PurgeInv'
    <2>1. /\ Only(p) /\ Keeps(p) /\ UNCHANGED data /\ Release(p)
          /\ \/ run[p].pc \in {"own", "own set"} /\ run'[p].pc = "all"
             \/ run'[p].pc = "answer"
             \/ run[p].pc = "strip" /\ idx[All] = <<>> /\ lock = Nobody /\ run'[p].pc = "drop"
      BY <1>2, PassesFacts
    <2>2. Unsaved
      BY <2>1, OnlyMoves, UnsavedMoves DEF Saving, Keeps
    <2>3. CASE run'[p].pc # "drop"
      <3>1. Purges(p)'
        BY <2>1, <2>3 DEF Purges, Purging
      <3> QED BY <2>1, <2>2, <3>1, OnlyMoves, PurgeQuiet DEF data
    <2>4. CASE run'[p].pc = "drop"
      <3>1. run[p].pc = "strip" /\ idx'[All] = <<>> /\ lock' = Nobody
        BY <2>1, <2>4 DEF data, Release
      <3>2. \A id \in run[p].drop : id \notin Range(idx'[All])
        BY <3>1, EmptyRange
      <3>3. \A q \in Procs : lock' # q
        BY <1>0, <3>1
      <3>4. Purges(p) /\ log' = log /\ rec' = rec /\ saves' = saves /\ clean' = clean /\ wiped' = wiped
        BY <2>1, PurgeParts DEF data
      <3>5. Purges(p)'
        BY <2>1, <2>2, <2>4, <3>1, <3>2, <3>3, <3>4, StripDone
      <3> QED BY <2>1, <2>2, <3>4, <3>5, OnlyMoves, PurgeQuiet
    <2> QED BY <2>3, <2>4
  <1>3. ASSUME NEW p \in Procs, Enters(p) PROVE PurgeInv'
    <2>1. /\ Only(p) /\ UNCHANGED data
          /\ run'[p].id = run[p].id /\ run'[p].key = run[p].key /\ run'[p].drop = run[p].drop
          /\ run'[p].alone = run[p].alone
          /\ \/ run[p].pc = "own" /\ run'[p].pc = "own set"
             \/ run[p].pc = "all" /\ run'[p].pc = "all set"
             \/ run[p].pc = "strip" /\ run'[p].pc = "strip set"
             \/ run'[p].pc = "prune set"
      BY <1>3, EntersFacts
    <2>2. Unsaved
      BY <2>1, OnlyMoves, UnsavedMoves DEF Saving
    <2>3. log' = log /\ clean' = clean /\ wiped' = wiped
      BY <2>1 DEF data
    <2>4. Purges(p)'
      <3>1. CASE run'[p].pc = "strip set" /\ run'[p].alone
        <4>1. PICK a \in Automations : a = run[p].key
          BY <2>1, <3>1 DEF StateInv, Purging
        <4>2. SavesOf(a) = {} /\ Purging(p)
          BY <2>1, <3>1, <4>1, PurgeParts DEF Purges, Purging
        <4>3. SavesOf(a)' = {}
          BY <2>2, <4>2 DEF Unsaved
        <4> QED BY <2>1, <2>3, <3>1, <4>1, <4>2, <4>3, PurgesKept, PurgeParts
      <3>2. CASE ~(run'[p].pc = "strip set" /\ run'[p].alone)
        BY <2>1, <3>2 DEF Purges, Purging
      <3> QED BY <3>1, <3>2
    <2> QED BY <2>1, <2>2, <2>3, <2>4, OnlyMoves, PurgeQuiet
  <1>4. ASSUME NEW p \in Procs, NEW id \in Ids, SaveRecord(p, id) PROVE PurgeInv'
    <2>1. /\ run'[p].pc = "own" /\ run'[p].id = id /\ Moves(p)
          /\ \A q \in Procs : q # p =>
               Stays(q) /\ (run'[q].alone => run[q].key # AutomationOf[id])
          /\ clean' = clean \ {AutomationOf[id]} /\ log' = log /\ wiped' = wiped
      BY <1>4, SaveFacts DEF Moves
    <2>2. ASSUME NEW a \in Automations, a # AutomationOf[id], SavesOf(a) = {} PROVE SavesOf(a)' = {}
      <3>1. ASSUME NEW q \in Procs, Saving(q)' PROVE AutomationOf[run'[q].id] # a
        <4>1. CASE q = p
          BY <2>1, <2>2, <4>1
        <4>2. CASE q # p
          <5>1. Saving(q) /\ run'[q].id = run[q].id
            BY <2>1, <3>1, <4>2 DEF Stays, Saving
          <5> QED BY <2>2, <5>1, Zenon DEF SavesOf
        <4> QED BY <4>1, <4>2
      <3> QED BY <3>1 DEF SavesOf
    <2>3. ASSUME NEW q \in Procs, q # p, Purging(q), run'[q].alone
          PROVE  \E a \in Automations : a = run[q].key /\ SavesOf(a)' = {}
      <3>1. PICK a \in Automations : a = run[q].key
        BY <2>3 DEF StateInv
      <3>2. SavesOf(a) = {} /\ a # AutomationOf[id]
        BY <2>1, <2>3, <3>1, PurgeParts DEF Stays, Purges
      <3> QED BY <2>2, <3>1, <3>2
    <2>4. \A a \in clean' : SavesOf(a)' = {} /\ a \in clean
      BY <2>1, <2>2 DEF PurgeInv, StateInv
    <2>5. Purges(p)'
      BY <2>1 DEF Purges, Purging
    <2> QED BY <2>1, <2>3, <2>4, <2>5, PurgeMoves
  <1>5. ASSUME NEW p \in Procs, NEW a \in Automations, PurgeRead(p, a) PROVE PurgeInv'
    <2>1. /\ Only(p) /\ run'[p].pc = (IF idx[a] = <<>> THEN "drop" ELSE "wipe")
          /\ run'[p].key = a /\ run'[p].ids = idx[a] /\ run'[p].drop = Range(idx[a])
          /\ run'[p].alone = (SavesOf(a) = {} /\ purges[a] = 0) /\ UNCHANGED data
      BY <1>5, PurgeReadFacts
    <2>2. rec' = rec /\ log' = log /\ saves' = saves /\ clean' = clean /\ wiped' = wiped
      BY <2>1 DEF data
    <2>3. Unsaved
      BY <2>1, OnlyMoves, UnsavedMoves DEF Saving
    <2>4. Purges(p)'
      <3>1. CASE ~run'[p].alone
        BY <3>1 DEF Purges
      <3>2. CASE run'[p].alone
        <4>1. SavesOf(a) = {} /\ purges[a] = 0
          BY <2>1, <3>2
        <4>2. SavesOf(a)' = {}
          BY <2>3, <4>1 DEF Unsaved
        <4>3. ASSUME NEW id \in Range(Newest(log[a], Cap[a])), Once(id)
              PROVE  rec[id] = 0 \/ id \in Range(idx[a])
          <5>1. PICK n \in DOMAIN log[a] : n <= Cap[a] /\ log[a][n] = id
            BY <1>0, <4>3, NewestPlace
          <5>2. id \in Ids
            BY <1>0, <4>3, NewestRange, LoggedLater
          <5>3. rec[id] = 0 \/ rec[id] > 0
            BY <5>2, SizesAssumption DEF StateInv
          <5> QED BY <1>0, <4>1, <4>3, <5>1, <5>3 DEF LivingRecordsAreListed
        <4>4. CASE idx[a] = <<>>
          <5>1. Cleared(a)' /\ run'[p].pc = "drop" /\ run'[p].drop = {}
            BY <2>1, <2>2, <4>3, <4>4, EmptyRange DEF Cleared, Once
          <5>2. SavesOf(run[p].key)' = {} /\ Cleared(run[p].key)'
            BY <2>1, <4>2, <5>1 DEF SavesOf, Cleared
          <5> QED BY <5>1, <5>2 DEF Purges, SavesOf, Cleared
        <4>5. CASE idx[a] # <<>>
          <5>1. SavesOf(run[p].key)' = {}
            BY <2>1, <4>2 DEF SavesOf
          <5>2. run'[p].pc = "wipe"
            BY <2>1, <4>5
          <5>3. \A id \in Range(Newest(log'[run'[p].key], Cap[run'[p].key])) :
                   Once(id)' => rec'[id] = 0 \/ id \in Range(run'[p].ids)
            BY <2>1, <2>2, <4>3 DEF Once
          <5> QED BY <5>1, <5>2, <5>3 DEF Purges, SavesOf, Once
        <4> QED BY <4>4, <4>5
      <3> QED BY <3>1, <3>2
    <2> QED BY <2>1, <2>2, <2>3, <2>4, OnlyMoves, PurgeQuiet
  <1>6. ASSUME NEW p \in Procs, NEW key \in Keys, ListRead(p, key) PROVE PurgeInv'
    <2>1. /\ Only(p) /\ run'[p].pc = "get"
          /\ log' = log /\ clean' = clean /\ wiped' = wiped
      BY <1>6, ListReadFacts DEF data
    <2>2. Unsaved
      BY <2>1, OnlyMoves, UnsavedMoves DEF Saving
    <2>3. Purges(p)'
      BY <2>1 DEF Purges, Purging
    <2> QED BY <2>1, <2>2, <2>3, OnlyMoves, PurgeQuiet
  <1>7. ASSUME NEW p \in Procs, Writes(p) PROVE PurgeInv'
    <2>1. /\ Only(p) /\ lock' = Nobody
          /\ \/ run[p].pc = "own set" /\ run'[p].pc = "all" /\ Keeps(p)
             \/ run'[p].pc = "idle"
             \/ run[p].pc = "strip set" /\ run'[p].pc = "drop" /\ KeyOf(p) = All /\ Keeps(p)
             \/ run'[p].pc = "answer"
          /\ UNCHANGED <<rec, saves, wiped, clean>>
      BY <1>7, WriteFacts DEF Writes
    <2>2. Unsaved
      BY <2>1, OnlyMoves, UnsavedMoves DEF Saving, Keeps
    <2>3. \A a \in Automations : SavesOf(a) = {} => log'[a] = log[a]
      BY <1>7, QuietLog
    <2>4. Purges(p)'
      <3>1. CASE run'[p].pc # "drop"
        BY <2>1, <3>1 DEF Purges, Purging
      <3>2. CASE run'[p].pc = "drop"
        <4>1. run[p].pc = "strip set" /\ KeyOf(p) = All /\ Keeps(p) /\ ~Saving(p)
          BY <2>1, <3>2 DEF Saving
        <4>2. PICK s \in Seq(Ids) : SetIndex(All, s) /\ s = Remaining(p)
          BY <1>7, <4>1, WrittenTyped DEF Writes
        <4>3. idx'[All] = s
          BY <1>0, <4>2, SetIndexTyped
        <4>4. Range(s) = Range(run[p].ids) \ run[p].drop
          <5>1. run[p].ids \in Seq(Ids)
            BY DEF StateInv, RunStates
          <5> QED BY <4>2, <5>1, WithoutFacts DEF Remaining
        <4>5. log' = log
          BY <1>7, <4>1, WriteFacts DEF Writes
        <4>6. \A q \in Procs : lock' # q
          BY <1>0, <2>1
        <4>7. Purges(p) /\ rec' = rec /\ saves' = saves /\ \A id \in run[p].drop : id \notin Range(idx'[All])
          BY <2>1, <4>3, <4>4, PurgeParts
        <4> QED BY <2>2, <3>2, <4>1, <4>5, <4>6, <4>7, StripDone
      <3> QED BY <3>1, <3>2
    <2> QED BY <2>1, <2>2, <2>3, <2>4, OnlyMoves, PurgeQuiet
  <1>8. ASSUME NEW p \in Procs, PurgeRecord(p) PROVE PurgeInv'
    <2>1. PICK c \in Seq(Ids), id \in Ids : c = run[p].ids /\ c # <<>> /\ id = Head(c)
      BY <1>8, PurgeRecordFacts
    <2>2. /\ Only(p) /\ Keeps(p) /\ run[p].pc = "wipe" /\ run'[p].ids = Tail(c)
          /\ \/ run'[p].pc = "wipe" /\ run'[p].ids # <<>>
             \/ run'[p].pc = "strip" /\ run'[p].ids = <<>>
          /\ rec' = [rec EXCEPT ![id] = 0]
          /\ UNCHANGED <<idx, life, lock, log, saves, wiped, clean, purges>>
      BY <1>8, <2>1, PurgeRecordFacts
    <2>3. Range(c) = Range(Tail(c)) \cup {id}
      BY <2>1, SubTail
    <2>4. Unsaved
      BY <2>2, OnlyMoves, UnsavedMoves DEF Saving
    <2>5. PICK a \in Automations : a = run[p].key
      BY <2>2 DEF StateInv, Purging
    <2>6. Purges(p)'
      <3>1. CASE ~run'[p].alone
        BY <3>1 DEF Purges
      <3>2. CASE run'[p].alone
        <4>1. SavesOf(a) = {} /\ \A x \in Range(Newest(log[a], Cap[a])) :
                                   Once(x) => rec[x] = 0 \/ x \in Range(c)
          BY <2>1, <2>2, <2>5, <3>2, PurgeParts DEF Purges, Purging, Keeps
        <4>2. SavesOf(a)' = {}
          BY <2>4, <4>1 DEF Unsaved
        <4>3. ASSUME NEW x \in Range(Newest(log[a], Cap[a])), Once(x)
              PROVE  rec'[x] = 0 \/ x \in Range(Tail(c))
          <5>1. x \in Ids
            BY <1>0, <4>3, NewestRange, LoggedLater
          <5>2. (rec[x] = 0 => rec'[x] = 0) /\ rec'[id] = 0
            BY <2>2, <5>1 DEF StateInv
          <5> QED BY <2>3, <4>1, <4>3, <5>2
        <4>4. run'[p].key = a /\ SavesOf(run[p].key)' = {}
          BY <2>2, <2>5, <4>2 DEF Keeps, SavesOf
        <4>5. CASE run'[p].pc = "wipe"
          <5>1. \A x \in Range(Newest(log'[run'[p].key], Cap[run'[p].key])) :
                   Once(x)' => rec'[x] = 0 \/ x \in Range(run'[p].ids)
            BY <2>2, <4>3, <4>4 DEF Once
          <5> QED BY <4>4, <4>5, <5>1 DEF Purges, SavesOf, Once
        <4>6. CASE run'[p].pc = "strip"
          <5>1. Range(Tail(c)) = {}
            BY <2>2, <4>6, EmptyRange
          <5>2. Cleared(run[p].key)'
            BY <2>2, <4>3, <4>4, <5>1 DEF Cleared, Once
          <5> QED BY <4>4, <4>6, <5>2 DEF Purges, SavesOf, Cleared
        <4> QED BY <2>2, <4>5, <4>6
      <3> QED BY <3>1, <3>2
    <2> QED BY <2>2, <2>4, <2>6, OnlyMoves, PurgeQuiet
  <1>9. ASSUME NEW p \in Procs, PurgeIndex(p) PROVE PurgeInv'
    <2>1. /\ Only(p) /\ run'[p].pc = "idle" /\ run[p].pc = "drop"
          /\ IF run[p].alone THEN clean' = clean \cup {run[p].key} /\ wiped' = wiped \cup run[p].drop
             ELSE UNCHANGED <<clean, wiped>>
          /\ log' = log
      BY <1>9, PurgeIndexFacts
    <2>2. Unsaved
      BY <2>1, OnlyMoves, UnsavedMoves DEF Saving
    <2>3. Purges(p)'
      BY <2>1 DEF Purges, Purging
    <2>4. PICK a \in Automations : a = run[p].key
      BY <2>1 DEF StateInv, Purging
    <2>5. run[p].alone => /\ SavesOf(a) = {} /\ Cleared(a)
                          /\ \A id \in run[p].drop : Once(id) => Stripped(id)
      BY <2>1, <2>4, PurgeParts DEF Purges, Purging
    <2>6. ASSUME NEW q \in Procs, q # p, Purging(q), run'[q].alone
          PROVE  \E b \in Automations : b = run[q].key /\ SavesOf(b)' = {}
      <3>1. PICK b \in Automations : b = run[q].key
        BY <2>6 DEF StateInv
      <3>2. SavesOf(b) = {}
        BY <2>1, <2>6, <3>1, PurgeParts DEF Only, Purges
      <3> QED BY <2>2, <3>1, <3>2 DEF Unsaved
    <2>7. ASSUME NEW b \in clean' PROVE SavesOf(b)' = {} /\ (b \in clean \/ Cleared(b)')
      <3>1. CASE b \in clean
        BY <2>2, <3>1 DEF Unsaved, PurgeInv, StateInv
      <3>2. CASE b \notin clean
        <4>1. b = a /\ run[p].alone
          BY <2>1, <2>4, <2>7, <3>2
        <4>2. SavesOf(a)' = {} /\ Cleared(a)'
          BY <2>1, <2>2, <2>5, <4>1, ClearedStays DEF Unsaved
        <4> QED BY <4>1, <4>2
      <3> QED BY <3>1, <3>2
    <2>8. ASSUME NEW id \in wiped', id \notin wiped
          PROVE  saves'[id] > 0 /\ (Once(id)' => Stripped(id)')
      <3>1. id \in run[p].drop /\ run[p].alone
        BY <2>1, <2>8
      <3>2. id \in Range(log[a])
        BY <2>1, <2>4, <3>1, DropParts DEF Drops, Purging
      <3>3. id \in Ids /\ saves[id] > 0 /\ (Once(id)' => Once(id))
        BY <1>0, <3>2, LoggedLater
      <3>4. Once(id) => Stripped(id)
        BY <2>5, <3>1
      <3>5. saves'[id] > 0
        BY <3>3 DEF Onward
      <3> QED BY <3>3, <3>4, <3>5, StrippedStep
    <2> QED BY <2>1, <2>3, <2>6, <2>7, <2>8, OnlyMoves, PurgeMoves
  <1>10. ASSUME NEW p \in Procs, ListGet(p) PROVE PurgeInv'
    <2>0. PICK x : x = Head(run[p].ids)
      OBVIOUS
    <2>1. /\ Only(p) /\ run'[p].pc \in {"get", "prune", "answer"}
          /\ log' = log /\ clean' = clean /\ wiped' = wiped
      BY <1>10, <2>0, ListGetFacts DEF data
    <2>2. Unsaved
      BY <2>1, OnlyMoves, UnsavedMoves DEF Saving
    <2>3. Purges(p)'
      BY <2>1 DEF Purges, Purging
    <2> QED BY <2>1, <2>2, <2>3, OnlyMoves, PurgeQuiet
  <1>11. ASSUME Expire PROVE PurgeInv'
    <2>1. run' = run /\ log' = log /\ clean' = clean /\ wiped' = wiped
      BY <1>11, ExpireFacts
    <2>2. Unsaved
      BY <2>1 DEF Unsaved, SavesOf, Saving
    <2>3. CASE Procs = {}
      BY <2>1, <2>2, <2>3, ClearedStays, StrippedStep DEF PurgeInv, Unsaved, Onward, StateInv
    <2>4. ASSUME NEW p \in Procs PROVE PurgeInv'
      <3>1. Moves(p)
        BY <2>1 DEF Moves, Stays, StateInv
      <3>2. Purges(p)'
        <4>1. CASE ~(Purging(p) /\ run[p].alone)
          BY <2>1, <4>1 DEF Purges, Purging
        <4>2. CASE Purging(p) /\ run[p].alone
          <5>1. PICK a \in Automations : a = run[p].key
            BY <4>2 DEF StateInv
          <5>2. SavesOf(a) = {} /\ SavesOf(a)' = {}
            BY <2>2, <4>2, <5>1, PurgeParts DEF Purges, Unsaved
          <5> QED BY <2>1, <4>2, <5>1, <5>2, PurgesKept, PurgeParts
        <4> QED BY <4>1, <4>2
      <3> QED BY <2>1, <2>2, <3>1, <3>2, PurgeQuiet
    <2> QED BY <2>3, <2>4
  <1> QED BY <1>1, <1>2, <1>3, <1>4, <1>5, <1>6, <1>7, <1>8, <1>9, <1>10, <1>11, NextIs DEF Writes

(***************************************************************************)
(* Lists.                                                                  *)
(***************************************************************************)

LEMMA RangeFinite ==
  ASSUME NEW S, NEW s \in Seq(S)
  PROVE  IsFiniteSet(Range(s)) /\ Cardinality(Range(s)) <= Len(s)
  <1>1. DOMAIN s = 1..Len(s) /\ Len(s) \in Nat
    BY RangeFacts
  <1>2. IsFiniteSet(1..Len(s)) /\ Cardinality(1..Len(s)) = Len(s)
    BY <1>1, FS_Interval
  <1>3. PICK f : f = [i \in 1..Len(s) |-> s[i]]
    OBVIOUS
  <1>4. f \in Surjection(1..Len(s), Range(s))
    BY <1>1, <1>3 DEF Range, Surjection
  <1> QED BY <1>2, <1>4, FS_Surjection

LEMMA AppendFacts ==
  ASSUME NEW S, NEW s \in Seq(S), NEW x \in S
  PROVE  /\ Append(s, x) \in Seq(S) /\ Len(Append(s, x)) = Len(s) + 1
         /\ Range(Append(s, x)) = Range(s) \cup {x}
  <1>0. Append(s, x) \in Seq(S)
    BY AppendProperties
  <1>1. PICK t \in Seq(S) : t = Append(s, x)
    BY <1>0, Zenon
  <1>2. /\ Len(t) = Len(s) + 1 /\ t[Len(s) + 1] = x /\ \A i \in 1..Len(s) : t[i] = s[i]
        /\ DOMAIN t = 1..Len(t) /\ DOMAIN s = 1..Len(s) /\ Len(s) \in Nat
    BY <1>1
  <1>3. DOMAIN t = DOMAIN s \cup {Len(s) + 1}
    BY <1>2
  <1>4. Range(t) = Range(s) \cup {x}
    <2>1. \A i \in DOMAIN t : t[i] = x \/ t[i] \in Range(s)
      BY <1>2, <1>3 DEF Range
    <2>2. x \in Range(t) /\ \A i \in DOMAIN s : s[i] \in Range(t)
      <3>1. Len(s) + 1 \in DOMAIN t /\ \A i \in DOMAIN s : i \in DOMAIN t /\ t[i] = s[i]
        BY <1>2, <1>3
      <3> QED BY <1>2, <3>1, Zenon DEF Range
    <2>3. Range(t) \subseteq Range(s) \cup {x}
      BY <2>1, Zenon DEF Range
    <2>4. Range(s) \subseteq Range(t)
      BY <2>2, Zenon DEF Range
    <2> QED BY <2>2, <2>3, <2>4
  <1> QED BY <1>1, <1>2, <1>4

\* No id twice in a log.
Distinct(l) == \A m, n \in DOMAIN l : l[m] = l[n] => m = n

LEMMA PlainDistinct ==
  ASSUME LogInv, NEW key \in Keys, Plain(key)
  PROVE  Distinct(log[key]) /\ (\A id \in Range(log[key]) : Once(id)) /\ (key # All => purges[key] = 0)
  <1>1. (\A id \in Range(log[key]) : Once(id)) /\ (key # All => purges[key] = 0)
    BY DEF Plain
  <1>2. \A n \in DOMAIN log[key] : Once(log[key][n])
    BY <1>1, Zenon DEF Range
  <1> QED BY <1>1, <1>2 DEF LogInv, Distinct

LEMMA PlainBefore ==
  ASSUME StateInv, LogInv, Onward, NEW key \in Keys, Plain(key)'
  PROVE  Plain(key)
  <1>1. ASSUME NEW id \in Range(log[key]) PROVE Once(id)
    <2>1. Once(id)'
      BY DEF Plain, Onward
    <2> QED BY <2>1, LoggedLater
  <1>2. key # All => purges[key] = 0
    BY DEF Plain, Onward, Keys
  <1> QED BY <1>1, <1>2 DEF Plain

LEMMA ShownFacts ==
  ASSUME StateInv, NEW key \in Keys
  PROVE  /\ IsFiniteSet(Shown(key)) /\ Cardinality(Shown(key)) <= Limit
         /\ \A id \in Shown(key) : \E n \in DOMAIN log[key] : n <= Cap[key] /\ log[key][n] = id
         /\ Distinct(log[key]) =>
              \A m, n \in DOMAIN log[key] :
                 m < n /\ log[key][n] \in Shown(key) /\ rec[log[key][m]] > 0 => log[key][m] \in Shown(key)
  <1>1. PICK l \in Seq(Ids) : l = log[key]
    BY DEF StateInv
  <1>2. PICK c \in Nat : c = Cap[key]
    BY SizesAssumption
  <1>3. PICK new \in Seq(Ids) : new = Newest(l, c)
    BY NewestFacts
  <1>4. /\ DOMAIN new = 1..Len(new) /\ Len(new) \in Nat /\ DOMAIN l = 1..Len(l) /\ Len(l) \in Nat
        /\ Len(new) = (IF c < Len(l) THEN c ELSE Len(l))
        /\ \A i \in 1..Len(new) : new[i] = l[i]
    BY <1>3, NewestFacts
  <1>5. \A i \in DOMAIN new : i \in DOMAIN l /\ i <= c /\ new[i] = l[i]
    BY <1>4
  <1> DEFINE alive == {n \in DOMAIN new : rec[new[n]] > 0}
             ranked == {m \in alive : Cardinality(Upto(alive, m)) <= Limit}
  <1>6. Shown(key) = {new[n] : n \in ranked}
    BY <1>1, <1>2, <1>3 DEF Shown, Upto
  <1>7. alive \subseteq Nat /\ IsFiniteSet(alive)
    <2>1. IsFiniteSet(1..Len(new))
      BY <1>4, FS_Interval
    <2>2. alive \subseteq 1..Len(new)
      BY <1>4
    <2> QED BY <2>1, <2>2, FS_Subset
  <1>8. /\ Cardinality(alive) \in Nat /\ Limit \in Nat
        /\ \A m \in alive : Cardinality(Upto(alive, m)) \in 1..Cardinality(alive)
        /\ \A m, n \in alive : m < n => Cardinality(Upto(alive, m)) < Cardinality(Upto(alive, n))
    <2> HIDE DEF alive
    <2> QED BY <1>7, Ranks, SizesAssumption
  <1> HIDE DEF alive
  <1>9. IsFiniteSet(ranked) /\ Cardinality(ranked) <= Limit
    <2> DEFINE rank == [m \in ranked |-> Cardinality(Upto(alive, m))]
    <2>1. rank \in [ranked -> 1..Limit]
      BY <1>8
    <2>2. ASSUME NEW m \in ranked, NEW n \in ranked, rank[m] = rank[n] PROVE m = n
      <3>1. Cardinality(Upto(alive, m)) = Cardinality(Upto(alive, n)) /\ m \in alive /\ n \in alive
        BY <2>2
      <3>2. PICK u \in Nat : u = Cardinality(Upto(alive, m))
        BY <1>8, <3>1
      <3>3. ~(m < n) /\ ~(n < m)
        BY <1>8, <3>1, <3>2
      <3> QED BY <1>7, <3>1, <3>3
    <2>3. rank \in Injection(ranked, 1..Limit)
      BY <2>1, <2>2 DEF Injection, IsInjective
    <2>4. IsFiniteSet(1..Limit) /\ Cardinality(1..Limit) = Limit
      BY FS_Interval, SizesAssumption
    <2> HIDE DEF ranked, rank
    <2> QED BY <2>3, <2>4, FS_Injection
  <1>10. IsFiniteSet(Shown(key)) /\ Cardinality(Shown(key)) <= Limit
    <2>1. PICK f : f = [n \in ranked |-> new[n]]
      OBVIOUS
    <2>2. f \in Surjection(ranked, Shown(key))
      BY <1>6, <2>1 DEF Surjection
    <2>3. IsFiniteSet(Shown(key)) /\ Cardinality(Shown(key)) <= Cardinality(ranked)
      <3> HIDE DEF ranked
      <3> QED BY <1>9, <2>2, FS_Surjection
    <2>4. Cardinality(Shown(key)) \in Nat /\ Cardinality(ranked) \in Nat
      <3> HIDE DEF ranked
      <3> QED BY <1>9, <2>3, FS_CardinalityType
    <2>5. PICK x \in Nat, y \in Nat : x = Cardinality(Shown(key)) /\ y = Cardinality(ranked)
      BY <2>4
    <2> HIDE DEF ranked
    <2> QED BY <1>8, <1>9, <2>3, <2>5
  <1>11. \A id \in Shown(key) : \E n \in DOMAIN l : n <= c /\ l[n] = id
    BY <1>5, <1>6 DEF alive
  <1>12. ASSUME Distinct(l), NEW m \in DOMAIN l, NEW n \in DOMAIN l, m < n, l[n] \in Shown(key),
                rec[l[m]] > 0
         PROVE  l[m] \in Shown(key)
    <2>1. PICK r \in ranked : new[r] = l[n]
      BY <1>6, <1>12
    <2>2. r \in DOMAIN new /\ r \in DOMAIN l /\ l[r] = l[n]
      BY <1>5, <2>1 DEF alive
    <2>3. r = n
      BY <1>12, <2>2 DEF Distinct
    <2>4. m \in DOMAIN new
      BY <1>4, <1>12, <2>2, <2>3
    <2>5. new[m] = l[m] /\ m \in alive /\ n \in alive
      BY <1>5, <1>12, <2>1, <2>3, <2>4 DEF alive
    <2>6. PICK u \in Nat, v \in Nat : u = Cardinality(Upto(alive, m)) /\ v = Cardinality(Upto(alive, n))
      BY <1>8, <2>5
    <2>7. u < v /\ v <= Limit
      BY <1>8, <1>12, <2>1, <2>3, <2>5, <2>6
    <2>8. m \in ranked
      BY <1>8, <2>5, <2>6, <2>7
    <2> QED BY <1>6, <2>5, <2>8
  <1> QED BY <1>1, <1>2, <1>10, <1>11, <1>12

Lists(p) ==
    Listing(p) =>
        /\ Cardinality(run[p].want) <= Limit /\ IsFiniteSet(run[p].want)
        /\ run[p].want \cup Range(run[p].ids) \subseteq Range(log[run[p].key])
        /\ Plain(run[p].key) =>
              IF run[p].pc = "get" THEN Scanning(run[p])
              ELSE \A id \in run[p].want : rec[id] > 0 => id \in Range(run[p].out)

LEMMA ListParts == ListInv <=> \A p \in Procs : Lists(p)
  BY DEF ListInv, Lists

\* A list that no step of its own changes, or that prunes.
LEMMA ListsKept ==
  ASSUME StateInv, StateInv', LogInv, Onward, NEW q \in Procs, Lists(q),
         NEW key \in Keys, key = run[q].key,
         Listing(q)' =>
            /\ Listing(q) /\ run'[q].key = key /\ run'[q].want = run[q].want /\ run'[q].out = run[q].out
            /\ \/ run'[q].pc = run[q].pc /\ run'[q].ids = run[q].ids
               \/ run[q].pc # "get" /\ run'[q].pc # "get" /\ Range(run'[q].ids) \subseteq Range(log[key])
  PROVE  Lists(q)'
  <1> SUFFICES ASSUME Listing(q)' PROVE Lists(q)'
    BY DEF Lists
  <1>1. /\ Listing(q) /\ run'[q].key = key /\ run'[q].want = run[q].want /\ run'[q].out = run[q].out
        /\ run'[q].pc = "get" <=> run[q].pc = "get"
        /\ run[q].pc = "get" => run'[q].ids = run[q].ids
    OBVIOUS
  <1>2. Range(run'[q].ids) \subseteq Range(log[key]) /\ run[q].want \subseteq Range(log[key])
    BY <1>1 DEF Lists
  <1>3. Range(log[key]) \subseteq Range(log'[key])
    BY DEF Onward
  <1>4. Cardinality(run[q].want) <= Limit /\ IsFiniteSet(run[q].want)
    BY <1>1 DEF Lists
  <1>5. ASSUME Plain(key)', NEW id \in Range(log[key]), rec'[id] > 0 PROVE rec[id] > 0
    <2>1. Once(id)'
      BY <1>3, <1>5 DEF Plain
    <2> QED BY <1>5, <2>1, AliveBefore
  <1>6. Plain(key)' => Plain(key)
    BY PlainBefore
  <1>7. ASSUME Plain(key)', run[q].pc = "get" PROVE Scanning(run[q])'
    <2>1. Scanning(run[q])
      BY <1>1, <1>6, <1>7 DEF Lists
    <2>2. run[q].ids \in Seq(Ids) /\ run'[q].ids = run[q].ids
      BY <1>1, <1>7 DEF StateInv, RunStates
    <2>3. Subsequence(run'[q].ids, log'[run'[q].key])
      BY <1>1, <2>1, <2>2 DEF Scanning, Onward
    <2>4. \A id \in run'[q].want : rec'[id] > 0 => id \in Range(run'[q].out) \cup Range(run'[q].ids)
      BY <1>1, <1>2, <1>5, <1>7, <2>1, <2>2 DEF Scanning
    <2>5. \A i, j \in DOMAIN run'[q].ids :
            i < j /\ run'[q].ids[j] \in run'[q].want /\ rec'[run'[q].ids[i]] > 0 =>
            run'[q].ids[i] \in run'[q].want
      <3>1. \A i \in DOMAIN run[q].ids : run[q].ids[i] \in Range(log[key])
        <4>1. \A i \in DOMAIN run[q].ids : run[q].ids[i] \in Range(run[q].ids)
          BY Zenon DEF Range
        <4> QED BY <1>2, <2>2, <4>1
      <3> QED BY <1>1, <1>5, <1>7, <2>1, <2>2, <3>1 DEF Scanning
    <2> QED BY <1>1, <2>1, <2>2, <2>3, <2>4, <2>5 DEF Scanning
  <1>8. ASSUME Plain(key)', run[q].pc # "get"
        PROVE  \A id \in run[q].want : rec'[id] > 0 => id \in Range(run[q].out)
    BY <1>1, <1>2, <1>5, <1>6, <1>8 DEF Lists
  <1>9. Plain(run[q].key)' <=> Plain(key)'
    BY <1>1 DEF Plain
  <1> QED BY <1>1, <1>2, <1>3, <1>4, <1>7, <1>8, <1>9 DEF Lists

LEMMA ListsStay ==
  ASSUME StateInv, StateInv', LogInv, Onward, NEW q \in Procs, Lists(q), Stays(q)
  PROVE  Lists(q)'
  <1>1. PICK key \in Keys : key = run[q].key
    BY DEF StateInv, RunStates
  <1>2. Listing(q)' => Listing(q)
    BY DEF Listing, Stays
  <1> QED BY <1>1, <1>2, ListsKept DEF Stays

LEMMA ListMoves ==
  ASSUME StateInv, StateInv', LogInv, Onward, ListInv, NEW p \in Procs, Moves(p), Lists(p)'
  PROVE  ListInv'
  <1>1. \A q \in Procs : Lists(q)'
    BY ListsStay, ListParts DEF Moves
  <1> QED BY <1>1 DEF ListInv, Lists

\* A list begins with all that it wants ahead.
LEMMA ListBegins ==
  ASSUME StateInv, LogInv, IndexInv, LivingRecordsAreListed,
         NEW p \in Procs, NEW key \in Keys, ListRead(p, key)
  PROVE  Lists(p)'
  <1>1. /\ run'[p].pc = "get" /\ run'[p].key = key /\ run'[p].ids = idx[key]
        /\ run'[p].out = <<>> /\ run'[p].want = Shown(key)
        /\ rec' = rec /\ log' = log /\ saves' = saves /\ purges' = purges
    BY ListReadFacts DEF data
  <1>2. Subsequence(idx[key], log[key]) /\ Range(idx[key]) \subseteq Range(log[key])
    BY IndexParts, SoundFacts DEF Sound
  <1>3. /\ IsFiniteSet(Shown(key)) /\ Cardinality(Shown(key)) <= Limit
        /\ Shown(key) \subseteq Range(log[key])
    BY ShownFacts, ShownRange
  <1>4. ASSUME Plain(key)
        PROVE  /\ \A id \in Shown(key) : rec[id] > 0 => id \in Range(idx[key])
               /\ \A i, j \in DOMAIN idx[key] :
                     i < j /\ idx[key][j] \in Shown(key) /\ rec[idx[key][i]] > 0 => idx[key][i] \in Shown(key)
    <2>1. Distinct(log[key]) /\ (\A id \in Range(log[key]) : Once(id)) /\ (key # All => purges[key] = 0)
      BY <1>4, PlainDistinct
    <2>2. ASSUME NEW id \in Shown(key), rec[id] > 0 PROVE id \in Range(idx[key])
      <3>1. PICK n \in DOMAIN log[key] : n <= Cap[key] /\ log[key][n] = id
        BY ShownFacts
      <3>2. Once(id)
        BY <1>3, <2>1
      <3> QED BY <2>1, <2>2, <3>1, <3>2 DEF LivingRecordsAreListed
    <2>3. PICK f \in [DOMAIN idx[key] -> DOMAIN log[key]] :
             /\ \A i \in DOMAIN idx[key] : idx[key][i] = log[key][f[i]]
             /\ \A i, j \in DOMAIN idx[key] : i < j => f[i] < f[j]
      BY <1>2 DEF Subsequence
    <2>4. \A m, n \in DOMAIN log[key] :
             m < n /\ log[key][n] \in Shown(key) /\ rec[log[key][m]] > 0 => log[key][m] \in Shown(key)
      BY <2>1, ShownFacts
    <2> QED BY <2>2, <2>3, <2>4
  <1>5. Cardinality(Range(<<>>)) = Len(<<>>) /\ Len(<<>>) < Limit /\ Range(<<>>) = {}
    <2>1. Range(<<>>) = {} /\ Len(<<>>) = 0
      BY EmptyRange
    <2>2. Cardinality({}) = 0
      BY FS_EmptySet
    <2>3. Limit \in Nat \ {0}
      BY SizesAssumption
    <2>4. Len(<<>>) < Limit
      BY <2>1, <2>3
    <2> QED BY <2>1, <2>2, <2>4, Zenon
  <1>6. Plain(key)' <=> Plain(key)
    BY <1>1 DEF Plain, Once
  <1>7. Plain(key) => Scanning(run[p])'
    BY <1>1, <1>2, <1>4, <1>5 DEF Scanning
  <1>8. Plain(run[p].key)' <=> Plain(key)'
    BY <1>1 DEF Plain
  <1> QED BY <1>1, <1>2, <1>3, <1>6, <1>7, <1>8 DEF Lists

\* The next id is put out, if there is a record, and is not ahead any more.
LEMMA ListGoesOn ==
  ASSUME StateInv, LogInv, DropInv, ListInv, NEW p \in Procs, ListGet(p)
  PROVE  Lists(p)'
  <1>1. PICK id : id = Head(run[p].ids)
    OBVIOUS
  <1>2. /\ run[p].pc = "get" /\ run[p].ids \in Seq(Ids) /\ run[p].ids # <<>>
        /\ id \in Ids /\ run'[p].key = run[p].key /\ run'[p].want = run[p].want
        /\ IF rec[id] > 0 THEN run'[p].out = Append(run[p].out, id) ELSE run'[p].out = run[p].out
        /\ \/ /\ run'[p].pc = "get" /\ run'[p].ids = Tail(run[p].ids)
              /\ Len(run'[p].out) # Limit
           \/ /\ run'[p].pc \in {"prune", "answer"} /\ run'[p].ids = <<>>
              /\ Tail(run[p].ids) = <<>> \/ Len(run'[p].out) = Limit
        /\ rec' = rec /\ log' = log /\ saves' = saves /\ purges' = purges
    BY <1>1, ListGetFacts DEF data
  <1>3. PICK key \in Keys, w \in SUBSET Ids, s \in Seq(Ids), o \in Seq(Ids), n \in Seq(Ids) :
           key = run[p].key /\ w = run[p].want /\ s = run[p].ids /\ o = run[p].out /\ n = run'[p].out
    <2>1. run[p].key \in Keys /\ run[p].out \in Seq(Ids) /\ run[p].want \in SUBSET Ids
      BY DEF StateInv, RunStates
    <2>2. Append(run[p].out, id) \in Seq(Ids)
      BY <1>2, <2>1, AppendFacts
    <2>3. run'[p].out \in Seq(Ids)
      BY <1>2, <2>1, <2>2
    <2> QED BY <1>2, <2>1, <2>3, Zenon
  <1>4. PICK t \in Seq(Ids) : t = Tail(s)
    BY <1>2, <1>3, SubTail
  <1>5. /\ Len(t) = Len(s) - 1 /\ Len(s) >= 1 /\ s[1] = id /\ \A i \in 1..(Len(s) - 1) : t[i] = s[i + 1]
        /\ Range(s) = Range(t) \cup {id} /\ Subsequence(t, s)
    BY <1>1, <1>2, <1>3, <1>4, SubTail
  <1>6. /\ Cardinality(w) <= Limit /\ IsFiniteSet(w) /\ w \cup Range(s) \subseteq Range(log[key])
        /\ Plain(key) => Scanning(run[p])
    BY <1>2, <1>3, ListParts DEF Lists, Listing
  <1>7. DOMAIN s = 1..Len(s) /\ DOMAIN t = 1..Len(t) /\ Len(s) \in Nat /\ Len(t) \in Nat
        /\ Len(o) \in Nat /\ Len(n) \in Nat /\ Limit \in Nat
    BY SizesAssumption
  <1>8. \A i \in DOMAIN t : i + 1 \in DOMAIN s /\ 1 \in DOMAIN s /\ 1 < i + 1 /\ t[i] = s[i + 1] /\ i \in Nat
    BY <1>5, <1>7
  <1>9. rec[id] \in Nat
    BY <1>2, SizesAssumption DEF StateInv
  <1>10. IF rec[id] > 0 THEN Range(n) = Range(o) \cup {id} /\ Len(n) = Len(o) + 1 ELSE n = o
    <2>1. Append(o, id) \in Seq(Ids) /\ Range(Append(o, id)) = Range(o) \cup {id} /\ Len(Append(o, id)) = Len(o) + 1
      BY <1>2, <1>3, AppendFacts
    <2>2. IF rec[id] > 0 THEN n = Append(o, id) ELSE n = o
      BY <1>2, <1>3, Zenon
    <2> QED BY <2>1, <2>2, Zenon
  <1>11. ASSUME Plain(key)
         PROVE  /\ Subsequence(t, log[key])
                /\ \A x \in w : rec[x] > 0 => x \in Range(n) \cup Range(t)
                /\ \A i, j \in DOMAIN t : i < j /\ t[j] \in w /\ rec[t[i]] > 0 => t[i] \in w
                /\ Range(t) \cap w # {} => Range(n) \subseteq w
                /\ Range(n) \cap Range(t) = {}
                /\ Cardinality(Range(n)) = Len(n) /\ Len(n) <= Limit
    <2>1. /\ Subsequence(s, log[key])
          /\ \A x \in w : rec[x] > 0 => x \in Range(o) \cup Range(s)
          /\ \A i, j \in DOMAIN s : i < j /\ s[j] \in w /\ rec[s[i]] > 0 => s[i] \in w
          /\ Range(s) \cap w # {} => Range(o) \subseteq w
          /\ Range(o) \cap Range(s) = {}
          /\ Cardinality(Range(o)) = Len(o) /\ Len(o) < Limit
      BY <1>3, <1>6, <1>11 DEF Scanning
    <2>2. Subsequence(t, log[key])
      <3>1. log[key] \in Seq(Ids)
        BY DEF StateInv
      <3> QED BY <1>5, <2>1, <3>1, SubTrans
    <2>3. id \notin Range(t)
      <3>1. PICK f \in [DOMAIN s -> DOMAIN log[key]] :
               /\ \A i \in DOMAIN s : s[i] = log[key][f[i]]
               /\ \A i, j \in DOMAIN s : i < j => f[i] < f[j]
        BY <2>1 DEF Subsequence
      <3>2. Distinct(log[key])
        BY <1>11, PlainDistinct
      <3>3. ASSUME NEW i \in DOMAIN t, t[i] = id PROVE FALSE
        <4>1. /\ 1 \in DOMAIN s /\ i + 1 \in DOMAIN s /\ 1 < i + 1 /\ s[1] = id /\ s[i + 1] = id
          BY <1>5, <1>8, <3>3
        <4>a. f[1] \in DOMAIN log[key] /\ f[i + 1] \in DOMAIN log[key] /\ f[1] < f[i + 1]
          BY <3>1, <4>1
        <4>b. log[key][f[1]] = log[key][f[i + 1]]
          BY <3>1, <4>1
        <4>2. f[1] = f[i + 1] /\ f[1] < f[i + 1]
          BY <3>2, <4>a, <4>b, Zenon DEF Distinct
        <4>3. f[1] \in Nat
          <5>1. log[key] \in Seq(Ids)
            BY DEF StateInv
          <5>2. DOMAIN log[key] = 1..Len(log[key])
            BY <5>1
          <5> QED BY <3>1, <4>1, <5>2
        <4> QED BY <4>2, <4>3
      <3> QED BY <3>3 DEF Range
    <2>4. \A x \in w : rec[x] > 0 => x \in Range(n) \cup Range(t)
      BY <1>5, <1>10, <2>1
    <2>5. \A i, j \in DOMAIN t : i < j /\ t[j] \in w /\ rec[t[i]] > 0 => t[i] \in w
      <3>1. ASSUME NEW i \in DOMAIN t, NEW j \in DOMAIN t, i < j, t[j] \in w, rec[t[i]] > 0
            PROVE  t[i] \in w
        <4>1. i + 1 \in DOMAIN s /\ j + 1 \in DOMAIN s /\ t[i] = s[i + 1] /\ t[j] = s[j + 1]
          BY <1>8
        <4>2. i + 1 < j + 1
          BY <1>8, <3>1
        <4> QED BY <2>1, <3>1, <4>1, <4>2
      <3> QED BY <3>1
    <2>6. Range(t) \cap w # {} => Range(n) \subseteq w
      <3>1. ASSUME NEW x \in Range(t), x \in w PROVE Range(n) \subseteq w
        <4>1. PICK j \in DOMAIN t : t[j] = x
          BY DEF Range
        <4>2. rec[id] > 0 => id \in w
          BY <1>5, <1>8, <2>1, <3>1, <4>1
        <4>3. Range(o) \subseteq w
          BY <1>5, <2>1, <3>1
        <4> QED BY <1>10, <4>2, <4>3
      <3> QED BY <3>1
    <2>7. Range(n) \cap Range(t) = {}
      BY <1>5, <1>10, <2>1, <2>3
    <2>8. Cardinality(Range(n)) = Len(n) /\ Len(n) <= Limit
      <3>1. IsFiniteSet(Range(o)) /\ id \notin Range(o)
        BY <1>5, <2>1, RangeFinite
      <3>2. Cardinality(Range(o) \cup {id}) = Cardinality(Range(o)) + 1
        BY <3>1, FS_AddElement
      <3>3. CASE rec[id] > 0
        <4>1. Range(n) = Range(o) \cup {id} /\ Len(n) = Len(o) + 1
          BY <1>10, <3>3
        <4>2. Cardinality(Range(n)) = Len(o) + 1 /\ Len(o) < Limit
          BY <2>1, <3>2, <4>1
        <4> QED BY <1>7, <4>1, <4>2
      <3>4. CASE ~(rec[id] > 0)
        <4>1. n = o
          BY <1>10, <3>4, Zenon
        <4> QED BY <1>7, <2>1, <4>1
      <3> QED BY <3>3, <3>4
    <2> QED BY <2>2, <2>4, <2>5, <2>6, <2>7, <2>8
  <1>12. CASE run'[p].pc = "get"
    <2>1. run'[p].ids = t /\ Len(n) # Limit
      BY <1>2, <1>3, <1>4, <1>12
    <2>2. Plain(key) => Len(n) < Limit
      BY <1>7, <1>11, <2>1
    <2>3. Plain(key) => Scanning(run[p])'
      BY <1>2, <1>3, <1>11, <2>1, <2>2 DEF Scanning
    <2>4. Plain(run[p].key)' => Plain(key)
      BY <1>2, <1>3 DEF Plain, Once
    <2>5. w \cup Range(t) \subseteq Range(log[key])
      BY <1>5, <1>6
    <2> QED BY <1>2, <1>3, <1>6, <1>12, <2>1, <2>3, <2>4, <2>5 DEF Lists
  <1>13. CASE run'[p].pc # "get"
    <2>1. run'[p].ids = <<>> /\ (t = <<>> \/ Len(n) = Limit)
      BY <1>2, <1>3, <1>4, <1>13
    <2>2. ASSUME Plain(key), NEW x \in w, rec[x] > 0 PROVE x \in Range(n)
      <3>1. CASE t = <<>>
        BY <1>11, <2>2, <3>1, EmptyRange
      <3>2. CASE Len(n) = Limit
        <4> SUFFICES ASSUME x \notin Range(n) PROVE FALSE
          OBVIOUS
        <4>1. x \in Range(t)
          BY <1>11, <2>2
        <4>2. Range(n) \subseteq w
          BY <1>11, <2>2, <4>1
        <4>3. Cardinality(Range(n)) = Limit
          BY <1>11, <2>2, <3>2
        <4>4. Cardinality(Range(n)) <= Cardinality(w) /\ (Cardinality(w) = Cardinality(Range(n)) => w = Range(n))
          BY <1>6, <4>2, FS_Subset
        <4>5. Cardinality(w) \in Nat
          BY <1>6, FS_CardinalityType
        <4>6. Cardinality(w) = Cardinality(Range(n))
          BY <1>6, <1>7, <4>3, <4>4, <4>5
        <4> QED BY <2>2, <4>4, <4>6
      <3> QED BY <2>1, <3>1, <3>2
    <2>3. Plain(run[p].key)' => Plain(key)
      BY <1>2, <1>3 DEF Plain, Once
    <2>4. Range(run'[p].ids) = {}
      BY <2>1, EmptyRange
    <2> QED BY <1>2, <1>3, <1>6, <1>13, <2>2, <2>3, <2>4 DEF Lists
  <1> QED BY <1>12, <1>13

LEMMA ListStep ==
  ASSUME StateInv, StateInv', LogInv, IndexInv, LivingRecordsAreListed, DropInv, ListInv, Onward,
         HistoryNext
  PROVE  ListInv'
  <1>0. \A p \in Procs : run[p].key \in Keys
    BY DEF StateInv, RunStates
  <1>1. ASSUME NEW p \in Procs, Moves(p), ~Listing(p)' PROVE ListInv'
    BY <1>1, ListMoves DEF Lists
  <1>2. ASSUME NEW p \in Procs, Ends(p) PROVE ListInv'
    <2>1. Only(p) /\ run'[p].pc = "idle"
      BY <1>2, EndRun DEF Ends
    <2> QED BY <1>1, <2>1, OnlyMoves DEF Listing
  <1>3. ASSUME NEW p \in Procs, Passes(p) PROVE ListInv'
    <2>1. /\ Only(p) /\ Keeps(p) /\ run'[p].ids = <<>>
          /\ \/ run'[p].pc \in {"all", "drop"}
             \/ run[p].pc \in {"prune", "prune set"} /\ run'[p].pc = "answer"
      BY <1>3, PassesFacts
    <2>2. Range(run'[p].ids) = {}
      BY <2>1, EmptyRange
    <2>3. Lists(p)'
      BY <1>0, <2>1, <2>2, ListsKept, ListParts DEF Keeps, Listing
    <2> QED BY <2>1, <2>3, OnlyMoves, ListMoves
  <1>4. ASSUME NEW p \in Procs, Enters(p) PROVE ListInv'
    <2>1. /\ Only(p) /\ run'[p].ids = idx[KeyOf(p)']
          /\ run'[p].key = run[p].key /\ run'[p].out = run[p].out /\ run'[p].want = run[p].want
          /\ \/ run'[p].pc \in {"own set", "all set", "strip set"}
             \/ run[p].pc = "prune" /\ run'[p].pc = "prune set" /\ KeyOf(p)' = run[p].key
      BY <1>4, EntersFacts
    <2>2. PICK key \in Keys : key = run[p].key
      BY <1>0
    <2>3. Range(idx[key]) \subseteq Range(log[key])
      BY IndexParts, SoundFacts
    <2>4. Lists(p)'
      BY <2>1, <2>2, <2>3, ListsKept, ListParts DEF Listing
    <2> QED BY <2>1, <2>4, OnlyMoves, ListMoves
  <1>5. ASSUME NEW p \in Procs, NEW id \in Ids, SaveRecord(p, id) PROVE ListInv'
    <2>1. Moves(p) /\ run'[p].pc = "own"
      BY <1>5, SaveFacts DEF Moves
    <2> QED BY <1>1, <2>1 DEF Listing
  <1>6. ASSUME NEW p \in Procs, NEW a \in Automations, PurgeRead(p, a) PROVE ListInv'
    <2>1. Only(p) /\ run'[p].pc \in {"drop", "wipe"}
      BY <1>6, PurgeReadFacts
    <2> QED BY <1>1, <2>1, OnlyMoves DEF Listing
  <1>7. ASSUME NEW p \in Procs, NEW key \in Keys, ListRead(p, key) PROVE ListInv'
    BY <1>7, ListReadFacts, ListBegins, OnlyMoves, ListMoves
  <1>8. ASSUME NEW p \in Procs, Writes(p) PROVE ListInv'
    <2>1. /\ Only(p)
          /\ run'[p].pc # "idle" => Keeps(p) /\ run'[p].ids = <<>>
          /\ \/ run'[p].pc \in {"all", "idle", "drop"}
             \/ run[p].pc = "prune set" /\ run'[p].pc = "answer"
      BY <1>8, WriteFacts DEF Writes
    <2>2. run'[p].ids = <<>> => Range(run'[p].ids) = {}
      BY EmptyRange
    <2>3. Lists(p)'
      BY <1>0, <2>1, <2>2, ListsKept, ListParts DEF Keeps, Listing
    <2> QED BY <2>1, <2>3, OnlyMoves, ListMoves
  <1>9. ASSUME NEW p \in Procs, PurgeRecord(p) PROVE ListInv'
    <2>1. Only(p) /\ run'[p].pc \in {"strip", "wipe"}
      BY <1>9, PurgeRecordFacts
    <2> QED BY <1>1, <2>1, OnlyMoves DEF Listing
  <1>10. ASSUME NEW p \in Procs, PurgeIndex(p) PROVE ListInv'
    <2>1. Only(p) /\ run'[p].pc = "idle"
      BY <1>10, PurgeIndexFacts
    <2> QED BY <1>1, <2>1, OnlyMoves DEF Listing
  <1>11. ASSUME NEW p \in Procs, ListGet(p) PROVE ListInv'
    <2>0. PICK x : x = Head(run[p].ids)
      OBVIOUS
    <2>1. Only(p)
      BY <1>11, <2>0, ListGetFacts
    <2> QED BY <1>11, <2>1, ListGoesOn, OnlyMoves, ListMoves
  <1>12. ASSUME Expire PROVE ListInv'
    <2>1. run' = run
      BY <1>12, ExpireFacts
    <2>2. \A q \in Procs : Lists(q)'
      BY <2>1, ListsStay, ListParts DEF Stays
    <2> QED BY <2>2 DEF ListInv, Lists
  <1> QED BY <1>2, <1>3, <1>4, <1>5, <1>6, <1>7, <1>8, <1>9, <1>10, <1>11, <1>12, NextIs DEF Writes

(***************************************************************************)
(* The theorems.                                                           *)
(***************************************************************************)

LEMMA HistoryBegins == ASSUME HistoryInit PROVE FullInv
  <1>1. /\ Idle \in RunStates /\ Idle.pc = "idle" /\ <<>> \in Seq(Ids)
        /\ TTL \in Nat /\ Nobody \notin Procs
    BY IdleFacts, SizesAssumption, KeysAssumption
  <1>2. \A p \in Procs : run[p].pc = "idle"
    BY <1>1 DEF HistoryInit
  <1>3. StateInv
    <2>1. /\ rec \in [Ids -> 0..TTL] /\ life \in [Keys -> 0..TTL]
          /\ saves \in [Ids -> Nat] /\ purges \in [Automations -> Nat]
      BY <1>1 DEF HistoryInit
    <2>2. /\ idx \in [Keys -> Seq(Ids)] /\ log \in [Keys -> Seq(Ids)]
          /\ run \in [Procs -> RunStates]
      BY <1>1 DEF HistoryInit
    <2>3. lock = Nobody /\ wiped \subseteq Ids /\ clean \subseteq Automations
      BY DEF HistoryInit
    <2>4. ASSUME NEW p \in Procs
          PROVE  /\ run[p].pc \notin Locking /\ lock # p /\ ~Saving(p) /\ ~Purging(p)
                 /\ run[p].pc \notin {"wipe", "get"}
      BY <1>1, <1>2, <2>3 DEF Locking, Saving, Purging
    <2> QED BY <2>1, <2>2, <2>3, <2>4 DEF StateInv
  <1>4. (\A key \in Keys : log[key] = <<>> /\ idx[key] = <<>> /\ life[key] = 0) /\ lock = Nobody
    BY DEF HistoryInit
  <1>5. LogInv
    BY <1>2, <1>4, EmptyRange DEF LogInv, Saving, Keys
  <1>6. \A key \in Keys : Subsequence(idx[key], log[key]) /\ Len(idx[key]) <= Cap[key]
    <2>1. ASSUME NEW key \in Keys PROVE Subsequence(idx[key], log[key]) /\ Len(idx[key]) <= Cap[key]
      <3>1. Subsequence(<<>>, <<>>)
        BY <1>1, SubEmpty
      <3>2. Cap[key] \in Nat /\ Len(<<>>) = 0
        BY EmptyRange, SizesAssumption
      <3>3. Len(<<>>) <= Cap[key]
        BY <3>2
      <3> QED BY <1>4, <3>1, <3>3, Zenon
    <2> QED BY <2>1
  <1>7. IndexInv
    BY <1>1, <1>4, <1>6, EmptyRange DEF IndexInv
  <1>8. LivingRecordsAreListed
    BY <1>4, EmptyRange DEF LivingRecordsAreListed
  <1>9. DropInv /\ ListInv
    BY <1>2 DEF DropInv, ListInv, Purging, Listing
  <1>10. PurgeInv
    BY <1>2 DEF PurgeInv, Purging, HistoryInit
  <1> QED BY <1>3, <1>5, <1>7, <1>8, <1>9, <1>10 DEF FullInv

LEMMA HistoryStutters == ASSUME FullInv, UNCHANGED historyVars PROVE FullInv'
  <1>1. UNCHANGED <<rec, idx, life, lock, run, log, saves, wiped, clean, purges>>
    BY DEF historyVars
  <1>2. StateInv'
    BY <1>1 DEF FullInv, StateInv, Saving, Purging
  <1>3. LogInv'
    BY <1>1 DEF FullInv, LogInv, Saving, Once
  <1>4. IndexInv'
    BY <1>1 DEF FullInv, IndexInv, KeyOf, Once
  <1>5. LivingRecordsAreListed' /\ DropInv'
    BY <1>1 DEF FullInv, LivingRecordsAreListed, DropInv, Purging, Listing, Once
  <1>6. PurgeInv'
    <2>1. \A q : Purging(q)' = Purging(q) /\ Saving(q)' = Saving(q) /\ KeyOf(q)' = KeyOf(q)
      BY <1>1 DEF Purging, Saving, KeyOf
    <2>2. \A a : SavesOf(a)' = SavesOf(a) /\ Cleared(a)' = Cleared(a)
      BY <1>1, <2>1 DEF SavesOf, Cleared, Once
    <2>3. \A id : Once(id)' = Once(id) /\ Stripped(id)' = Stripped(id)
      BY <1>1, <2>1 DEF Stripped, Once
    <2>4. \A q \in Procs : Purges(q) => Purges(q)'
      BY <1>1, <2>1, <2>2, <2>3 DEF Purges, SavesOf, Cleared
    <2>5. PurgeInv
      BY DEF FullInv
    <2>6. \A q \in Procs : Purges(q)'
      BY <2>4, <2>5, PurgeParts
    <2>7. \A a \in clean' : SavesOf(a)' = {} /\ Cleared(a)'
      BY <1>1, <2>2, <2>5 DEF PurgeInv
    <2>8. \A id \in wiped' : saves'[id] > 0 /\ (Once(id)' => Stripped(id)')
      BY <1>1, <2>3, <2>5 DEF PurgeInv
    <2> QED BY <2>6, <2>7, <2>8 DEF PurgeInv, Purges
  <1>7. ListInv'
    BY <1>1 DEF FullInv, ListInv, Listing, Plain, Scanning, Once
  <1> QED BY <1>2, <1>3, <1>4, <1>5, <1>6, <1>7 DEF FullInv

\* Nothing that a step of the history can do disturbs its invariant.
THEOREM FullInvHolds == HistorySpec => []FullInv
  <1>1. HistoryInit => FullInv
    BY HistoryBegins
  <1>2. FullInv /\ [HistoryNext]_historyVars => FullInv'
    <2>1. ASSUME FullInv, HistoryNext PROVE FullInv'
      <3>1. /\ StateInv /\ LogInv /\ IndexInv /\ LivingRecordsAreListed
            /\ DropInv /\ PurgeInv /\ ListInv
        BY <2>1 DEF FullInv
      <3>2. StateInv' /\ Onward
        BY <2>1, <3>1, StateStep, OnwardStep
      <3>3. LogInv' /\ IndexInv' /\ LivingRecordsAreListed' /\ DropInv'
        BY <2>1, <3>1, <3>2, LogStep, IndexStep, LivingStep, DropStep
      <3>4. PurgeInv' /\ ListInv'
        BY <2>1, <3>1, <3>2, PurgeStep, ListStep
      <3> QED BY <3>2, <3>3, <3>4 DEF FullInv
    <2> QED BY <2>1, HistoryStutters
  <1> QED BY <1>1, <1>2, PTL DEF HistorySpec

\* Every index is in order and within its size, whatever overlaps, and the mutex
\* is whose critical section it is.
THEOREM HistoryIsSound == HistorySpec => []HistoryInv
  <1>1. FullInv => HistoryInv
    BY DEF FullInv, StateInv, IndexInv, HistoryInv, IndexesNewestFirst
  <1> QED BY <1>1, FullInvHolds, PTL

\* A record that was saved is found as long as it lives, until as many newer ones
\* as the index has room for have followed.
THEOREM NoLivingRecordIsLost == HistorySpec => []LivingRecordsAreListed
  <1>1. FullInv => LivingRecordsAreListed
    BY DEF FullInv
  <1> QED BY <1>1, FullInvHolds, PTL

\* A first purge leaves none of the newest records, and nothing of what it
\* deleted in the global index.
THEOREM FirstPurgesAreThorough == HistorySpec => []PurgesAreThorough
  <1>1. FullInv => PurgesAreThorough
    BY DEF FullInv, PurgeInv, PurgesAreThorough, Cleared, Stripped
  <1> QED BY <1>1, FullInvHolds, PTL

\* A request is shown the newest records that are alive, as many as it asked for.
THEOREM RequestsSeeTheNewest == HistorySpec => []ListsShowTheNewest
  <1>1. FullInv => ListsShowTheNewest
    BY DEF FullInv, ListInv, ListsShowTheNewest, Listing
  <1> QED BY <1>1, FullInvHolds, PTL
===============================================================================
