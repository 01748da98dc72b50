--------------------------- MODULE Notifier_proofs ---------------------------
(***************************************************************************)
(* Proofs about Notifier for any workers, editors, cooldown and number of   *)
(* faults.                                                                  *)
(***************************************************************************)
EXTENDS Notifier, TLAPS

USE CooldownAssumption, BoundAssumption DEF Slot, Kinds

\* A worker's record is complete.
LEMMA WorkFacts ==
    ASSUME NEW r \in WorkStates
    PROVE  /\ r = [pc |-> r.pc, kind |-> r.kind, mine |-> r.mine,
                   sent |-> r.sent, stale |-> r.stale]
           /\ r.pc \in {"idle", "run", "claim", "open", "post", "release"}
           /\ r.kind \in Kinds /\ r.mine \in 0..TTL
           /\ r.sent \in BOOLEAN /\ r.stale \in BOOLEAN
BY DEF WorkStates

\* A step of one worker changes its own record only.
LEMMA Becomes ==
    ASSUME work \in [Workers -> WorkStates], NEW w \in Workers, NEW r \in WorkStates,
           work' = [work EXCEPT ![w] = r]
    PROVE  /\ work' \in [Workers -> WorkStates]
           /\ \A x \in Workers : work'[x] = IF x = w THEN r ELSE work[x]
OBVIOUS

\* Goto moves a worker and leaves the rest of its record alone.
LEMMA GotoFacts ==
    ASSUME work \in [Workers -> WorkStates], NEW w \in Workers,
           NEW pc \in {"idle", "run", "claim", "open", "post", "release"}, Goto(w, pc)
    PROVE  /\ work' \in [Workers -> WorkStates]
           /\ \A x \in Workers \ {w} : work'[x] = work[x]
           /\ work'[w].pc = pc /\ work'[w].kind = work[w].kind
           /\ work'[w].mine = work[w].mine /\ work'[w].sent = work[w].sent
           /\ work'[w].stale = work[w].stale
<1> DEFINE r == [work[w] EXCEPT !.pc = pc]
<1>1. /\ r \in WorkStates
      /\ r.pc = pc /\ r.kind = work[w].kind
      /\ r.mine = work[w].mine /\ r.sent = work[w].sent /\ r.stale = work[w].stale
  BY DEF WorkStates
<1>2. work' = [work EXCEPT ![w] = r]
  BY DEF Goto
<1>3. QED
  BY <1>1, <1>2, Becomes

\* Return leaves a worker with nothing.
LEMMA ReturnFacts ==
    ASSUME work \in [Workers -> WorkStates], NEW w \in Workers, Return(w)
    PROVE  /\ work' \in [Workers -> WorkStates]
           /\ \A x \in Workers \ {w} : work'[x] = work[x]
           /\ work'[w] = NoWork
           /\ work'[w].pc = "idle" /\ work'[w].kind = "failed" /\ work'[w].mine = 0
           /\ ~work'[w].sent
<1>1. NoWork \in WorkStates
  BY DEF NoWork, WorkStates
<1>2. QED
  BY <1>1, Becomes DEF Return, NoWork

\* A run that ends badly goes on to tell.
LEMMA ClaimingFacts ==
    ASSUME work \in [Workers -> WorkStates], NEW w \in Workers, NEW k \in Kinds,
           work' = [work EXCEPT ![w].pc = "claim", ![w].kind = k]
    PROVE  /\ work' \in [Workers -> WorkStates]
           /\ \A x \in Workers \ {w} : work'[x] = work[x]
           /\ work'[w].pc = "claim" /\ work'[w].kind = k /\ work'[w].mine = work[w].mine
           /\ work'[w].sent = work[w].sent
<1> DEFINE r == [work[w] EXCEPT !.pc = "claim", !.kind = k]
<1>1. /\ r \in WorkStates /\ r.pc = "claim" /\ r.kind = k /\ r.mine = work[w].mine
      /\ r.sent = work[w].sent
  BY DEF WorkStates
<1>2. work' = [work EXCEPT ![w] = r]
  OBVIOUS
<1>3. QED
  BY <1>1, <1>2, Becomes

\* A worker whose claim took effect.
LEMMA ClaimedFacts ==
    ASSUME work \in [Workers -> WorkStates], NEW w \in Workers,
           work' = [work EXCEPT ![w].pc = "open", ![w].mine = TTL]
    PROVE  /\ work' \in [Workers -> WorkStates]
           /\ \A x \in Workers \ {w} : work'[x] = work[x]
           /\ work'[w].pc = "open" /\ work'[w].kind = work[w].kind
           /\ work'[w].mine = TTL /\ work'[w].sent = work[w].sent
           /\ work'[w].stale = work[w].stale
<1> DEFINE p == [work[w] EXCEPT !.pc = "open"]
           r == [p EXCEPT !.mine = TTL]
<1>1. /\ p \in WorkStates /\ p.pc = "open" /\ p.kind = work[w].kind
      /\ p.sent = work[w].sent /\ p.stale = work[w].stale
  BY DEF WorkStates
<1> HIDE DEF p
<1>2. /\ r \in WorkStates /\ r.pc = "open" /\ r.kind = work[w].kind /\ r.mine = TTL
      /\ r.sent = work[w].sent /\ r.stale = work[w].stale
  BY <1>1 DEF WorkStates
<1>3. work' = [work EXCEPT ![w] = r]
  BY DEF p
<1> HIDE DEF r
<1>4. QED
  BY <1>2, <1>3, Becomes

\* A worker whose post was made although it failed.
LEMMA SentFacts ==
    ASSUME work \in [Workers -> WorkStates], NEW w \in Workers,
           work' = [work EXCEPT ![w].pc = "release", ![w].sent = TRUE]
    PROVE  /\ work' \in [Workers -> WorkStates]
           /\ \A x \in Workers \ {w} : work'[x] = work[x]
           /\ work'[w].pc = "release" /\ work'[w].kind = work[w].kind
           /\ work'[w].mine = work[w].mine /\ work'[w].sent
<1>1. PICK b \in BOOLEAN : b = TRUE
  BY Zenon
<1> DEFINE r == [work[w] EXCEPT !.pc = "release", !.sent = b]
<1>2. /\ r \in WorkStates /\ r.pc = "release" /\ r.kind = work[w].kind
      /\ r.mine = work[w].mine /\ r.sent = b
  BY DEF WorkStates
<1>3. work' = [work EXCEPT ![w] = r]
  BY <1>1
<1> HIDE DEF r
<1>4. /\ work' \in [Workers -> WorkStates]
      /\ \A x \in Workers : work'[x] = IF x = w THEN r ELSE work[x]
  BY <1>2, <1>3, Becomes
<1>5. QED
  BY <1>1, <1>2, <1>4

\* Marks of the kinds stay marks.
LEMMA Marks ==
    ASSUME NEW f \in [Kinds -> BOOLEAN], NEW k \in Kinds, NEW b \in BOOLEAN
    PROVE  /\ [f EXCEPT ![k] = b] \in [Kinds -> BOOLEAN]
           /\ \A j \in Kinds : [f EXCEPT ![k] = b][j] = IF j = k THEN b ELSE f[j]
           /\ [f EXCEPT ![k] = @ \/ b] \in [Kinds -> BOOLEAN]
           /\ \A j \in Kinds : [f EXCEPT ![k] = @ \/ b][j] = IF j = k THEN f[j] \/ b ELSE f[j]
OBVIOUS

\* Who holds a claim, and who has sent a notice and is still at work.
LEMMA Holders ==
    ASSUME TypeOK, ClaimsAreHeld, NEW w \in Workers
    PROVE  /\ work[w].pc \in {"idle", "run", "claim"} => work[w].mine = 0
           /\ work[w].pc # "release" => ~work[w].sent
<1>1. work[w].mine \in 0..TTL
  BY WorkFacts DEF TypeOK
<1>2. work[w].mine > 0 => Telling(w)
  BY DEF ClaimsAreHeld
<1>3. work[w].sent => At(w, "release")
  BY Zenon DEF ClaimsAreHeld
<1>4. work[w].pc \in {"idle", "run", "claim"} => work[w].mine = 0
  BY <1>1, <1>2 DEF Telling, At
<1>5. work[w].pc # "release" => ~work[w].sent
  BY <1>3, Zenon DEF At
<1>6. QED
  BY <1>4, <1>5

\* Keys and windows stay together where neither they nor the claims change; a
\* claim that is given up holds nothing.
LEMMA QuietKeys ==
    ASSUME TypeOK, ClaimsAreKeys, UNCHANGED <<life, recent, bared>>,
           \A x \in Workers :
               \/ work'[x].mine = 0
               \/ /\ work'[x].kind = work[x].kind /\ work'[x].mine = work[x].mine
                  /\ work'[x].sent = work[x].sent
    PROVE  ClaimsAreKeys'
<1> SUFFICES ASSUME NEW k \in Kinds
             PROVE  /\ recent[k] <= life[k] \/ recent[k] <= bared[k]
                    /\ \A w \in Workers : work'[w].kind = k /\ work'[w].mine > bared[k] => Holds(w, k)'
  BY DEF ClaimsAreKeys
<1>1. recent[k] <= life[k] \/ recent[k] <= bared[k]
  BY DEF ClaimsAreKeys
<1>2. bared[k] \in 0..TTL
  BY DEF TypeOK
<1> SUFFICES ASSUME NEW w \in Workers, work'[w].kind = k, work'[w].mine > bared[k]
             PROVE  Holds(w, k)'
  BY <1>1
<1>3. /\ work[w].kind = k /\ work'[w].mine = work[w].mine /\ work'[w].sent = work[w].sent
  BY <1>2
<1>4. Holds(w, k)
  BY <1>3 DEF ClaimsAreKeys
<1>5. \A x \in Workers \ {w} : work'[x].kind = k => work'[x].mine <= bared[k]
  BY <1>2, <1>4 DEF Holds
<1>6. QED
  BY <1>3, <1>4, <1>5 DEF Holds

\* A worker that loads an automation holds no claim.
LEMMA LoadKeeps ==
    ASSUME NoticeInv, SilenceHasReason, NEW w \in Workers, Load(w)
    PROVE  NoticeInv' /\ SilenceHasReason'
<1>1. TypeOK /\ ClaimsAreHeld /\ ClaimsAreKeys /\ w \in Workers
  BY DEF NoticeInv
<1>2. /\ work \in [Workers -> WorkStates] /\ work' \in [Workers -> WorkStates]
      /\ \A x \in Workers \ {w} : work'[x] = work[x]
      /\ work[w].pc = "idle" /\ work'[w].pc = "run" /\ work'[w].mine = work[w].mine
      /\ work'[w].kind = work[w].kind /\ work'[w].sent = work[w].sent
  BY <1>1, GotoFacts DEF TypeOK, Load, Kinds, At
<1>3. \A x \in Workers :
        /\ work[x].kind \in Kinds /\ work[x].mine \in 0..TTL
        /\ work'[x].kind \in Kinds /\ work'[x].mine \in 0..TTL
  BY <1>2, WorkFacts
<1>4. TypeOK'
  BY <1>1, <1>2, <1>3 DEF TypeOK, Load, At, Key, noticeVars, tellVars
<1> USE DEF noticeVars, tellVars
<1>5. ClaimsAreHeld'
  BY <1>1, <1>2, <1>3 DEF ClaimsAreHeld, Telling, At
<1>6. ClaimsAreKeys'
  BY <1>1, <1>2, <1>3, QuietKeys DEF Load, ClaimsAreHeld, Telling, At
<1>7. SilenceHasReason'
  BY <1>1, <1>2, <1>3 DEF TypeOK, Load, ClaimsAreHeld, ClaimsAreKeys, SilenceHasReason, Telling, At, Key
<1>8. QED
  BY <1>4, <1>5, <1>6, <1>7 DEF NoticeInv

\* A run that succeeds holds no claim.
LEMMA SucceedKeeps ==
    ASSUME NoticeInv, SilenceHasReason, NEW w \in Workers, Succeed(w)
    PROVE  NoticeInv' /\ SilenceHasReason'
<1>1. TypeOK /\ ClaimsAreHeld /\ ClaimsAreKeys /\ w \in Workers
  BY DEF NoticeInv
<1>2. /\ work \in [Workers -> WorkStates] /\ work' \in [Workers -> WorkStates]
      /\ \A x \in Workers \ {w} : work'[x] = work[x]
      /\ work[w].pc = "run" /\ work'[w].pc = "idle" /\ work'[w].mine = 0
      /\ ~work'[w].sent
  BY <1>1, ReturnFacts DEF TypeOK, Succeed, Kinds, At
<1>3. \A x \in Workers :
        /\ work[x].kind \in Kinds /\ work[x].mine \in 0..TTL
        /\ work'[x].kind \in Kinds /\ work'[x].mine \in 0..TTL
  BY <1>2, WorkFacts
<1>4. TypeOK'
  BY <1>1, <1>2, <1>3 DEF TypeOK, Succeed, At, Key, noticeVars, tellVars
<1> USE DEF noticeVars, tellVars
<1>5. ClaimsAreHeld'
  BY <1>1, <1>2, <1>3 DEF ClaimsAreHeld, Telling, At
<1>6. ClaimsAreKeys'
  BY <1>1, <1>2, <1>3, QuietKeys DEF Succeed, ClaimsAreHeld, Telling, At
<1>7. SilenceHasReason'
  BY <1>1, <1>2, <1>3 DEF TypeOK, Succeed, ClaimsAreHeld, ClaimsAreKeys, SilenceHasReason, Telling, At, Key
<1>8. QED
  BY <1>4, <1>5, <1>6, <1>7 DEF NoticeInv

\* A failed run claims nothing yet.
LEMMA FailRunKeeps ==
    ASSUME NoticeInv, SilenceHasReason, NEW w \in Workers, FailRun(w)
    PROVE  NoticeInv' /\ SilenceHasReason'
<1>1. TypeOK /\ ClaimsAreHeld /\ ClaimsAreKeys /\ w \in Workers
  BY DEF NoticeInv
<1>2. /\ work \in [Workers -> WorkStates] /\ work' \in [Workers -> WorkStates]
      /\ \A x \in Workers \ {w} : work'[x] = work[x]
      /\ work[w].pc = "run" /\ work'[w].pc = "claim" /\ work'[w].mine = work[w].mine
      /\ work'[w].sent = work[w].sent
  BY <1>1, ClaimingFacts DEF TypeOK, FailRun, Kinds, At
<1>3. \A x \in Workers :
        /\ work[x].kind \in Kinds /\ work[x].mine \in 0..TTL
        /\ work'[x].kind \in Kinds /\ work'[x].mine \in 0..TTL
  BY <1>2, WorkFacts
<1>4. TypeOK'
  BY <1>1, <1>2, <1>3 DEF TypeOK, FailRun, At, Key, noticeVars, tellVars
<1> USE DEF noticeVars, tellVars
<1>5. ClaimsAreHeld'
  BY <1>1, <1>2, <1>3 DEF ClaimsAreHeld, Telling, At
<1>6. ClaimsAreKeys'
  BY <1>1, <1>2, <1>3, QuietKeys, Holders DEF FailRun
<1>7. SilenceHasReason'
  BY <1>1, <1>2, <1>3 DEF TypeOK, FailRun, ClaimsAreHeld, ClaimsAreKeys, SilenceHasReason, Telling, At, Key
<1>8. QED
  BY <1>4, <1>5, <1>6, <1>7 DEF NoticeInv

\* Turning the automation off claims nothing yet.
LEMMA TurnOffKeeps ==
    ASSUME NoticeInv, SilenceHasReason, NEW w \in Workers, TurnOff(w)
    PROVE  NoticeInv' /\ SilenceHasReason'
<1>1. TypeOK /\ ClaimsAreHeld /\ ClaimsAreKeys /\ w \in Workers
  BY DEF NoticeInv
<1>2. /\ work \in [Workers -> WorkStates] /\ work' \in [Workers -> WorkStates]
      /\ \A x \in Workers \ {w} : work'[x] = work[x]
      /\ work[w].pc = "run" /\ work'[w].pc = "claim" /\ work'[w].mine = work[w].mine
      /\ work'[w].sent = work[w].sent
  BY <1>1, ClaimingFacts DEF TypeOK, TurnOff, Kinds, At
<1>3. \A x \in Workers :
        /\ work[x].kind \in Kinds /\ work[x].mine \in 0..TTL
        /\ work'[x].kind \in Kinds /\ work'[x].mine \in 0..TTL
  BY <1>2, WorkFacts
<1>4. TypeOK'
  <2>1. /\ on' \in BOOLEAN /\ promised' \in BOOLEAN /\ due' \in BOOLEAN
        /\ overtaken' \in BOOLEAN /\ repeated' \in BOOLEAN
    BY <1>1, <1>3, Zenon DEF TypeOK, TurnOff, Fault, noticeVars, tellVars
  <2>2. edit' \in [Editors -> [busy : BOOLEAN, value : BOOLEAN, says : BOOLEAN, late : BOOLEAN]]
    <3>1. CASE UNCHANGED edit
      BY <1>1, <3>1 DEF TypeOK
    <3>2. CASE edit' = [e \in Editors |-> [edit[e] EXCEPT !.late = edit[e].value /\ ~edit[e].says]]
      <4> SUFFICES ASSUME NEW e \in Editors
                   PROVE  [edit[e] EXCEPT !.late = edit[e].value /\ ~edit[e].says] \in [busy : BOOLEAN, value : BOOLEAN, says : BOOLEAN, late : BOOLEAN]
        BY <3>2
      <4>1. edit[e] \in [busy : BOOLEAN, value : BOOLEAN, says : BOOLEAN, late : BOOLEAN]
        BY <1>1 DEF TypeOK
      <4>2. (edit[e].value /\ ~edit[e].says) \in BOOLEAN
        OBVIOUS
      <4>3. QED
        BY <4>1, <4>2
    <3>3. QED
      BY <3>1, <3>2 DEF TurnOff
  <2>3. life' \in [Kinds -> 0..TTL] /\ recent' \in [Kinds -> 0..TTL]
    BY <1>1, <1>2, <1>3 DEF TypeOK, TurnOff, Key, noticeVars
  <2>4. lost' \in [Kinds -> BOOLEAN] /\ bared' \in [Kinds -> 0..TTL]
    BY <1>1, <1>2, <1>3, Marks DEF TypeOK, TurnOff, Key, noticeVars
  <2>5. faults' \in 0..MaxFaults
    BY <1>1 DEF TypeOK, TurnOff, Fault
  <2>6. QED
    BY <1>2, <2>1, <2>2, <2>3, <2>4, <2>5 DEF TypeOK
<1> USE DEF noticeVars, tellVars
<1>5. ClaimsAreHeld'
  BY <1>1, <1>2, <1>3 DEF ClaimsAreHeld, Telling, At
<1>6. ClaimsAreKeys'
  BY <1>1, <1>2, <1>3, QuietKeys, Holders DEF TurnOff
<1>7. SilenceHasReason'
  BY <1>1, <1>2, <1>3 DEF TypeOK, TurnOff, Fault, ClaimsAreHeld, ClaimsAreKeys, SilenceHasReason, Telling, At, Key
<1>8. QED
  BY <1>4, <1>5, <1>6, <1>7 DEF NoticeInv

\* Opening the channel moves no claim.
LEMMA OpenKeeps ==
    ASSUME NoticeInv, SilenceHasReason, NEW w \in Workers, Open(w)
    PROVE  NoticeInv' /\ SilenceHasReason'
<1>1. TypeOK /\ ClaimsAreHeld /\ ClaimsAreKeys /\ w \in Workers
  BY DEF NoticeInv
<1>2. /\ work \in [Workers -> WorkStates] /\ work' \in [Workers -> WorkStates]
      /\ \A x \in Workers \ {w} : work'[x] = work[x]
      /\ work[w].pc = "open" /\ work'[w].pc \in {"post", "release"}
      /\ work'[w].mine = work[w].mine /\ work'[w].kind = work[w].kind
      /\ work'[w].sent = work[w].sent
  BY <1>1, GotoFacts DEF TypeOK, Open, Kinds, At
<1>3. \A x \in Workers :
        /\ work[x].kind \in Kinds /\ work[x].mine \in 0..TTL
        /\ work'[x].kind \in Kinds /\ work'[x].mine \in 0..TTL
  BY <1>2, WorkFacts
<1>4. TypeOK'
  BY <1>1, <1>2, <1>3 DEF TypeOK, Open, Fault, At, Key, noticeVars, tellVars
<1> USE DEF noticeVars, tellVars
<1>5. ClaimsAreHeld'
  BY <1>1, <1>2, <1>3 DEF ClaimsAreHeld, Telling, At
<1>6. ClaimsAreKeys'
  BY <1>1, <1>2, <1>3, QuietKeys DEF Open, ClaimsAreHeld, Telling, At
<1>7. SilenceHasReason'
  BY <1>1, <1>2, <1>3 DEF TypeOK, Open, Fault, ClaimsAreHeld, ClaimsAreKeys, SilenceHasReason, Telling, At, Key
<1>8. QED
  BY <1>4, <1>5, <1>6, <1>7 DEF NoticeInv

\* A notice that is sent carries the claim of its worker on.
LEMMA PostKeeps ==
    ASSUME NoticeInv, SilenceHasReason, NEW w \in Workers, Post(w)
    PROVE  NoticeInv' /\ SilenceHasReason'
<1> DEFINE k == work[w].kind
<1>1. /\ TypeOK /\ ClaimsAreHeld /\ ClaimsAreKeys /\ k \in Kinds
      /\ work \in [Workers -> WorkStates]
  BY WorkFacts DEF NoticeInv, TypeOK
<1>2. /\ work' \in [Workers -> WorkStates]
      /\ \A x \in Workers \ {w} : work'[x] = work[x]
      /\ work[w].pc = "post"
      /\ \/ /\ work'[w].pc = "idle" /\ work'[w].mine = 0 /\ ~work'[w].sent /\ Sends(w)
         \/ /\ work'[w].pc = "release" /\ work'[w].mine = work[w].mine /\ work'[w].kind = k
            /\ work'[w].sent /\ Sends(w)
         \/ /\ work'[w].pc = "release" /\ work'[w].mine = work[w].mine /\ work'[w].kind = k
            /\ work'[w].sent = work[w].sent /\ UNCHANGED recent
  BY <1>1, GotoFacts, ReturnFacts, SentFacts DEF Post, At
<1>3. \A x \in Workers :
        /\ work[x].kind \in Kinds /\ work[x].mine \in 0..TTL
        /\ work'[x].kind \in Kinds /\ work'[x].mine \in 0..TTL
  BY <1>1, <1>2, WorkFacts
<1>4. UNCHANGED <<on, edit, life, lost, bared>>
  BY DEF Post
<1>5. /\ recent' \in [Kinds -> 0..TTL]
      /\ \/ recent' = recent
         \/ /\ \A j \in Kinds \ {k} : recent'[j] = recent[j]
            /\ recent'[k] = IF recent[k] > work[w].mine THEN recent[k] ELSE work[w].mine
  BY <1>1, <1>2, <1>3 DEF TypeOK, Sends
<1>6. TypeOK'
  <2>1. /\ promised' \in BOOLEAN /\ due' \in BOOLEAN
        /\ overtaken' \in BOOLEAN /\ repeated' \in BOOLEAN
    BY <1>1, <1>3, Zenon DEF TypeOK, Post, Sends, Tells, tellVars
  <2>2. faults' \in 0..MaxFaults
    BY <1>1 DEF TypeOK, Post, Fault
  <2>3. QED
    BY <1>1, <1>2, <1>4, <1>5, <2>1, <2>2 DEF TypeOK
<1>7. ClaimsAreHeld'
  BY <1>1, <1>2, <1>3 DEF ClaimsAreHeld, Telling, At
<1>8. ClaimsAreKeys'
  <2> SUFFICES ASSUME NEW j \in Kinds
               PROVE  /\ recent'[j] <= life[j] \/ recent'[j] <= bared[j]
                      /\ \A x \in Workers : work'[x].kind = j /\ work'[x].mine > bared[j]
                                            => Holds(x, j)'
    BY <1>4 DEF ClaimsAreKeys
  <2>1. /\ life[j] \in 0..TTL /\ bared[j] \in 0..TTL /\ recent[j] \in 0..TTL
        /\ recent'[j] \in 0..TTL /\ work[w].mine \in 0..TTL
    BY <1>1, <1>3, <1>5 DEF TypeOK
  <2>2. /\ recent[j] <= life[j] \/ recent[j] <= bared[j]
        /\ j = k /\ work[w].mine > bared[j] => Holds(w, j)
    BY <1>1 DEF ClaimsAreKeys
  <2>3. recent'[j] <= life[j] \/ recent'[j] <= bared[j]
    BY <1>5, <2>1, <2>2 DEF Holds
  <2>4. ASSUME NEW x \in Workers, work'[x].kind = j, work'[x].mine > bared[j]
        PROVE  Holds(x, j)'
    <3>1. /\ work[x].kind = j /\ work'[x].mine = work[x].mine
          /\ Holds(x, j) /\ work[x].mine > bared[j]
      BY <1>1, <1>2, <2>1, <2>4 DEF ClaimsAreKeys
    <3>2. \A y \in Workers \ {x} : work'[y].kind = j => work'[y].mine <= bared[j]
      BY <1>2, <2>1, <3>1 DEF Holds
    <3>3. CASE x = w
      BY <1>2, <1>4, <1>5, <2>1, <2>4, <3>1, <3>2, <3>3 DEF Holds
    <3>4. CASE x # w
      <4>1. work'[x] = work[x] /\ (j = k => work[w].mine <= bared[j])
        BY <1>2, <3>1, <3>4 DEF Holds
      <4>2. recent[j] <= bared[j] => recent'[j] <= bared[j]
        BY <1>5, <2>1, <4>1
      <4>3. QED
        BY <1>4, <3>1, <3>2, <4>1, <4>2 DEF Holds
    <3>5. QED
      BY <3>3, <3>4
  <2>5. QED
    BY <2>3, <2>4
<1>9. SilenceHasReason'
  <2> SUFFICES ASSUME NEW j \in Kinds, life[j] > 0, ~lost[j], ~(recent'[j] >= life[j])
               PROVE  \E x \in Workers : Telling(x)' /\ work'[x].kind = j /\ work'[x].mine >= life[j]
    BY <1>4 DEF SilenceHasReason
  <2>1. /\ life[j] \in 0..TTL /\ recent[j] \in 0..TTL /\ recent'[j] \in 0..TTL
        /\ work[w].mine \in 0..TTL
    BY <1>1, <1>3, <1>5 DEF TypeOK
  <2>2. ~(recent[j] >= life[j])
    BY <1>5, <2>1
  <2>3. PICK x \in Workers : Telling(x) /\ work[x].kind = j /\ work[x].mine >= life[j]
    BY <2>2 DEF SilenceHasReason
  <2>4. CASE x # w
    BY <1>2, <2>3, <2>4 DEF Telling, At
  <2>5. CASE x = w
    <3>1. ~Sends(w)
      BY <1>1, <2>1, <2>3, <2>5 DEF Sends, TypeOK
    <3>2. QED
      BY <1>2, <2>3, <2>5, <3>1 DEF Telling, At
  <2>6. QED
    BY <2>4, <2>5
<1>10. QED
  BY <1>6, <1>7, <1>8, <1>9 DEF NoticeInv

\* A release clears a key that is its own and unused, or leaves a trace.
LEMMA ReleaseKeeps ==
    ASSUME NoticeInv, SilenceHasReason, NEW w \in Workers, Release(w)
    PROVE  NoticeInv' /\ SilenceHasReason'
<1> DEFINE k == work[w].kind
           own == work[w].mine > 0
           unused == work[w].mine > bared[k] /\ ~work[w].sent
<1>1. TypeOK /\ ClaimsAreHeld /\ ClaimsAreKeys /\ k \in Kinds /\ own \in BOOLEAN
  BY WorkFacts DEF NoticeInv, TypeOK
<1>2. /\ work \in [Workers -> WorkStates] /\ work' \in [Workers -> WorkStates]
      /\ \A x \in Workers \ {w} : work'[x] = work[x]
      /\ work[w].pc = "release" /\ work'[w].pc = "idle" /\ work'[w].mine = 0
      /\ ~work'[w].sent
  BY <1>1, ReturnFacts DEF TypeOK, Release, At
<1>3. \A x \in Workers :
        /\ work[x].kind \in Kinds /\ work[x].mine \in 0..TTL
        /\ work'[x].kind \in Kinds /\ work'[x].mine \in 0..TTL
  BY <1>2, WorkFacts
<1>4. /\ recent' = recent /\ on' = on /\ edit' = edit /\ promised' = promised /\ due' = due
      /\ overtaken' = overtaken /\ repeated' = repeated
      /\ faults' \in 0..MaxFaults
  BY <1>1 DEF Release, Fault, TypeOK, tellVars
<1>5. ClaimsAreHeld'
  BY <1>1, <1>2, <1>3 DEF ClaimsAreHeld, Telling, At
<1>6. CASE /\ life' = [life EXCEPT ![k] = 0] /\ lost' = lost
           /\ bared' = [bared EXCEPT ![k] = IF unused \/ @ > life[k] THEN @ ELSE life[k]]
  <2>1. /\ bared' \in [Kinds -> 0..TTL]
        /\ \A j \in Kinds \ {k} : bared'[j] = bared[j]
        /\ bared'[k] = IF unused \/ bared[k] > life[k] THEN bared[k] ELSE life[k]
    BY <1>1, <1>6 DEF TypeOK
  <2>2. life' \in [Kinds -> 0..TTL] /\ \A j \in Kinds : life'[j] = IF j = k THEN 0 ELSE life[j]
    BY <1>1, <1>6 DEF TypeOK
  <2>3. TypeOK'
    BY <1>1, <1>2, <1>4, <1>6, <2>1, <2>2 DEF TypeOK
  <2>4. ClaimsAreKeys'
    <3> SUFFICES ASSUME NEW j \in Kinds
                 PROVE  /\ recent[j] <= life'[j] \/ recent[j] <= bared'[j]
                        /\ \A x \in Workers : work'[x].kind = j /\ work'[x].mine > bared'[j]
                                              => Holds(x, j)'
      BY <1>4 DEF ClaimsAreKeys
    <3>1. /\ life[j] \in 0..TTL /\ bared[j] \in 0..TTL /\ bared'[j] \in 0..TTL
          /\ recent[j] \in 0..TTL
      BY <1>1, <2>1 DEF TypeOK
    <3>2. /\ recent[j] <= life[j] \/ recent[j] <= bared[j]
          /\ \A x \in Workers : work[x].kind = j /\ work[x].mine > bared[j] => Holds(x, j)
      BY <1>1 DEF ClaimsAreKeys
    <3>3. CASE j # k
      <4>1. \A x \in Workers : work'[x].kind = j /\ work'[x].mine > bared[j] => Holds(x, j)'
        BY <1>2, <1>3, <1>4, <2>1, <2>2, <3>1, <3>2, <3>3 DEF Holds
      <4>2. QED
        BY <2>1, <2>2, <3>2, <3>3, <4>1
    <3>4. CASE j = k /\ unused
      <4>1. Holds(w, j) /\ recent[j] <= bared[j] /\ bared'[j] = bared[j]
        BY <2>1, <3>2, <3>4 DEF Holds
      <4>2. \A x \in Workers : work'[x].kind = j => work'[x].mine <= bared[j]
        BY <1>2, <3>1, <4>1 DEF Holds
      <4>3. QED
        BY <1>3, <3>1, <4>1, <4>2
    <3>5. CASE j = k /\ ~unused
      <4>1. bared'[j] >= bared[j] /\ bared'[j] >= life[j]
        BY <2>1, <3>1, <3>5
      <4>2. \A x \in Workers : work[x].kind = j => work[x].mine <= bared'[j]
        <5> SUFFICES ASSUME NEW x \in Workers, work[x].kind = j, work[x].mine > bared'[j]
                     PROVE  FALSE
          BY <1>3, <3>1
        <5>1. work[x].mine > bared[j]
          BY <1>3, <3>1, <4>1
        <5>2. life[j] = work[x].mine
          BY <3>2, <5>1 DEF Holds
        <5>3. QED
          BY <1>3, <3>1, <4>1, <5>2
      <4>3. \A x \in Workers : work'[x].kind = j => work'[x].mine <= bared'[j]
        BY <1>2, <3>1, <4>2
      <4>4. recent[j] <= bared'[j]
        BY <3>1, <3>2, <4>1
      <4>5. QED
        BY <1>3, <3>1, <4>3, <4>4
    <3>6. QED
      BY <3>3, <3>4, <3>5
  <2>5. SilenceHasReason'
    BY <1>1, <1>2, <1>3, <1>4, <1>6, <2>2 DEF SilenceHasReason, Telling, At
  <2>6. QED
    BY <1>5, <2>3, <2>4, <2>5 DEF NoticeInv
<1>7. CASE /\ life' = life /\ bared' = bared
           /\ lost' = [lost EXCEPT ![k] = @ \/ own]
  <2>1. /\ lost' \in [Kinds -> BOOLEAN]
        /\ \A j \in Kinds : lost'[j] = IF j = k THEN lost[j] \/ own ELSE lost[j]
    BY <1>1, <1>7, Marks DEF TypeOK
  <2>2. TypeOK'
    BY <1>1, <1>2, <1>4, <1>7, <2>1 DEF TypeOK
  <2>3. ClaimsAreKeys'
    BY <1>1, <1>2, <1>4, <1>7, QuietKeys
  <2>4. SilenceHasReason'
    <3> SUFFICES ASSUME NEW j \in Kinds, life[j] > 0, ~lost'[j], ~(recent[j] >= life[j])
                 PROVE  \E x \in Workers : Telling(x)' /\ work'[x].kind = j /\ work'[x].mine >= life[j]
      BY <1>4, <1>7 DEF SilenceHasReason
    <3>1. ~lost[j] /\ (j = k => work[w].mine = 0)
      BY <1>1, <1>3, <2>1
    <3>2. PICK x \in Workers : Telling(x) /\ work[x].kind = j /\ work[x].mine >= life[j]
      BY <3>1 DEF SilenceHasReason
    <3>3. x # w
      BY <1>1, <1>3, <3>1, <3>2 DEF TypeOK
    <3>4. QED
      BY <1>2, <3>2, <3>3 DEF Telling, At
  <2>5. QED
    BY <1>5, <2>2, <2>3, <2>4 DEF NoticeInv
<1>8. QED
  BY <1>6, <1>7 DEF Release, Key

\* A crash gives the claim up.
LEMMA CrashKeeps ==
    ASSUME NoticeInv, SilenceHasReason, NEW w \in Workers, Crash(w)
    PROVE  NoticeInv' /\ SilenceHasReason'
<1>1. TypeOK /\ ClaimsAreHeld /\ ClaimsAreKeys /\ w \in Workers
  BY DEF NoticeInv
<1>2. /\ work \in [Workers -> WorkStates] /\ work' \in [Workers -> WorkStates]
      /\ \A x \in Workers \ {w} : work'[x] = work[x]
      /\ work'[w].pc = "idle" /\ work'[w].mine = 0 /\ ~work'[w].sent
  BY <1>1, ReturnFacts DEF TypeOK, Crash, Kinds, At
<1>3. \A x \in Workers :
        /\ work[x].kind \in Kinds /\ work[x].mine \in 0..TTL
        /\ work'[x].kind \in Kinds /\ work'[x].mine \in 0..TTL
  BY <1>2, WorkFacts
<1>4. TypeOK'
  BY <1>1, <1>2, <1>3 DEF TypeOK, Crash, Fault, At, Key, noticeVars, tellVars
<1> USE DEF noticeVars, tellVars
<1>5. ClaimsAreHeld'
  BY <1>1, <1>2, <1>3 DEF ClaimsAreHeld, Telling, At
<1>6. ClaimsAreKeys'
  BY <1>1, <1>2, QuietKeys DEF Crash
<1>7. SilenceHasReason'
  <2>1. (work[w].mine > 0) \in BOOLEAN /\ work[w].kind \in Kinds
    BY <1>3
  <2>2. \A j \in Kinds : lost'[j] = IF j = work[w].kind THEN lost[j] \/ (work[w].mine > 0) ELSE lost[j]
    BY <1>1, <2>1, Marks DEF TypeOK, Crash, Key
  <2>3. life' = life /\ recent' = recent
    BY DEF Crash
  <2> SUFFICES ASSUME NEW j \in Kinds, life[j] > 0, ~lost'[j], ~(recent[j] >= life[j])
               PROVE  \E x \in Workers : Telling(x)' /\ work'[x].kind = j /\ work'[x].mine >= life[j]
    BY <2>3 DEF SilenceHasReason
  <2>4. ~lost[j] /\ (j = work[w].kind => work[w].mine = 0)
    <3>1. ~lost[j] /\ (j = work[w].kind => ~(work[w].mine > 0))
      BY <2>2, Zenon
    <3>2. QED
      BY <1>3, <3>1
  <2>5. PICK x \in Workers : Telling(x) /\ work[x].kind = j /\ work[x].mine >= life[j]
    BY <2>4 DEF SilenceHasReason
  <2>6. x # w
    BY <1>1, <1>3, <2>4, <2>5 DEF TypeOK
  <2>7. QED
    BY <1>2, <2>5, <2>6 DEF Telling, At
<1>8. QED
  BY <1>4, <1>5, <1>6, <1>7 DEF NoticeInv

\* A key that is free is claimed: whatever outlived what a release struck is
\* gone with it.
LEMMA FreedKey ==
    ASSUME TypeOK, ClaimsAreKeys, NEW w \in Workers, NEW k \in Kinds, work[w].kind = k,
           work' \in [Workers -> WorkStates],
           \A x \in Workers \ {w} : work'[x] = work[x],
           ~work'[w].sent, UNCHANGED <<recent, bared>>,
           life' \in [Kinds -> 0..TTL],
           \A j \in Kinds : life'[j] = life[j] \/ (life[j] = 0 /\ life'[j] = TTL),
           \/ work'[w].mine = 0
           \/ /\ work'[w].kind = k /\ work'[w].mine = TTL
              /\ life[k] = 0 /\ life'[k] = TTL
    PROVE  ClaimsAreKeys'
<1>1. \A x \in Workers : work[x].mine \in 0..TTL /\ work'[x].mine \in 0..TTL
  BY WorkFacts DEF TypeOK
<1> SUFFICES ASSUME NEW j \in Kinds
             PROVE  /\ recent[j] <= life'[j] \/ recent[j] <= bared[j]
                    /\ \A x \in Workers : work'[x].kind = j /\ work'[x].mine > bared[j]
                                          => Holds(x, j)'
  BY DEF ClaimsAreKeys
<1>2. /\ life[j] \in 0..TTL /\ bared[j] \in 0..TTL /\ recent[j] \in 0..TTL /\ life'[j] \in 0..TTL
  BY DEF TypeOK
<1>3. /\ recent[j] <= life[j] \/ recent[j] <= bared[j]
      /\ \A x \in Workers : work[x].kind = j /\ work[x].mine > bared[j] => Holds(x, j)
  BY DEF ClaimsAreKeys
<1>4. CASE life[j] = 0
  <2>1. recent[j] <= bared[j]
    BY <1>2, <1>3, <1>4
  <2>2. \A x \in Workers : work[x].kind = j => work[x].mine <= bared[j]
    BY <1>1, <1>2, <1>3, <1>4 DEF Holds
  <2>3. \A x \in Workers \ {w} : work'[x].kind = j => work'[x].mine <= bared[j]
    BY <2>2
  <2>4. ASSUME NEW x \in Workers, work'[x].kind = j, work'[x].mine > bared[j]
        PROVE  Holds(x, j)'
    <3>1. x = w /\ work'[w].mine = TTL /\ life'[j] = TTL
      BY <1>1, <1>2, <2>3, <2>4
    <3>2. QED
      BY <2>1, <2>3, <3>1 DEF Holds
  <2>5. QED
    BY <2>1, <2>4
<1>5. CASE life[j] # 0
  <2>1. life'[j] = life[j]
    BY <1>5
  <2>2. ASSUME NEW x \in Workers, work'[x].kind = j, work'[x].mine > bared[j]
        PROVE  Holds(x, j)'
    <3>1. x # w
      BY <1>2, <1>5, <2>2
    <3>2. work'[x] = work[x] /\ Holds(x, j)
      BY <1>3, <2>2, <3>1
    <3>3. \A y \in Workers \ {x} : work'[y].kind = j => work'[y].mine <= bared[j]
      BY <1>2, <1>5, <3>2 DEF Holds
    <3>4. QED
      BY <2>1, <3>2, <3>3 DEF Holds
  <2>3. QED
    BY <1>3, <2>1, <2>2
<1>6. QED
  BY <1>4, <1>5

\* A claim takes a key that is free.
LEMMA ClaimKeeps ==
    ASSUME NoticeInv, SilenceHasReason, NEW w \in Workers, Claim(w)
    PROVE  NoticeInv' /\ SilenceHasReason'
<1> DEFINE k == work[w].kind
<1>1. /\ TypeOK /\ ClaimsAreHeld /\ ClaimsAreKeys /\ k \in Kinds
      /\ work \in [Workers -> WorkStates] /\ work[w].pc = "claim"
  BY WorkFacts DEF NoticeInv, TypeOK, Claim, At
<1>2. /\ recent' = recent /\ bared' = bared
      /\ on' = on /\ edit' = edit /\ promised' = promised /\ due' = due
      /\ overtaken' = overtaken /\ repeated' \in BOOLEAN
      /\ faults' \in 0..MaxFaults
  BY <1>1 DEF Claim, Fault, TypeOK, tellVars
<1>3. CASE /\ life[k] = 0 /\ life' = [life EXCEPT ![k] = TTL]
           /\ lost' = [lost EXCEPT ![k] = FALSE]
           /\ work' = [work EXCEPT ![w].pc = "open", ![w].mine = TTL]
  <2>1. ~work[w].sent
    BY <1>1, Holders
  <2>2. /\ work' \in [Workers -> WorkStates]
        /\ \A x \in Workers \ {w} : work'[x] = work[x]
        /\ work'[w].pc = "open" /\ work'[w].mine = TTL /\ work'[w].kind = k
        /\ ~work'[w].sent
    BY <1>1, <1>3, <2>1, ClaimedFacts
  <2>3. /\ life' \in [Kinds -> 0..TTL] /\ lost' \in [Kinds -> BOOLEAN]
        /\ \A j \in Kinds : life'[j] = IF j = k THEN TTL ELSE life[j]
        /\ \A j \in Kinds : j # k => lost'[j] = lost[j]
    <3>1. life' \in [Kinds -> 0..TTL] /\ \A j \in Kinds : life'[j] = IF j = k THEN TTL ELSE life[j]
      BY <1>1, <1>3 DEF TypeOK
    <3>2. lost' \in [Kinds -> BOOLEAN] /\ \A j \in Kinds : j # k => lost'[j] = lost[j]
      BY <1>1, <1>3, Marks DEF TypeOK
    <3>3. QED
      BY <3>1, <3>2
  <2>4. TypeOK'
    BY <1>1, <1>2, <2>2, <2>3 DEF TypeOK
  <2>5. ClaimsAreHeld'
    BY <1>1, <2>2 DEF ClaimsAreHeld, Telling, At
  <2>6. \A x \in Workers : work[x].mine \in 0..TTL /\ work'[x].mine \in 0..TTL
    BY <1>1, <2>2, WorkFacts
  <2>7. ClaimsAreKeys'
    BY <1>1, <1>2, <1>3, <2>2, <2>3, <2>6, FreedKey
  <2>8. SilenceHasReason'
    BY <1>1, <1>2, <1>3, <2>2, <2>3, <2>6 DEF SilenceHasReason, Telling, At
  <2>9. QED
    BY <2>4, <2>5, <2>7, <2>8 DEF NoticeInv
<1>4. CASE /\ Return(w)
           /\ \/ life' = life /\ lost' = lost
              \/ /\ life[k] = 0 /\ life' = [life EXCEPT ![k] = TTL]
                 /\ lost' = [lost EXCEPT ![k] = TRUE]
  <2>1. /\ work' \in [Workers -> WorkStates]
        /\ \A x \in Workers \ {w} : work'[x] = work[x]
        /\ work'[w].pc = "idle" /\ work'[w].mine = 0 /\ ~work'[w].sent
    BY <1>1, <1>4, ReturnFacts
  <2>2. /\ life' \in [Kinds -> 0..TTL] /\ lost' \in [Kinds -> BOOLEAN]
        /\ \A j \in Kinds : \/ life'[j] = life[j] /\ lost'[j] = lost[j]
                            \/ life[j] = 0 /\ life'[j] = TTL /\ lost'[j]
    <3>1. CASE life' = life /\ lost' = lost
      BY <1>1, <3>1 DEF TypeOK
    <3>2. CASE /\ life[k] = 0 /\ life' = [life EXCEPT ![k] = TTL]
               /\ lost' = [lost EXCEPT ![k] = TRUE]
      <4>1. life' \in [Kinds -> 0..TTL] /\ \A j \in Kinds : life'[j] = IF j = k THEN TTL ELSE life[j]
        BY <1>1, <3>2 DEF TypeOK
      <4>2. /\ lost' \in [Kinds -> BOOLEAN]
            /\ \A j \in Kinds : lost'[j] = IF j = k THEN TRUE ELSE lost[j]
        BY <1>1, <3>2, Marks DEF TypeOK
      <4>3. QED
        BY <3>2, <4>1, <4>2
    <3>3. QED
      BY <1>4, <3>1, <3>2
  <2>3. TypeOK'
    BY <1>1, <1>2, <2>1, <2>2 DEF TypeOK
  <2>4. ClaimsAreHeld'
    BY <1>1, <2>1 DEF ClaimsAreHeld, Telling, At
  <2>5. \A x \in Workers : work[x].mine \in 0..TTL /\ work'[x].mine \in 0..TTL
    BY <1>1, <2>1, WorkFacts
  <2>6. ClaimsAreKeys'
    BY <1>1, <1>2, <2>1, <2>2, <2>5, FreedKey
  <2>7. work[w].mine = 0
    BY <1>1, Holders
  <2>8. SilenceHasReason'
    BY <1>1, <1>2, <2>1, <2>2, <2>5, <2>7 DEF SilenceHasReason, Telling, At
  <2>9. QED
    BY <2>3, <2>4, <2>6, <2>8 DEF NoticeInv
<1>5. QED
  BY <1>3, <1>4 DEF Claim, Key, At

\* A request that begins touches no claim.
LEMMA BeginUpdateKeeps ==
    ASSUME NoticeInv, SilenceHasReason, NEW e \in Editors, BeginUpdate(e)
    PROVE  NoticeInv' /\ SilenceHasReason'
<1>1. TypeOK /\ UNCHANGED <<on, work, life, recent, lost, bared, promised, due, overtaken, repeated, faults>>
  BY DEF NoticeInv, BeginUpdate, noticeVars, tellVars
<1>2. edit' \in [Editors -> [busy : BOOLEAN, value : BOOLEAN, says : BOOLEAN, late : BOOLEAN]]
  <2>1. PICK v \in BOOLEAN, b \in BOOLEAN :
          edit' = [edit EXCEPT ![e] = [busy |-> TRUE, value |-> v, says |-> b, late |-> FALSE]]
    <3>1. PICK r \in {Asks(on, FALSE), Asks(TRUE, TRUE), Asks(FALSE, TRUE)} :
            edit' = [edit EXCEPT ![e] = r]
      BY DEF BeginUpdate
    <3>2. on \in BOOLEAN
      BY <1>1 DEF TypeOK
    <3>3. QED
      BY <3>1, <3>2 DEF Asks
  <2>2. QED
    BY <1>1, <2>1 DEF TypeOK
<1>3. TypeOK'
  BY <1>1, <1>2 DEF TypeOK
<1>4. QED
  BY <1>1, <1>3 DEF NoticeInv, ClaimsAreHeld, ClaimsAreKeys, Holds, SilenceHasReason, Telling, At

\* A request that ends makes notices stale but moves no claim.
LEMMA EndUpdateKeeps ==
    ASSUME NoticeInv, SilenceHasReason, NEW e \in Editors, EndUpdate(e)
    PROVE  NoticeInv' /\ SilenceHasReason'
<1>1. TypeOK /\ UNCHANGED <<life, recent, lost, bared, faults>>
  BY DEF NoticeInv, EndUpdate, noticeVars
<1>2. /\ work' \in [Workers -> WorkStates]
      /\ \A w \in Workers : /\ work'[w].pc = work[w].pc /\ work'[w].kind = work[w].kind
                            /\ work'[w].mine = work[w].mine /\ work'[w].sent = work[w].sent
  <2>1. CASE UNCHANGED work
    BY <1>1, <2>1 DEF TypeOK
  <2>2. CASE work' = [w \in Workers |-> IF At(w, "idle") THEN work[w]
                                        ELSE [work[w] EXCEPT !.stale = TRUE]]
    <3> SUFFICES ASSUME NEW w \in Workers
                 PROVE  /\ work'[w] \in WorkStates
                        /\ work'[w].pc = work[w].pc /\ work'[w].kind = work[w].kind
                        /\ work'[w].mine = work[w].mine /\ work'[w].sent = work[w].sent
      BY <2>2, Zenon
    <3>1. work[w] \in WorkStates /\ work'[w] \in {work[w], [work[w] EXCEPT !.stale = TRUE]}
      BY <1>1, <2>2 DEF TypeOK
    <3>2. QED
      BY <3>1 DEF WorkStates
  <2>3. QED
    BY <2>1, <2>2 DEF EndUpdate
<1>3. /\ on' \in BOOLEAN /\ promised' \in BOOLEAN /\ due' \in BOOLEAN
      /\ overtaken' \in BOOLEAN /\ repeated' \in BOOLEAN
  <2>1. edit[e].value \in BOOLEAN
    BY <1>1 DEF TypeOK
  <2>2. QED
    BY <1>1, <2>1 DEF TypeOK, EndUpdate
<1>4. edit' \in [Editors -> [busy : BOOLEAN, value : BOOLEAN, says : BOOLEAN, late : BOOLEAN]]
  BY <1>1 DEF TypeOK, EndUpdate, NoEdit
<1>5. TypeOK'
  BY <1>1, <1>2, <1>3, <1>4 DEF TypeOK
<1>6. ClaimsAreHeld' /\ ClaimsAreKeys' /\ SilenceHasReason'
  <2>1. ClaimsAreHeld' /\ SilenceHasReason'
    BY <1>1, <1>2 DEF NoticeInv, ClaimsAreHeld, SilenceHasReason, Telling, At
  <2>2. ClaimsAreKeys'
    BY <1>1, <1>2, QuietKeys DEF NoticeInv
  <2>3. QED
    BY <2>1, <2>2
<1>7. QED
  BY <1>5, <1>6 DEF NoticeInv

\* Claims, keys and windows grow old together.
LEMMA TickKeeps ==
    ASSUME NoticeInv, SilenceHasReason, Tick
    PROVE  NoticeInv' /\ SilenceHasReason'
<1> DEFINE older(n) == IF n > 0 THEN n - 1 ELSE 0
<1>1. /\ TypeOK /\ ClaimsAreHeld /\ ClaimsAreKeys
      /\ UNCHANGED <<on, edit, lost, promised, due, overtaken, repeated, faults>>
  BY DEF NoticeInv, Tick, tellVars
<1>2. /\ life' \in [Kinds -> 0..TTL] /\ recent' \in [Kinds -> 0..TTL]
      /\ bared' \in [Kinds -> 0..TTL]
      /\ \A k \in Kinds : /\ life'[k] = older(life[k]) /\ recent'[k] = older(recent[k])
                          /\ bared'[k] = older(bared[k])
  BY <1>1 DEF Tick, TypeOK
<1>3. /\ work' \in [Workers -> WorkStates]
      /\ \A w \in Workers : /\ work'[w].pc = work[w].pc /\ work'[w].kind = work[w].kind
                            /\ work'[w].mine = older(work[w].mine)
                            /\ work'[w].sent = work[w].sent
  <2> SUFFICES ASSUME NEW w \in Workers
               PROVE  /\ work'[w] \in WorkStates
                      /\ work'[w].pc = work[w].pc /\ work'[w].kind = work[w].kind
                      /\ work'[w].mine = older(work[w].mine) /\ work'[w].sent = work[w].sent
    BY DEF Tick
  <2>1. work[w] \in WorkStates /\ work'[w] = [work[w] EXCEPT !.mine = older(work[w].mine)]
    BY <1>1 DEF TypeOK, Tick
  <2>2. older(work[w].mine) \in 0..TTL
    BY <2>1, WorkFacts
  <2>3. QED
    BY <2>1, <2>2 DEF WorkStates
<1>4. TypeOK'
  BY <1>1, <1>2, <1>3 DEF TypeOK
<1>5. \A w \in Workers : work[w].mine \in 0..TTL /\ work[w].kind \in Kinds
  BY <1>1, WorkFacts DEF TypeOK
<1>6. ClaimsAreHeld'
  BY <1>1, <1>3, <1>5 DEF ClaimsAreHeld, Telling, At
<1>7. ClaimsAreKeys'
  <2> SUFFICES ASSUME NEW k \in Kinds
               PROVE  /\ recent'[k] <= life'[k] \/ recent'[k] <= bared'[k]
                      /\ \A w \in Workers : work'[w].kind = k /\ work'[w].mine > bared'[k]
                                            => Holds(w, k)'
    BY DEF ClaimsAreKeys
  <2>1. life[k] \in 0..TTL /\ recent[k] \in 0..TTL /\ bared[k] \in 0..TTL
    BY <1>1 DEF TypeOK
  <2>2. recent[k] <= life[k] \/ recent[k] <= bared[k]
    BY <1>1 DEF ClaimsAreKeys
  <2>3. ASSUME NEW w \in Workers, work'[w].kind = k, work'[w].mine > bared'[k]
        PROVE  Holds(w, k)'
    <3>1. work[w].kind = k /\ work[w].mine > bared[k]
      BY <1>2, <1>3, <1>5, <2>1, <2>3
    <3>2. Holds(w, k)
      BY <1>1, <3>1 DEF ClaimsAreKeys
    <3>3. life'[k] = work'[w].mine /\ (recent'[k] <= bared'[k] \/ work'[w].sent)
      BY <1>2, <1>3, <2>1, <3>2 DEF Holds
    <3>4. \A x \in Workers \ {w} : work'[x].kind = k => work'[x].mine <= bared'[k]
      BY <1>2, <1>3, <1>5, <2>1, <3>2 DEF Holds
    <3>5. QED
      BY <3>3, <3>4 DEF Holds
  <2>4. QED
    BY <1>2, <2>1, <2>2, <2>3
<1>8. SilenceHasReason'
  <2> SUFFICES ASSUME NEW k \in Kinds, life'[k] > 0, ~lost[k], ~(recent'[k] >= life'[k])
               PROVE  \E w \in Workers : Telling(w)' /\ work'[w].kind = k /\ work'[w].mine >= life'[k]
    BY <1>1 DEF SilenceHasReason
  <2>1. life[k] > 0 /\ ~(recent[k] >= life[k])
    BY <1>1, <1>2 DEF TypeOK
  <2>2. PICK w \in Workers : Telling(w) /\ work[w].kind = k /\ work[w].mine >= life[k]
    BY <2>1 DEF SilenceHasReason
  <2>3. QED
    BY <1>1, <1>2, <1>3, <1>5, <2>2 DEF Telling, At, TypeOK
<1>9. QED
  BY <1>4, <1>6, <1>7, <1>8 DEF NoticeInv

\* The first state: no keys, no claims.
LEMMA Start == Init => NoticeInv /\ SilenceHasReason
<1> SUFFICES ASSUME Init PROVE NoticeInv /\ SilenceHasReason
  OBVIOUS
<1>1. NoWork \in WorkStates /\ NoWork.mine = 0 /\ ~NoWork.sent /\ 0 \in 0..TTL
  BY DEF NoWork, WorkStates
<1>2. TypeOK
  <2>1. /\ on \in BOOLEAN /\ promised \in BOOLEAN /\ due \in BOOLEAN
        /\ overtaken \in BOOLEAN /\ repeated \in BOOLEAN
    BY DEF Init
  <2>2. edit \in [Editors -> [busy : BOOLEAN, value : BOOLEAN, says : BOOLEAN, late : BOOLEAN]]
    BY DEF Init, NoEdit
  <2>3. lost \in [Kinds -> BOOLEAN]
    BY Zenon DEF Init
  <2>4. QED
    BY <1>1, <2>1, <2>2, <2>3 DEF Init, TypeOK
<1>3. QED
  BY <1>1, <1>2 DEF Init, NoticeInv, ClaimsAreHeld, ClaimsAreKeys, SilenceHasReason

\* Every step keeps the invariant.
LEMMA Steps == NoticeInv /\ SilenceHasReason /\ [Next]_vars => NoticeInv' /\ SilenceHasReason'
<1> SUFFICES ASSUME NoticeInv, SilenceHasReason, [Next]_vars
             PROVE  NoticeInv' /\ SilenceHasReason'
  OBVIOUS
<1>1. CASE \E w \in Workers : Load(w) \/ WorkerStep(w) \/ Crash(w)
  BY <1>1, LoadKeeps, SucceedKeeps, FailRunKeeps, TurnOffKeeps, ClaimKeeps, OpenKeeps,
     PostKeeps, ReleaseKeeps, CrashKeeps DEF WorkerStep
<1>2. CASE \E e \in Editors : BeginUpdate(e) \/ EndUpdate(e)
  BY <1>2, BeginUpdateKeeps, EndUpdateKeeps
<1>3. CASE Tick
  BY <1>3, TickKeeps
<1>4. CASE UNCHANGED vars
  BY <1>4 DEF vars, noticeVars, tellVars, NoticeInv, TypeOK, ClaimsAreHeld, ClaimsAreKeys,
     Holds, SilenceHasReason, Telling, At
<1>5. QED
  BY <1>1, <1>2, <1>3, <1>4 DEF Next

\* The inductive invariant holds: claims and cooldown keys stay together
\* through failing calls, crashes, expiry and late releases.
THEOREM NoticeInvHolds == Spec => []NoticeInv
BY Start, Steps, PTL DEF Spec

\* A cooldown key never silences the creator without a reason, nor longer
\* than the reason lasts.
THEOREM SilenceIsJustified == Spec => []SilenceHasReason
BY Start, Steps, PTL DEF Spec

\* Of the notices posted under a live claim no two of a kind fall in the window
\* of one claim, but in what is left of one that a release has struck, for any
\* number of workers and faults.
THEOREM WindowsAreKept == Spec => []OneNoticePerWindow
<1>1. NoticeInv => OneNoticePerWindow
  <2> SUFFICES ASSUME NoticeInv, NEW w \in Workers, At(w, "post"), work[w].mine > 0,
                      recent[work[w].kind] > 0, ~(bared[work[w].kind] > 0)
               PROVE  FALSE
    BY DEF OneNoticePerWindow
  <2> DEFINE k == work[w].kind
  <2>1. k \in Kinds /\ recent[k] \in 0..TTL /\ bared[k] = 0
    BY WorkFacts DEF NoticeInv, TypeOK
  <2>2. Holds(w, k)
    BY <2>1 DEF NoticeInv, ClaimsAreKeys
  <2>3. ~work[w].sent
    <3>1. work[w].pc = "post"
      BY DEF At
    <3>2. QED
      BY <3>1, Holders DEF NoticeInv
  <2>4. QED
    BY <2>1, <2>2, <2>3 DEF Holds
<1>2. QED
  BY <1>1, NoticeInvHolds, PTL

(***************************************************************************)
(* What the creator is told about a disabling.                             *)
(***************************************************************************)

\* Nothing is claimed of what the creator knows after a call failed.
LEMMA FaultTells ==
    ASSUME TypeOK, Fault
    PROVE  TellInv'
<1>1. faults \in Nat /\ faults' > 0 /\ faults' # 0
  BY DEF TypeOK, Fault
<1>2. QED
  BY <1>1 DEF TellInv, StaysOff, DueIsUnderWay, LossesAreFaults

\* A step of a worker that neither tells nor disables: the others announce
\* what they announced, and so does this one, unless it is excused.
LEMMA QuietStep ==
    ASSUME TellInv, NEW w \in Workers,
           \A x \in Workers \ {w} : work'[x] = work[x],
           work'[w].pc # "release",
           Announcing(w)' => Announcing(w) /\ work'[w].stale = work[w].stale,
           \/ Announcing(w) => Announcing(w)'
           \/ ~due
           \/ repeated'
           \/ \E x \in Workers \ {w} : Announcing(x),
           \A k \in Kinds : lost'[k] => lost[k],
           repeated => repeated',
           UNCHANGED <<on, edit, promised, due, overtaken, faults>>
    PROVE  TellInv'
<1>1. \A x \in Workers \ {w} :
        /\ Announcing(x)' <=> Announcing(x)
        /\ work'[x].stale = work[x].stale /\ (At(x, "release")' <=> At(x, "release"))
  BY DEF Announcing, At
<1>2. StaysOff'
  <2>1. (\E x \in Workers : Announcing(x)' /\ ~work'[x].stale)
          => \E x \in Workers : Announcing(x) /\ ~work[x].stale
    BY <1>1
  <2>2. QED
    BY <2>1 DEF TellInv, StaysOff
<1>3. DueIsUnderWay'
  BY <1>1 DEF TellInv, DueIsUnderWay
<1>4. LossesAreFaults'
  BY <1>1 DEF TellInv, LossesAreFaults, At
<1>5. QED
  BY <1>2, <1>3, <1>4 DEF TellInv

LEMMA RunningTells ==
    ASSUME TypeOK, TellInv, NEW w \in Workers, Load(w) \/ Succeed(w) \/ FailRun(w)
    PROVE  TellInv'
<1>1. work \in [Workers -> WorkStates] /\ work[w].kind \in Kinds
  BY WorkFacts DEF TypeOK
<1>2. /\ \A x \in Workers \ {w} : work'[x] = work[x]
      /\ work'[w].pc \in {"run", "idle", "claim"}
      /\ work'[w].pc = "claim" => work'[w].kind = "failed"
      /\ work[w].pc \in {"idle", "run"}
  BY <1>1, GotoFacts, ReturnFacts, ClaimingFacts DEF Load, Succeed, FailRun, At
<1>3. ~Announcing(w) /\ ~Announcing(w)'
  BY <1>2 DEF Announcing, At
<1>4. UNCHANGED <<on, edit, promised, due, overtaken, repeated, lost, faults>>
  BY DEF Load, Succeed, FailRun, noticeVars, tellVars
<1>5. QED
  BY <1>2, <1>3, <1>4, QuietStep

\* Turning the automation off makes every unasked save under way a late one.
LEMMA TurnOffTells ==
    ASSUME TypeOK, TellInv, NEW w \in Workers, TurnOff(w)
    PROVE  TellInv'
<1>1. CASE Fault
  BY <1>1, FaultTells
<1>2. CASE /\ on' = FALSE /\ UNCHANGED faults
           /\ edit' = [e \in Editors |-> [edit[e] EXCEPT !.late = edit[e].value /\ ~edit[e].says]]
  <2>1. /\ \A x \in Workers \ {w} : work'[x] = work[x]
        /\ work'[w].pc = "claim" /\ work'[w].kind = "disabled"
    BY ClaimingFacts DEF TypeOK, TurnOff
  <2>2. \A e \in Editors : edit'[e].value /\ ~edit'[e].says => edit'[e].late
    <3> SUFFICES ASSUME NEW e \in Editors
                 PROVE  edit'[e].value /\ ~edit'[e].says => edit'[e].late
      OBVIOUS
    <3>1. edit[e] \in [busy : BOOLEAN, value : BOOLEAN, says : BOOLEAN, late : BOOLEAN]
      BY DEF TypeOK
    <3>2. PICK b \in BOOLEAN : b = (edit[e].value /\ ~edit[e].says)
      OBVIOUS
    <3>3. edit'[e] = [edit[e] EXCEPT !.late = b]
      BY <1>2, <3>2
    <3>4. edit'[e].value = edit[e].value /\ edit'[e].says = edit[e].says /\ edit'[e].late = b
      BY <3>1, <3>3
    <3>5. QED
      BY <3>2, <3>4
  <2>3. StaysOff'
    BY <1>2, <2>2 DEF StaysOff
  <2>4. DueIsUnderWay'
    BY <2>1 DEF DueIsUnderWay, Announcing, At
  <2>5. LossesAreFaults'
    BY <1>2, <2>1 DEF TellInv, LossesAreFaults, At, TurnOff, noticeVars
  <2>6. QED
    BY <2>3, <2>4, <2>5 DEF TellInv
<1>3. QED
  BY <1>1, <1>2 DEF TurnOff

\* A notice is turned away only for one that was sent in its window, or that
\* another worker is sending.
LEMMA ClaimTells ==
    ASSUME TypeOK, SilenceHasReason, TellInv, NEW w \in Workers, Claim(w)
    PROVE  TellInv'
<1> DEFINE k == work[w].kind
<1>1. /\ work \in [Workers -> WorkStates] /\ k \in Kinds /\ work[w].pc = "claim"
      /\ UNCHANGED <<on, edit, promised, due, overtaken>>
  BY WorkFacts DEF TypeOK, Claim, At
<1>2. CASE Fault
  BY <1>2, FaultTells
<1>3. CASE /\ lost' = [lost EXCEPT ![k] = FALSE] /\ UNCHANGED <<repeated, faults>>
           /\ work' = [work EXCEPT ![w].pc = "open", ![w].mine = TTL]
  <2>2. /\ \A x \in Workers \ {w} : work'[x] = work[x]
        /\ work'[w].pc = "open" /\ work'[w].kind = k /\ work'[w].stale = work[w].stale
    BY <1>1, <1>3, ClaimedFacts
  <2>3. /\ Announcing(w)' <=> Announcing(w)
        /\ \A j \in Kinds : lost'[j] => lost[j]
    BY <1>1, <1>3, <2>2 DEF Announcing, At, TypeOK
  <2>4. QED
    BY <1>1, <1>3, <2>2, <2>3, QuietStep
<1>4. CASE /\ life[k] > 0 /\ Return(w) /\ UNCHANGED <<life, lost, faults>>
           /\ repeated' = (repeated \/ (due /\ k = "disabled" /\ recent["disabled"] > 0))
  <2>1. /\ \A x \in Workers \ {w} : work'[x] = work[x]
        /\ work'[w].pc = "idle"
    BY <1>1, <1>4, ReturnFacts
  <2>2. ~Announcing(w)'
    BY <2>1 DEF Announcing, At
  <2>3. CASE faults = 0
    <3>1. \/ Announcing(w) => Announcing(w)'
          \/ ~due
          \/ repeated'
          \/ \E x \in Workers \ {w} : Announcing(x)
      <4> SUFFICES ASSUME Announcing(w), due
                   PROVE  repeated' \/ \E x \in Workers \ {w} : Announcing(x)
        OBVIOUS
      <4>1. k = "disabled" /\ ~lost["disabled"] /\ life["disabled"] > 0
        BY <1>4, <2>3 DEF Announcing, TellInv, LossesAreFaults
      <4>2. CASE recent["disabled"] >= life["disabled"]
        <5>1. recent["disabled"] > 0
          BY <4>1, <4>2 DEF TypeOK
        <5>2. QED
          BY <1>4, <4>1, <5>1
      <4>3. CASE \E x \in Workers : Telling(x) /\ work[x].kind = "disabled"
        <5>1. PICK x \in Workers : Telling(x) /\ work[x].kind = "disabled"
          BY <4>3
        <5>2. Announcing(x) /\ x # w
          BY <1>1, <2>3, <5>1 DEF Telling, Announcing, At, TellInv, LossesAreFaults
        <5>3. QED
          BY <5>2
      <4>4. QED
        BY <4>1, <4>2, <4>3 DEF SilenceHasReason
    <3>2. repeated => repeated'
      BY <1>4
    <3>3. QED
      BY <1>1, <1>4, <2>1, <2>2, <3>1, <3>2, QuietStep
  <2>4. CASE faults # 0
    <3>1. faults > 0 /\ faults' = faults
      BY <1>4, <2>4 DEF TypeOK
    <3>2. QED
      BY <3>1 DEF TellInv, StaysOff, DueIsUnderWay, LossesAreFaults
  <2>5. QED
    BY <2>3, <2>4
<1>5. QED
  BY <1>2, <1>3, <1>4 DEF Claim, Key

LEMMA OpenTells ==
    ASSUME TypeOK, TellInv, NEW w \in Workers, Open(w)
    PROVE  TellInv'
<1>1. work \in [Workers -> WorkStates] /\ work[w].pc = "open"
  BY DEF TypeOK, Open, At
<1>2. CASE Fault
  BY <1>2, FaultTells
<1>3. CASE Goto(w, "post") /\ UNCHANGED faults
  <2>1. /\ \A x \in Workers \ {w} : work'[x] = work[x]
        /\ work'[w].pc = "post" /\ work'[w].kind = work[w].kind
        /\ work'[w].stale = work[w].stale
    BY <1>1, <1>3, GotoFacts
  <2>2. Announcing(w)' <=> Announcing(w)
    BY <1>1, <2>1 DEF Announcing, At
  <2>3. UNCHANGED <<on, edit, promised, due, overtaken, repeated, lost, faults>>
    BY <1>3 DEF Open, noticeVars, tellVars
  <2>4. QED
    BY <2>1, <2>2, <2>3, QuietStep
<1>4. QED
  BY <1>2, <1>3 DEF Open

\* The creator learns that the automation is off from a worker who knows.
LEMMA PostTells ==
    ASSUME TypeOK, TellInv, NEW w \in Workers, Post(w)
    PROVE  TellInv'
<1>1. /\ work \in [Workers -> WorkStates] /\ work[w].pc = "post" /\ work[w].kind \in Kinds
      /\ UNCHANGED <<on, edit, lost>>
  BY WorkFacts DEF TypeOK, Post, At
<1>2. CASE Fault
  BY <1>2, FaultTells
<1>3. CASE Return(w) /\ Sends(w) /\ UNCHANGED faults
  <2>1. /\ \A x \in Workers \ {w} : work'[x] = work[x]
        /\ work'[w].pc = "idle" /\ work'[w].kind = "failed"
    BY <1>1, <1>3, ReturnFacts
  <2>2. CASE work[w].kind = "failed"
    <3>1. UNCHANGED <<promised, due, overtaken, repeated>>
      BY <1>3, <2>2 DEF Sends, Tells, tellVars
    <3>2. ~Announcing(w) /\ ~Announcing(w)'
      BY <2>1, <2>2 DEF Announcing
    <3>3. QED
      BY <1>1, <1>3, <2>1, <3>1, <3>2, QuietStep
  <2>3. CASE work[w].kind = "disabled"
    <3>1. /\ promised' => promised \/ ~work[w].stale
          /\ ~due' /\ overtaken' = overtaken
      BY <1>3, <2>3 DEF Sends, Tells
    <3>2. Announcing(w) /\ ~Announcing(w)'
      BY <1>1, <2>1, <2>3 DEF Announcing, At
    <3>3. \A x \in Workers : Announcing(x)' /\ ~work'[x].stale => Announcing(x) /\ ~work[x].stale
      BY <2>1, <3>2 DEF Announcing, At
    <3>4. promised' \/ (\E x \in Workers : Announcing(x)' /\ ~work'[x].stale)
            => promised \/ \E x \in Workers : Announcing(x) /\ ~work[x].stale
      BY <3>1, <3>2, <3>3
    <3>5. StaysOff'
      BY <1>1, <1>3, <3>1, <3>4 DEF TellInv, StaysOff
    <3>6. DueIsUnderWay'
      BY <3>1 DEF DueIsUnderWay
    <3>7. LossesAreFaults'
      BY <1>1, <1>3, <2>1 DEF TellInv, LossesAreFaults, At
    <3>8. QED
      BY <3>5, <3>6, <3>7 DEF TellInv
  <2>4. QED
    BY <1>1, <2>2, <2>3
<1>4. QED
  BY <1>2, <1>3 DEF Post

\* A release and a crash come after a call that failed.
LEMMA GivingUpTells ==
    ASSUME TypeOK, TellInv, NEW w \in Workers, Release(w) \/ Crash(w)
    PROVE  TellInv'
<1>1. CASE Fault
  BY <1>1, FaultTells
<1>2. CASE Release(w) /\ UNCHANGED faults
  <2>1. faults > 0 /\ faults' > 0 /\ faults' # 0
    BY <1>2 DEF TypeOK, Release, TellInv, LossesAreFaults
  <2>2. QED
    BY <2>1 DEF TellInv, StaysOff, DueIsUnderWay, LossesAreFaults
<1>3. QED
  BY <1>1, <1>2 DEF Release, Crash

\* A request that does not ask for it turns the automation on only when it read
\* it on, and so too late once it was turned off.
LEMMA UpdateTells ==
    ASSUME TypeOK, TellInv, NEW e \in Editors, BeginUpdate(e) \/ EndUpdate(e)
    PROVE  TellInv'
<1>1. CASE BeginUpdate(e)
  <2>1. UNCHANGED <<on, work, lost, promised, due, overtaken, repeated, faults>>
    BY <1>1 DEF BeginUpdate, noticeVars, tellVars
  <2>2. /\ \A d \in Editors \ {e} : edit'[d] = edit[d]
        /\ edit'[e].value /\ ~edit'[e].says => on
    <3>1. PICK r \in {Asks(on, FALSE), Asks(TRUE, TRUE), Asks(FALSE, TRUE)} :
            edit' = [edit EXCEPT ![e] = r]
      BY <1>1 DEF BeginUpdate
    <3>2. edit'[e] = r /\ \A d \in Editors \ {e} : edit'[d] = edit[d]
      BY <3>1 DEF TypeOK
    <3>3. r.value /\ ~r.says => on
      BY <3>1 DEF Asks
    <3>4. QED
      BY <3>2, <3>3
  <2>3. StaysOff'
    BY <2>1, <2>2 DEF TellInv, StaysOff, Announcing, At
  <2>4. DueIsUnderWay' /\ LossesAreFaults'
    BY <2>1 DEF TellInv, DueIsUnderWay, LossesAreFaults, Announcing, At
  <2>5. QED
    BY <2>3, <2>4 DEF TellInv
<1>2. CASE EndUpdate(e)
  <2>1. /\ on' = edit[e].value /\ ~due' /\ UNCHANGED <<lost, faults>>
        /\ \A d \in Editors \ {e} : edit'[d] = edit[d]
        /\ ~edit'[e].value
    BY <1>2 DEF EndUpdate, noticeVars, TypeOK, NoEdit
  <2>2. DueIsUnderWay'
    BY <2>1 DEF DueIsUnderWay
  <2>3. CASE edit[e].says /\ edit[e].value
    <3>1. /\ ~promised'
          /\ work' = [w \in Workers |-> IF At(w, "idle") THEN work[w]
                                        ELSE [work[w] EXCEPT !.stale = TRUE]]
      BY <1>2, <2>3 DEF EndUpdate
    <3>2. \A w \in Workers : /\ work'[w].pc = work[w].pc
                             /\ Announcing(w)' => work'[w].stale
      <4> SUFFICES ASSUME NEW w \in Workers
                   PROVE  work'[w].pc = work[w].pc /\ (Announcing(w)' => work'[w].stale)
        OBVIOUS
      <4>1. CASE At(w, "idle")
        BY <3>1, <4>1 DEF Announcing, At
      <4>2. CASE ~At(w, "idle")
        <5>1. work[w] \in WorkStates /\ work'[w] = [work[w] EXCEPT !.stale = TRUE]
          BY <3>1, <4>2 DEF TypeOK
        <5>2. PICK b \in BOOLEAN : b = TRUE
          BY Zenon
        <5>3. work'[w] = [work[w] EXCEPT !.stale = b]
          BY <5>1, <5>2
        <5>4. work'[w].stale = b /\ work'[w].pc = work[w].pc
          BY <5>1, <5>3 DEF WorkStates
        <5>5. QED
          BY <5>2, <5>4
      <4>3. QED
        BY <4>1, <4>2
    <3>3. StaysOff'
      BY <3>1, <3>2 DEF StaysOff
    <3>4. LossesAreFaults'
      BY <2>1, <3>2 DEF TellInv, LossesAreFaults, At
    <3>5. QED
      BY <2>2, <3>3, <3>4 DEF TellInv
  <2>4. CASE ~(edit[e].says /\ edit[e].value)
    <3>1. UNCHANGED <<promised, work>> /\ overtaken' = (overtaken \/ edit[e].late)
      BY <1>2, <2>4 DEF EndUpdate
    <3>2. StaysOff'
      <4> SUFFICES ASSUME promised \/ (\E w \in Workers : Announcing(w) /\ ~work[w].stale),
                          ~overtaken, ~edit[e].late, faults = 0
                   PROVE  /\ ~edit[e].value
                          /\ \A d \in Editors : edit'[d].value /\ ~edit'[d].says => edit'[d].late
        BY <2>1, <3>1 DEF StaysOff, Announcing, At
      <4>1. \A d \in Editors : edit[d].value /\ ~edit[d].says => edit[d].late
        BY DEF TellInv, StaysOff
      <4>2. QED
        BY <2>1, <2>4, <4>1
    <3>3. LossesAreFaults'
      BY <2>1, <3>1 DEF TellInv, LossesAreFaults, At
    <3>4. QED
      BY <2>2, <3>2, <3>3 DEF TellInv
  <2>5. QED
    BY <2>3, <2>4
<1>3. QED
  BY <1>1, <1>2

LEMMA TickTells ==
    ASSUME TypeOK, TellInv, Tick
    PROVE  TellInv'
<1>1. UNCHANGED <<on, edit, lost, promised, due, overtaken, repeated, faults>>
  BY DEF Tick, tellVars
<1>2. \A w \in Workers : /\ work'[w].pc = work[w].pc /\ work'[w].kind = work[w].kind
                         /\ work'[w].stale = work[w].stale
  <2> SUFFICES ASSUME NEW w \in Workers
               PROVE  /\ work'[w].pc = work[w].pc /\ work'[w].kind = work[w].kind
                      /\ work'[w].stale = work[w].stale
    OBVIOUS
  <2>1. /\ work[w] \in WorkStates
        /\ work'[w] = [work[w] EXCEPT !.mine = IF @ > 0 THEN @ - 1 ELSE 0]
    BY DEF TypeOK, Tick
  <2>2. QED
    BY <2>1 DEF WorkStates
<1>3. QED
  BY <1>1, <1>2 DEF TellInv, StaysOff, DueIsUnderWay, LossesAreFaults, Announcing, At

\* What is on its way to the creator is true and is not lost without a fault.
THEOREM TellInvHolds == Spec => []TellInv
<1>1. Init => TellInv
  BY DEF Init, TellInv, StaysOff, DueIsUnderWay, LossesAreFaults, Announcing, At, NoWork, NoEdit
<1>2. NoticeInv /\ SilenceHasReason /\ TellInv /\ [Next]_vars => TellInv'
  <2> SUFFICES ASSUME TypeOK, SilenceHasReason, TellInv, [Next]_vars
               PROVE  TellInv'
    BY DEF NoticeInv
  <2>1. ASSUME NEW w \in Workers, Load(w) \/ WorkerStep(w) \/ Crash(w)
        PROVE  TellInv'
    BY <2>1, RunningTells, TurnOffTells, ClaimTells, OpenTells, PostTells, GivingUpTells
       DEF WorkerStep
  <2>2. ASSUME NEW e \in Editors, BeginUpdate(e) \/ EndUpdate(e)
        PROVE  TellInv'
    BY <2>2, UpdateTells
  <2>3. CASE Tick
    BY <2>3, TickTells
  <2>4. CASE UNCHANGED vars
    BY <2>4 DEF vars, noticeVars, tellVars, TellInv, StaysOff, DueIsUnderWay, LossesAreFaults,
       Announcing, At
  <2>5. QED
    BY <2>1, <2>2, <2>3, <2>4 DEF Next
<1>3. QED
  BY <1>1, <1>2, NoticeInvHolds, SilenceIsJustified, PTL DEF Spec

\* "will not run again until you review and re-enable it" (notifier.go) stays
\* true, unless a save failed or one that was under way overtook the disabling.
THEOREM NoticeStaysTrue == Spec => []NoticeIsTrue
<1>1. NoticeInv /\ TellInv => NoticeIsTrue
  BY DEF NoticeInv, TypeOK, TellInv, StaysOff, NoticeIsTrue
<1>2. QED
  BY <1>1, NoticeInvHolds, TellInvHolds, PTL

\* Once nobody is at work the creator knows of the disabling, however the
\* workers' claims came together, if no call failed.
THEOREM DisablingReachesCreator == Spec => []DisablingIsTold
<1>1. NoticeInv /\ TellInv => DisablingIsTold
  BY DEF NoticeInv, TypeOK, TellInv, DueIsUnderWay, DisablingIsTold, Announcing, At
<1>2. QED
  BY <1>1, NoticeInvHolds, TellInvHolds, PTL
============================================================================
