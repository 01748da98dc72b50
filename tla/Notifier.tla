------------------------------ MODULE Notifier ------------------------------
(***************************************************************************)
(* Notices to the creator of one automation: the cooldown keys of            *)
(* automation/notifier/, the workers that report a failed run or turn the    *)
(* automation off (workqueue/worker.go), and the requests that turn it on    *)
(* again (automation/api.go).  Workers of any node share the keys; a key     *)
(* expires by itself a window after it was claimed.  A step is one call.     *)
(***************************************************************************)
EXTENDS Naturals, FiniteSets

CONSTANTS
    Workers,    \* goroutines in runWorker, on any node
    Editors,    \* requests that update the automation
    TTL,        \* NotificationCooldown, in ticks
    MaxFaults   \* bound on failing calls and crashes

ASSUME CooldownAssumption == TTL \in Nat \ {0}
ASSUME BoundAssumption == MaxFaults \in Nat

Kinds == {"failed", "disabled"}

VARIABLES
    on,        \* the stored automation is enabled
    edit,      \* what each editor is about to save, whether it says so, and
               \* whether what it read has been turned off since
    work,      \* where each worker is
    life,      \* ticks each cooldown key has left to live, 0 for no key
    recent,    \* ticks left of the claim under which the latest notice was sent
    lost,      \* the claim in the key was given up without a word
    bared,     \* ticks left of a claim, not given up unused, that a release struck
    promised,  \* the creator was told that the automation is off
    due,       \* it was turned off and the creator was not told since
    overtaken, \* a request that did not ask for it turned it on again since
    repeated,  \* a notice about it was turned away for one sent in its window
    faults

noticeVars == <<recent, lost, bared>>
tellVars == <<promised, due, overtaken, repeated>>
vars == <<on, edit, work, life, noticeVars, tellVars, faults>>

NoWork == [pc |-> "idle", kind |-> "failed", mine |-> 0, sent |-> FALSE, stale |-> FALSE]
NoEdit == [busy |-> FALSE, value |-> FALSE, says |-> FALSE, late |-> FALSE]

Init ==
    /\ on = TRUE
    /\ edit = [e \in Editors |-> NoEdit]
    /\ work = [w \in Workers |-> NoWork]
    /\ life = [k \in Kinds |-> 0] /\ recent = [k \in Kinds |-> 0]
    /\ lost = [k \in Kinds |-> FALSE] /\ bared = [k \in Kinds |-> 0]
    /\ promised = FALSE /\ due = FALSE /\ overtaken = FALSE /\ repeated = FALSE
    /\ faults = 0

Fault == faults < MaxFaults /\ faults' = faults + 1

At(w, pc) == work[w].pc = pc
Goto(w, pc) == work' = [work EXCEPT ![w].pc = pc]
Return(w) == work' = [work EXCEPT ![w] = NoWork]

\* MUTANT: both kinds of notice share one cooldown.
SlotShared(k) == "failed"

\* The key of a kind; disabledCooldownPrefix keeps the two apart.
Slot(k) == k

Key(w) == Slot(work[w].kind)

----------------------------------------------------------------------------
(* The runs.                                                               *)

\* A queued item is only taken further when the automation is enabled.
Load(w) ==
    /\ At(w, "idle") /\ on
    /\ Goto(w, "run")
    /\ UNCHANGED <<on, edit, life, noticeVars, tellVars, faults>>

\* A run that succeeds tells nobody.
Succeed(w) ==
    /\ At(w, "run") /\ Return(w)
    /\ UNCHANGED <<on, edit, life, noticeVars, tellVars, faults>>

FailRun(w) ==
    /\ At(w, "run")
    /\ work' = [work EXCEPT ![w].pc = "claim", ![w].kind = "failed"]
    /\ UNCHANGED <<on, edit, life, noticeVars, tellVars, faults>>

\* disableAutomation: a failing save is logged, the notice goes out anyway.
TurnOff(w) ==
    /\ At(w, "run")
    /\ work' = [work EXCEPT ![w].pc = "claim", ![w].kind = "disabled"]
    /\ \/ /\ on' = FALSE /\ due' = (due \/ on) /\ overtaken' = FALSE /\ UNCHANGED faults
          /\ edit' = [e \in Editors |->
                         [edit[e] EXCEPT !.late = edit[e].value /\ ~edit[e].says]]
       \/ Fault /\ UNCHANGED <<on, due, overtaken, edit>>
    /\ UNCHANGED <<life, noticeVars, promised, repeated>>

----------------------------------------------------------------------------
(* NotifyFailure and NotifyDisabled.                                       *)

\* MUTANT: the key is set without looking for an old one.
ClaimBlindly(w) ==
    /\ At(w, "claim")
    /\ LET k == Key(w)
       IN  /\ life' = [life EXCEPT ![k] = TTL] /\ lost' = [lost EXCEPT ![k] = FALSE]
           /\ work' = [work EXCEPT ![w].pc = "open", ![w].mine = TTL]
    /\ UNCHANGED <<on, edit, recent, bared, tellVars, faults>>

\* The atomic set.  Its failure, before or after it took effect, ends the
\* notice.
Claim(w) ==
    /\ At(w, "claim")
    /\ LET k == Key(w)
           taken == [life EXCEPT ![k] = TTL]
       IN  \/ /\ life[k] = 0
              /\ life' = taken /\ lost' = [lost EXCEPT ![k] = FALSE]
              /\ work' = [work EXCEPT ![w].pc = "open", ![w].mine = TTL]
              /\ UNCHANGED <<repeated, faults>>
           \/ /\ life[k] > 0 /\ Return(w) /\ UNCHANGED <<life, lost, faults>>
              /\ repeated' = (repeated \/ (due /\ work[w].kind = "disabled"
                                               /\ recent["disabled"] > 0))
           \/ Fault /\ Return(w) /\ UNCHANGED <<life, lost, repeated>>
           \/ /\ life[k] = 0 /\ Fault /\ UNCHANGED repeated
              /\ life' = taken /\ lost' = [lost EXCEPT ![k] = TRUE] /\ Return(w)
    /\ UNCHANGED <<on, edit, recent, bared, promised, due, overtaken>>

\* MUTANT: without a channel the claim is kept.
OpenAndKeep(w) ==
    /\ At(w, "open")
    /\ \/ Goto(w, "post") /\ UNCHANGED faults
       \/ Fault /\ Return(w)
    /\ UNCHANGED <<on, edit, life, noticeVars, tellVars>>

\* GetDirectChannel.
Open(w) ==
    /\ At(w, "open")
    /\ \/ Goto(w, "post") /\ UNCHANGED faults
       \/ Fault /\ Goto(w, "release")
    /\ UNCHANGED <<on, edit, life, noticeVars, tellVars>>

\* What a notice says: the automation is off until the creator turns it on.
Tells(w) ==
    IF work[w].kind = "disabled"
    THEN /\ promised' = (promised \/ ~work[w].stale)
         /\ due' = FALSE /\ repeated' = FALSE /\ UNCHANGED overtaken
    ELSE UNCHANGED tellVars

\* The creator gets the notice.
Sends(w) ==
    /\ Tells(w)
    /\ recent' = [recent EXCEPT ![work[w].kind] = IF @ > work[w].mine THEN @ ELSE work[w].mine]

\* CreatePost.  A post that fails may have been made all the same.
Post(w) ==
    /\ At(w, "post")
    /\ \/ Return(w) /\ Sends(w) /\ UNCHANGED faults
       \/ /\ Fault /\ Sends(w)
          /\ work' = [work EXCEPT ![w].pc = "release", ![w].sent = TRUE]
       \/ Fault /\ Goto(w, "release") /\ UNCHANGED <<tellVars, recent>>
    /\ UNCHANGED <<on, edit, life, lost, bared>>

\* Release deletes the key, whoever has claimed it in the meantime.
Release(w) ==
    /\ At(w, "release") /\ Return(w)
    /\ LET k == Key(w)
           own == work[w].mine > 0
           unused == work[w].mine > bared[k] /\ ~work[w].sent
           delete == /\ life' = [life EXCEPT ![k] = 0]
                     /\ bared' = [bared EXCEPT ![k] = IF unused \/ @ > life[k] THEN @ ELSE life[k]]
                     /\ UNCHANGED lost
       IN  \/ delete /\ UNCHANGED faults
           \/ delete /\ Fault
           \/ Fault /\ lost' = [lost EXCEPT ![k] = @ \/ own] /\ UNCHANGED <<life, bared>>
    /\ UNCHANGED <<on, edit, recent, tellVars>>

\* The process of a worker ends.
Crash(w) ==
    /\ ~At(w, "idle") /\ Fault /\ Return(w)
    /\ lost' = [lost EXCEPT ![Key(w)] = @ \/ work[w].mine > 0]
    /\ UNCHANGED <<on, edit, life, recent, bared, tellVars>>

\* Keys and windows run out.
Tick ==
    LET older(f) == [k \in Kinds |-> IF f[k] > 0 THEN f[k] - 1 ELSE 0]
    IN  /\ life' = older(life) /\ recent' = older(recent) /\ bared' = older(bared)
        /\ work' = [w \in Workers |->
                       [work[w] EXCEPT !.mine = IF @ > 0 THEN @ - 1 ELSE 0]]
        /\ UNCHANGED <<on, edit, lost, tellVars, faults>>

----------------------------------------------------------------------------
(* handleUpdateAutomation: a request that does not say whether the          *)
(* automation is to be enabled keeps what the handler read.                 *)

Asks(v, says) == [busy |-> TRUE, value |-> v, says |-> says, late |-> FALSE]

\* MUTANT: whoever does not say wants the automation enabled.
BeginUpdateOn(e) ==
    /\ ~edit[e].busy
    /\ \E r \in {Asks(TRUE, FALSE), Asks(TRUE, TRUE), Asks(FALSE, TRUE)} :
          edit' = [edit EXCEPT ![e] = r]
    /\ UNCHANGED <<on, work, life, noticeVars, tellVars, faults>>

BeginUpdate(e) ==
    /\ ~edit[e].busy
    /\ \E r \in {Asks(on, FALSE), Asks(TRUE, TRUE), Asks(FALSE, TRUE)} :
          edit' = [edit EXCEPT ![e] = r]
    /\ UNCHANGED <<on, work, life, noticeVars, tellVars, faults>>

\* Turning it on is the review the notice asks for: notices under way are out
\* of date.
EndUpdate(e) ==
    /\ edit[e].busy
    /\ on' = edit[e].value /\ due' = FALSE /\ repeated' = FALSE
    /\ edit' = [edit EXCEPT ![e] = NoEdit]
    /\ IF edit[e].says /\ edit[e].value
       THEN /\ promised' = FALSE /\ overtaken' = FALSE
            /\ work' = [w \in Workers |-> IF At(w, "idle") THEN work[w]
                                          ELSE [work[w] EXCEPT !.stale = TRUE]]
       ELSE /\ overtaken' = (overtaken \/ edit[e].late)
            /\ UNCHANGED <<promised, work>>
    /\ UNCHANGED <<life, noticeVars, faults>>

WorkerStep(w) ==
    \/ Succeed(w) \/ FailRun(w) \/ TurnOff(w)
    \/ Claim(w) \/ Open(w) \/ Post(w) \/ Release(w)

Next ==
    \/ \E w \in Workers : Load(w) \/ WorkerStep(w) \/ Crash(w)
    \/ \E e \in Editors : BeginUpdate(e) \/ EndUpdate(e)
    \/ Tick

Spec == Init /\ [][Next]_vars

\* Time passes and workers go on; nobody has to run or edit the automation.
FairSpec == Spec /\ WF_vars(Tick) /\ \A w \in Workers : WF_vars(WorkerStep(w))

----------------------------------------------------------------------------
(* Properties.                                                             *)

Telling(w) == At(w, "open") \/ At(w, "post") \/ At(w, "release")

WorkStates ==
    [pc : {"idle", "run", "claim", "open", "post", "release"}, kind : Kinds,
     mine : 0..TTL, sent : BOOLEAN, stale : BOOLEAN]

TypeOK ==
    /\ on \in BOOLEAN /\ promised \in BOOLEAN /\ due \in BOOLEAN
    /\ overtaken \in BOOLEAN /\ repeated \in BOOLEAN
    /\ edit \in [Editors -> [busy : BOOLEAN, value : BOOLEAN, says : BOOLEAN, late : BOOLEAN]]
    /\ work \in [Workers -> WorkStates]
    /\ life \in [Kinds -> 0..TTL] /\ recent \in [Kinds -> 0..TTL]
    /\ lost \in [Kinds -> BOOLEAN] /\ bared \in [Kinds -> 0..TTL]
    /\ faults \in 0..MaxFaults

\* Only a worker that tells somebody holds a claim, and only one whose post
\* failed can have sent a notice and still be at work.
ClaimsAreHeld ==
    \A w \in Workers : /\ work[w].mine > 0 => Telling(w)
                       /\ work[w].sent => At(w, "release")

\* A claim that outlives all that a release has struck: no other claim does, it
\* is the key itself, and no notice was sent under one, or its own worker sent
\* it and is about to give it up.
Holds(w, k) ==
    /\ life[Slot(k)] = work[w].mine
    /\ \A x \in Workers \ {w} : work[x].kind = k => work[x].mine <= bared[k]
    /\ recent[k] <= bared[k] \/ work[w].sent

\* A notice that was sent keeps the key or was struck, and so does a claim.
ClaimsAreKeys ==
    \A k \in Kinds :
        /\ recent[k] <= life[Slot(k)] \/ recent[k] <= bared[k]
        /\ \A w \in Workers : work[w].kind = k /\ work[w].mine > bared[k] => Holds(w, k)

\* Claim, Release and the expiry of keys keep claims and keys together: the
\* inductive invariant behind the two properties that follow.
NoticeInv == TypeOK /\ ClaimsAreHeld /\ ClaimsAreKeys

\* NotifyFailure, NotifyDisabled: of the notices that are posted before the
\* claim of their sender runs out, no two of a kind fall in one window, a window
\* being the life of a claim.  The exception lasts no longer than what was left
\* of a claim that a release has struck: KVDelete in Release looks neither whose
\* claim it deletes nor whether the post that failed was made after all.
\* Nothing is claimed of a notice posted after its sender's claim had run out,
\* which nobody looks at again.
OneNoticePerWindow ==
    \A w \in Workers : At(w, "post") /\ work[w].mine > 0 /\ recent[work[w].kind] > 0
                      => bared[work[w].kind] > 0

\* Claim, Release: a key that silences a kind of notice is there because a
\* worker is about to tell the creator, because he was told, or because a crash
\* or a failing call gave the claim up, and it ends with that reason's window.
\* It is never there for a notice of the other kind or for one that could not
\* be sent.
SilenceHasReason ==
    \A k \in Kinds : life[Slot(k)] > 0 =>
        \/ \E w \in Workers :
              Telling(w) /\ work[w].kind = k /\ work[w].mine >= life[Slot(k)]
        \/ recent[k] >= life[Slot(k)]
        \/ lost[k]

Reports(k) == \E w \in Workers : At(w, "claim") /\ work[w].kind = k /\ Claim(w)
Delivers(k) ==
    \E w \in Workers : At(w, "post") /\ work[w].kind = k /\ Post(w) /\ work'[w].pc = "idle"

\* Claims expire: when runs go on failing (or turning the automation off) the
\* creator hears of it again and again, whatever notices of the other kind and
\* whatever faults there were.
NoticesResume ==
    \A k \in Kinds : []<><<Reports(k)>>_vars => []<><<Delivers(k)>>_vars

\* formatDisabledMessage: the automation "will not run again until you review
\* and re-enable it".  That is true unless the save that turned it off failed, or
\* a request that had read the record before, and asked for nothing of the kind,
\* turned it on again.
NoticeIsTrue == promised /\ on => faults > 0 \/ overtaken

\* NotifyDisabled "DMs the automation creator when the system turns their
\* automation off": once nobody is at work the creator knows, unless a call
\* failed or he had turned it on again within the window of the last notice.
DisablingIsTold == due /\ (\A w \in Workers : At(w, "idle")) => faults > 0 \/ repeated

(* The inductive invariant behind these two, together with NoticeInv and    *)
(* SilenceHasReason.                                                       *)

\* The worker is about to tell the creator that the automation is off.
Announcing(w) ==
    work[w].kind = "disabled" /\ (At(w, "claim") \/ At(w, "open") \/ At(w, "post"))

\* While what the creator was told, or is about to be told, is not overtaken,
\* the automation is off, and who would turn it on unasked counts as late.
StaysOff ==
    /\ promised \/ (\E w \in Workers : Announcing(w) /\ ~work[w].stale)
    /\ ~overtaken /\ faults = 0
    => ~on /\ \A e \in Editors : edit[e].value /\ ~edit[e].says => edit[e].late

\* A notice that is due has been turned away or is under way.
DueIsUnderWay ==
    due /\ faults = 0 => repeated \/ \E w \in Workers : Announcing(w)

\* Only a call that failed leaves a claim behind or to be released.
LossesAreFaults ==
    /\ \A k \in Kinds : lost[k] => faults > 0
    /\ \A w \in Workers : At(w, "release") => faults > 0

TellInv == StaysOff /\ DueIsUnderWay /\ LossesAreFaults
============================================================================
