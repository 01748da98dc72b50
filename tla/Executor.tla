------------------------------ MODULE Executor ------------------------------
(***************************************************************************)
(* One execution of an automation: the loop of automation/executor.go over    *)
(* its actions, the messages they post (action/send_message.go), and the       *)
(* goroutine that shows a user typing while a prompt waits for its answer      *)
(* (action/ai_prompt.go).  What an action checks before it calls out is in      *)
(* RunGate; here it goes ahead or is refused.                                 *)
(***************************************************************************)
EXTENDS Naturals, Sequences

CONSTANTS
    Programs,   \* the action lists
    Bots,       \* bots an action may post as
    PluginBot,  \* the plugin's own bot account
    None

Actions == [kind : {"ai_prompt", "send_message"}, bot : Bots \cup {None}, reply : BOOLEAN]

ASSUME ProgramsAssumption == Programs \subseteq Seq(Actions)

\* What fired: somebody who joins a team comes without a channel, a change of
\* membership and a schedule without a post; the thread of a reply may have been
\* impossible to fetch.
Triggers == {"joinedTeam", "membership", "schedule", "root", "reply", "bareReply"}

VARIABLES
    actions, trigger,  \* the automation and its trigger data
    k, pc,             \* the action at hand, and where it is
    result,            \* how the call, and in the end the execution, went
    steps,             \* actions with an output in the context
    posts,             \* messages posted: by whom, by which action
    typist,            \* where the typing goroutine is
    due, cancelled,    \* its ticker and its context
    late,              \* publications since it was cancelled, up to two
    typed              \* typing shown: by whom, in the thread or not, for which action

runVars == <<actions, trigger, k, pc, result, steps, posts>>
typistVars == <<typist, due, cancelled, late, typed>>
vars == <<runVars, typistVars>>

Init ==
    /\ actions \in Programs /\ trigger \in Triggers
    /\ k = 1 /\ pc = "next" /\ result = "done"
    /\ steps = {} /\ posts = {}
    /\ typist = "none" /\ due = FALSE /\ cancelled = FALSE /\ late = 0 /\ typed = {}

Is(i, kind) == i <= Len(actions) /\ actions[i].kind = kind
Author(i) == IF actions[i].bot = None THEN PluginBot ELSE actions[i].bot

\* MUTANT: the first message of all, before the prompt or after it.
SendOf(i) ==
    LET sends == {j \in 1..Len(actions) : Is(j, "send_message")}
    IN  IF sends = {} THEN 0 ELSE CHOOSE j \in sends : \A m \in sends : j <= m

\* nextSendMessageAfter, 0 when there is none.
NextSend(i) ==
    LET sends == {j \in (i + 1)..Len(actions) : Is(j, "send_message")}
    IN  IF sends = {} THEN 0 ELSE CHOOSE j \in sends : \A m \in sends : j <= m

\* typingUserID and triggerParentID.
Typing(i) ==
    [by     |-> IF NextSend(i) = 0 THEN PluginBot ELSE Author(NextSend(i)),
     thread |-> \/ trigger = "reply"
                \/ trigger \in {"root", "bareReply"} /\ NextSend(i) # 0 /\ actions[NextSend(i)].reply,
     for    |-> i]

----------------------------------------------------------------------------
(* Executor.Execute and the actions.                                       *)

\* MUTANT: the output is kept whatever the action said.
SettleBlindly(o) ==
    /\ steps' = steps \cup {k} /\ result' = o
    /\ IF o = "done" THEN k' = k + 1 /\ pc' = "next" ELSE pc' = "ended" /\ UNCHANGED k

\* The first error ends the execution; a panic leaves it.
Settle(o) ==
    /\ result' = o
    /\ IF o = "done" THEN steps' = steps \cup {k} /\ k' = k + 1 /\ pc' = "next"
                     ELSE pc' = "ended" /\ UNCHANGED <<steps, k>>

\* Unknown type, bad configuration, failing template, check or lookup.
Refuse ==
    /\ pc = "next" /\ k <= Len(actions)
    /\ Settle("failed")
    /\ UNCHANGED <<actions, trigger, posts, typistVars>>

\* A post may have been created although the call says no.
SendMessage ==
    /\ pc = "next" /\ Is(k, "send_message")
    /\ posts' = posts \cup {[by |-> Author(k), from |-> k]}
    /\ Settle("done") \/ Settle("failed")
    /\ UNCHANGED <<actions, trigger, typistVars>>

\* startTypingIndicator shows the first typing itself.
StartPrompt ==
    /\ pc = "next" /\ Is(k, "ai_prompt")
    /\ pc' = "call"
    /\ IF trigger = "joinedTeam" THEN UNCHANGED <<typist, typed>>
       ELSE typist' = "select" /\ typed' = typed \cup {Typing(k)}
    /\ due' = FALSE /\ cancelled' = FALSE /\ late' = 0
    /\ UNCHANGED <<actions, trigger, k, result, steps, posts>>

\* MUTANT: stopTyping is called where the answer is returned, and only there.
RespondInLine ==
    /\ pc = "call"
    /\ \E o \in {"done", "failed", "panicked"} :
          IF o = "done" /\ typist # "none"
          THEN result' = o /\ pc' = "cancel" /\ UNCHANGED <<k, steps>> ELSE Settle(o)
    /\ UNCHANGED <<actions, trigger, posts, typistVars>>

\* AgentCompletion or ServiceCompletion; stopTyping is deferred.
Respond ==
    /\ pc = "call"
    /\ \E o \in {"done", "failed", "panicked"} :
          IF typist = "none" THEN Settle(o)
          ELSE result' = o /\ pc' = "cancel" /\ UNCHANGED <<k, steps>>
    /\ UNCHANGED <<actions, trigger, posts, typistVars>>

\* MUTANT: stopTyping waits and nobody told the goroutine.
CancelNothing ==
    /\ pc = "cancel"
    /\ pc' = "wait"
    /\ UNCHANGED <<actions, trigger, k, result, steps, posts, typistVars>>

Cancel ==
    /\ pc = "cancel"
    /\ cancelled' = TRUE /\ pc' = "wait"
    /\ UNCHANGED <<actions, trigger, k, result, steps, posts, typist, due, late, typed>>

Join ==
    /\ pc = "wait" /\ typist = "gone"
    /\ typist' = "none" /\ Settle(result)
    /\ UNCHANGED <<actions, trigger, posts, due, cancelled, late, typed>>

Finish ==
    /\ pc = "next" /\ k > Len(actions)
    /\ pc' = "ended"
    /\ UNCHANGED <<actions, trigger, k, result, steps, posts, typistVars>>

----------------------------------------------------------------------------
(* The goroutine of startTypingIndicator.                                   *)

\* The ticker drops a tick that nobody has taken.
Tick ==
    /\ typist \notin {"none", "gone"} /\ due' = TRUE
    /\ UNCHANGED <<runVars, typist, cancelled, late, typed>>

SelectDone ==
    /\ typist = "select" /\ cancelled
    /\ typist' = "gone"
    /\ UNCHANGED <<runVars, due, cancelled, late, typed>>

SelectTick ==
    /\ typist = "select" /\ due
    /\ typist' = "recheck" /\ due' = FALSE
    /\ UNCHANGED <<runVars, cancelled, late, typed>>

Recheck ==
    /\ typist = "recheck"
    /\ typist' = IF cancelled THEN "gone" ELSE "publish"
    /\ UNCHANGED <<runVars, due, cancelled, late, typed>>

Publish ==
    /\ typist = "publish"
    /\ typist' = "select"
    /\ typed' = typed \cup {Typing(k)}
    /\ late' = IF cancelled /\ late < 2 THEN late + 1 ELSE late
    /\ UNCHANGED <<runVars, due, cancelled>>

ActionStep == Refuse \/ SendMessage \/ StartPrompt \/ Respond \/ Cancel \/ Join \/ Finish
TypistStep == SelectDone \/ SelectTick \/ Recheck \/ Publish

Next == ActionStep \/ TypistStep \/ Tick

Spec == Init /\ [][Next]_vars

----------------------------------------------------------------------------
(* Properties.                                                             *)

TypeOK ==
    /\ actions \in Programs /\ trigger \in Triggers
    /\ k \in 1..(Len(actions) + 1) /\ pc \in {"next", "call", "cancel", "wait", "ended"}
    /\ result \in {"done", "failed", "panicked"}
    /\ steps \subseteq 1..Len(actions)
    /\ typist \in {"none", "select", "recheck", "publish", "gone"}
    /\ due \in BOOLEAN /\ cancelled \in BOOLEAN /\ late \in 0..2

\* startTypingIndicator: the goroutine of a prompt is gone before anything comes
\* after the prompt, on every way out of it, so no typing follows the answer.
QuietAfterwards == typist # "none" => pc \in {"call", "cancel", "wait"}

\* The context is cancelled between stopTyping and the end of its wait; then a
\* publication is counted, and it was the last.
CancelInv ==
    /\ pc = "call" /\ typist # "none" => ~cancelled /\ late = 0
    /\ pc = "cancel" => ~cancelled /\ late = 0
    /\ pc = "wait" => cancelled
    /\ late = 0 \/ (late = 1 /\ typist # "publish")

\* stopTyping: the goroutine and its context go through their stages together.
ExecutorInv == TypeOK /\ QuietAfterwards /\ CancelInv

\* "so that a concurrent stopTyping() always wins over a simultaneous tick": after
\* the cancellation there is no more than the publication under way.
StopWins == late <= 1

\* Executor.Execute, "the context (with any partial step outputs)": the outputs are
\* those of the actions before the one at hand, and tell of every message posted
\* but that of an action that failed.
OutputsTellPosts ==
    /\ steps = 1..(k - 1)
    /\ \A p \in posts : p.from \in steps \/ (p.from = k /\ pc = "ended" /\ result = "failed")

\* typingUserID: "so the typing identity matches the user that will post the
\* message", whenever that message comes to be posted.
TypistPosts ==
    \A t \in typed, p \in posts :
        t.for < p.from /\ (\A j \in (t.for + 1)..(p.from - 1) : actions[j].kind # "send_message")
            => t.by = p.by
============================================================================
