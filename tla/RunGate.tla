------------------------------- MODULE RunGate -------------------------------
(***************************************************************************)
(* What may run, and as whom.  One automation passes the checks of the API   *)
(* when it is saved (automation/api.go, model/validate.go, permissions/,     *)
(* hooks/validate.go), is matched with events (plugin.go, trigger/), checked *)
(* again by the worker (workqueue/worker.go) and executed action by action   *)
(* (executor.go, action/), and the AI service asks the plugin before it uses *)
(* a tool (hooks/api.go).  Memberships, roles and accounts change between    *)
(* any two of these steps.                                                   *)
(*                                                                         *)
(* Each check is one step on one state of the world, whatever number of API  *)
(* calls it makes.  What the agents plugin answers is a free choice; texts,  *)
(* templates and the thread filter are left out.                             *)
(***************************************************************************)
EXTENDS Naturals, FiniteSets, Sequences, SequencesExt

CONSTANTS
    Users, Bots,
    Channels, Teams,
    Kind,        \* the type of each channel
    TeamOf,      \* the team of each channel, None for direct and group messages
    Worlds,      \* memberships, roles and accounts to begin with
    Drafts,      \* triggers and actions that requests ask for
    Items,       \* queued or executing work items at a time; a bound
    MaxChanges,  \* bound on changes of the world
    MaxSaves,    \* bound on accepted requests to create or update
    MaxFaults,   \* bound on failing calls
    None,        \* no user, no channel, no call, no record yet
    Deleted      \* the record after the deletion

ASSUME UsersAssumption == IsFiniteSet(Users) /\ Bots \subseteq Users
ASSUME PlacesAssumption ==
    /\ Kind \in [Channels -> {"open", "private", "direct", "group"}]
    /\ TeamOf \in [Channels -> Teams \cup {None}]
    /\ Channels \cap Teams = {} /\ None \notin Users \cup Channels \cup Teams
ASSUME BoundsAssumption == {MaxChanges, MaxSaves, MaxFaults} \subseteq Nat

VARIABLES
    world,    \* what the Mattermost server knows
    record,   \* the stored automation, None before and Deleted after
    run,      \* the work items
    call,     \* the tool use that was just decided, or None
    fresh,    \* the world is as it was at the last save
    changes, saves, faults

vars == <<world, record, run, call, fresh, changes, saves, faults>>

----------------------------------------------------------------------------
(* The catalog of Mattermost tools, one of each sort: read_channel and its  *)
(* like, get_team_info and its like, add_user_to_channel, create_channel,   *)
(* get_user_channels, search_users and its like, create_post and its like,  *)
(* and a tool of another server.                                            *)

OnChannel == {"read", "add"}
OnTeam == {"look", "make"}
Constrained == OnChannel \cup OnTeam \cup {"own"}   \* have a Before function
AllowedTools == Constrained \cup {"find"}
TriggererSafe == {"read", "look"}
Catalog == AllowedTools \cup {"post"}
Tools == Catalog \cup {"external"}
CreatorOnly == Catalog \ TriggererSafe

(* Triggers.                                                               *)

ChannelTriggers == {"message_posted", "schedule", "membership_changed"}
TeamTriggers == {"channel_created", "user_joined_team"}
CreatorLocked == TeamTriggers \cup {"membership_changed"}

Actions ==
    [id: Nat, kind: {"ai", "send"}, to: Channels \cup {"trigger", None},
     tools: SUBSET Tools, guard: SUBSET Channels, as: {"creator", "triggerer"}]

ASSUME DraftsAssumption ==
    \A d \in Drafts :
        /\ d \in [on: ChannelTriggers \cup TeamTriggers, at: Channels \cup Teams,
                  acts: Seq(Actions)]
        /\ d.on \in TeamTriggers <=> d.at \in Teams

World ==
    [members: [Channels -> SUBSET Users], managers: [Channels -> SUBSET Users],
     leaders: [Teams -> SUBSET Users], admins: SUBSET Users,
     account: [Users -> {"active", "deactivated", "deleted"}]]

ASSUME WorldsAssumption == Worlds \subseteq World

Automations ==
    {[by |-> u, on |-> d.on, at |-> d.at, acts |-> d.acts, enabled |-> e] :
        u \in Users, d \in Drafts, e \in BOOLEAN}

Verdicts == {"permit", "refuse", "trouble"}

Uses == [item: Items, tool: Tools, place: Channels \cup Teams, verdict: Verdicts]

ASSUME RecordsAssumption ==
    None # Deleted /\ {None, Deleted} \cap (Automations \cup Uses) = {}

Humans == Users \ Bots
IsAI(a) == a.kind = "ai"
Asks(f) == {a \in Range(f.acts) : IsAI(a)}
Sends(f) == {a \in Range(f.acts) : ~IsAI(a)}

----------------------------------------------------------------------------
(* model/validate.go and hooks/validate.go: rules about the draft alone.    *)

ValidActions(f) ==
    /\ f.acts # <<>>
    /\ \A i, j \in DOMAIN f.acts : f.acts[i].id = f.acts[j].id => i = j
    /\ \A a \in Asks(f) : a.guard # {} => a.tools # {}

\* "trigger" stands for a template of the triggering channel.
ValidSends(f) ==
    \A a \in Sends(f) : a.to = "trigger" \/ (f.on \in ChannelTriggers /\ a.to = f.at)

LockedToCreator(f) ==
    f.on \in CreatorLocked => \A a \in Asks(f) : a.as = "creator"

\* ResolvesToTriggerer.
MayBorrow(f, a) == a.as # "creator" /\ f.on \notin CreatorLocked \cup {"schedule"}

CreatorOnlyRespected(f, a) == MayBorrow(f, a) => a.tools \cap CreatorOnly = {}

\* The agent offers the tools: a free choice left to the callers.
ToolsPermitted(a) ==
    /\ a.tools \cap (Catalog \ AllowedTools) = {}
    /\ a.guard # {} => "own" \notin a.tools

(* permissions/check.go.                                                   *)

References(f) ==
    ({f.at} \cap Channels) \cup ({a.to : a \in Sends(f)} \cap Channels)

IsAdmin(w, u) == u \in w.admins

ManagesChannel(w, u, c) ==
    /\ u \in w.members[c]
    /\ Kind[c] \in {"direct", "group"} \/ IsAdmin(w, u) \/ u \in w.managers[c]

\* CheckAutomationPermissions.
MayManage(w, u, f) ==
    IF f.on \in TeamTriggers
    THEN \/ IsAdmin(w, u)
         \/ /\ u \in w.leaders[f.at]
            /\ f.on = "channel_created" => \A c \in References(f) : TeamOf[c] = f.at
    ELSE /\ References(f) = {} => IsAdmin(w, u)
         /\ \A c \in References(f) : ManagesChannel(w, u, c)

\* What a check sees when the look-ups of roles fail: they answer with a boolean,
\* and a failure is a no.
Roleless(w, u) ==
    [w EXCEPT !.admins = @ \ {u}, !.managers = [c \in Channels |-> w.managers[c] \ {u}],
              !.leaders = [t \in Teams |-> w.leaders[t] \ {u}]]

MayEdit(w, u, f) == IsAdmin(w, u) \/ u = f.by

ReadsGuardrails(w, u, f) ==
    \A a \in Asks(f) : \A c \in a.guard : u \in w.members[c]

(* permissions/guardrails_required.go.                                     *)

Unguarded(a) == a.tools \cap Constrained # {} /\ a.guard = {}

Sensitive(w, f) ==
    \/ f.on \in TeamTriggers
    \/ Kind[f.at] \in {"open", "group"}
    \/ (Kind[f.at] = "private" /\ Cardinality(w.members[f.at]) > 1)
    \/ (Kind[f.at] = "direct" /\ \E u \in Humans \ {f.by} : u \in w.members[f.at])

\* The user an AI request is attributed to.
Actor(f, a, user) == IF a.as # "creator" /\ user # None THEN user ELSE f.by

\* checkExemptTriggerer.
Foreign(f, user) == \E a \in Asks(f) : Unguarded(a) /\ Actor(f, a, user) # f.by

\* CheckGuardrailsRequired fails.
LacksGuardrails(w, f, user) ==
    /\ \E a \in Asks(f) : Unguarded(a)
    /\ Sensitive(w, f) \/ Foreign(f, user)

\* It asks something that can fail.
LooksAtChannel(f) == f.on \notin TeamTriggers /\ \E a \in Asks(f) : Unguarded(a)

----------------------------------------------------------------------------
(* Requests: handleCreateAutomation, handleUpdateAutomation and delete.     *)

Admissible(w, f) ==
    /\ ValidActions(f) /\ ValidSends(f) /\ LockedToCreator(f)
    /\ Asks(f) # {} => f.by \notin Bots /\ w.account[f.by] # "deleted"
    /\ MayManage(w, f.by, f) /\ ReadsGuardrails(w, f.by, f)
    /\ \A a \in Asks(f) : ToolsPermitted(a) /\ CreatorOnlyRespected(f, a)
    /\ ~LacksGuardrails(w, f, None)

Exists == record \notin {None, Deleted}

Active(w, u) == w.account[u] = "active"

\* A decision about a tool and its answer are not interrupted.
Quiet == call = None /\ UNCHANGED call

\* Items queued before a save belong to the automation as it was.
Store(f) ==
    /\ saves' = saves + 1
    /\ record' = f /\ fresh' = TRUE /\ Quiet
    /\ run' = [i \in Items |-> [run[i] EXCEPT !.old = run[i].pc # "free"]]

Create(u, d) ==
    LET f == [by |-> u, on |-> d.on, at |-> d.at, acts |-> d.acts, enabled |-> TRUE]
    IN  /\ record = None /\ saves < MaxSaves /\ Active(world, u)
        /\ Admissible(world, f)
        /\ Store(f)
        /\ UNCHANGED <<world, changes, faults>>

\* MUTANT: an edit by an administrator is not checked for the creator.
UpdateByEditor(u, d) ==
    \E e \in BOOLEAN :
        LET f == [record EXCEPT !.on = d.on, !.at = d.at, !.acts = d.acts, !.enabled = e]
        IN  /\ Exists /\ saves < MaxSaves /\ Active(world, u)
            /\ MayEdit(world, u, record)
            /\ MayManage(world, u, f)
            /\ Admissible(world, [f EXCEPT !.by = u])
            /\ Store(f)
            /\ UNCHANGED <<world, changes, faults>>

\* The editor and the creator are both checked.
Update(u, d) ==
    \E e \in BOOLEAN :
        LET f == [record EXCEPT !.on = d.on, !.at = d.at, !.acts = d.acts, !.enabled = e]
        IN  /\ Exists /\ saves < MaxSaves /\ Active(world, u)
            /\ MayEdit(world, u, record)
            /\ MayManage(world, u, f)
            /\ Admissible(world, f)
            /\ Store(f)
            /\ UNCHANGED <<world, changes, faults>>

Delete(u) ==
    /\ Exists /\ Active(world, u) /\ MayEdit(world, u, record)
    /\ record' = Deleted /\ Quiet
    /\ UNCHANGED <<world, run, fresh, changes, saves, faults>>

----------------------------------------------------------------------------
(* Events: the hooks of plugin.go, the matching of trigger/ and Dispatch,   *)
(* and fireSchedule.  The work queue is not a subject here: an item is      *)
(* queued and taken up later.                                               *)

FreeRun == [pc |-> "free", user |-> None, channel |-> None, f |-> None, at |-> 0,
            who |-> None, seen |-> {}, misread |-> FALSE, old |-> FALSE]

Enqueue(i, user, channel) ==
    /\ run[i].pc = "free" /\ Quiet
    /\ run' = [run EXCEPT ![i] =
                  [FreeRun EXCEPT !.pc = "queued", !.user = user, !.channel = channel]]
    /\ UNCHANGED <<world, record, fresh, changes, saves, faults>>

Listens(on, at) == Exists /\ record.enabled /\ record.on = on /\ record.at = at

\* Posts of bots are dropped.
MessageHasBeenPosted(i, u, c) ==
    /\ u \in Humans /\ Active(world, u) /\ (u \in world.members[c] \/ IsAdmin(world, u))
    /\ Listens("message_posted", c) /\ Enqueue(i, u, c)

\* Someone has joined or left.
MembershipChanged(i, u, c) ==
    u \in Humans /\ Listens("membership_changed", c) /\ Enqueue(i, u, c)

\* The lookup of the channel's creator may fail.
ChannelHasBeenCreated(i, u, c) ==
    /\ Kind[c] = "open" /\ u \in Users \cup {None}
    /\ Listens("channel_created", TeamOf[c]) /\ Enqueue(i, u, c)

UserHasJoinedTeam(i, u, t) ==
    u \in Humans /\ Listens("user_joined_team", t) /\ Enqueue(i, u, None)

\* As long as the jobs follow the records; ScheduleManager is about when they do.
FireSchedule(i, c) == Listens("schedule", c) /\ Enqueue(i, None, c)

----------------------------------------------------------------------------
(* runWorker up to the execution.                                          *)

\* What stands against a run of f.
Lacks(w, f, user) ==
    {r \in {"account", "permissions", "guardrails"} :
        \/ (r = "account" /\ ~Active(w, f.by))
        \/ (r = "permissions" /\ ~MayManage(w, f.by, f))
        \/ (r = "guardrails" /\ LacksGuardrails(w, f, user))}

Checking == {"creator", "permissions", "guardrails"}

Goto(i, pc) == run' = [run EXCEPT ![i].pc = pc]
End(i) == run' = [run EXCEPT ![i] = FreeRun]
Fault == faults < MaxFaults /\ faults' = faults + 1

\* An item of a deleted or disabled automation is dropped.
Load(i) ==
    /\ run[i].pc = "queued" /\ Quiet
    /\ IF ~Exists \/ ~record.enabled THEN End(i)
       ELSE run' = [run EXCEPT ![i].pc = "creator", ![i].f = record, ![i].at = 1,
                               ![i].seen = {Lacks(world, record, run[i].user)}]
    /\ UNCHANGED <<world, record, fresh, changes, saves, faults>>

\* A check passes, denies, or could not be made: then the item fails and the
\* automation stays on.
Check(i, pc, lacking, next, canFail) ==
    /\ run[i].pc = pc /\ Quiet
    /\ \/ Goto(i, IF lacking THEN "disable" ELSE next) /\ UNCHANGED faults
       \/ canFail /\ Fault /\ End(i)
    /\ UNCHANGED <<world, record, fresh, changes, saves>>

CheckCreator(i) ==
    Check(i, "creator", ~Active(world, run[i].f.by), "permissions", TRUE)

\* The creator is denied because look-ups of his roles failed.
MisreadRoles(i) ==
    LET f == run[i].f
    IN  /\ run[i].pc = "permissions" /\ Quiet /\ Fault
        /\ MayManage(world, f.by, f) /\ ~MayManage(Roleless(world, f.by), f.by, f)
        /\ run' = [run EXCEPT ![i].pc = "disable", ![i].misread = TRUE]
        /\ UNCHANGED <<world, record, fresh, changes, saves>>

CheckPermissions(i) ==
    LET f == run[i].f
    IN  \/ Check(i, "permissions", ~MayManage(world, f.by, f), "guardrails", TRUE)
        \/ MisreadRoles(i)

\* MUTANT: only the setting at configuration time is checked again.
CheckGuardrailsOfContext(i) ==
    Check(i, "guardrails", LacksGuardrails(world, run[i].f, None), "act",
          LooksAtChannel(run[i].f))

\* MUTANT: a failing lookup counts as a denial.
CheckGuardrailsFailClosed(i) ==
    /\ run[i].pc = "guardrails" /\ Quiet
    /\ \/ Goto(i, IF LacksGuardrails(world, run[i].f, run[i].user) THEN "disable" ELSE "act")
          /\ UNCHANGED faults
       \/ LooksAtChannel(run[i].f) /\ Fault /\ Goto(i, "disable")
    /\ UNCHANGED <<world, record, fresh, changes, saves>>

CheckGuardrails(i) ==
    Check(i, "guardrails", LacksGuardrails(world, run[i].f, run[i].user), "act",
          LooksAtChannel(run[i].f))

\* disableAutomation saves the copy that the worker has.
Disable(i) ==
    /\ run[i].pc = "disable" /\ Quiet
    /\ End(i)
    /\ \/ record' = [run[i].f EXCEPT !.enabled = FALSE] /\ UNCHANGED faults
       \/ Fault /\ UNCHANGED record
    /\ UNCHANGED <<world, fresh, changes, saves>>

----------------------------------------------------------------------------
(* Execute: the actions one after the other, up to the first error.         *)

Action(i) == run[i].f.acts[run[i].at]

\* MUTANT: one action too many.
AdvanceBeyond(i) ==
    IF run[i].at > Len(run[i].f.acts) THEN End(i)
    ELSE run' = [run EXCEPT ![i].pc = "act", ![i].at = @ + 1, ![i].who = None]

Advance(i) ==
    IF run[i].at = Len(run[i].f.acts) THEN End(i)
    ELSE run' = [run EXCEPT ![i].pc = "act", ![i].at = @ + 1, ![i].who = None]

\* A template without a triggering channel yields the default channel of the team.
SendMessage(i) ==
    /\ run[i].pc = "act" /\ ~IsAI(Action(i)) /\ Quiet
    /\ \/ End(i)
       \/ /\ \E c \in Channels :
                /\ c = Action(i).to \/ Action(i).to = "trigger"
                /\ run[i].channel \in {None, c}
                /\ run[i].f.by \in world.members[c] \/ IsAdmin(world, run[i].f.by)
          /\ Advance(i)
    /\ UNCHANGED <<world, record, fresh, changes, saves, faults>>

\* The prompt is sent in the name of the resolved user, if it may be.
StartPrompt(i) ==
    /\ run[i].pc = "act" /\ IsAI(Action(i)) /\ Quiet
    /\ LET f == run[i].f
           a == Action(i)
           who == Actor(f, a, run[i].user)
       IN  \/ End(i)
           \/ /\ f.on \in CreatorLocked => a.as = "creator"
              /\ who \notin Bots /\ world.account[who] # "deleted"
              /\ ToolsPermitted(a) /\ CreatorOnlyRespected(f, a)
              /\ run' = [run EXCEPT ![i].pc = "completing", ![i].who = who]
    /\ UNCHANGED <<world, record, fresh, changes, saves, faults>>

FinishPrompt(i) ==
    /\ run[i].pc = "completing" /\ Quiet
    /\ End(i) \/ Advance(i)
    /\ UNCHANGED <<world, record, fresh, changes, saves, faults>>

----------------------------------------------------------------------------
(* hooks/api.go: handleBefore.                                             *)

\* CallerCanTrigger; the other triggers are locked to the creator or have no user.
CanTrigger(w, u, f) ==
    IsAdmin(w, u) \/ (f.on \in {"message_posted", "membership_changed"} /\ u \in w.members[f.at])

\* authorizeHookCaller.
MayCall(w, u, f, a) == u = f.by \/ (a.as # "creator" /\ CanTrigger(w, u, f))

\* The teams of the guardrail channels and of the trigger.
AllowedTeams(f, a) ==
    ({TeamOf[c] : c \in a.guard} \cup {IF f.at \in Channels THEN TeamOf[f.at] ELSE f.at}) \ {None}

\* The Before function of the tool.
Before(f, a, tool, place) ==
    \/ (tool \in OnChannel /\ place \in a.guard)
    \/ (tool \in OnTeam /\ place \in AllowedTeams(f, a))

\* MUTANT: the guardrails of any action of the automation count.
HookOfAnyAction(w, u, id, tool, place) ==
    /\ Exists
    /\ \E a \in Asks(record) :
          /\ a.guard # {} /\ MayCall(w, u, record, a)
          /\ tool \in a.tools \cap AllowedTools /\ Before(record, a, tool, place)

\* MUTANT: the caller must be able to fire the trigger.
HookOfTriggerers(w, u, id, tool, place) ==
    /\ Exists
    /\ \E a \in Asks(record) :
          /\ a.id = id /\ a.guard # {} /\ CanTrigger(w, u, record)
          /\ tool \in a.tools \cap AllowedTools /\ Before(record, a, tool, place)

\* The decision follows the automation as it is stored now.
HookPermits(w, u, id, tool, place) ==
    /\ Exists
    /\ \E a \in Asks(record) :
          /\ a.id = id /\ a.guard # {} /\ MayCall(w, u, record, a)
          /\ tool \in a.tools \cap AllowedTools /\ Before(record, a, tool, place)

\* What a use is about: create_channel and its like take a team.
PlacesOf(tool) == IF tool \in OnTeam THEN Teams ELSE Channels

\* Hooks are registered for constrained tools of guarded actions only.
UseTool(i, tool, place) ==
    /\ run[i].pc = "completing" /\ call = None /\ place \in PlacesOf(tool)
    /\ tool \in Action(i).tools \cap Constrained /\ Action(i).guard # {}
    /\ LET Decided(verdict) ==
               call' = [item |-> i, tool |-> tool, place |-> place, verdict |-> verdict]
       IN  \/ /\ Decided(IF HookPermits(world, run[i].who, Action(i).id, tool, place)
                         THEN "permit" ELSE "refuse")
              /\ UNCHANGED faults
           \/ Fault /\ Decided("trouble")
    /\ UNCHANGED <<world, record, run, fresh, changes, saves>>

Answer == call # None /\ call' = None /\ UNCHANGED <<world, record, run, fresh, changes, saves, faults>>

----------------------------------------------------------------------------
(* The Mattermost server.                                                  *)

Become(w) ==
    /\ changes < MaxChanges /\ changes' = changes + 1
    /\ world' = w /\ w # world /\ fresh' = FALSE /\ Quiet
    /\ run' = [i \in Items |->
                 IF run[i].pc \in Checking
                 THEN [run[i] EXCEPT !.seen = @ \cup {Lacks(w, run[i].f, run[i].user)}]
                 ELSE run[i]]
    /\ UNCHANGED <<record, saves, faults>>

JoinOrLeave(u, c) ==
    /\ Kind[c] \in {"open", "private"}
    /\ \E S \in {world.members[c] \cup {u}, world.members[c] \ {u}} :
          Become([world EXCEPT !.members[c] = S])

ChangeRole(u) ==
    \/ \E c \in {d \in Channels : Kind[d] \in {"open", "private"}}, S \in {{u}, {}} :
          Become([world EXCEPT !.managers[c] = (@ \ {u}) \cup S])
    \/ \E t \in Teams, S \in {{u}, {}} : Become([world EXCEPT !.leaders[t] = (@ \ {u}) \cup S])
    \/ \E S \in {{u}, {}} : Become([world EXCEPT !.admins = (@ \ {u}) \cup S])

ChangeAccount(u) ==
    /\ world.account[u] # "deleted"
    /\ \E s \in {"active", "deactivated", "deleted"} : Become([world EXCEPT !.account[u] = s])

Init ==
    /\ world \in Worlds
    /\ record = None /\ run = [i \in Items |-> FreeRun] /\ call = None
    /\ fresh = FALSE /\ changes = 0 /\ saves = 0 /\ faults = 0

Next ==
    \/ \E u \in Users, d \in Drafts : Create(u, d) \/ Update(u, d)
    \/ \E u \in Users : Delete(u)
    \/ \E i \in Items, u \in Users \cup {None}, c \in Channels :
          \/ MessageHasBeenPosted(i, u, c) \/ MembershipChanged(i, u, c)
          \/ ChannelHasBeenCreated(i, u, c)
    \/ \E i \in Items, c \in Channels : FireSchedule(i, c)
    \/ \E i \in Items, u \in Users, t \in Teams : UserHasJoinedTeam(i, u, t)
    \/ \E i \in Items :
          \/ Load(i) \/ CheckCreator(i) \/ CheckPermissions(i) \/ CheckGuardrails(i)
          \/ Disable(i) \/ SendMessage(i) \/ StartPrompt(i) \/ FinishPrompt(i)
    \/ \E i \in Items, t \in Tools, p \in Channels \cup Teams : UseTool(i, t, p)
    \/ Answer
    \/ \E u \in Humans : ChangeRole(u) \/ ChangeAccount(u) \/ \E c \in Channels : JoinOrLeave(u, c)

Spec == Init /\ [][Next]_vars

----------------------------------------------------------------------------
(* Properties.                                                             *)

Reasons == {"account", "permissions", "guardrails"}

RunStates ==
    [pc: Checking \cup {"free", "queued", "disable", "act", "completing"},
     user: Users \cup {None}, channel: Channels \cup {None}, f: Automations \cup {None},
     at: Nat, who: Users \cup {None}, seen: SUBSET SUBSET Reasons, misread: BOOLEAN, old: BOOLEAN]

TypeOK ==
    /\ world \in World
    /\ record \in Automations \cup {None, Deleted}
    /\ run \in [Items -> RunStates]
    /\ call \in Uses \cup {None}
    /\ fresh \in BOOLEAN /\ {changes, saves, faults} \subseteq Nat

Executing(i) == run[i].pc \in {"act", "completing"}

\* However memberships, roles and accounts change while an item waits and is
\* checked, an execution starts only if, between its start and the loading of
\* the automation, the creator was active at some time, entitled at some time,
\* and the guardrails sufficient at some time.
RunsAreEntitled ==
    \A i \in Items : Executing(i) =>
        \A r \in {"account", "permissions", "guardrails"} : \E S \in run[i].seen : r \notin S

\* An automation is only turned off because, at some time since it was loaded,
\* something did stand against the run, or because a look-up of the creator's roles
\* failed in the check of his permissions, which the code cannot tell from a denial.
\* A failing look-up of an account, a channel, its members or a team never does it.
DisablingHasReason ==
    \A i \in Items :
        run[i].pc = "disable" => run[i].misread \/ \E S \in run[i].seen : S # {}

\* An automation whose save was accepted is not turned off by an event of a
\* member of its channel while nothing in the Mattermost server has changed
\* since and no look-up of a role fails: what the requests check implies what the
\* worker checks.
AcceptedSavesRun ==
    \A i \in Items :
        ~ /\ run[i].pc = "disable" /\ run[i].f = record
          /\ fresh /\ ~run[i].old /\ ~run[i].misread
          /\ Active(world, record.by)
          /\ run[i].user # None /\ record.on = "message_posted" =>
                run[i].user \in world.members[record.at]

\* A prompt that is not confined by guardrails though its tools need it, or
\* whose trigger only tells of a bystander, is sent in the name of the creator;
\* so is one with creator-only tools, unless the item was queued before the
\* automation was last saved.  None is sent in the name of a bot.
PromptsBorrowNothing ==
    \A i \in Items : run[i].pc = "completing" =>
        LET f == run[i].f
            a == Action(i)
        IN  /\ run[i].who \in Humans
            /\ \/ Unguarded(a) \/ f.on \in CreatorLocked
               \/ (~run[i].old /\ a.tools \cap CreatorOnly # {})
               => run[i].who = f.by

Unchanged(f) == Exists /\ record.on = f.on /\ record.at = f.at /\ record.acts = f.acts

\* A tool use that the hook permits stays inside the guardrails that the
\* executing action was started with, unless the automation has been saved
\* since.
UsesAreConfined ==
    call # None /\ call.verdict = "permit" =>
        LET f == run[call.item].f
            a == Action(call.item)
        IN  Unchanged(f) =>
                call.place \in a.guard \cup {TeamOf[c] : c \in a.guard}
                                 \cup {f.at} \cup {TeamOf[c] : c \in {f.at} \cap Channels}
                /\ (call.place \in Channels => call.place \in a.guard)

\* Executor and hook agree on who may ask: a use inside the guardrails is not
\* refused, unless a call of the decision fails, while the automation is as it was and
\* the user it runs as is its creator or a member of the channel that triggers it.
UsesAreServed ==
    call # None /\ call.tool \in OnChannel /\ call.place \in Action(call.item).guard =>
        LET f == run[call.item].f
            who == run[call.item].who
        IN  /\ Unchanged(f)
            /\ who = f.by \/ (f.on = "message_posted" /\ who \in world.members[f.at])
            => call.verdict # "refuse"

----------------------------------------------------------------------------
(* The inductive invariant behind these properties.                         *)

Loaded(i) == run[i].pc \notin {"free", "queued"}

\* What is stored was accepted, in this world unless it has changed; a worker
\* may put an older automation back, but turned off.
RecordInv ==
    Exists => /\ ValidActions(record)
              /\ fresh /\ record.enabled => Admissible(world, record)

\* The creator stays the same.
CreatorInv ==
    /\ record = None => \A i \in Items : ~Loaded(i)
    /\ \A i, j \in Items : Loaded(i) /\ Loaded(j) => run[i].f.by = run[j].f.by
    /\ Exists => \A i \in Items : Loaded(i) => run[i].f.by = record.by

\* The user of an item is one that the trigger of f tells of.
Fits(i, f) ==
    /\ f.on = "schedule" => run[i].user = None
    /\ f.on = "message_posted" => run[i].user \in Humans

\* An item that no save has overtaken fits what is stored, as long as that is on,
\* and what it was loaded with.
FitInv(i) ==
    ~run[i].old =>
        /\ run[i].pc = "queued" /\ Exists /\ record.enabled => Fits(i, record)
        /\ Loaded(i) => Fits(i, run[i].f)

\* The copy a worker has was accepted, and on when it was loaded.
CopyInv(i) ==
    Loaded(i) =>
        /\ run[i].f # None /\ run[i].f.enabled /\ ValidActions(run[i].f)
        /\ run[i].at \in DOMAIN run[i].f.acts

Passed(i, r) == \E S \in run[i].seen : r \notin S

\* What stands against the run now is among what was seen while it is checked,
\* and all that was seen when neither the world nor the automation has changed;
\* what was passed was once in order.
SeenInv(i) ==
    LET now == Lacks(world, run[i].f, run[i].user)
    IN  /\ run[i].pc \in Checking => now \in run[i].seen
        /\ Loaded(i) /\ fresh /\ ~run[i].old => run[i].seen = {now}
        /\ run[i].pc \in {"permissions", "guardrails"} \/ Executing(i) => Passed(i, "account")
        /\ run[i].pc = "guardrails" \/ Executing(i) => Passed(i, "permissions")
        /\ Executing(i) => Passed(i, "guardrails")
        /\ run[i].pc = "disable" => run[i].misread \/ \E S \in run[i].seen : S # {}

\* An execution has no unguarded prompt that is not the creator's, and a prompt
\* under way is that of the action at hand, in the name of a user it may have.
PromptInv(i) ==
    LET f == run[i].f
        a == Action(i)
    IN  /\ Executing(i) => ~Foreign(f, run[i].user)
        /\ run[i].pc = "completing" =>
              /\ IsAI(a) /\ run[i].who = Actor(f, a, run[i].user) /\ run[i].who \in Humans
              /\ f.on \in CreatorLocked => a.as = "creator"
              /\ CreatorOnlyRespected(f, a)

\* A use of a tool is one of a prompt under way, and its verdict is the hook's,
\* on the world and the automation as they are.
CallInv ==
    call # None =>
        LET a == Action(call.item)
            permits == HookPermits(world, run[call.item].who, a.id, call.tool, call.place)
        IN  /\ run[call.item].pc = "completing" /\ a.guard # {}
            /\ call.tool \in a.tools \cap Constrained /\ call.place \in PlacesOf(call.tool)
            /\ call.verdict = "permit" => permits
            /\ call.verdict = "refuse" => ~permits

ItemInv(i) == FitInv(i) /\ CopyInv(i) /\ SeenInv(i) /\ PromptInv(i)

GateInv ==
    /\ TypeOK /\ RecordInv /\ CreatorInv /\ CallInv
    /\ \A i \in Items : ItemInv(i)
=============================================================================
