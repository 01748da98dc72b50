------------------------------ MODULE MCRunGate ------------------------------
(* Instances of RunGate for TLC.                                            *)
EXTENDS RunGate, TLC

CONSTANTS ann, bob, bot, hall, room, dm, team

AllUsers == {ann, bob, bot}
AllChannels == {hall, room, dm}

Kinds == hall :> "open" @@ room :> "private" @@ dm :> "direct"
TeamsOf == hall :> team @@ room :> team @@ dm :> None

\* Ann runs the channels and leads the team.  Either her private channel is
\* hers alone and Bob is a system administrator, or Bob is a member of it.
StartWorld(inRoom, admins) ==
    [members |-> hall :> {ann, bob} @@ room :> inRoom @@ dm :> {ann, bot},
     managers |-> [c \in AllChannels |-> {ann}], leaders |-> team :> {ann},
     admins |-> admins, account |-> [u \in AllUsers |-> "active"]]

StartWorlds == {StartWorld({ann}, {bob}), StartWorld({ann, bob}, {})}

Ask(id, tools, guard, as) ==
    [id |-> id, tools |-> tools, guard |-> guard, as |-> as, kind |-> "ai", to |-> None]
Send(id, to) ==
    [id |-> id, tools |-> {}, guard |-> {}, as |-> "creator", kind |-> "send", to |-> to]

Draft(on, at, acts) == [on |-> on, at |-> at, acts |-> acts]

SomeDrafts ==
    {Draft("message_posted", hall, <<Ask(1, {"read", "look"}, {hall}, "triggerer"),
                                     Ask(2, {"read"}, {room}, "creator")>>),
     Draft("message_posted", room, <<Ask(1, {"read"}, {}, "triggerer"), Send(2, "trigger")>>),
     Draft("message_posted", hall, <<Ask(1, {"find"}, {}, "triggerer")>>),
     Draft("schedule", dm, <<Send(1, dm), Ask(2, {"add", "external"}, {}, "triggerer")>>),
     Draft("membership_changed", hall, <<Ask(1, {"add", "make"}, {hall}, "creator")>>),
     Draft("channel_created", team, <<Send(1, "trigger"), Ask(2, {"make"}, {hall}, "creator")>>),
     Draft("user_joined_team", team, <<Ask(1, {"look"}, {room}, "creator")>>),
     Draft("channel_created", team, <<Ask(1, {"own"}, {}, "creator")>>)}
=============================================================================
