\* One work item, two saves, one change of the world, one failing call.
CONSTANTS
    ann = ann
    bob = bob
    bot = bot
    hall = hall
    room = room
    dm = dm
    team = team
    Users <- AllUsers
    Bots = {bot}
    Channels <- AllChannels
    Teams = {team}
    Kind <- Kinds
    TeamOf <- TeamsOf
    Worlds <- StartWorlds
    Drafts <- SomeDrafts
    Items = {i1}
    MaxChanges = 1
    MaxSaves = 2
    MaxFaults = 1
    None = None
    Deleted = Deleted
CHECK_DEADLOCK FALSE
SPECIFICATION Spec
INVARIANTS
    GateInv
    RunsAreEntitled
    DisablingHasReason
    AcceptedSavesRun
    PromptsBorrowNothing
    UsesAreConfined
    UsesAreServed
