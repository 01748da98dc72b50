\* Every list of up to three actions, every kind of trigger; threads of up to five
\* posts by two authors, at three times, of which two replies are kept.
CONSTANTS
    Programs <- Short
    PluginBot = PluginBot
    Bots = {OtherBot}
    None = None
    MaxPosts = 5
    MaxTime = 2
    MaxThreadReplies = 2
    Authors = {a, b}
    NoName = NoName
SPECIFICATION DeliverySpec
CHECK_DEADLOCK FALSE
INVARIANTS
    ExecutorInv
    OutputsTellPosts
    TypistPosts
    KeepsTheRecent
    NamesAgree
PROPERTY DeliveryEnds
