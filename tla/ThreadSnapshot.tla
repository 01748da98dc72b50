--------------------------- MODULE ThreadSnapshot ---------------------------
(***************************************************************************)
(* The thread that goes with a reply (NewSafeThread of model/context.go,       *)
(* fetchThread of automation/trigger/message_posted.go): the posts in order of *)
(* time, cut to the first and the most recent ones, with an author each whose  *)
(* look-up may fail.  Ids are numbers, for their order.                       *)
(***************************************************************************)
EXTENDS Naturals, Sequences, FiniteSets, FiniteSetsExt

CONSTANTS
    MaxPosts,          \* bound on the posts of a thread
    MaxTime,           \* bound on their times
    MaxThreadReplies,  \* how many replies are kept
    Authors,
    NoName             \* in place of the name of an author who was not found

ASSUME ThreadAssumption == MaxPosts \in Nat /\ MaxTime \in Nat /\ MaxThreadReplies \in Nat

VARIABLES
    list,       \* the list from the server: time and author of each id
    root,       \* the id the list was asked for
    messages,   \* the ids and names in the snapshot
    truncated, count,
    todo,       \* the ids that still have to be given a name
    cache,      \* the names found out, NoName for a failed look-up
    asked       \* look-ups so far

snapshotVars == <<list, root, messages, truncated, count, todo, cache, asked>>

\* Replies come after their root, or in the same millisecond.
Threads == UNION {[1..n -> [at : 0..MaxTime, by : Authors]] : n \in 1..MaxPosts}

\* The order of sort.Slice, which leaves each id at its rank.
Before(i, j) == list[i].at < list[j].at \/ (list[i].at = list[j].at /\ i < j)
Rank(i) == Cardinality({j \in DOMAIN list : Before(j, i)}) + 1
Sorted == [n \in DOMAIN list |-> CHOOSE i \in DOMAIN list : Rank(i) = n]

\* MUTANT: the first message counts as a reply.
CutShort(s) ==
    IF Len(s) > MaxThreadReplies + 1
    THEN <<s[1]>> \o SubSeq(s, Len(s) - MaxThreadReplies + 2, Len(s)) ELSE s

\* MaxThreadReplies.
Cut(s) ==
    IF Len(s) > MaxThreadReplies + 1
    THEN <<s[1]>> \o SubSeq(s, Len(s) - MaxThreadReplies + 1, Len(s)) ELSE s

\* No thread is at hand.
NoThread ==
    /\ list = <<>> /\ root = 0 /\ messages = <<>> /\ truncated = FALSE /\ count = 0
    /\ todo = <<>> /\ cache = <<>> /\ asked = [a \in Authors |-> 0]

\* The snapshot has gone with its event.
Forget ==
    /\ list' = <<>> /\ root' = 0 /\ messages' = <<>> /\ truncated' = FALSE /\ count' = 0
    /\ todo' = <<>> /\ cache' = <<>> /\ asked' = [a \in Authors |-> 0]

\* GetPostThread.
Fetch ==
    /\ list = <<>>
    /\ list' \in Threads
    /\ \E i \in DOMAIN list' :
          root' = i /\ \A j \in DOMAIN list' : list'[i].at <= list'[j].at
    /\ UNCHANGED <<messages, truncated, count, todo, cache, asked>>

Arrange ==
    /\ list # <<>> /\ count = 0
    /\ todo' = Cut(Sorted)
    /\ truncated' = (Len(Sorted) > MaxThreadReplies + 1)
    /\ count' = Len(Sorted)
    /\ UNCHANGED <<list, root, messages, cache, asked>>

\* MUTANT: a failed look-up is not remembered.
NameAgain ==
    /\ todo # <<>>
    /\ LET id == Head(todo)
           a  == list[id].by
       IN  \E name \in IF a \in DOMAIN cache THEN {cache[a]} ELSE {a, NoName} :
              /\ messages' = Append(messages, [id |-> id, name |-> name])
              /\ cache' = [b \in DOMAIN cache \cup ({name} \ {NoName}) |-> IF b = a THEN name ELSE cache[b]]
              /\ asked' = IF a \in DOMAIN cache THEN asked ELSE [asked EXCEPT ![a] = @ + 1]
    /\ todo' = Tail(todo)
    /\ UNCHANGED <<list, root, truncated, count>>

\* resolveUser and NewSafePost for the next message.
Name ==
    /\ todo # <<>>
    /\ LET id == Head(todo)
           a  == list[id].by
       IN  \E name \in IF a \in DOMAIN cache THEN {cache[a]} ELSE {a, NoName} :
              /\ messages' = Append(messages, [id |-> id, name |-> name])
              /\ cache' = [b \in DOMAIN cache \cup {a} |-> IF b = a THEN name ELSE cache[b]]
              /\ asked' = IF a \in DOMAIN cache THEN asked ELSE [asked EXCEPT ![a] = @ + 1]
    /\ todo' = Tail(todo)
    /\ UNCHANGED <<list, root, truncated, count>>

SnapshotStep == Fetch \/ Arrange \/ Name

----------------------------------------------------------------------------
(* Properties.                                                             *)

Done == count > 0 /\ todo = <<>>
Kept == {messages[i].id : i \in DOMAIN messages}
Later(i) == {j \in DOMAIN list : list[j].at > list[i].at}

\* NewSafeThread: "the most recent MaxThreadReplies replies" and the oldest post,
\* oldest first, each once; nothing is dropped that is more recent than a message
\* kept behind the first, and nothing at all from a thread that fits.  The oldest
\* post is the root, unless a reply has the time of the root.
KeepsTheRecent ==
    Done =>
        /\ count = Len(list) /\ Len(messages) = Min({count, MaxThreadReplies + 1})
        /\ truncated <=> Len(messages) < count
        /\ \A i, j \in DOMAIN messages : i < j =>
              list[messages[i].id].at <= list[messages[j].id].at /\ messages[i].id # messages[j].id
        /\ messages[1].id = root \/ \E i \in DOMAIN list \ {root} : list[i].at = list[root].at
        /\ \A i \in DOMAIN list : list[messages[1].id].at <= list[i].at
        /\ \A i \in DOMAIN messages : i > 1 => Later(messages[i].id) \subseteq Kept

\* userFor "is invoked at most once per distinct user ID", whether it finds the user
\* or not, so one author has one name throughout a transcript.
NamesAgree ==
    /\ \A a \in Authors : asked[a] <= 1
    /\ \A i, j \in DOMAIN messages :
          list[messages[i].id].by = list[messages[j].id].by => messages[i].name = messages[j].name

----------------------------------------------------------------------------
(* The inductive invariant behind these properties.                         *)

\* The messages named so far are the first of the cut list, the rest is to do.
OrderInv ==
    /\ list = <<>> \/ list \in Threads
    /\ list # <<>> =>
          root \in DOMAIN list /\ \A i \in DOMAIN list : list[root].at <= list[i].at
    /\ count = 0 => messages = <<>> /\ todo = <<>>
    /\ count # 0 =>
          /\ list # <<>> /\ count = Len(list) /\ truncated = (count > MaxThreadReplies + 1)
          /\ messages \in Seq([id: DOMAIN list, name: Authors \cup {NoName}])
          /\ todo \in Seq(DOMAIN list)
          /\ Len(messages) + Len(todo) = Len(Cut(Sorted))
          /\ \A i \in DOMAIN messages : messages[i].id = Cut(Sorted)[i]
          /\ \A i \in DOMAIN todo : todo[i] = Cut(Sorted)[Len(messages) + i]

\* Every author asked for is remembered, found or not.
CacheInv ==
    /\ cache \in [DOMAIN cache -> Authors \cup {NoName}] /\ DOMAIN cache \subseteq Authors
    /\ asked = [a \in Authors |-> IF a \in DOMAIN cache THEN 1 ELSE 0]
    /\ list = <<>> => cache = <<>>
    /\ \A i \in DOMAIN messages :
          LET a == list[messages[i].id].by
          IN  a \in DOMAIN cache /\ messages[i].name = cache[a]

SnapshotInv == OrderInv /\ CacheInv
============================================================================
