------------------------------- MODULE History -------------------------------
(***************************************************************************)
(* The execution history (execution/store.go) in the KV store: a record per  *)
(* executed item, an index of record ids per automation and one for all, all *)
(* of them with an expiry time.  Workers save records, requests list an      *)
(* index and prune what they found expired, and the deletion of an           *)
(* automation purges its history.  The cluster mutex xh_index_mutex guards   *)
(* the read-modify-write of an index; reading one, and deleting one in a     *)
(* purge, takes no mutex.  A step is one KV call.                            *)
(***************************************************************************)
EXTENDS Naturals, FiniteSets, Sequences, Functions

CONSTANTS
    Procs,          \* workers and requests, of any node
    Ids,            \* execution records: an item and its record share the id
    Automations,
    AutomationOf,   \* the automation of each id
    All,            \* key of the global index
    Cap,            \* the size limit of each index
    TTL,            \* life of a key, in ticks
    Limit,          \* how many records a request asks for
    Repeated,       \* ids that may be saved more than once; a bound
    MaxPurges,      \* bound on the purges of each automation
    MaxLists,       \* bound on the lists at a time
    MaxTicks, MaxMishaps,   \* bounds
    Nobody            \* the free mutex, no id

Keys == Automations \cup {All}

ASSUME KeysAssumption ==
    All \notin Automations /\ AutomationOf \in [Ids -> Automations] /\ Nobody \notin Procs \cup Ids
ASSUME SizesAssumption == Cap \in [Keys -> Nat \ {0}] /\ {TTL, Limit} \subseteq Nat \ {0}

VARIABLES
    rec,    \* how long each record will live, 0 for no record
    idx,    \* the indexes, <<>> for no key
    life,   \* how long each index will live
    lock,   \* the holder of the mutex
    run,    \* what each process is doing
    log,    \* the ids that were prepended to each index, the newest first
    saves,  \* how often each id was saved
    wiped,  \* the ids that first purges deleted, no save of the automation beside them
    clean,  \* automations so purged since their last save
    purges, \* how often each automation was purged
    ticks, mishaps

historyVars == <<rec, idx, life, lock, run, log, saves, wiped, clean, ticks, purges, mishaps>>
bounds == <<ticks, purges, mishaps>>

Idle == [pc |-> "idle", id |-> Nobody, key |-> All, ids |-> <<>>, drop |-> {}, out |-> <<>>,
         want |-> {}, alone |-> FALSE]

HistoryInit ==
    /\ rec = [id \in Ids |-> 0] /\ idx = [k \in Keys |-> <<>>] /\ life = [k \in Keys |-> 0]
    /\ lock = Nobody /\ run = [p \in Procs |-> Idle]
    /\ log = [k \in Keys |-> <<>>] /\ saves = [id \in Ids |-> 0]
    /\ wiped = {} /\ clean = {}
    /\ ticks = 0 /\ purges = [a \in Automations |-> 0] /\ mishaps = 0

Once(id) == saves[id] = 1
Newest(s, n) == SubSeq(s, 1, IF n < Len(s) THEN n ELSE Len(s))

\* The ids of s that are not in S, in their order.
Without(s, S) ==
    LET kept == {n \in DOMAIN s : s[n] \notin S}
        Nth(n) == CHOOSE m \in kept : Cardinality({j \in kept : j <= m}) = n
    IN  [n \in 1..Cardinality(kept) |-> s[Nth(n)]]

Saving(p) == run[p].pc \in {"own", "own set", "all", "all set"}
SavesOf(a) == {p \in Procs : Saving(p) /\ AutomationOf[run[p].id] = a}

\* MUTANT: the index keeps the expiry time it has.
SetIndexKeepsLife(k, s) ==
    /\ idx' = [idx EXCEPT ![k] = s]
    /\ life' = [life EXCEPT ![k] = IF s = <<>> THEN 0 ELSE IF @ = 0 THEN TTL ELSE @]

\* setIndex: an empty index is deleted, another one starts a new life.
SetIndex(k, s) ==
    /\ idx' = [idx EXCEPT ![k] = s]
    /\ life' = [life EXCEPT ![k] = IF s = <<>> THEN 0 ELSE TTL]

Goto(p, pc) == run' = [run EXCEPT ![p].pc = pc, ![p].ids = <<>>]
Return(p) == run' = [run EXCEPT ![p] = Idle]

\* The critical sections: lock and read, then write and unlock.
Enter(p, k, pc) ==
    /\ lock = Nobody /\ lock' = p
    /\ run' = [run EXCEPT ![p].pc = pc, ![p].ids = idx[k]]
    /\ UNCHANGED <<rec, idx, life, log, saves, wiped, clean, bounds>>

\* An index to remove ids from turns out to be empty.
Leave(p, k, pc) ==
    /\ lock = Nobody /\ idx[k] = <<>> /\ Goto(p, pc)
    /\ UNCHANGED <<rec, idx, life, lock, log, saves, wiped, clean, bounds>>

----------------------------------------------------------------------------
(* Save.                                                                   *)

\* One worker has an item at a time; it is executed again after a restart if
\* the call that should have taken it off the queue failed.
SaveRecord(p, id) ==
    /\ run[p].pc = "idle"
    /\ \A q \in Procs : Saving(q) => run[q].id # id
    /\ \/ saves[id] = 0 /\ UNCHANGED mishaps
       \/ saves[id] > 0 /\ id \in Repeated /\ mishaps < MaxMishaps /\ mishaps' = mishaps + 1
    /\ rec' = [rec EXCEPT ![id] = TTL]
    /\ saves' = [saves EXCEPT ![id] = @ + 1]
    /\ clean' = clean \ {AutomationOf[id]}
    /\ run' = [q \in Procs |->
                 IF q = p THEN [Idle EXCEPT !.pc = "own", !.id = id]
                 ELSE [run[q] EXCEPT !.alone = @ /\ run[q].key # AutomationOf[id]]]
    /\ UNCHANGED <<idx, life, lock, log, wiped, ticks, purges>>

PrependRead(p) ==
    \/ run[p].pc = "own" /\ Enter(p, AutomationOf[run[p].id], "own set")
    \/ run[p].pc = "all" /\ Enter(p, All, "all set")

\* MUTANT: the index is not cut.
PrependUncut(s, id, n) == <<id>> \o s

Prepend(s, id, n) == Newest(<<id>> \o s, n)

PrependWrite(p) ==
    LET id == run[p].id
        k == IF run[p].pc = "own set" THEN AutomationOf[id] ELSE All
    IN  /\ run[p].pc \in {"own set", "all set"}
        /\ SetIndex(k, Prepend(run[p].ids, id, Cap[k]))
        /\ log' = [log EXCEPT ![k] = <<id>> \o @]
        /\ lock' = Nobody
        /\ IF k = All THEN Return(p) ELSE Goto(p, "all")
        /\ UNCHANGED <<rec, saves, wiped, clean, bounds>>

----------------------------------------------------------------------------
(* PurgeAutomation.                                                        *)

PurgeRead(p, a) ==
    /\ run[p].pc = "idle" /\ purges[a] < MaxPurges[a] /\ purges' = [purges EXCEPT ![a] = @ + 1]
    /\ run' = [run EXCEPT ![p] = [Idle EXCEPT !.pc = IF idx[a] = <<>> THEN "drop" ELSE "wipe",
                                              !.key = a, !.ids = idx[a], !.drop = Range(idx[a]),
                                              !.alone = SavesOf(a) = {} /\ purges[a] = 0]]
    /\ UNCHANGED <<rec, idx, life, lock, log, saves, wiped, clean, ticks, mishaps>>

PurgeRecord(p) ==
    /\ run[p].pc = "wipe"
    /\ rec' = [rec EXCEPT ![Head(run[p].ids)] = 0]
    /\ run' = [run EXCEPT ![p].ids = Tail(@), ![p].pc = IF Len(run[p].ids) = 1 THEN "strip" ELSE @]
    /\ UNCHANGED <<idx, life, lock, log, saves, wiped, clean, bounds>>

\* MUTANT: the global index keeps the ids.
PurgeStripSkip(p) ==
    /\ run[p].pc = "strip" /\ Goto(p, "drop")
    /\ UNCHANGED <<rec, idx, life, lock, log, saves, wiped, clean, bounds>>

PurgeStripRead(p) ==
    /\ run[p].pc = "strip"
    /\ IF idx[All] = <<>> THEN Leave(p, All, "drop") ELSE Enter(p, All, "strip set")

Remaining(p) == Without(run[p].ids, run[p].drop)

PurgeStripWrite(p) ==
    /\ run[p].pc = "strip set"
    /\ SetIndex(All, Remaining(p)) /\ lock' = Nobody /\ Goto(p, "drop")
    /\ UNCHANGED <<rec, log, saves, wiped, clean, bounds>>

PurgeIndex(p) ==
    /\ run[p].pc = "drop"
    /\ SetIndex(run[p].key, <<>>)
    /\ IF run[p].alone THEN clean' = clean \cup {run[p].key} /\ wiped' = wiped \cup run[p].drop
       ELSE UNCHANGED <<clean, wiped>>
    /\ Return(p)
    /\ UNCHANGED <<rec, lock, log, saves, bounds>>

----------------------------------------------------------------------------
(* ListByAutomation and ListRecent.                                        *)

\* What a request should get to see: the newest of the records that are alive,
\* among those that the index has room for.
Shown(k) ==
    LET new == Newest(log[k], Cap[k])
        alive == {n \in DOMAIN new : rec[new[n]] > 0}
    IN  {new[n] : n \in {m \in alive : Cardinality({j \in alive : j <= m}) <= Limit}}

Listing(p) == run[p].pc \in {"get", "prune", "prune set", "answer"}

ListRead(p, k) ==
    /\ run[p].pc = "idle" /\ idx[k] # <<>>
    /\ Cardinality({q \in Procs : Listing(q)}) < MaxLists
    /\ run' = [run EXCEPT ![p] = [Idle EXCEPT !.pc = "get", !.key = k, !.ids = idx[k],
                                              !.want = Shown(k)]]
    /\ UNCHANGED <<rec, idx, life, lock, log, saves, wiped, clean, bounds>>

\* MUTANT: records that are gone count.
EnoughRead(f) == Len(f.out) + Cardinality(f.drop) = Limit

Enough(f) == Len(f.out) = Limit

ListGet(p) ==
    /\ run[p].pc = "get"
    /\ LET id == Head(run[p].ids)
           found == rec[id] > 0
           next == [run[p] EXCEPT !.ids = Tail(@), !.out = IF found THEN Append(@, id) ELSE @,
                                  !.drop = IF found THEN @ ELSE @ \cup {id}]
           pc == IF next.drop = {} THEN "answer" ELSE "prune"
       IN  run' = [run EXCEPT ![p] = IF next.ids = <<>> \/ Enough(next)
                                     THEN [next EXCEPT !.pc = pc, !.ids = <<>>] ELSE next]
    /\ UNCHANGED <<rec, idx, life, lock, log, saves, wiped, clean, bounds>>

PruneRead(p) ==
    /\ run[p].pc = "prune"
    /\ IF idx[run[p].key] = <<>> THEN Leave(p, run[p].key, "answer")
       ELSE Enter(p, run[p].key, "prune set")

PruneWrite(p) ==
    /\ run[p].pc = "prune set"
    /\ SetIndex(run[p].key, Remaining(p)) /\ lock' = Nobody /\ Goto(p, "answer")
    /\ UNCHANGED <<rec, log, saves, wiped, clean, bounds>>

Answer(p) ==
    /\ run[p].pc = "answer" /\ Return(p)
    /\ UNCHANGED <<rec, idx, life, lock, log, saves, wiped, clean, bounds>>

----------------------------------------------------------------------------
(* The world.                                                              *)

Release(p) == lock' = IF lock = p THEN Nobody ELSE lock

\* A failing call ends an operation, only the two halves of Save are
\* independent and only the pruning does not matter to the answer.  A call that
\* fails after it took effect is one that succeeds before the next step fails.
Fail(p) ==
    /\ run[p].pc \notin {"idle", "answer"} /\ mishaps < MaxMishaps /\ mishaps' = mishaps + 1
    /\ Release(p)
    /\ CASE run[p].pc \in {"own", "own set"} -> Goto(p, "all")
         [] run[p].pc \in {"prune", "prune set"} -> Goto(p, "answer")
         [] OTHER -> Return(p)
    /\ UNCHANGED <<rec, idx, life, log, saves, wiped, clean, ticks, purges>>

\* The mutex of a process that is gone expires.
Crash(p) ==
    /\ run[p].pc # "idle" /\ mishaps < MaxMishaps /\ mishaps' = mishaps + 1
    /\ Release(p) /\ Return(p)
    /\ UNCHANGED <<rec, idx, life, log, saves, wiped, clean, ticks, purges>>

\* One tick less.
Less(n) == IF n = 0 THEN 0 ELSE n - 1

Expire ==
    /\ ticks < MaxTicks /\ ticks' = ticks + 1
    /\ rec' = [id \in Ids |-> Less(rec[id])]
    /\ life' = [k \in Keys |-> Less(life[k])]
    /\ idx' = [k \in Keys |-> IF life'[k] = 0 THEN <<>> ELSE idx[k]]
    /\ UNCHANGED <<lock, run, log, saves, wiped, clean, purges, mishaps>>

Steps ==
    \/ \E p \in Procs :
          \/ \E id \in Ids : SaveRecord(p, id)
          \/ \E a \in Automations : PurgeRead(p, a)
          \/ \E k \in Keys : ListRead(p, k)
          \/ PrependRead(p) \/ PrependWrite(p)
          \/ PurgeRecord(p) \/ PurgeStripRead(p) \/ PurgeStripWrite(p) \/ PurgeIndex(p)
          \/ ListGet(p) \/ PruneRead(p) \/ PruneWrite(p)
          \/ Fail(p) \/ Crash(p)
    \/ Expire

\* A list is answered at once.
HistoryNext ==
    \/ \E p \in Procs : Answer(p)
    \/ (\A p \in Procs : run[p].pc # "answer") /\ Steps

HistorySpec == HistoryInit /\ [][HistoryNext]_historyVars

----------------------------------------------------------------------------
(* Properties.                                                             *)

Locking == {"own set", "all set", "strip set", "prune set"}

\* s has some of the ids of l, in the order of l.
Subsequence(s, l) ==
    \E f \in [DOMAIN s -> DOMAIN l] :
        /\ \A i \in DOMAIN s : s[i] = l[f[i]]
        /\ \A i, j \in DOMAIN s : i < j => f[i] < f[j]

\* prependToIndex: ordered from the newest to the oldest.
IndexesNewestFirst == \A k \in Keys : Subsequence(idx[k], log[k])

\* Save, PurgeAutomation and the lists, whatever they overlap with, keep every
\* index within its size and in order; the mutex is whose critical section it is.
HistoryInv ==
    /\ IndexesNewestFirst
    /\ rec \in [Ids -> 0..TTL] /\ life \in [Keys -> 0..TTL]
    /\ \A k \in Keys :
          /\ idx[k] \in Seq(Ids) /\ Len(idx[k]) <= Cap[k]
          /\ life[k] = 0 <=> idx[k] = <<>>
    /\ \A p \in Procs : run[p].pc \in Locking <=> lock = p

\* A record whose save has gone through is found as long as it lives: whoever
\* saves, lists or prunes beside it, or purges another automation, its id stays
\* in both indexes until as many newer ones as the index has room for have
\* followed, and no index expires before its records.
LivingRecordsAreListed ==
    \A k \in Keys : \A n \in DOMAIN log[k] :
        /\ n <= Cap[k] /\ Once(log[k][n]) /\ rec[log[k][n]] > 0
        /\ k # All => purges[k] = 0
        => log[k][n] \in Range(idx[k])

\* After a first purge that no save of the automation overlapped, none of its
\* newest records is left until the next save, and nothing that the purge deleted
\* takes room in the global index.
PurgesAreThorough ==
    /\ \A a \in clean : \A id \in Range(Newest(log[a], Cap[a])) : Once(id) => rec[id] = 0
    /\ \A id \in wiped : Once(id) => id \notin Range(idx[All])

\* The index was not purged, and no id in it saved a second time.
Plain(k) == (\A id \in Range(log[k]) : Once(id)) /\ (k # All => purges[k] = 0)

\* A request gets the newest records, as many as it asked for, and the records
\* that are gone do not count.
ListsShowTheNewest ==
    \A p \in Procs :
        run[p].pc = "answer" /\ Plain(run[p].key) =>
            \A id \in run[p].want : rec[id] > 0 => id \in Range(run[p].out)

(* The inductive invariant behind these properties.                         *)

RunStates ==
    [pc : {"idle", "own", "own set", "all", "all set", "wipe", "strip", "strip set", "drop",
           "get", "prune", "prune set", "answer"},
     id : Ids \cup {Nobody}, key : Keys, ids : Seq(Ids), drop : SUBSET Ids, out : Seq(Ids),
     want : SUBSET Ids, alone : BOOLEAN]

Purging(p) == run[p].pc \in {"wipe", "strip", "strip set", "drop"}

StateInv ==
    /\ rec \in [Ids -> 0..TTL] /\ life \in [Keys -> 0..TTL]
    /\ idx \in [Keys -> Seq(Ids)] /\ log \in [Keys -> Seq(Ids)]
    /\ lock \in Procs \cup {Nobody} /\ run \in [Procs -> RunStates]
    /\ saves \in [Ids -> Nat] /\ purges \in [Automations -> Nat]
    /\ wiped \subseteq Ids /\ clean \subseteq Automations
    /\ \A p \in Procs :
          /\ run[p].pc \in Locking <=> lock = p
          /\ Saving(p) => run[p].id \in Ids
          /\ Purging(p) => run[p].key \in Automations /\ purges[run[p].key] > 0
          /\ run[p].pc \in {"wipe", "get"} => run[p].ids # <<>>

\* An id that was saved once is in each log once at most, and not before its time.
LogInv ==
    /\ \A a \in Automations : \A id \in Range(log[a]) : AutomationOf[id] = a
    /\ \A k \in Keys :
          /\ \A id \in Range(log[k]) : saves[id] > 0
          /\ \A m, n \in DOMAIN log[k] : log[k][m] = log[k][n] /\ Once(log[k][m]) => m = n
    /\ \A p \in Procs : Saving(p) =>
          LET id == run[p].id
          IN  /\ saves[id] > 0
              /\ \A q \in Procs : Saving(q) /\ run[q].id = id => q = p
              /\ Once(id) => id \notin Range(log[All])
              /\ Once(id) /\ run[p].pc \in {"own", "own set"} =>
                    id \notin Range(log[AutomationOf[id]])

\* The index that a process has its copy of.
KeyOf(p) ==
    CASE run[p].pc = "own set"   -> AutomationOf[run[p].id]
      [] run[p].pc = "prune set" -> run[p].key
      [] OTHER                   -> All

\* An index, and the copy of it in a critical section, is in order and in size; no
\* index expires before what it lists, and the copy is the index as long as that is there.
IndexInv ==
    /\ \A k \in Keys :
          /\ life[k] = 0 <=> idx[k] = <<>>
          /\ Subsequence(idx[k], log[k]) /\ Len(idx[k]) <= Cap[k]
          /\ \A id \in Range(idx[k]) : Once(id) => rec[id] <= life[k]
    /\ \A p \in Procs : lock = p =>
          /\ Subsequence(run[p].ids, log[KeyOf(p)]) /\ Len(run[p].ids) <= Cap[KeyOf(p)]
          /\ idx[KeyOf(p)] \in {<<>>, run[p].ids}

\* What a purge or a list is about to remove is gone.
DropInv ==
    /\ \A p \in Procs : Purging(p) \/ Listing(p) =>
          /\ run[p].drop \subseteq Range(log[run[p].key])
          /\ \A id \in run[p].drop :
                Once(id) => rec[id] = 0 \/ (run[p].pc = "wipe" /\ id \in Range(run[p].ids))
    /\ \A p \in Procs : run[p].pc = "wipe" => Range(run[p].ids) \subseteq run[p].drop

\* Nobody has the id, or will have it, for the global index.
Stripped(id) ==
    /\ id \notin Range(idx[All])
    /\ \A q \in Procs :
          /\ lock = q /\ KeyOf(q) = All => id \notin Range(run[q].ids)
          /\ Saving(q) => run[q].id # id

Cleared(a) == \A id \in Range(Newest(log[a], Cap[a])) : Once(id) => rec[id] = 0

PurgeInv ==
    /\ \A p \in Procs : Purging(p) /\ run[p].alone =>
          /\ SavesOf(run[p].key) = {}
          /\ IF run[p].pc = "wipe"
             THEN \A id \in Range(Newest(log[run[p].key], Cap[run[p].key])) :
                     Once(id) => rec[id] = 0 \/ id \in Range(run[p].ids)
             ELSE Cleared(run[p].key)
          /\ run[p].pc = "drop" => \A id \in run[p].drop : Once(id) => Stripped(id)
    /\ \A a \in clean : SavesOf(a) = {} /\ Cleared(a)
    /\ \A id \in wiped : saves[id] > 0 /\ (Once(id) => Stripped(id))

\* What is still to be shown is ahead, and whatever is found before it was wanted too.
Scanning(f) ==
    /\ Subsequence(f.ids, log[f.key])
    /\ \A id \in f.want : rec[id] > 0 => id \in Range(f.out) \cup Range(f.ids)
    /\ \A i, j \in DOMAIN f.ids :
          i < j /\ f.ids[j] \in f.want /\ rec[f.ids[i]] > 0 => f.ids[i] \in f.want
    /\ Range(f.ids) \cap f.want # {} => Range(f.out) \subseteq f.want
    /\ Range(f.out) \cap Range(f.ids) = {}
    /\ Cardinality(Range(f.out)) = Len(f.out) /\ Len(f.out) < Limit

ListInv ==
    \A p \in Procs : Listing(p) =>
        /\ Cardinality(run[p].want) <= Limit /\ IsFiniteSet(run[p].want)
        /\ run[p].want \cup Range(run[p].ids) \subseteq Range(log[run[p].key])
        /\ Plain(run[p].key) =>
              IF run[p].pc = "get" THEN Scanning(run[p])
              ELSE \A id \in run[p].want : rec[id] > 0 => id \in Range(run[p].out)

FullInv ==
    /\ StateInv /\ LogInv /\ IndexInv /\ LivingRecordsAreListed
    /\ DropInv /\ PurgeInv /\ ListInv
=============================================================================
