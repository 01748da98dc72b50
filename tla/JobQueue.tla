------------------------------ MODULE JobQueue ------------------------------
(***************************************************************************)
(* What the persistent queue of server/workqueue promises its callers, with *)
(* no keys, indexes or mutex: jobs wait in line, are started first come     *)
(* first served, are worked on by one worker at a time and are finished by  *)
(* that worker.  A mishap (a failing KV call or a crash) may part a job     *)
(* from its worker, or lose it; a restart puts parted jobs back in line.    *)
(***************************************************************************)
EXTENDS Naturals, Sequences, FiniteSets

CONSTANTS Jobs

VARIABLES
    phase,    \* where each job stands
    line,     \* the waiting jobs, next one first
    mishaps   \* failures and crashes so far

jobVars == <<phase, line, mishaps>>

Phases == {"new", "waiting", "active", "orphaned", "done", "lost"}

InPhase(p) == {j \in Jobs : phase[j] = p}

Move(S, p) == phase' = [j \in Jobs |-> IF j \in S THEN p ELSE phase[j]]

JobInit == phase = [j \in Jobs |-> "new"] /\ line = <<>> /\ mishaps = 0

Submit(j) ==
    /\ phase[j] = "new"
    /\ Move({j}, "waiting")
    /\ line' = Append(line, j)
    /\ UNCHANGED mishaps

StartNext(j) ==
    /\ line # <<>> /\ j = Head(line)
    /\ Move({j}, "active")
    /\ line' = Tail(line)
    /\ UNCHANGED mishaps

Finish(j) ==
    /\ phase[j] = "active"
    /\ Move({j}, "done")
    /\ UNCHANGED <<line, mishaps>>

\* The worker a job was parted from may try once more to finish it.
FinishAgain(j) ==
    /\ phase[j] = "orphaned"
    /\ Move({j}, "done")
    /\ UNCHANGED <<line, mishaps>>

\* Orphans rejoin the line behind the jobs already waiting.
Recover(s) ==
    /\ s # <<>>
    /\ {s[k] : k \in DOMAIN s} \subseteq InPhase("orphaned")
    /\ \A j, k \in DOMAIN s : s[j] = s[k] => j = k
    /\ Move({s[k] : k \in DOMAIN s}, "waiting")
    /\ line' = line \o s
    /\ UNCHANGED mishaps

\* l lists the jobs of S, each once.
InLineOnce(l, S) ==
    /\ l \in Seq(Jobs)
    /\ {l[k] : k \in DOMAIN l} = S
    /\ \A k, m \in DOMAIN l : l[k] = l[m] => k = m

Ahead(i, j, l) == \E k, m \in DOMAIN l : k < m /\ l[k] = i /\ l[m] = j

\* A mishap may fall on the delivery or on the recovery of a job, or on the
\* report that it is finished; jobs that stay in line keep their order.
Mishap ==
    /\ mishaps' = mishaps + 1
    /\ \A j \in Jobs : phase'[j] # phase[j] =>
          \/ phase[j] = "new" /\ phase'[j] = "waiting"
          \/ phase[j] = "waiting" /\ phase'[j] \in {"lost", "orphaned"}
          \/ phase[j] = "active" /\ phase'[j] \in {"orphaned", "done"}
          \/ phase[j] = "orphaned" /\ phase'[j] \in {"waiting", "lost", "done"}
    /\ DOMAIN phase' = Jobs
    /\ InLineOnce(line', InPhase("waiting")')
    /\ \A i, j \in InPhase("waiting") \cap InPhase("waiting")' :
          Ahead(i, j, line) => Ahead(i, j, line')

JobNext ==
    \/ \E j \in Jobs : Submit(j) \/ StartNext(j) \/ Finish(j) \/ FinishAgain(j)
    \/ \E s \in UNION {[1..n -> Jobs] : n \in 1..Cardinality(Jobs)} : Recover(s)
    \/ Mishap

JobSpec == JobInit /\ [][JobNext]_jobVars
============================================================================
