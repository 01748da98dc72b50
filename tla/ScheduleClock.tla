---------------------------- MODULE ScheduleClock ----------------------------
(***************************************************************************)
(* When a scheduled automation runs: the wait function of                    *)
(* automation/schedule.go in the loop of the cluster package's jobs.  Every   *)
(* node has a job of its own, made from the record as it was when the node    *)
(* activated or handled an update; the jobs share a mutex and the time the    *)
(* last run finished.  The automation is enabled all the time; ScheduleManager *)
(* shows how jobs come and go with it.                                       *)
(*                                                                         *)
(* Times are kept relative to now and cut at the longest interval.  A job      *)
(* takes no time next to an interval, of an hour at least, so the clock        *)
(* stands still while a job is awake.                                        *)
(***************************************************************************)
EXTENDS Naturals, FiniteSets

CONSTANTS
    Nodes,
    Longest,    \* the longest interval, in ticks
    MaxStart,   \* how far ahead start_at may be, in ticks
    MaxEdits,   \* bound on updates
    MaxFaults,  \* bound on failing calls and crashes
    None

ASSUME LongestAssumption == Longest \in Nat \ {0}
ASSUME ClockBoundsAssumption == MaxStart \in Nat /\ MaxEdits \in Nat /\ MaxFaults \in Nat

Intervals == 1..Longest
Starts == 0..MaxStart

VARIABLES
    rec,       \* interval, and ticks until start_at, 0 when it is past or not set
    job,       \* the job of each node
    age,       \* ticks since LastFinished in the shared metadata
    quiet,     \* ticks since a job last fired
    unsaved,   \* a job fired and its metadata were not saved
    edits, faults

bounds == <<edits, faults>>
vars == <<rec, job, age, quiet, unsaved, bounds>>

Jobs == [interval : Intervals, start : Starts, wait : 0..(Longest + MaxStart),
         pc : {"sleep", "fire", "save"}]

ASSUME NoneAssumption == None \notin Jobs

Start(r) == [interval |-> r.interval, start |-> r.start, wait |-> 0, pc |-> "sleep"]

Has(n) == job[n] # None
At(n, pc) == Has(n) /\ job[n].pc = pc
Awake(n) == Has(n) /\ (job[n].pc # "sleep" \/ job[n].wait = 0)

Fault == faults < MaxFaults /\ faults' = faults + 1

\* MUTANT: the rest of the interval is a tick short.
WaitShort(j, a) ==
    IF j.start > 0 THEN j.start ELSE IF a + 1 < j.interval THEN j.interval - a - 1 ELSE 0

\* MUTANT: an interval is waited for even when it is over.
WaitAnew(j, a) == IF j.start > 0 THEN j.start ELSE j.interval

\* makeScheduleWaitInterval on top of MakeWaitForInterval.
Wait(j, a) ==
    IF j.start > 0 THEN j.start ELSE IF a < j.interval THEN j.interval - a ELSE 0

Init ==
    /\ rec \in [interval : Intervals, start : {0}]
    /\ job = [n \in Nodes |-> None]
    /\ age = Longest /\ quiet = Longest
    /\ unsaved = FALSE
    /\ edits = 0 /\ faults = 0

----------------------------------------------------------------------------
(* Requests and nodes.                                                     *)

\* An update of the schedule restarts the job of this node, which is closed
\* between two runs.
Update(n, i, s) ==
    /\ edits < MaxEdits /\ edits' = edits + 1
    /\ Has(n) => At(n, "sleep")
    /\ rec' = [interval |-> i, start |-> s]
    /\ job' = [job EXCEPT ![n] = Start(rec')]
    /\ UNCHANGED <<age, quiet, unsaved, faults>>

\* ScheduleManager.Start.
Activate(n) ==
    /\ ~Has(n) /\ job' = [job EXCEPT ![n] = Start(rec)]
    /\ UNCHANGED <<rec, age, quiet, unsaved, bounds>>

\* ScheduleManager.Stop waits for a run to end.
Deactivate(n) ==
    /\ At(n, "sleep") /\ job' = [job EXCEPT ![n] = None]
    /\ UNCHANGED <<rec, age, quiet, unsaved, bounds>>

\* The node ends in the middle of a run.
Crash(n) ==
    /\ Has(n) /\ ~At(n, "sleep") /\ Fault
    /\ job' = [job EXCEPT ![n] = None]
    /\ unsaved' = (unsaved \/ At(n, "save"))
    /\ UNCHANGED <<rec, age, quiet, edits>>

----------------------------------------------------------------------------
(* The loop of a job.                                                      *)

\* The wait is over and the mutex is free: with the metadata of all nodes the
\* job looks again whether it is time.  Unreadable metadata are read again.
Wake(n) ==
    /\ At(n, "sleep") /\ job[n].wait = 0
    /\ \A m \in Nodes : Has(m) => At(m, "sleep")
    /\ \/ /\ UNCHANGED faults
          /\ LET w == Wait(job[n], age)
             IN  job' = IF w > 0 THEN [job EXCEPT ![n].wait = w] ELSE [job EXCEPT ![n].pc = "fire"]
       \/ Fault /\ UNCHANGED job
    /\ UNCHANGED <<rec, age, quiet, unsaved, edits>>

\* fireSchedule; an item that cannot be queued is only logged.
Fire(n) ==
    /\ At(n, "fire")
    /\ job' = [job EXCEPT ![n].pc = "save"]
    /\ quiet' = 0
    /\ Fault \/ UNCHANGED faults
    /\ UNCHANGED <<rec, age, unsaved, edits>>

\* LastFinished is saved, or only known to this job.
Save(n) ==
    /\ At(n, "save")
    /\ job' = [job EXCEPT ![n].pc = "sleep", ![n].wait = Wait(job[n], 0)]
    /\ \/ age' = 0 /\ unsaved' = FALSE /\ UNCHANGED faults
       \/ Fault /\ age' \in {age, 0} /\ unsaved' = TRUE
    /\ UNCHANGED <<rec, quiet, edits>>

Less(k) == IF k > 0 THEN k - 1 ELSE 0
More(k) == IF k < Longest THEN k + 1 ELSE Longest

Tick ==
    /\ \A n \in Nodes : ~Awake(n)
    /\ rec' = [rec EXCEPT !.start = Less(@)]
    /\ job' = [n \in Nodes |-> IF Has(n) THEN [job[n] EXCEPT !.wait = Less(@), !.start = Less(@)]
                               ELSE None]
    /\ age' = More(age) /\ quiet' = More(quiet)
    /\ UNCHANGED <<unsaved, bounds>>

JobStep(n) == Wake(n) \/ Fire(n) \/ Save(n)

Next ==
    \/ \E n \in Nodes :
          \/ JobStep(n) \/ Activate(n) \/ Deactivate(n) \/ Crash(n)
          \/ \E i \in Intervals, s \in Starts : Update(n, i, s)
    \/ Tick

Spec == Init /\ [][Next]_vars

\* Time passes, however often nodes come and go, and the jobs of living nodes go
\* on.
FairSpec == Spec /\ SF_vars(Tick) /\ \A n \in Nodes : WF_vars(JobStep(n))

----------------------------------------------------------------------------
(* Properties.                                                             *)

TypeOK ==
    /\ rec \in [interval : Intervals, start : Starts]
    /\ job \in [Nodes -> Jobs \cup {None}]
    /\ age \in 0..Longest /\ quiet \in 0..Longest
    /\ unsaved \in BOOLEAN
    /\ edits \in 0..MaxEdits /\ faults \in 0..MaxFaults

\* cluster.Job: one run at a time in the whole cluster.
OneRunAtATime ==
    \A n, m \in Nodes : n # m /\ Has(n) /\ Has(m) /\ ~At(n, "sleep") => At(m, "sleep")

\* Between two runs the shared metadata are as young as the last run, unless
\* they could not be saved, and never younger.
MetadataTellRuns ==
    /\ quiet <= age
    /\ IF \E n \in Nodes : At(n, "save") THEN quiet = 0 ELSE unsaved \/ age = quiet

\* What a job that is about to fire has found out still holds.
ReadyToFire ==
    \A n \in Nodes : At(n, "fire") => job[n].start = 0 /\ age >= job[n].interval

\* No job oversleeps: neither its start_at nor the end of its interval.
WakesInTime ==
    \A n \in Nodes : At(n, "sleep") =>
        job[n].wait <= IF job[n].start > 0 THEN job[n].start
                       ELSE IF quiet < job[n].interval THEN job[n].interval - quiet ELSE 0

ClockInv == TypeOK /\ OneRunAtATime /\ MetadataTellRuns /\ ReadyToFire /\ WakesInTime

Fires(n) == At(n, "fire") /\ At(n, "save")'

\* makeScheduleWaitInterval, cluster.Job: however many nodes have a job of the
\* automation, a run keeps the interval of its job from the run before, on
\* whatever node that was, and waits for the job's start_at; only metadata that
\* were not saved can bring it forward.
RunsAreSpaced ==
    [][\A n \in Nodes : Fires(n) =>
          job[n].start = 0 /\ (quiet >= job[n].interval \/ unsaved)]_vars

\* No job lets its interval pass without a run, after failed runs, restarts and
\* updates too.
RunsAreOnTime ==
    [][Tick => \A n \in Nodes : Has(n) /\ job[n].start = 0 => quiet < job[n].interval]_vars

\* A node that stays keeps the schedule going.
KeepsFiring ==
    \A n \in Nodes : <>[]Has(n) => []<><<\E m \in Nodes : Fires(m)>>_vars
============================================================================
