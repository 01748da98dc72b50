------------------------ MODULE ScheduleClock_proofs ------------------------
(***************************************************************************)
(* ClockInv is inductive as it stands: a job wakes in time because it knows    *)
(* of no run older than the last one, and fires in time because what it knows  *)
(* is the last run or a run whose metadata were not saved.                    *)
(***************************************************************************)
EXTENDS ScheduleClock, TLAPS

USE DEF Jobs, Intervals, Starts, bounds, Has, At, Awake, Fault

(* The wait is a number and is over exactly when a run is due. *)
LEMMA WaitIsDue ==
    ASSUME NEW j \in Jobs, NEW a \in 0..Longest
    PROVE  /\ Wait(j, a) \in 0..(Longest + MaxStart)
           /\ Wait(j, a) = 0 => j.start = 0 /\ a >= j.interval
           /\ j.start > 0 => Wait(j, a) = j.start
           /\ j.start = 0 /\ a < j.interval => Wait(j, a) = j.interval - a
           /\ j.start = 0 /\ a >= j.interval => Wait(j, a) = 0
  BY LongestAssumption, ClockBoundsAssumption DEF Wait

LEMMA StartIsAsleep ==
    ASSUME NEW r \in [interval : Intervals, start : Starts]
    PROVE  Start(r) \in Jobs /\ Start(r).pc = "sleep" /\ Start(r).wait = 0
  BY LongestAssumption, ClockBoundsAssumption DEF Start

LEMMA InitClock == Init => ClockInv
  <1> SUFFICES ASSUME Init PROVE ClockInv
    OBVIOUS
  <1>1. TypeOK
    <2>1. rec \in [interval : Intervals, start : Starts] /\ Longest \in 0..Longest
      BY LongestAssumption, ClockBoundsAssumption DEF Init
    <2>2. edits \in 0..MaxEdits /\ faults \in 0..MaxFaults
      BY ClockBoundsAssumption DEF Init
    <2>3. age \in 0..Longest /\ quiet \in 0..Longest
      BY <2>1 DEF Init
    <2> QED BY <2>1, <2>2, <2>3 DEF Init, TypeOK
  <1>2. \A n \in Nodes : ~Has(n)
    BY DEF Init
  <1>3. MetadataTellRuns
    <2>1. age = quiet /\ quiet <= age
      BY LongestAssumption DEF Init
    <2> QED BY <1>2, <2>1 DEF MetadataTellRuns
  <1>4. OneRunAtATime /\ ReadyToFire /\ WakesInTime
    BY <1>2 DEF OneRunAtATime, ReadyToFire, WakesInTime
  <1> QED BY <1>1, <1>3, <1>4 DEF ClockInv

(* A job that begins anew, or none, in the place of one between two runs. *)
LEMMA JobsComeAndGo ==
    ASSUME ClockInv, NEW n \in Nodes, Has(n) => At(n, "sleep"),
           NEW j \in Jobs \cup {None},
           j # None => j.pc = "sleep" /\ j.wait = 0,
           job' = [job EXCEPT ![n] = j],
           rec' \in [interval : Intervals, start : Starts],
           edits' \in 0..MaxEdits,
           UNCHANGED <<age, quiet, unsaved, faults>>
    PROVE  ClockInv'
  <1> USE DEF ClockInv
  <1>1. TypeOK'
    BY DEF TypeOK
  <1>2. \A m \in Nodes : m # n => job'[m] = job[m]
    BY DEF TypeOK
  <1>3. job'[n] = j
    BY DEF TypeOK
  <1>4. OneRunAtATime'
    BY <1>2, <1>3 DEF OneRunAtATime
  <1>5. MetadataTellRuns'
    <2>1. \A m \in Nodes : At(m, "save") <=> At(m, "save")'
      BY <1>2, <1>3
    <2> QED BY <2>1 DEF MetadataTellRuns
  <1>6. ReadyToFire'
    BY <1>2, <1>3 DEF ReadyToFire
  <1>7. WakesInTime'
    <2> SUFFICES ASSUME NEW m \in Nodes, At(m, "sleep")'
                 PROVE  job'[m].wait <=
                          IF job'[m].start > 0 THEN job'[m].start
                          ELSE IF quiet < job'[m].interval THEN job'[m].interval - quiet ELSE 0
      BY DEF WakesInTime
    <2>1. job'[m] \in Jobs
      BY <1>1 DEF TypeOK
    <2>2. CASE m = n
      BY <1>1, <1>3, <2>1, <2>2, LongestAssumption, ClockBoundsAssumption DEF TypeOK
    <2>3. CASE m # n
      BY <1>2, <2>3 DEF WakesInTime
    <2> QED BY <2>2, <2>3
  <1> QED BY <1>1, <1>4, <1>5, <1>6, <1>7

LEMMA UpdateKeepsClock ==
    ASSUME ClockInv, NEW n \in Nodes, NEW i \in Intervals, NEW s \in Starts, Update(n, i, s)
    PROVE  ClockInv'
  <1>1. rec' \in [interval : Intervals, start : Starts]
    BY DEF Update
  <1>2. edits' \in 0..MaxEdits
    BY ClockBoundsAssumption DEF Update, ClockInv, TypeOK
  <1>3. /\ UNCHANGED <<age, quiet, unsaved, faults>>
        /\ job' = [job EXCEPT ![n] = Start(rec')] /\ (Has(n) => At(n, "sleep"))
    BY DEF Update
  <1>4. Start(rec') \in Jobs \cup {None} /\ Start(rec').pc = "sleep" /\ Start(rec').wait = 0
    BY <1>1, StartIsAsleep
  <1> HIDE DEF Jobs, Intervals, Starts
  <1> QED BY <1>1, <1>2, <1>3, <1>4, JobsComeAndGo

LEMMA ActivateKeepsClock ==
    ASSUME ClockInv, NEW n \in Nodes, Activate(n) \/ Deactivate(n)
    PROVE  ClockInv'
  <1>1. /\ rec' \in [interval : Intervals, start : Starts]
        /\ edits' \in 0..MaxEdits
        /\ rec \in [interval : Intervals, start : Starts]
    BY DEF Activate, Deactivate, ClockInv, TypeOK
  <1>2. CASE Activate(n)
    BY <1>1, <1>2, StartIsAsleep, JobsComeAndGo DEF Activate
  <1>3. CASE Deactivate(n)
    BY <1>1, <1>3, JobsComeAndGo DEF Deactivate
  <1> QED BY <1>2, <1>3

LEMMA CrashKeepsClock ==
    ASSUME ClockInv, NEW n \in Nodes, Crash(n)
    PROVE  ClockInv'
  <1> USE DEF ClockInv
  <1>1. TypeOK'
    BY ClockBoundsAssumption DEF Crash, TypeOK
  <1>2. (\A m \in Nodes : m # n => job'[m] = job[m]) /\ job'[n] = None
    BY DEF Crash, TypeOK
  <1>3. OneRunAtATime' /\ ReadyToFire' /\ WakesInTime'
    BY <1>2 DEF Crash, OneRunAtATime, ReadyToFire, WakesInTime
  <1>4. MetadataTellRuns'
    <2>1. CASE At(n, "save")
      <3>1. unsaved' /\ \A m \in Nodes : ~At(m, "save")'
        BY <1>2, <2>1 DEF Crash, OneRunAtATime, TypeOK
      <3> QED BY <3>1 DEF MetadataTellRuns, Crash
    <2>2. CASE ~At(n, "save")
      <3>1. \A m \in Nodes : At(m, "save") <=> At(m, "save")'
        BY <1>2, <2>2
      <3> QED BY <2>2, <3>1 DEF MetadataTellRuns, Crash
    <2> QED BY <2>1, <2>2
  <1> QED BY <1>1, <1>3, <1>4

LEMMA WakeKeepsClock ==
    ASSUME ClockInv, NEW n \in Nodes, Wake(n)
    PROVE  ClockInv'
  <1> USE DEF ClockInv
  <1> DEFINE w == Wait(job[n], age)
  <1>1. job[n] \in Jobs /\ age \in 0..Longest /\ quiet \in 0..Longest
    BY DEF TypeOK, Wake
  <1>2. w \in 0..(Longest + MaxStart)
    BY <1>1, WaitIsDue
  <1>3. /\ UNCHANGED <<rec, age, quiet, unsaved, edits>>
        /\ faults' \in 0..MaxFaults
        /\ \/ UNCHANGED job
           \/ w > 0 /\ job' = [job EXCEPT ![n].wait = w]
           \/ w = 0 /\ job' = [job EXCEPT ![n].pc = "fire"]
    BY <1>2, ClockBoundsAssumption DEF Wake, TypeOK
  <1>4. TypeOK'
    BY <1>1, <1>2, <1>3 DEF TypeOK
  <1>5. /\ \A m \in Nodes : m # n => job'[m] = job[m]
        /\ \A m \in Nodes : Has(m) => At(m, "sleep")
        /\ \A m \in Nodes : ~At(m, "save")'
        /\ \A m \in Nodes : m # n => ~At(m, "fire")'
    BY <1>1, <1>3 DEF TypeOK, Wake
  <1>6. OneRunAtATime'
    BY <1>5 DEF OneRunAtATime
  <1>7. MetadataTellRuns'
    BY <1>3, <1>5 DEF MetadataTellRuns
  <1>8. ReadyToFire'
    <2> SUFFICES ASSUME At(n, "fire")' PROVE job'[n].start = 0 /\ age' >= job'[n].interval
      BY <1>5 DEF ReadyToFire
    <2>0. ~At(n, "fire")
      BY <1>5
    <2>1. w = 0 /\ job' = [job EXCEPT ![n].pc = "fire"]
      <3>1. ~(UNCHANGED job)
        BY <2>0
      <3>2. job' # [job EXCEPT ![n].wait = w]
        <4> SUFFICES ASSUME job' = [job EXCEPT ![n].wait = w] PROVE FALSE
          OBVIOUS
        <4>1. job'[n].pc = job[n].pc
          BY <1>1 DEF TypeOK
        <4>2. Has(n)
          BY DEF Wake
        <4> QED BY <2>0, <4>1, <4>2
      <3> QED BY <1>3, <3>1, <3>2
    <2>2. job[n].start = 0 /\ age >= job[n].interval
      BY <1>1, <2>1, WaitIsDue
    <2> QED BY <1>1, <1>3, <2>1, <2>2 DEF TypeOK
  <1>9. WakesInTime'
    <2>1. ASSUME At(n, "sleep")', w > 0, job' = [job EXCEPT ![n].wait = w]
          PROVE  job'[n].wait <=
                   IF job'[n].start > 0 THEN job'[n].start
                   ELSE IF quiet < job'[n].interval THEN job'[n].interval - quiet ELSE 0
      <3>1. job'[n].wait = w /\ job'[n].start = job[n].start /\ job'[n].interval = job[n].interval
        BY <1>1, <2>1 DEF TypeOK
      <3>2. quiet <= age
        BY DEF MetadataTellRuns
      <3>3. CASE job[n].start > 0
        BY <1>1, <3>1, <3>3, WaitIsDue
      <3>4. CASE ~(job[n].start > 0)
        <4>1. job[n].start = 0 /\ job[n].interval \in Nat
          BY <1>1, <3>4, LongestAssumption, ClockBoundsAssumption
        <4>2. age < job[n].interval /\ w = job[n].interval - age
          BY <1>1, <4>1, <2>1, WaitIsDue
        <4> QED BY <1>1, <3>1, <3>2, <4>1, <4>2
      <3> QED BY <3>3, <3>4
    <2>2. CASE UNCHANGED job
      BY <1>3, <2>2 DEF WakesInTime
    <2>3. CASE w > 0 /\ job' = [job EXCEPT ![n].wait = w]
      BY <1>3, <1>5, <2>1, <2>3 DEF WakesInTime
    <2>4. CASE w = 0 /\ job' = [job EXCEPT ![n].pc = "fire"]
      <3>1. ~At(n, "sleep")'
        BY <1>1, <2>4 DEF TypeOK
      <3> QED BY <1>3, <1>5, <3>1 DEF WakesInTime
    <2> QED BY <1>3, <2>2, <2>3, <2>4
  <1> QED BY <1>4, <1>6, <1>7, <1>8, <1>9

LEMMA FireKeepsClock ==
    ASSUME ClockInv, NEW n \in Nodes, Fire(n)
    PROVE  ClockInv'
  <1> USE DEF ClockInv
  <1>1. job[n] \in Jobs /\ quiet \in 0..Longest /\ age \in 0..Longest
    BY DEF TypeOK, Fire
  <1>2. TypeOK'
    BY <1>1, ClockBoundsAssumption, LongestAssumption DEF TypeOK, Fire
  <1>3. /\ \A m \in Nodes : m # n => job'[m] = job[m]
        /\ job'[n].pc = "save" /\ job'[n] \in Jobs
        /\ \A m \in Nodes \ {n} : Has(m) => At(m, "sleep")
    BY <1>1 DEF TypeOK, Fire, OneRunAtATime
  <1>4. OneRunAtATime' /\ ReadyToFire'
    BY <1>3 DEF OneRunAtATime, ReadyToFire
  <1>5. MetadataTellRuns'
    <2>1. At(n, "save")'
      BY <1>3, NoneAssumption
    <2> QED BY <1>1, <2>1 DEF MetadataTellRuns, Fire
  <1>6. WakesInTime'
    <2> SUFFICES ASSUME NEW m \in Nodes, m # n, At(m, "sleep")
                 PROVE  job[m].wait <=
                          IF job[m].start > 0 THEN job[m].start
                          ELSE IF 0 < job[m].interval THEN job[m].interval - 0 ELSE 0
      BY <1>3 DEF WakesInTime, Fire
    <2>1. job[m] \in Jobs
      BY DEF TypeOK
    <2> QED BY <1>1, <2>1, LongestAssumption, ClockBoundsAssumption DEF WakesInTime
  <1> QED BY <1>2, <1>4, <1>5, <1>6

LEMMA SaveKeepsClock ==
    ASSUME ClockInv, NEW n \in Nodes, Save(n)
    PROVE  ClockInv'
  <1> USE DEF ClockInv
  <1> DEFINE w == Wait(job[n], 0)
  <1>1. job[n] \in Jobs /\ quiet = 0 /\ age \in 0..Longest /\ 0 \in 0..Longest
    BY LongestAssumption DEF TypeOK, Save, MetadataTellRuns
  <1>2. w \in 0..(Longest + MaxStart)
    BY <1>1, WaitIsDue
  <1>3. job' = [job EXCEPT ![n].pc = "sleep", ![n].wait = w]
    BY DEF Save
  <1>4. /\ age' \in {age, 0} /\ unsaved' \in BOOLEAN /\ (unsaved' \/ age' = 0)
        /\ UNCHANGED <<rec, quiet, edits>> /\ faults' \in 0..MaxFaults
    <2>1. CASE age' = 0 /\ unsaved' = FALSE /\ UNCHANGED faults
      BY <2>1 DEF Save, TypeOK
    <2>2. CASE Fault /\ age' \in {age, 0} /\ unsaved' = TRUE
      BY <2>2, ClockBoundsAssumption DEF Save, TypeOK
    <2> QED BY <2>1, <2>2 DEF Save
  <1>5. TypeOK'
    BY <1>1, <1>2, <1>3, <1>4 DEF TypeOK
  <1>6. /\ \A m \in Nodes : m # n => job'[m] = job[m]
        /\ job'[n].pc = "sleep" /\ job'[n].wait = w
        /\ job'[n].start = job[n].start /\ job'[n].interval = job[n].interval
        /\ \A m \in Nodes \ {n} : Has(m) => At(m, "sleep")
    BY <1>1, <1>3 DEF TypeOK, Save, OneRunAtATime
  <1>7. \A m \in Nodes : ~At(m, "save")' /\ ~At(m, "fire")'
    BY <1>6
  <1>8. OneRunAtATime' /\ ReadyToFire'
    BY <1>6, <1>7 DEF OneRunAtATime, ReadyToFire
  <1>9. MetadataTellRuns'
    BY <1>1, <1>4, <1>7 DEF MetadataTellRuns
  <1>10. WakesInTime'
    <2>1. w <= IF job[n].start > 0 THEN job[n].start
               ELSE IF quiet < job[n].interval THEN job[n].interval - quiet ELSE 0
      <3>1. CASE job[n].start > 0
        BY <1>1, <3>1, WaitIsDue
      <3>2. CASE ~(job[n].start > 0)
        <4>1. job[n].start = 0 /\ job[n].interval > 0
          BY <1>1, <3>2, LongestAssumption, ClockBoundsAssumption
        <4>2. w = job[n].interval - 0
          BY <1>1, <4>1, WaitIsDue
        <4> QED BY <1>1, <4>1, <4>2
      <3> QED BY <3>1, <3>2
    <2> QED BY <1>4, <1>6, <2>1 DEF WakesInTime
  <1> QED BY <1>5, <1>8, <1>9, <1>10

LEMMA TickKeepsClock ==
    ASSUME ClockInv, Tick
    PROVE  ClockInv'
  <1> USE DEF ClockInv, Less, More
  <1>0. /\ rec.start \in Nat /\ rec.start <= MaxStart /\ rec.interval \in 1..Longest
        /\ age \in 0..Longest /\ quiet \in 0..Longest
        /\ \A n \in Nodes : Has(n) => job[n] \in Jobs
    BY ClockBoundsAssumption DEF TypeOK
  <1>2. \A n \in Nodes : Has(n) => job[n] \in Jobs /\ job[n].pc = "sleep" /\ job[n].wait > 0
    <2> SUFFICES ASSUME NEW n \in Nodes, Has(n)
                 PROVE  job[n] \in Jobs /\ job[n].pc = "sleep" /\ job[n].wait > 0
      OBVIOUS
    <2>1. job[n] \in Jobs /\ job[n].pc = "sleep" /\ job[n].wait # 0
      BY <1>0 DEF Tick
    <2> QED BY <2>1, LongestAssumption, ClockBoundsAssumption
  <1>1. TypeOK'
    <2>1. rec' \in [interval : Intervals, start : Starts]
      <3>1. Less(rec.start) \in Starts
        BY <1>0, ClockBoundsAssumption
      <3> QED BY <3>1 DEF Tick, TypeOK
    <2>2. job' \in [Nodes -> Jobs \cup {None}]
      <3> SUFFICES ASSUME NEW n \in Nodes, Has(n)
                   PROVE  [job[n] EXCEPT !.wait = Less(@), !.start = Less(@)] \in Jobs
        BY DEF Tick, TypeOK
      <3>1. job[n] \in Jobs
        BY <1>0
      <3>2. /\ Less(job[n].wait) \in 0..(Longest + MaxStart)
            /\ Less(job[n].start) \in Starts
        BY <3>1, LongestAssumption, ClockBoundsAssumption
      <3> QED BY <3>1, <3>2
    <2>3. age' \in 0..Longest /\ quiet' \in 0..Longest
      <3>1. age' = More(age) /\ quiet' = More(quiet)
        BY DEF Tick
      <3> QED BY <1>0, <3>1, LongestAssumption
    <2> QED BY <2>1, <2>2, <2>3 DEF TypeOK, Tick
  <1>3. \A n \in Nodes :
           job'[n] = IF Has(n) THEN [job[n] EXCEPT !.wait = Less(@), !.start = Less(@)] ELSE None
    BY DEF Tick
  <1>4. \A n \in Nodes : ~At(n, "save")' /\ ~At(n, "fire")' /\ ~At(n, "save")
    BY <1>2, <1>3
  <1>5. OneRunAtATime' /\ ReadyToFire'
    BY <1>2, <1>3, <1>4 DEF OneRunAtATime, ReadyToFire
  <1>6. MetadataTellRuns'
    <2>1. /\ quiet <= age /\ (unsaved \/ age = quiet)
          /\ age' = More(age) /\ quiet' = More(quiet) /\ unsaved' = unsaved
      BY <1>4 DEF MetadataTellRuns, Tick
    <2>2. quiet' <= age'
      BY <1>0, <2>1, LongestAssumption
    <2> QED BY <1>4, <2>1, <2>2 DEF MetadataTellRuns
  <1>7. WakesInTime'
    <2> SUFFICES ASSUME NEW n \in Nodes, At(n, "sleep")'
                 PROVE  (job[n].wait - 1) <=
                          IF Less(job[n].start) > 0 THEN Less(job[n].start)
                          ELSE IF More(quiet) < job[n].interval THEN job[n].interval - More(quiet)
                          ELSE 0
      BY <1>2, <1>3 DEF WakesInTime, Tick
    <2>1. Has(n) /\ job[n] \in Jobs /\ job[n].pc = "sleep" /\ job[n].wait > 0
      BY <1>2, <1>3
    <2>2. job[n].wait <= IF job[n].start > 0 THEN job[n].start
                         ELSE IF quiet < job[n].interval THEN job[n].interval - quiet ELSE 0
      BY <2>1 DEF WakesInTime
    <2>3. /\ quiet \in 0..Longest /\ job[n].wait \in Nat /\ job[n].start \in Nat
          /\ job[n].interval \in 1..Longest
      BY <2>1, LongestAssumption, ClockBoundsAssumption DEF TypeOK
    <2> QED BY <2>1, <2>2, <2>3, LongestAssumption
  <1> QED BY <1>1, <1>5, <1>6, <1>7

LEMMA NextClock == ClockInv /\ [Next]_vars => ClockInv'
  <1> SUFFICES ASSUME ClockInv, [Next]_vars PROVE ClockInv'
    OBVIOUS
  <1>1. ASSUME NEW n \in Nodes, JobStep(n) PROVE ClockInv'
    BY <1>1, WakeKeepsClock, FireKeepsClock, SaveKeepsClock DEF JobStep
  <1>2. ASSUME NEW n \in Nodes, Activate(n) \/ Deactivate(n) PROVE ClockInv'
    BY <1>2, ActivateKeepsClock
  <1>3. ASSUME NEW n \in Nodes, Crash(n) PROVE ClockInv'
    BY <1>3, CrashKeepsClock
  <1>4. ASSUME NEW n \in Nodes, NEW i \in Intervals, NEW s \in Starts, Update(n, i, s)
        PROVE  ClockInv'
    BY <1>4, UpdateKeepsClock
  <1>5. CASE Tick
    BY <1>5, TickKeepsClock
  <1>6. CASE UNCHANGED vars
    BY <1>6 DEF vars, ClockInv, TypeOK, OneRunAtATime, MetadataTellRuns, ReadyToFire, WakesInTime
  <1> QED BY <1>1, <1>2, <1>3, <1>4, <1>5, <1>6 DEF Next

(* makeScheduleWaitInterval, cluster.Job: on any number of nodes and for any    *)
(* intervals, one run at a time, shared metadata that tell of the last run or   *)
(* an older one, and no job that sleeps through the end of its interval.       *)
THEOREM ClockInvHolds == Spec => []ClockInv
  BY InitClock, NextClock, PTL DEF Spec

(* makeScheduleWaitInterval: a run keeps its interval from the last run on any  *)
(* node, unless metadata were not saved, and never comes before start_at.      *)
THEOREM RunsKeepTheirDistance == Spec => RunsAreSpaced
  <1>1. ClockInv => \A n \in Nodes : Fires(n) =>
            job[n].start = 0 /\ (quiet >= job[n].interval \/ unsaved)
    <2> SUFFICES ASSUME ClockInv, NEW n \in Nodes, At(n, "fire")
                 PROVE  job[n].start = 0 /\ (quiet >= job[n].interval \/ unsaved)
      BY DEF Fires
    <2>1. \A m \in Nodes : ~At(m, "save")
      BY DEF ClockInv, OneRunAtATime
    <2> QED BY <2>1 DEF ClockInv, ReadyToFire, MetadataTellRuns
  <1> QED BY <1>1, ClockInvHolds, PTL DEF RunsAreSpaced

(* makeScheduleWaitInterval: time does not pass the end of an interval without  *)
(* a run where a job is there to see it.                                      *)
THEOREM RunsComeInTime == Spec => RunsAreOnTime
  <1>1. ClockInv => (Tick => \A n \in Nodes : Has(n) /\ job[n].start = 0 => quiet < job[n].interval)
    <2> SUFFICES ASSUME ClockInv, Tick, NEW n \in Nodes, Has(n), job[n].start = 0
                 PROVE  quiet < job[n].interval
      OBVIOUS
    <2>1. job[n] \in Jobs /\ At(n, "sleep") /\ job[n].wait > 0
      <3>1. job[n] \in Jobs
        BY DEF ClockInv, TypeOK
      <3>2. job[n].pc = "sleep" /\ job[n].wait # 0
        BY DEF Tick
      <3> QED BY <3>1, <3>2, LongestAssumption, ClockBoundsAssumption
    <2>2. job[n].wait <= IF quiet < job[n].interval THEN job[n].interval - quiet ELSE 0
      BY <2>1 DEF ClockInv, WakesInTime
    <2> QED BY <2>1, <2>2, LongestAssumption, ClockBoundsAssumption DEF ClockInv, TypeOK
  <1> QED BY <1>1, ClockInvHolds, PTL DEF RunsAreOnTime
============================================================================
