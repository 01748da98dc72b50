---------------------------- MODULE RunGate_proofs ----------------------------
(***************************************************************************)
(* Proofs about RunGate for any users, channels, teams, drafts, items, states *)
(* of the Mattermost server and numbers of changes, saves and failures.      *)
(***************************************************************************)
EXTENDS RunGate, FiniteSetTheorems, TLAPS

(***************************************************************************)
(* Types.                                                                  *)
(***************************************************************************)

\* What an automation is made of; turning it off changes nothing else.
LEMMA AutomationFields ==
    ASSUME NEW f \in Automations
    PROVE  /\ f.by \in Users /\ f.on \in ChannelTriggers \cup TeamTriggers
           /\ f.at \in Channels \cup Teams /\ f.acts \in Seq(Actions) /\ f.enabled \in BOOLEAN
           /\ f.on \in TeamTriggers <=> f.at \in Teams
           /\ f # None /\ f # Deleted
           /\ LET off == [f EXCEPT !.enabled = FALSE]
              IN  /\ off \in Automations /\ ~off.enabled
                  /\ off.by = f.by /\ off.on = f.on /\ off.at = f.at /\ off.acts = f.acts
<1> DEFINE Off(x) == [f EXCEPT !.enabled = x]
<1>1. PICK u \in Users, d \in Drafts, e \in BOOLEAN :
          f = [by |-> u, on |-> d.on, at |-> d.at, acts |-> d.acts, enabled |-> e]
  BY DEF Automations
<1>2. /\ d \in [on: ChannelTriggers \cup TeamTriggers, at: Channels \cup Teams, acts: Seq(Actions)]
      /\ d.on \in TeamTriggers <=> d.at \in Teams
  BY DraftsAssumption
<1>3. \A x \in BOOLEAN : [f EXCEPT !.enabled = x]
         = [by |-> u, on |-> d.on, at |-> d.at, acts |-> d.acts, enabled |-> x]
  BY <1>1
<1>4. \A x \in BOOLEAN : [f EXCEPT !.enabled = x] \in Automations
  <2>1. ASSUME NEW x \in BOOLEAN
        PROVE  [by |-> u, on |-> d.on, at |-> d.at, acts |-> d.acts, enabled |-> x] \in Automations
    BY DEF Automations
  <2>2. QED
    BY <1>3, <2>1
<1>5. f # None /\ f # Deleted
  BY RecordsAssumption
<1>6. \A x \in BOOLEAN : /\ Off(x) \in Automations /\ Off(x).enabled = x
                         /\ Off(x).by = f.by /\ Off(x).on = f.on
                         /\ Off(x).at = f.at /\ Off(x).acts = f.acts
  BY <1>1, <1>3, <1>4
<1>7. /\ Off(FALSE) \in Automations /\ Off(FALSE).enabled = FALSE
      /\ Off(FALSE).by = f.by /\ Off(FALSE).on = f.on
      /\ Off(FALSE).at = f.at /\ Off(FALSE).acts = f.acts
  BY <1>6, FALSE \in BOOLEAN, Zenon
<1>8. /\ f.by \in Users /\ f.on \in ChannelTriggers \cup TeamTriggers
      /\ f.at \in Channels \cup Teams /\ f.acts \in Seq(Actions) /\ f.enabled \in BOOLEAN
      /\ f.on \in TeamTriggers <=> f.at \in Teams
  BY <1>1, <1>2
<1>9. QED
  BY <1>5, <1>7, <1>8, Zenon

\* A free item, and one that has just been queued.
LEMMA QueuedStates ==
    ASSUME NEW user \in Users \cup {None}, NEW channel \in Channels \cup {None}
    PROVE  LET queued == [FreeRun EXCEPT !.pc = "queued", !.user = user, !.channel = channel]
           IN  /\ FreeRun \in RunStates /\ FreeRun.pc = "free"
               /\ queued \in RunStates /\ queued.pc = "queued" /\ queued.user = user
BY DEF FreeRun, RunStates, Checking

\* What stands against a run.
LEMMA LacksFacts ==
    ASSUME NEW w, NEW f, NEW user
    PROVE  /\ Lacks(w, f, user) \in SUBSET Reasons
           /\ "account" \in Lacks(w, f, user) <=> ~Active(w, f.by)
           /\ "permissions" \in Lacks(w, f, user) <=> ~MayManage(w, f.by, f)
           /\ "guardrails" \in Lacks(w, f, user) <=> LacksGuardrails(w, f, user)
BY DEF Lacks, Reasons

\* The action at hand is one of the automation's.
LEMMA ActionTyped ==
    ASSUME TypeOK, NEW i \in Items, CopyInv(i), Loaded(i)
    PROVE  /\ run[i].f \in Automations /\ Action(i) \in Actions
           /\ Action(i) \in Range(run[i].f.acts)
           /\ IsAI(Action(i)) => Action(i) \in Asks(run[i].f)
<1>1. run[i].f \in Automations
  BY DEF TypeOK, RunStates, CopyInv
<1>2. run[i].f.acts \in Seq(Actions) /\ run[i].at \in DOMAIN run[i].f.acts
  BY <1>1, AutomationFields DEF CopyInv
<1>3. QED
  BY <1>1, <1>2 DEF Action, Range, Asks

(***************************************************************************)
(* Steps of one item.                                                      *)
(***************************************************************************)

\* A step that moves one item, and leaves the world and the automation alone,
\* has only that item to answer for.
LEMMA OneItemMoves ==
    ASSUME GateInv, NEW i \in Items, NEW r \in RunStates,
           run' = [run EXCEPT ![i] = r], call = None,
           UNCHANGED <<world, record, call, fresh, changes, saves>>, faults' \in Nat,
           ItemInv(i)',
           Loaded(i)' => (Exists /\ r.f = record) \/ (Loaded(i) /\ r.f = run[i].f)
    PROVE  GateInv'
<1>1. TypeOK /\ RecordInv /\ CreatorInv /\ \A j \in Items : ItemInv(j)
  BY DEF GateInv
<1>2. /\ run' \in [Items -> RunStates] /\ run'[i] = r
      /\ \A j \in Items : j # i => run'[j] = run[j]
  BY <1>1 DEF TypeOK
<1>3. TypeOK'
  BY <1>1, <1>2 DEF TypeOK
<1>4. RecordInv' /\ CallInv'
  BY <1>1 DEF RecordInv, CallInv, Exists
<1>5. \A j \in Items : Loaded(j)' =>
         (Exists /\ run'[j].f = record) \/ (Loaded(j) /\ run'[j].f = run[j].f)
  BY <1>2 DEF Loaded
<1>6. CreatorInv'
  BY <1>1, <1>5 DEF CreatorInv, Exists
<1>7. ASSUME NEW j \in Items, j # i PROVE ItemInv(j)'
  BY <1>1, <1>2, <1>7 DEF ItemInv, FitInv, CopyInv, SeenInv, PromptInv, Fits, Exists, Loaded,
                         Passed, Executing, Action
<1>8. QED
  BY <1>3, <1>4, <1>6, <1>7 DEF GateInv

\* An item that is given up has nothing to answer for.
LEMMA EndKeeps ==
    ASSUME GateInv, NEW i \in Items, End(i), call = None,
           UNCHANGED <<world, record, call, fresh, changes, saves>>, faults' \in Nat
    PROVE  GateInv'
<1>1. FreeRun \in RunStates /\ FreeRun.pc = "free"
  BY DEF FreeRun, RunStates, Checking
<1>2. run'[i] = FreeRun /\ run' = [run EXCEPT ![i] = FreeRun]
  BY DEF GateInv, TypeOK, End
<1>3. ItemInv(i)' /\ ~Loaded(i)'
  BY <1>1, <1>2 DEF ItemInv, FitInv, CopyInv, SeenInv, PromptInv, Loaded, Executing, Checking
<1>4. QED
  BY <1>1, <1>2, <1>3, OneItemMoves

\* Going on to another place changes nothing else of an item.
LEMMA GotoMoves ==
    ASSUME TypeOK, NEW i \in Items,
           NEW pc \in Checking \cup {"free", "queued", "disable", "act", "completing"}, Goto(i, pc)
    PROVE  LET r == [run[i] EXCEPT !.pc = pc]
           IN  /\ r \in RunStates /\ run' = [run EXCEPT ![i] = r] /\ run'[i] = r
               /\ r.pc = pc /\ r.user = run[i].user /\ r.f = run[i].f /\ r.at = run[i].at
               /\ r.who = run[i].who /\ r.seen = run[i].seen /\ r.old = run[i].old
<1>1. run \in [Items -> RunStates] /\ run[i] \in RunStates
  BY DEF TypeOK
<1>2. [run[i] EXCEPT !.pc = pc] \in RunStates
  BY <1>1 DEF RunStates
<1>3. run' = [run EXCEPT ![i] = [run[i] EXCEPT !.pc = pc]]
  BY <1>1 DEF Goto
<1>4. QED
  BY <1>1, <1>2, <1>3 DEF RunStates

\* An item is taken up with the automation as it is.
LEMMA LoadKeeps ==
    ASSUME GateInv, NEW i \in Items, Load(i)
    PROVE  GateInv'
<1>1. /\ run[i].pc = "queued" /\ call = None
      /\ UNCHANGED <<world, record, call, fresh, changes, saves, faults>>
  BY DEF Load, Quiet
<1>2. TypeOK /\ RecordInv /\ ItemInv(i) /\ faults \in Nat /\ run[i] \in RunStates
      /\ run \in [Items -> RunStates]
  BY DEF GateInv, TypeOK
<1>3. CASE End(i)
  BY <1>1, <1>2, <1>3, EndKeeps
<1>4. CASE /\ Exists /\ record.enabled
           /\ run' = [run EXCEPT ![i].pc = "creator", ![i].f = record, ![i].at = 1,
                                 ![i].seen = {Lacks(world, record, run[i].user)}]
  <2> DEFINE now == Lacks(world, record, run[i].user)
             loaded == [run[i] EXCEPT !.pc = "creator", !.f = record, !.at = 1, !.seen = {now}]
  <2>1. record \in Automations /\ now \in SUBSET Reasons
    BY <1>2, <1>4, LacksFacts DEF TypeOK, Exists
  <2>2. record.acts \in Seq(Actions) /\ record.acts # <<>> /\ ValidActions(record) /\ record # None
    BY <1>2, <1>4, <2>1, AutomationFields DEF RecordInv, ValidActions
  <2>3. PICK r \in RunStates :
          /\ r.pc = "creator" /\ r.user = run[i].user /\ r.f = record /\ r.at = 1
          /\ r.seen = {now} /\ r.old = run[i].old
          /\ run' = [run EXCEPT ![i] = r]
    <3>1. /\ loaded \in RunStates
          /\ loaded.pc = "creator" /\ loaded.user = run[i].user /\ loaded.f = record
          /\ loaded.at = 1 /\ loaded.seen = {now} /\ loaded.old = run[i].old
      BY <1>2, <2>1 DEF RunStates, Checking
    <3>2. run' = [run EXCEPT ![i] = loaded]
      BY <1>2, <1>4
    <3> HIDE DEF loaded, now
    <3>3. QED
      BY <3>1, <3>2
  <2>4. run'[i] = r
    BY <1>2, <2>3
  <2> HIDE DEF now
  <2>5. FitInv(i)'
    BY <1>1, <1>2, <1>4, <2>3, <2>4 DEF ItemInv, FitInv, Fits, Loaded
  <2>6. CopyInv(i)'
    <3>1. 1 \in DOMAIN record.acts
      BY <2>2
    <3>2. run'[i].f = record /\ run'[i].at = 1
      BY <2>3, <2>4
    <3>3. QED
      BY <1>4, <2>2, <3>1, <3>2 DEF CopyInv
  <2>7. SeenInv(i)' /\ PromptInv(i)'
    BY <1>1, <2>3, <2>4 DEF SeenInv, PromptInv, Checking, Executing, now
  <2>8. ItemInv(i)' /\ faults' \in Nat
    BY <1>1, <1>2, <2>5, <2>6, <2>7 DEF ItemInv
  <2>9. QED
    BY <1>1, <1>4, <2>3, <2>8, OneItemMoves
<1>5. QED
  BY <1>3, <1>4 DEF Load

\* A check that was made lets the item pass to the next place or takes it to its
\* disabling.
LEMMA CheckMoves ==
    ASSUME GateInv, NEW i \in Items, call = None, run[i].pc \in Checking,
           NEW pc \in {"permissions", "guardrails", "act", "disable"}, Goto(i, pc),
           UNCHANGED <<world, record, call, fresh, changes, saves>>, faults' = faults,
           pc = "disable" => Lacks(world, run[i].f, run[i].user) # {},
           pc # "disable" => Passed(i, "account"),
           pc \in {"guardrails", "act"} => Passed(i, "permissions"),
           pc = "act" => Passed(i, "guardrails") /\ ~Foreign(run[i].f, run[i].user)
    PROVE  GateInv'
<1> DEFINE r == [run[i] EXCEPT !.pc = pc]
<1>1. TypeOK /\ ItemInv(i) /\ Loaded(i) /\ faults \in Nat
  BY DEF GateInv, TypeOK, Loaded, Checking
<1>2. /\ r \in RunStates /\ run' = [run EXCEPT ![i] = r] /\ run'[i] = r
      /\ r.pc = pc /\ r.user = run[i].user /\ r.f = run[i].f /\ r.at = run[i].at
      /\ r.seen = run[i].seen /\ r.old = run[i].old
  <2>1. pc \in Checking \cup {"free", "queued", "disable", "act", "completing"}
    BY DEF Checking
  <2>2. QED
    BY <1>1, <2>1, GotoMoves
<1> HIDE DEF r
<1>3. FitInv(i)' /\ CopyInv(i)'
  BY <1>1, <1>2 DEF ItemInv, FitInv, CopyInv, Fits, Loaded
<1>4. SeenInv(i)'
  BY <1>1, <1>2 DEF ItemInv, SeenInv, Passed, Checking, Executing, Loaded
<1>5. PromptInv(i)'
  BY <1>2 DEF PromptInv, Executing
<1>6. QED
  BY <1>1, <1>2, <1>3, <1>4, <1>5, OneItemMoves DEF ItemInv

\* A denial for want of an answer takes the item to its disabling and marks it.
LEMMA MisreadKeeps ==
    ASSUME GateInv, NEW i \in Items, MisreadRoles(i)
    PROVE  GateInv'
<1>1. TypeOK /\ ItemInv(i) /\ Loaded(i) /\ run[i] \in RunStates /\ faults' \in Nat
      /\ call = None /\ run \in [Items -> RunStates]
      /\ UNCHANGED <<world, record, call, fresh, changes, saves>>
  BY DEF GateInv, TypeOK, Loaded, MisreadRoles, Quiet, Fault
<1>2. PICK r \in RunStates :
        /\ r.pc = "disable" /\ r.user = run[i].user /\ r.f = run[i].f /\ r.at = run[i].at
        /\ r.seen = run[i].seen /\ r.misread /\ r.old = run[i].old
        /\ run' = [run EXCEPT ![i] = r]
  <2>1. PICK b \in BOOLEAN : b = TRUE
    OBVIOUS
  <2> DEFINE r == [run[i] EXCEPT !.pc = "disable", !.misread = b]
  <2>2. /\ r \in RunStates /\ r.pc = "disable" /\ r.user = run[i].user /\ r.f = run[i].f
        /\ r.at = run[i].at /\ r.seen = run[i].seen /\ r.misread = b /\ r.old = run[i].old
    BY <1>1 DEF RunStates
  <2>3. run' = [run EXCEPT ![i] = r]
    BY <1>1, <2>1 DEF MisreadRoles
  <2> HIDE DEF r
  <2>4. QED
    BY <2>1, <2>2, <2>3
<1>3. run'[i] = r
  BY <1>1, <1>2
<1>4. FitInv(i)' /\ CopyInv(i)'
  BY <1>1, <1>2, <1>3 DEF ItemInv, FitInv, CopyInv, Fits, Loaded
<1>5. SeenInv(i)' /\ PromptInv(i)'
  BY <1>1, <1>2, <1>3 DEF ItemInv, SeenInv, PromptInv, Checking, Executing, Loaded
<1>6. QED
  BY <1>1, <1>2, <1>4, <1>5, OneItemMoves DEF ItemInv

\* The checks of the creator, of the permissions and of the guardrails.
LEMMA ChecksKeep ==
    ASSUME GateInv, NEW i \in Items, CheckCreator(i) \/ CheckPermissions(i) \/ CheckGuardrails(i)
    PROVE  GateInv'
<1> DEFINE f == run[i].f
           now == Lacks(world, f, run[i].user)
<1>1. /\ TypeOK /\ ItemInv(i) /\ faults \in Nat /\ call = None /\ run[i].pc \in Checking
      /\ UNCHANGED <<world, record, call, fresh, changes, saves>>
  BY DEF GateInv, TypeOK, CheckCreator, CheckPermissions, MisreadRoles, CheckGuardrails, Check,
         Quiet, Checking
<1>2. CASE Fault /\ End(i)
  <2>1. faults' \in Nat
    BY <1>1, <1>2 DEF Fault
  <2>2. QED
    BY <1>1, <1>2, <2>1, EndKeeps
<1>3. now \in run[i].seen
  BY <1>1 DEF ItemInv, SeenInv
<1>4. CASE CheckCreator(i) /\ faults' = faults
           /\ Goto(i, IF ~Active(world, f.by) THEN "disable" ELSE "permissions")
  <2>1. CASE Active(world, f.by)
    BY <1>1, <1>3, <1>4, <2>1, LacksFacts, CheckMoves DEF Passed
  <2>2. CASE ~Active(world, f.by)
    BY <1>1, <1>3, <1>4, <2>2, LacksFacts, CheckMoves DEF Passed
  <2>3. QED
    BY <2>1, <2>2
<1>5. CASE CheckPermissions(i) /\ faults' = faults
           /\ Goto(i, IF ~MayManage(world, f.by, f) THEN "disable" ELSE "guardrails")
  <2>1. Passed(i, "account")
    BY <1>1, <1>5 DEF ItemInv, SeenInv, CheckPermissions, MisreadRoles, Check
  <2>2. CASE MayManage(world, f.by, f)
    BY <1>1, <1>3, <1>5, <2>1, <2>2, LacksFacts, CheckMoves DEF Passed
  <2>3. CASE ~MayManage(world, f.by, f)
    BY <1>1, <1>3, <1>5, <2>3, LacksFacts, CheckMoves DEF Passed
  <2>4. QED
    BY <2>2, <2>3, <1>5
<1>6. CASE CheckGuardrails(i) /\ faults' = faults
           /\ Goto(i, IF LacksGuardrails(world, f, run[i].user) THEN "disable" ELSE "act")
  <2>1. Passed(i, "account") /\ Passed(i, "permissions")
    BY <1>1, <1>6 DEF ItemInv, SeenInv, CheckGuardrails, Check
  <2>2. CASE ~LacksGuardrails(world, f, run[i].user)
    <3>1. ~Foreign(f, run[i].user)
      BY <2>2 DEF LacksGuardrails, Foreign
    <3>2. Passed(i, "guardrails")
      BY <1>3, <2>2, LacksFacts DEF Passed
    <3>3. QED
      BY <1>1, <1>6, <2>1, <2>2, <3>1, <3>2, CheckMoves
  <2>3. CASE LacksGuardrails(world, f, run[i].user)
    BY <1>1, <1>3, <1>6, <2>3, LacksFacts, CheckMoves
  <2>4. QED
    BY <2>2, <2>3
<1>7. QED
  BY <1>2, <1>4, <1>5, <1>6, MisreadKeeps DEF CheckCreator, CheckPermissions, CheckGuardrails, Check

\* The copy of the worker is put back, turned off.
LEMMA DisableKeeps ==
    ASSUME GateInv, NEW i \in Items, Disable(i)
    PROVE  GateInv'
<1> DEFINE off == [run[i].f EXCEPT !.enabled = FALSE]
<1>1. /\ TypeOK /\ RecordInv /\ CreatorInv /\ ItemInv(i) /\ Loaded(i) /\ call = None /\ call' = None
      /\ End(i) /\ UNCHANGED <<world, fresh, changes, saves>>
  BY DEF GateInv, Disable, Quiet, Loaded
<1>2. CASE record' = record /\ Fault
  <2>1. faults' \in Nat
    BY <1>1, <1>2 DEF TypeOK, Fault
  <2>2. QED
    BY <1>1, <1>2, <2>1, EndKeeps
<1>3. CASE record' = off /\ faults' = faults
  <2>1. run[i].f \in Automations /\ ValidActions(run[i].f)
    BY <1>1 DEF TypeOK, RunStates, ItemInv, CopyInv
  <2>2. /\ off \in Automations /\ ~off.enabled
        /\ off.by = run[i].f.by /\ off.acts = run[i].f.acts
    BY <2>1, AutomationFields
  <2>3. off # None /\ off # Deleted
    BY <2>2, RecordsAssumption
  <2> HIDE DEF off
  <2>4. /\ run' \in [Items -> RunStates] /\ run'[i].pc = "free"
        /\ \A j \in Items : j # i => run'[j] = run[j]
    <3>1. FreeRun \in RunStates /\ FreeRun.pc = "free"
      BY DEF FreeRun, RunStates, Checking
    <3>2. QED
      BY <1>1, <3>1 DEF TypeOK, End
  <2>5. TypeOK'
    BY <1>1, <1>3, <2>2, <2>4 DEF TypeOK
  <2>6. RecordInv'
    <3>1. ValidActions(off)
      BY <2>1, <2>2 DEF ValidActions, Asks
    <3>2. QED
      BY <1>3, <2>2, <3>1 DEF RecordInv
  <2>7. CreatorInv'
    <3>1. \A j \in Items : Loaded(j)' => Loaded(j) /\ run'[j].f = run[j].f
      BY <2>4 DEF Loaded
    <3>2. QED
      BY <1>1, <1>3, <2>2, <2>3, <3>1 DEF CreatorInv
  <2>8. ItemInv(i)'
    BY <2>4 DEF ItemInv, FitInv, CopyInv, SeenInv, PromptInv, Loaded, Executing, Checking
  <2>9. ASSUME NEW j \in Items, j # i PROVE ItemInv(j)'
    <3>1. run'[j] = run[j] /\ ItemInv(j) /\ ~record'.enabled
      BY <1>3, <2>2, <2>4, <2>9 DEF GateInv
    <3>2. FitInv(j)'
      BY <3>1 DEF ItemInv, FitInv, Fits, Loaded
    <3>3. CopyInv(j)' /\ SeenInv(j)' /\ PromptInv(j)'
      BY <1>1, <3>1 DEF ItemInv, CopyInv, SeenInv, PromptInv, Loaded, Passed, Executing, Action
    <3>4. QED
      BY <3>2, <3>3 DEF ItemInv
  <2>10. QED
    BY <1>1, <2>5, <2>6, <2>7, <2>8, <2>9 DEF GateInv, CallInv
<1>4. QED
  BY <1>2, <1>3 DEF Disable

(***************************************************************************)
(* Requests.                                                               *)
(***************************************************************************)

\* The items that wait or run are overtaken by a save; nothing else of them
\* changes, and what is stored is what was accepted.
LEMMA StoreKeeps ==
    ASSUME GateInv, NEW f \in Automations, Admissible(world, f), Store(f),
           record = None \/ (Exists /\ f.by = record.by),
           UNCHANGED <<world, changes, faults>>
    PROVE  GateInv'
<1>1. /\ TypeOK /\ CreatorInv /\ (\A i \in Items : ItemInv(i)) /\ call = None /\ call' = None
      /\ record' = f /\ fresh' = TRUE /\ saves' \in Nat /\ f # None
  BY RecordsAssumption DEF GateInv, TypeOK, Store, Quiet
<1>2. ASSUME NEW i \in Items
      PROVE  /\ run'[i] \in RunStates
             /\ run'[i].pc = run[i].pc /\ run'[i].user = run[i].user /\ run'[i].f = run[i].f
             /\ run'[i].at = run[i].at /\ run'[i].who = run[i].who /\ run'[i].seen = run[i].seen
             /\ run'[i].misread = run[i].misread
             /\ run[i].pc # "free" => run'[i].old
  <2>1. run[i] \in RunStates /\ run'[i] = [run[i] EXCEPT !.old = run[i].pc # "free"]
    BY <1>1 DEF TypeOK, Store
  <2>2. (run[i].pc # "free") \in BOOLEAN
    OBVIOUS
  <2>3. \A x \in BOOLEAN :
           LET r == [run[i] EXCEPT !.old = x]
           IN  /\ r \in RunStates /\ r.old = x
               /\ r.pc = run[i].pc /\ r.user = run[i].user /\ r.f = run[i].f
               /\ r.at = run[i].at /\ r.who = run[i].who /\ r.seen = run[i].seen
               /\ r.misread = run[i].misread
    BY <2>1 DEF RunStates
  <2>4. QED
    BY <2>1, <2>2, <2>3
<1>3. run' \in [Items -> RunStates]
  <2>1. run' = [i \in Items |-> [run[i] EXCEPT !.old = run[i].pc # "free"]]
    BY DEF Store
  <2>2. \A i \in Items : [run[i] EXCEPT !.old = run[i].pc # "free"] \in RunStates
    BY <1>2, <2>1
  <2>3. QED
    BY <2>1, <2>2, Zenon
<1>4. TypeOK'
  BY <1>1, <1>3 DEF TypeOK
<1>5. RecordInv'
  BY <1>1 DEF RecordInv, Admissible
<1>6. CreatorInv'
  BY <1>1, <1>2 DEF CreatorInv, Loaded
<1>7. ASSUME NEW i \in Items PROVE ItemInv(i)'
  <2>1. FitInv(i)'
    BY <1>2, <1>7 DEF FitInv, Loaded
  <2>2. CopyInv(i)'
    BY <1>1, <1>2, <1>7 DEF ItemInv, CopyInv, Loaded
  <2>3. SeenInv(i)'
    BY <1>1, <1>2, <1>7 DEF ItemInv, SeenInv, Loaded, Passed, Executing, Checking
  <2>4. PromptInv(i)'
    BY <1>1, <1>2, <1>7 DEF ItemInv, PromptInv, Executing, Action
  <2>5. QED
    BY <2>1, <2>2, <2>3, <2>4 DEF ItemInv
<1>8. QED
  BY <1>1, <1>4, <1>5, <1>6, <1>7 DEF GateInv, CallInv

LEMMA CreateKeeps ==
    ASSUME GateInv, NEW u \in Users, NEW d \in Drafts, Create(u, d)
    PROVE  GateInv'
<1> DEFINE f == [by |-> u, on |-> d.on, at |-> d.at, acts |-> d.acts, enabled |-> TRUE]
<1>1. f \in Automations
  <2>1. \A e \in BOOLEAN :
           [by |-> u, on |-> d.on, at |-> d.at, acts |-> d.acts, enabled |-> e] \in Automations
    BY DEF Automations
  <2>2. QED
    BY <2>1, TRUE \in BOOLEAN, Zenon
<1>2. /\ record = None /\ Admissible(world, f) /\ Store(f)
      /\ UNCHANGED <<world, changes, faults>>
  BY DEF Create
<1> HIDE DEF f
<1>3. QED
  BY <1>1, <1>2, StoreKeeps

LEMMA UpdateKeeps ==
    ASSUME GateInv, NEW u \in Users, NEW d \in Drafts, Update(u, d)
    PROVE  GateInv'
<1> DEFINE N == ChannelTriggers \cup TeamTriggers
           P == Channels \cup Teams
           S == Seq(Actions)
           E == BOOLEAN
           Fields == [by: Users, on: N, at: P, acts: S, enabled: E]
           Edited(e) ==
             [record EXCEPT !.on = d.on, !.at = d.at, !.acts = d.acts, !.enabled = e]
           Saved(e) == [by |-> record.by, on |-> d.on, at |-> d.at, acts |-> d.acts, enabled |-> e]
<1>1. PICK e \in E :
        /\ Exists /\ Admissible(world, Edited(e)) /\ Store(Edited(e))
        /\ UNCHANGED <<world, changes, faults>>
  BY DEF Update
<1>2. record \in Automations /\ record.by \in Users
  BY <1>1, AutomationFields DEF GateInv, TypeOK, Exists
<1>3. Saved(e) \in Automations
  BY <1>2 DEF Automations
<1>4. Edited(e) = Saved(e)
  <2>1. record \in Fields /\ d.on \in N /\ d.at \in P /\ d.acts \in S
    BY <1>2, DraftsAssumption DEF Automations
  <2> HIDE DEF N, P, S, E
  <2>2. /\ Edited(e) \in Fields
        /\ Edited(e).by = record.by /\ Edited(e).on = d.on /\ Edited(e).at = d.at
        /\ Edited(e).acts = d.acts /\ Edited(e).enabled = e
    BY <2>1
  <2>3. /\ Saved(e) \in Fields
        /\ Saved(e).by = record.by /\ Saved(e).on = d.on /\ Saved(e).at = d.at
        /\ Saved(e).acts = d.acts /\ Saved(e).enabled = e
    BY <1>2, <2>1
  <2> HIDE DEF Edited, Saved
  <2>4. QED
    BY <2>2, <2>3
<1>5. Saved(e).by = record.by
  OBVIOUS
<1> HIDE DEF Edited, Saved
<1>6. QED
  BY <1>1, <1>3, <1>4, <1>5, StoreKeeps

LEMMA DeleteKeeps ==
    ASSUME GateInv, NEW u \in Users, Delete(u)
    PROVE  GateInv'
<1>1. /\ TypeOK /\ CreatorInv /\ call = None /\ call' = None /\ record' = Deleted /\ Exists
      /\ UNCHANGED <<world, run, fresh, changes, saves, faults>>
  BY DEF GateInv, Delete, Quiet
<1>2. ~Exists' /\ record' # None
  <2>1. Deleted # None
    BY <1>1, RecordsAssumption DEF TypeOK, Exists
  <2>2. QED
    BY <1>1, <2>1 DEF Exists
<1>3. TypeOK'
  BY <1>1 DEF TypeOK
<1>4. RecordInv' /\ CreatorInv' /\ CallInv'
  BY <1>1, <1>2 DEF RecordInv, CreatorInv, CallInv, Loaded
<1>5. ASSUME NEW i \in Items PROVE ItemInv(i)'
  BY <1>1, <1>2 DEF GateInv, ItemInv, FitInv, CopyInv, SeenInv, PromptInv, Loaded, Passed,
                    Executing, Action, Fits
<1>6. QED
  BY <1>3, <1>4, <1>5 DEF GateInv

(***************************************************************************)
(* Events.                                                                 *)
(***************************************************************************)

\* A new item need only fit the automation it was queued for.
LEMMA EnqueueKeeps ==
    ASSUME GateInv, NEW i \in Items,
           NEW user \in Users \cup {None}, NEW channel \in Channels \cup {None},
           Enqueue(i, user, channel),
           record.on = "schedule" => user = None,
           record.on = "message_posted" => user \in Humans
    PROVE  GateInv'
<1> DEFINE queued == [FreeRun EXCEPT !.pc = "queued", !.user = user, !.channel = channel]
<1>1. queued \in RunStates /\ queued.pc = "queued" /\ queued.user = user
  BY QueuedStates
<1>2. /\ TypeOK /\ call = None
      /\ run' = [run EXCEPT ![i] = queued]
      /\ UNCHANGED <<world, record, call, fresh, changes, saves, faults>>
  BY DEF GateInv, Enqueue, Quiet
<1>3. run'[i] = queued /\ faults' \in Nat
  BY <1>2 DEF TypeOK
<1> HIDE DEF queued
<1>4. ItemInv(i)'
  BY <1>1, <1>2, <1>3 DEF ItemInv, FitInv, Fits, CopyInv, SeenInv, PromptInv, Loaded, Executing, Checking
<1>5. ~Loaded(i)'
  BY <1>1, <1>3 DEF Loaded
<1>6. QED
  BY <1>1, <1>2, <1>3, <1>4, <1>5, OneItemMoves

LEMMA EventsKeep ==
    ASSUME GateInv, NEW i \in Items,
           \/ \E u \in Users \cup {None}, c \in Channels :
                 \/ MessageHasBeenPosted(i, u, c) \/ MembershipChanged(i, u, c)
                 \/ ChannelHasBeenCreated(i, u, c)
           \/ \E c \in Channels : FireSchedule(i, c)
           \/ \E u \in Users, t \in Teams : UserHasJoinedTeam(i, u, t)
    PROVE  GateInv'
<1>1. ASSUME NEW u \in Users \cup {None}, NEW c \in Channels,
             \/ MessageHasBeenPosted(i, u, c) \/ MembershipChanged(i, u, c)
             \/ ChannelHasBeenCreated(i, u, c)
      PROVE  GateInv'
  <2>1. CASE MessageHasBeenPosted(i, u, c)
    BY <2>1, EnqueueKeeps DEF MessageHasBeenPosted, Listens
  <2>2. CASE MembershipChanged(i, u, c)
    BY <2>2, EnqueueKeeps DEF MembershipChanged, Listens
  <2>3. CASE ChannelHasBeenCreated(i, u, c)
    BY <2>3, EnqueueKeeps DEF ChannelHasBeenCreated, Listens
  <2>4. QED
    BY <1>1, <2>1, <2>2, <2>3
<1>2. ASSUME NEW c \in Channels, FireSchedule(i, c) PROVE GateInv'
  BY <1>2, EnqueueKeeps DEF FireSchedule, Listens
<1>3. ASSUME NEW u \in Users, NEW t \in Teams, UserHasJoinedTeam(i, u, t) PROVE GateInv'
  BY <1>3, EnqueueKeeps DEF UserHasJoinedTeam, Listens
<1>4. QED
  BY <1>1, <1>2, <1>3

(***************************************************************************)
(* The execution.                                                          *)
(***************************************************************************)

\* The next action, or the end after the last one.
LEMMA AdvanceKeeps ==
    ASSUME GateInv, NEW i \in Items, Executing(i), Advance(i), call = None,
           UNCHANGED <<world, record, call, fresh, changes, saves, faults>>
    PROVE  GateInv'
<1> DEFINE moved == [run[i] EXCEPT !.pc = "act", !.at = run[i].at + 1, !.who = None]
<1>1. /\ TypeOK /\ ItemInv(i) /\ Loaded(i) /\ faults' \in Nat /\ run[i] \in RunStates
      /\ run \in [Items -> RunStates]
  BY DEF GateInv, TypeOK, Executing, Loaded
<1>2. CASE End(i)
  BY <1>1, <1>2, EndKeeps
<1>3. CASE /\ run[i].at # Len(run[i].f.acts)
           /\ run' = [run EXCEPT ![i].pc = "act", ![i].at = @ + 1, ![i].who = None]
  <2>1. PICK r \in RunStates :
          /\ r.pc = "act" /\ r.user = run[i].user /\ r.f = run[i].f /\ r.at = run[i].at + 1
          /\ r.seen = run[i].seen /\ r.old = run[i].old
          /\ run' = [run EXCEPT ![i] = r]
    <3>1. /\ moved \in RunStates
          /\ moved.pc = "act" /\ moved.user = run[i].user /\ moved.f = run[i].f
          /\ moved.at = run[i].at + 1 /\ moved.seen = run[i].seen /\ moved.old = run[i].old
      <4>1. run[i].at + 1 \in Nat
        BY <1>1 DEF RunStates
      <4>2. QED
        BY <1>1, <4>1 DEF RunStates
    <3>2. run' = [run EXCEPT ![i] = moved]
      BY <1>1, <1>3
    <3> HIDE DEF moved
    <3>3. QED
      BY <3>1, <3>2
  <2>2. run'[i] = r
    BY <1>1, <2>1
  <2>3. FitInv(i)'
    BY <1>1, <2>1, <2>2 DEF ItemInv, FitInv, Loaded, Fits
  <2>4. CopyInv(i)'
    <3>1. run[i].f.acts \in Seq(Actions) /\ run[i].at \in DOMAIN run[i].f.acts
      BY <1>1, ActionTyped, AutomationFields DEF ItemInv, CopyInv
    <3>2. run[i].at + 1 \in DOMAIN run[i].f.acts
      BY <1>3, <3>1
    <3>3. QED
      BY <1>1, <2>1, <2>2, <3>2 DEF ItemInv, CopyInv, Loaded
  <2>5. SeenInv(i)'
    BY <1>1, <2>1, <2>2 DEF ItemInv, SeenInv, Loaded, Passed, Executing, Checking
  <2>6. PromptInv(i)'
    BY <1>1, <2>1, <2>2 DEF ItemInv, PromptInv, Executing
  <2>7. QED
    BY <1>1, <2>1, <2>3, <2>4, <2>5, <2>6, OneItemMoves DEF ItemInv
<1>4. QED
  BY <1>2, <1>3 DEF Advance

LEMMA ActionsKeep ==
    ASSUME GateInv, NEW i \in Items, SendMessage(i) \/ FinishPrompt(i)
    PROVE  GateInv'
<1>1. /\ Executing(i) /\ call = None /\ faults' \in Nat
      /\ UNCHANGED <<world, record, call, fresh, changes, saves, faults>>
      /\ End(i) \/ Advance(i)
  BY DEF SendMessage, FinishPrompt, Executing, Quiet, GateInv, TypeOK
<1>2. QED
  BY <1>1, EndKeeps, AdvanceKeeps

\* A prompt is sent in the name of a user it may have.
LEMMA StartPromptKeeps ==
    ASSUME GateInv, NEW i \in Items, StartPrompt(i)
    PROVE  GateInv'
<1> DEFINE f == run[i].f
           a == Action(i)
           who == Actor(f, a, run[i].user)
           asked == [run[i] EXCEPT !.pc = "completing", !.who = who]
<1>1. /\ TypeOK /\ ItemInv(i) /\ Loaded(i) /\ faults' \in Nat /\ run[i] \in RunStates
      /\ run \in [Items -> RunStates] /\ run[i].pc = "act" /\ Executing(i) /\ call = None /\ IsAI(a)
      /\ UNCHANGED <<world, record, call, fresh, changes, saves, faults>>
  BY DEF GateInv, TypeOK, StartPrompt, Executing, Loaded, Quiet
<1>2. CASE End(i)
  BY <1>1, <1>2, EndKeeps
<1>3. CASE /\ f.on \in CreatorLocked => a.as = "creator"
           /\ who \notin Bots /\ CreatorOnlyRespected(f, a)
           /\ run' = [run EXCEPT ![i].pc = "completing", ![i].who = who]
  <2>1. who \in Users
    BY <1>1, ActionTyped, AutomationFields DEF ItemInv, Actor, RunStates
  <2>2. PICK r \in RunStates :
          /\ r.pc = "completing" /\ r.user = run[i].user /\ r.f = run[i].f /\ r.at = run[i].at
          /\ r.who = who /\ r.seen = run[i].seen /\ r.old = run[i].old
          /\ run' = [run EXCEPT ![i] = r]
    <3> HIDE DEF who
    <3>1. /\ asked \in RunStates
          /\ asked.pc = "completing" /\ asked.user = run[i].user /\ asked.f = run[i].f
          /\ asked.at = run[i].at /\ asked.who = who /\ asked.seen = run[i].seen
          /\ asked.old = run[i].old
      BY <1>1, <2>1 DEF RunStates
    <3>2. run' = [run EXCEPT ![i] = asked]
      BY <1>1, <1>3
    <3> HIDE DEF asked
    <3>3. QED
      BY <3>1, <3>2
  <2>3. run'[i] = r
    BY <1>1, <2>2
  <2>4. FitInv(i)' /\ CopyInv(i)'
    BY <1>1, <2>2, <2>3 DEF ItemInv, FitInv, CopyInv, Loaded, Fits
  <2>5. SeenInv(i)'
    BY <1>1, <2>2, <2>3 DEF ItemInv, SeenInv, Loaded, Passed, Executing, Checking
  <2>6. PromptInv(i)'
    BY <1>1, <1>3, <2>1, <2>2, <2>3 DEF ItemInv, PromptInv, Executing, Action, Humans
  <2>7. QED
    BY <1>1, <2>2, <2>4, <2>5, <2>6, OneItemMoves DEF ItemInv
<1>4. QED
  BY <1>2, <1>3 DEF StartPrompt

\* The hook decides on a tool use.
LEMMA UseToolKeeps ==
    ASSUME GateInv, NEW i \in Items, NEW tool \in Tools, NEW place \in Channels \cup Teams,
           UseTool(i, tool, place)
    PROVE  GateInv'
<1> DEFINE permits == HookPermits(world, run[i].who, Action(i).id, tool, place)
<1>1. PICK v \in Verdicts :
          /\ call' = [item |-> i, tool |-> tool, place |-> place, verdict |-> v]
          /\ v = "permit" => permits
          /\ v = "refuse" => ~permits
          /\ faults' = faults \/ Fault
  BY DEF UseTool, Verdicts
<1>2. /\ TypeOK /\ faults' \in Nat
      /\ UNCHANGED <<world, record, run, fresh, changes, saves>>
      /\ run[i].pc = "completing" /\ place \in PlacesOf(tool)
      /\ tool \in Action(i).tools \cap Constrained /\ Action(i).guard # {}
  BY <1>1 DEF GateInv, TypeOK, UseTool, Fault
<1>3. call' \in Uses
  BY <1>1 DEF Uses
<1>4. TypeOK'
  BY <1>2, <1>3 DEF TypeOK
<1>5. CallInv'
  BY <1>1, <1>2 DEF CallInv, Action, HookPermits, Exists
<1>6. RecordInv' /\ CreatorInv' /\ \A j \in Items : ItemInv(j)'
  BY <1>2 DEF GateInv, RecordInv, CreatorInv, Exists, ItemInv, FitInv, CopyInv, SeenInv, PromptInv, Loaded,
              Passed, Executing, Action, Fits
<1>7. QED
  BY <1>4, <1>5, <1>6 DEF GateInv

LEMMA AnswerKeeps == GateInv /\ Answer => GateInv'
<1> SUFFICES ASSUME GateInv, Answer PROVE GateInv'
  OBVIOUS
<1>1. call' = None /\ UNCHANGED <<world, record, run, fresh, changes, saves, faults>>
  BY DEF Answer
<1>2. TypeOK' /\ CallInv'
  BY <1>1 DEF GateInv, TypeOK, CallInv
<1>3. RecordInv' /\ CreatorInv' /\ \A j \in Items : ItemInv(j)'
  BY <1>1 DEF GateInv, RecordInv, CreatorInv, Exists, ItemInv, FitInv, CopyInv, SeenInv, PromptInv, Loaded,
              Passed, Executing, Action, Fits
<1>4. QED
  BY <1>2, <1>3 DEF GateInv

(***************************************************************************)
(* The Mattermost server.                                                  *)
(***************************************************************************)

\* Whatever the server becomes, the items under check take notice.
LEMMA BecomeKeeps ==
    ASSUME GateInv, NEW w \in World, Become(w)
    PROVE  GateInv'
<1>1. /\ TypeOK /\ CreatorInv /\ (\A i \in Items : ItemInv(i)) /\ call = None /\ call' = None
      /\ world' = w /\ fresh' = FALSE /\ changes' \in Nat
      /\ UNCHANGED <<record, saves, faults>>
  BY DEF GateInv, TypeOK, Become, Quiet
<1>2. ASSUME NEW i \in Items
      PROVE  /\ run'[i] \in RunStates
             /\ run'[i].pc = run[i].pc /\ run'[i].user = run[i].user /\ run'[i].f = run[i].f
             /\ run'[i].at = run[i].at /\ run'[i].who = run[i].who /\ run'[i].old = run[i].old
             /\ run[i].seen \subseteq run'[i].seen /\ run'[i].misread = run[i].misread
             /\ run[i].pc \in Checking => Lacks(w, run[i].f, run[i].user) \in run'[i].seen
             /\ run[i].pc \notin Checking => run'[i].seen = run[i].seen
  <2> DEFINE lacks == Lacks(w, run[i].f, run[i].user)
             told == [run[i] EXCEPT !.seen = run[i].seen \cup {lacks}]
  <2>1. run[i] \in RunStates /\ lacks \in SUBSET Reasons
    BY <1>1, LacksFacts DEF TypeOK
  <2>2. run'[i] = IF run[i].pc \in Checking THEN told ELSE run[i]
    BY DEF Become
  <2> HIDE DEF lacks
  <2>3. /\ told \in RunStates
        /\ told.pc = run[i].pc /\ told.user = run[i].user /\ told.f = run[i].f
        /\ told.at = run[i].at /\ told.who = run[i].who /\ told.old = run[i].old
        /\ told.seen = run[i].seen \cup {lacks} /\ told.misread = run[i].misread
    BY <2>1 DEF RunStates
  <2> HIDE DEF told
  <2>4. CASE run[i].pc \in Checking
    BY <2>2, <2>3, <2>4 DEF lacks
  <2>5. CASE run[i].pc \notin Checking
    BY <2>1, <2>2, <2>5
  <2>6. QED
    BY <2>4, <2>5
<1>3. run' \in [Items -> RunStates]
  <2> DEFINE After(i) == IF run[i].pc \in Checking
                         THEN [run[i] EXCEPT !.seen = @ \cup {Lacks(w, run[i].f, run[i].user)}]
                         ELSE run[i]
  <2>1. run' = [i \in Items |-> After(i)]
    BY DEF Become
  <2> HIDE DEF After
  <2>2. QED
    BY <1>2, <2>1
<1>4. TypeOK'
  BY <1>1, <1>3 DEF TypeOK
<1>5. RecordInv'
  BY <1>1 DEF GateInv, RecordInv, Exists
<1>6. CreatorInv'
  BY <1>1, <1>2 DEF CreatorInv, Loaded, Exists
<1>7. ASSUME NEW i \in Items PROVE ItemInv(i)'
  <2>1. FitInv(i)'
    BY <1>1, <1>2, <1>7 DEF ItemInv, FitInv, Loaded, Fits, Exists
  <2>2. CopyInv(i)'
    BY <1>1, <1>2, <1>7 DEF ItemInv, CopyInv, Loaded
  <2>3. SeenInv(i)'
    BY <1>1, <1>2, <1>7 DEF ItemInv, SeenInv, Passed, Executing, Checking
  <2>4. PromptInv(i)'
    BY <1>1, <1>2, <1>7 DEF ItemInv, PromptInv, Executing, Action
  <2>5. QED
    BY <2>1, <2>2, <2>3, <2>4 DEF ItemInv
<1>8. QED
  BY <1>1, <1>4, <1>5, <1>6, <1>7 DEF GateInv, CallInv

LEMMA ServerKeeps ==
    ASSUME GateInv, NEW u \in Users,
           ChangeRole(u) \/ ChangeAccount(u) \/ \E c \in Channels : JoinOrLeave(u, c)
    PROVE  GateInv'
<1>1. world \in World
  BY DEF GateInv, TypeOK
<1>2. ASSUME NEW d \in Channels, NEW S \in SUBSET Users
      PROVE  /\ [world EXCEPT !.members[d] = S] \in World
             /\ [world EXCEPT !.managers[d] = S] \in World
  BY <1>1 DEF World
<1>3. ASSUME NEW t \in Teams, NEW S \in SUBSET Users
      PROVE  [world EXCEPT !.leaders[t] = S] \in World
  BY <1>1 DEF World
<1>4. ASSUME NEW S \in SUBSET Users
      PROVE  [world EXCEPT !.admins = S] \in World
  BY <1>1 DEF World
<1>5. ASSUME NEW s \in {"active", "deactivated", "deleted"}
      PROVE  [world EXCEPT !.account[u] = s] \in World
  BY <1>1 DEF World
<1>6. /\ \A d \in Channels : world.members[d] \subseteq Users /\ world.managers[d] \subseteq Users
      /\ \A t \in Teams : world.leaders[t] \subseteq Users
      /\ world.admins \subseteq Users
  BY <1>1 DEF World
<1>7. ASSUME NEW c \in Channels, JoinOrLeave(u, c) PROVE GateInv'
  <2>1. PICK S \in {world.members[c] \cup {u}, world.members[c] \ {u}} :
            Become([world EXCEPT !.members[c] = S])
    BY <1>7 DEF JoinOrLeave
  <2>2. S \in SUBSET Users
    BY <1>6
  <2>3. QED
    BY <1>2, <2>1, <2>2, BecomeKeeps
<1>8. CASE ChangeRole(u)
  <2>1. CASE \E d \in Channels, S \in {{u}, {}} :
                 Become([world EXCEPT !.managers[d] = (@ \ {u}) \cup S])
    <3>1. PICK d \in Channels, S \in {{u}, {}} :
              Become([world EXCEPT !.managers[d] = (world.managers[d] \ {u}) \cup S])
      BY <1>1, <2>1 DEF World
    <3>2. (world.managers[d] \ {u}) \cup S \in SUBSET Users
      BY <1>6
    <3>3. QED
      BY <1>2, <3>1, <3>2, BecomeKeeps
  <2>2. CASE \E t \in Teams, S \in {{u}, {}} :
                 Become([world EXCEPT !.leaders[t] = (@ \ {u}) \cup S])
    <3>1. PICK t \in Teams, S \in {{u}, {}} :
              Become([world EXCEPT !.leaders[t] = (world.leaders[t] \ {u}) \cup S])
      BY <1>1, <2>2 DEF World
    <3>2. (world.leaders[t] \ {u}) \cup S \in SUBSET Users
      BY <1>6
    <3>3. QED
      BY <1>3, <3>1, <3>2, BecomeKeeps
  <2>3. CASE \E S \in {{u}, {}} : Become([world EXCEPT !.admins = (@ \ {u}) \cup S])
    <3>1. PICK S \in {{u}, {}} : Become([world EXCEPT !.admins = (world.admins \ {u}) \cup S])
      BY <1>1, <2>3 DEF World
    <3>2. (world.admins \ {u}) \cup S \in SUBSET Users
      BY <1>6
    <3>3. QED
      BY <1>4, <3>1, <3>2, BecomeKeeps
  <2>4. QED
    BY <1>8, <2>1, <2>2, <2>3 DEF ChangeRole
<1>9. CASE ChangeAccount(u)
  <2>1. PICK s \in {"active", "deactivated", "deleted"} : Become([world EXCEPT !.account[u] = s])
    BY <1>9 DEF ChangeAccount
  <2>2. QED
    BY <1>5, <2>1, BecomeKeeps
<1>10. QED
  BY <1>7, <1>8, <1>9

(***************************************************************************)
(* The invariant.                                                          *)
(***************************************************************************)

LEMMA InitGate == Init => GateInv
<1> SUFFICES ASSUME Init PROVE GateInv
  OBVIOUS
<1>1. FreeRun \in RunStates /\ FreeRun.pc = "free"
  BY DEF FreeRun, RunStates, Checking
<1>2. \A i \in Items : run[i] = FreeRun
  BY DEF Init
<1>3. TypeOK
  <2>1. run \in [Items -> RunStates]
    BY <1>1 DEF Init
  <2>2. world \in World /\ call = None /\ record = None /\ fresh = FALSE
    BY WorldsAssumption DEF Init
  <2>3. {changes, saves, faults} \subseteq Nat
    BY DEF Init
  <2>4. QED
    BY <2>1, <2>2, <2>3 DEF TypeOK
<1>4. RecordInv /\ CreatorInv /\ CallInv
  BY <1>1, <1>2 DEF Init, RecordInv, CreatorInv, CallInv, Exists, Loaded
<1>5. \A i \in Items : ItemInv(i)
  BY <1>1, <1>2 DEF Init, ItemInv, FitInv, CopyInv, SeenInv, PromptInv, Loaded, Executing, Exists, Checking
<1>6. QED
  BY <1>3, <1>4, <1>5 DEF GateInv

LEMMA NextKeeps == GateInv /\ [Next]_vars => GateInv'
<1> SUFFICES ASSUME GateInv, [Next]_vars PROVE GateInv'
  OBVIOUS
<1>1. CASE \E u \in Users, d \in Drafts : Create(u, d) \/ Update(u, d)
  BY <1>1, CreateKeeps, UpdateKeeps
<1>2. CASE \E u \in Users : Delete(u)
  BY <1>2, DeleteKeeps
<1>3. CASE \E i \in Items, u \in Users \cup {None}, c \in Channels :
              \/ MessageHasBeenPosted(i, u, c) \/ MembershipChanged(i, u, c)
              \/ ChannelHasBeenCreated(i, u, c)
  BY <1>3, EventsKeep
<1>4. CASE \E i \in Items, c \in Channels : FireSchedule(i, c)
  BY <1>4, EventsKeep
<1>5. CASE \E i \in Items, u \in Users, t \in Teams : UserHasJoinedTeam(i, u, t)
  BY <1>5, EventsKeep
<1>6. CASE \E i \in Items :
              \/ Load(i) \/ CheckCreator(i) \/ CheckPermissions(i) \/ CheckGuardrails(i)
              \/ Disable(i) \/ SendMessage(i) \/ StartPrompt(i) \/ FinishPrompt(i)
  BY <1>6, LoadKeeps, ChecksKeep, DisableKeeps, ActionsKeep, StartPromptKeeps
<1>7. CASE \E i \in Items, t \in Tools, p \in Channels \cup Teams : UseTool(i, t, p)
  BY <1>7, UseToolKeeps
<1>8. CASE Answer
  BY <1>8, AnswerKeeps
<1>9. CASE \E u \in Humans : \/ ChangeRole(u) \/ ChangeAccount(u)
                             \/ \E c \in Channels : JoinOrLeave(u, c)
  BY <1>9, ServerKeeps DEF Humans
<1>10. CASE UNCHANGED vars
  <2>1. UNCHANGED <<world, record, run, call, fresh, changes, saves, faults>>
    BY <1>10 DEF vars
  <2>2. TypeOK' /\ RecordInv' /\ CreatorInv' /\ CallInv'
    BY <2>1 DEF GateInv, TypeOK, RecordInv, CreatorInv, CallInv, Exists, Loaded, Action, HookPermits
  <2>3. \A i \in Items : ItemInv(i)'
    BY <2>1 DEF GateInv, ItemInv, FitInv, CopyInv, SeenInv, PromptInv, Loaded, Passed, Executing,
                Action, Exists, Fits
  <2>4. QED
    BY <2>2, <2>3 DEF GateInv
<1>11. QED
  BY <1>1, <1>2, <1>3, <1>4, <1>5, <1>6, <1>7, <1>8, <1>9, <1>10 DEF Next

\* The inductive invariant: what is stored was accepted in the world as it was,
\* an item carries what was seen of its automation and its user, and a prompt
\* and its tool uses are those of the action at hand.
THEOREM GateInvHolds == Spec => []GateInv
BY InitGate, NextKeeps, PTL DEF Spec

\* TypeOK, for every value of the constants.
THEOREM GateTypesHold == Spec => []TypeOK
<1>1. GateInv => TypeOK
  BY DEF GateInv
<1>2. QED
  BY <1>1, GateInvHolds, PTL

(***************************************************************************)
(* What the worker's checks are worth.                                     *)
(***************************************************************************)

\* No execution starts unless creator, permissions and guardrails were each in
\* order at some time since the worker loaded the automation.
THEOREM RunsAlwaysEntitled == Spec => []RunsAreEntitled
<1>1. GateInv => RunsAreEntitled
  BY DEF GateInv, ItemInv, SeenInv, Passed, RunsAreEntitled
<1>2. QED
  BY <1>1, GateInvHolds, PTL

\* No automation is turned off unless something stood against the run or a look-up of
\* its creator's roles failed: no other failing look-up does it (worker.go:169-270).
THEOREM DisablingsHaveReason == Spec => []DisablingHasReason
<1>1. GateInv => DisablingHasReason
  BY DEF GateInv, ItemInv, SeenInv, DisablingHasReason
<1>2. QED
  BY <1>1, GateInvHolds, PTL

\* A finite set with two members has more than one.
LEMMA TwoMembers ==
    ASSUME NEW S, IsFiniteSet(S), NEW x \in S, NEW y \in S, x # y
    PROVE  Cardinality(S) > 1
<1>1. IsFiniteSet({x}) /\ Cardinality({x}) = 1
  BY FS_Singleton
<1>2. Cardinality({x} \cup {y}) = 2
  BY <1>1, FS_AddElement
<1>3. Cardinality({x} \cup {y}) <= Cardinality(S) /\ Cardinality(S) \in Nat
  BY FS_Subset, FS_CardinalityType, {x} \cup {y} \subseteq S
<1>4. QED
  BY <1>2, <1>3

\* Where the creator needs no guardrails for a message in the channel, the only
\* human there is the creator.
LEMMA AloneWithCreator ==
    ASSUME TypeOK, NEW f \in Automations, f.on = "message_posted",
           MayManage(world, f.by, f), ~Sensitive(world, f),
           NEW user \in Humans, user \in world.members[f.at]
    PROVE  user = f.by
<1>1. f.at \in Channels /\ f.by \in Users
  BY AutomationFields DEF TeamTriggers
<1>2. world.members[f.at] \subseteq Users
  BY <1>1 DEF TypeOK, World
<1>3. IsFiniteSet(world.members[f.at])
  BY <1>2, UsersAssumption, FS_Subset
<1>4. f.by \in world.members[f.at]
  <2>1. f.at \in References(f)
    BY <1>1 DEF References
  <2>2. QED
    BY <2>1 DEF MayManage, ManagesChannel, TeamTriggers
<1>5. Kind[f.at] \in {"private", "direct"}
  BY <1>1, PlacesAssumption DEF Sensitive
<1>6. CASE Kind[f.at] = "direct"
  BY <1>6 DEF Sensitive
<1>7. CASE Kind[f.at] = "private"
  BY <1>3, <1>4, <1>7, TwoMembers DEF Sensitive
<1>8. QED
  BY <1>5, <1>6, <1>7

\* What a save was accepted with lets an event of a member run.
LEMMA AcceptedLacksNothing ==
    ASSUME TypeOK, NEW f \in Automations, Admissible(world, f), Active(world, f.by),
           NEW user \in Users \cup {None},
           f.on = "schedule" => user = None,
           f.on = "message_posted" => user \in Humans,
           (user # None /\ f.on = "message_posted") => user \in world.members[f.at]
    PROVE  Lacks(world, f, user) = {}
<1>1. MayManage(world, f.by, f) /\ LockedToCreator(f) /\ ~LacksGuardrails(world, f, None)
  BY DEF Admissible
<1>2. ~LacksGuardrails(world, f, user)
  <2>1. SUFFICES ASSUME LacksGuardrails(world, f, user) PROVE FALSE
    OBVIOUS
  <2>2. ~Sensitive(world, f) /\ Foreign(f, user)
    BY <1>1, <2>1 DEF LacksGuardrails
  <2>3. PICK a \in Asks(f) : Unguarded(a) /\ Actor(f, a, user) # f.by
    BY <2>2 DEF Foreign
  <2>4. a.as # "creator" /\ user # None /\ user # f.by
    BY <2>3 DEF Actor
  <2>5. f.on = "message_posted"
    <3>1. f.on \in ChannelTriggers \cup TeamTriggers /\ f.on \notin CreatorLocked
      BY <1>1, <2>4, AutomationFields DEF LockedToCreator
    <3>2. QED
      BY <2>4, <3>1 DEF ChannelTriggers, TeamTriggers, CreatorLocked
  <2>6. QED
    BY <1>1, <2>2, <2>4, <2>5, AloneWithCreator
<1>3. QED
  BY <1>1, <1>2, LacksFacts DEF Reasons

\* What the requests check implies what the worker checks, if the look-ups of roles
\* are answered.
THEOREM AcceptedSavesAlwaysRun == Spec => []AcceptedSavesRun
<1>1. GateInv => AcceptedSavesRun
  <2>1. SUFFICES ASSUME GateInv, NEW i \in Items, run[i].pc = "disable", run[i].f = record,
                        fresh, ~run[i].old, ~run[i].misread, Active(world, record.by),
                        (run[i].user # None /\ record.on = "message_posted") =>
                            run[i].user \in world.members[record.at]
                 PROVE  FALSE
    BY DEF AcceptedSavesRun
  <2>2. /\ TypeOK /\ RecordInv /\ FitInv(i) /\ CopyInv(i) /\ SeenInv(i) /\ Loaded(i)
        /\ run[i] \in RunStates
    BY <2>1 DEF GateInv, ItemInv, TypeOK, Loaded
  <2>3. record \in Automations /\ record.enabled
    BY <2>1, <2>2 DEF CopyInv, RunStates
  <2>4. Admissible(world, record) /\ Fits(i, record)
    <3>1. Exists
      BY <2>3, AutomationFields DEF Exists
    <3>2. QED
      BY <2>1, <2>2, <2>3, <3>1 DEF RecordInv, FitInv
  <2>5. Lacks(world, record, run[i].user) = {}
    BY <2>1, <2>2, <2>3, <2>4, AcceptedLacksNothing DEF Fits, RunStates
  <2>6. QED
    BY <2>1, <2>2, <2>5 DEF SeenInv
<1>2. QED
  BY <1>1, GateInvHolds, PTL

(***************************************************************************)
(* In whose name, and how far.                                             *)
(***************************************************************************)

\* Neither a prompt without the guardrails it needs nor one that only its creator
\* may ask is sent in the name of another user.
THEOREM PromptsNeverBorrow == Spec => []PromptsBorrowNothing
<1>1. GateInv => PromptsBorrowNothing
  <2>1. SUFFICES ASSUME GateInv, NEW i \in Items, run[i].pc = "completing"
                 PROVE  LET f == run[i].f
                            a == Action(i)
                        IN  /\ run[i].who \in Humans
                            /\ \/ Unguarded(a) \/ f.on \in CreatorLocked
                               \/ (~run[i].old /\ a.tools \cap CreatorOnly # {})
                               => run[i].who = f.by
    BY DEF PromptsBorrowNothing
  <2> DEFINE f == run[i].f
             a == Action(i)
  <2>2. TypeOK /\ FitInv(i) /\ CopyInv(i) /\ PromptInv(i) /\ Loaded(i) /\ Executing(i)
    BY <2>1 DEF GateInv, ItemInv, Loaded, Executing
  <2>3. /\ IsAI(a) /\ run[i].who = Actor(f, a, run[i].user) /\ run[i].who \in Humans
        /\ f.on \in CreatorLocked => a.as = "creator"
        /\ CreatorOnlyRespected(f, a) /\ ~Foreign(f, run[i].user)
    BY <2>1, <2>2 DEF PromptInv
  <2>4. a \in Asks(f)
    BY <2>2, <2>3, ActionTyped
  <2>5. ASSUME Unguarded(a) PROVE run[i].who = f.by
    BY <2>3, <2>4, <2>5 DEF Foreign
  <2>6. ASSUME f.on \in CreatorLocked PROVE run[i].who = f.by
    BY <2>3, <2>6 DEF Actor
  <2>7. ASSUME ~run[i].old, a.tools \cap CreatorOnly # {} PROVE run[i].who = f.by
    <3>1. a.as = "creator" \/ f.on \in CreatorLocked \/ f.on = "schedule"
      BY <2>3, <2>7 DEF CreatorOnlyRespected, MayBorrow
    <3>2. f.on = "schedule" => run[i].user = None
      BY <2>2, <2>7 DEF FitInv, Fits
    <3>3. QED
      BY <2>3, <3>1, <3>2 DEF Actor
  <2>8. QED
    BY <2>3, <2>5, <2>6, <2>7
<1>2. QED
  BY <1>1, GateInvHolds, PTL

\* The hook, which looks for the action by its id in the automation as it is
\* stored, finds the action that executes if that is unchanged.
LEMMA HookFindsAction ==
    ASSUME GateInv, call # None, Unchanged(run[call.item].f)
    PROVE  LET f == run[call.item].f
               a == Action(call.item)
           IN  /\ call \in Uses /\ f \in Automations /\ f.by = record.by
               /\ a \in Asks(record)
               /\ \A b \in Asks(record) : b.id = a.id => b = a
<1> DEFINE i == call.item
           f == run[i].f
           a == Action(i)
<1>1. call \in Uses /\ i \in Items
  BY DEF GateInv, TypeOK, Uses
<1>2. TypeOK /\ CreatorInv /\ CopyInv(i) /\ PromptInv(i) /\ run[i].pc = "completing"
  BY <1>1 DEF GateInv, ItemInv, CallInv
<1>3. Loaded(i) /\ ValidActions(f) /\ IsAI(a)
  BY <1>2 DEF Loaded, CopyInv, PromptInv
<1>4. Exists /\ record.acts = f.acts
  BY DEF Unchanged
<1>5. f \in Automations /\ a \in Asks(f) /\ a \in Range(f.acts)
  BY <1>1, <1>2, <1>3, ActionTyped
<1>6. f.by = record.by
  BY <1>1, <1>2, <1>3, <1>4 DEF CreatorInv
<1>7. Asks(record) = Asks(f)
  BY <1>4 DEF Asks
<1>8. ASSUME NEW b \in Asks(f), b.id = a.id PROVE b = a
  <2>1. PICK m, n \in DOMAIN f.acts : b = f.acts[m] /\ a = f.acts[n]
    BY <1>5 DEF Asks, Range
  <2>2. m = n
    BY <1>3, <1>8, <2>1 DEF ValidActions
  <2>3. QED
    BY <2>1, <2>2
<1>9. QED
  BY <1>1, <1>5, <1>6, <1>7, <1>8

\* A permitted tool use stays inside the guardrails of the action that executes,
\* as long as the automation is unchanged.
THEOREM UsesAlwaysConfined == Spec => []UsesAreConfined
<1>1. GateInv => UsesAreConfined
  <2> DEFINE i == call.item
             f == run[i].f
             a == Action(i)
  <2>1. SUFFICES ASSUME GateInv, call # None, call.verdict = "permit", Unchanged(f)
                 PROVE  /\ call.place \in a.guard \cup {TeamOf[c] : c \in a.guard}
                                  \cup {f.at} \cup {TeamOf[c] : c \in {f.at} \cap Channels}
                        /\ call.place \in Channels => call.place \in a.guard
    BY DEF UsesAreConfined
  <2>2. /\ call \in Uses /\ f \in Automations
        /\ \A b \in Asks(record) : b.id = a.id => b = a
    BY <2>1, HookFindsAction
  <2>3. /\ HookPermits(world, run[i].who, a.id, call.tool, call.place)
        /\ call.place \in PlacesOf(call.tool)
    BY <2>1 DEF GateInv, CallInv
  <2>4. Before(record, a, call.tool, call.place)
    BY <2>2, <2>3 DEF HookPermits
  <2>5. record.at = f.at
    BY <2>1 DEF Unchanged
  <2>6. CASE call.tool \in OnChannel /\ call.place \in a.guard
    BY <2>6
  <2>7. CASE call.tool \in OnTeam /\ call.place \in AllowedTeams(record, a)
    <3>1. call.place \in Teams
      BY <2>3, <2>7 DEF PlacesOf
    <3>2. call.place \notin Channels
      BY <3>1, PlacesAssumption
    <3>3. call.place \in {TeamOf[c] : c \in a.guard}
                           \cup {IF f.at \in Channels THEN TeamOf[f.at] ELSE f.at}
      BY <2>5, <2>7 DEF AllowedTeams
    <3>4. CASE f.at \in Channels
      BY <3>2, <3>3, <3>4
    <3>5. CASE f.at \notin Channels
      BY <3>2, <3>3, <3>5
    <3>6. QED
      BY <3>4, <3>5
  <2>8. QED
    BY <2>4, <2>6, <2>7 DEF Before
<1>2. QED
  BY <1>1, GateInvHolds, PTL

\* Executor and hook agree on who may ask.
THEOREM UsesAlwaysServed == Spec => []UsesAreServed
<1>1. GateInv => UsesAreServed
  <2> DEFINE i == call.item
             f == run[i].f
             a == Action(i)
             who == run[i].who
  <2>1. SUFFICES ASSUME GateInv, call # None, call.tool \in OnChannel, call.place \in a.guard,
                        Unchanged(f),
                        who = f.by \/ (f.on = "message_posted" /\ who \in world.members[f.at])
                 PROVE  call.verdict # "refuse"
    BY DEF UsesAreServed
  <2>2. call \in Uses /\ i \in Items /\ f.by = record.by /\ a \in Asks(record)
    BY <2>1, HookFindsAction DEF Uses
  <2>3. /\ run[i].pc = "completing" /\ a.guard # {} /\ call.tool \in a.tools
        /\ who = Actor(f, a, run[i].user)
    BY <2>1, <2>2 DEF GateInv, CallInv, ItemInv, PromptInv
  <2>4. Exists /\ record.on = f.on /\ record.at = f.at
    BY <2>1 DEF Unchanged
  <2>5. MayCall(world, who, record, a)
    BY <2>1, <2>2, <2>3, <2>4 DEF Actor, MayCall, CanTrigger
  <2>6. call.tool \in AllowedTools /\ Before(record, a, call.tool, call.place)
    BY <2>1 DEF AllowedTools, Constrained, Before
  <2>7. HookPermits(world, who, a.id, call.tool, call.place)
    BY <2>2, <2>3, <2>4, <2>5, <2>6 DEF HookPermits
  <2>8. QED
    BY <2>1, <2>7 DEF GateInv, CallInv
<1>2. QED
  BY <1>1, GateInvHolds, PTL
=============================================================================
