--------------------------- MODULE RootStopProofs ---------------------------
(***************************************************************************)
(* Proofs about RootStop, for any number of Stops, turns and revisions:    *)
(* the system implements RootAdmission, no turn of the worker escapes a    *)
(* committed Stop, a Stop reaches no other turn than its own, and the      *)
(* local control agrees with the database.                                 *)
(***************************************************************************)
EXTENDS RootStop, RootAdmissionProofs

Places ==
    {"Start", "Leased", "Planned", "Admitted", "Published", "Renewing", "Gate", "GateStopped",
     "Building", "Adopting", "Running", "Committing", "Resolving", "Stopping", "Settling",
     "Failing", "Finishing", "Completed", "Ended"}

StopPlaces ==
    {"Idle", "Select", "Validate", "Request", "Local", "LocalScope", "Terminal", "Commit",
     "Release", "Exact", "SealExact", "Wake"}

Causes == {"Stopped", "Failed", "Superseded"}

(* Every variable of the system has its type.                              *)
SysTypeOK ==
    /\ pc \in Places
    /\ turn \in 0 .. MaxTurn
    /\ retained \in BOOLEAN /\ lost \in BOOLEAN
    /\ deferred \in {"None"} \cup Causes
    /\ cause \in {"None"} \cup Causes
    /\ control \in {"None", "Open", "Committing", "Sealed"} \cup Causes
    /\ beat \in {"Off", "Read", "Seal", "Commit", "Cancel", "Done"}
    /\ lock \in {"Free", "Worker", "Other"}
    /\ at \in [Stopper -> StopPlaces]
    /\ target \in [Stopper -> Receipt \cup {None}]

row == <<used, latest, revision, running, request, outcome>>

(* The session's row: ids are given out once, an interrupt request is one  *)
(* of the running turn, which is the latest and has no terminal yet.       *)
RowOK ==
    /\ used \in 0 .. MaxTurn /\ latest \in 0 .. MaxTurn
    /\ running \in 0 .. MaxTurn /\ request \in 0 .. MaxTurn
    /\ revision \in 0 .. MaxRevision
    /\ outcome \in [Turn -> {"None", "Completed", "Failed", "Interrupted"}]
    /\ turn <= used /\ running <= used
    /\ request \in {NoTurn, running}
    /\ running # NoTurn => outcome[running] = "None" /\ latest = running /\ revision >= 1
    /\ lock = "Other" => running # NoTurn
    /\ \A t \in Turn : t > used => outcome[t] = "None"

(* A turn that was asked to stop, or ended without success: it will never  *)
(* be completed.                                                           *)
Doomed(t) == t # NoTurn /\ (request = t \/ outcome[t] \in {"Interrupted", "Failed"})

(* The worker's turn does not run, or was asked to stop.                   *)
Covered == running = turn /\ running # NoTurn => request = turn

Owns == {"Admitted", "Published", "Renewing", "Gate", "GateStopped", "Building", "Adopting",
         "Running", "Committing", "Stopping", "Settling"}

(* From its admission to its terminal the worker's turn is the running one *)
(* and the worker holds the session.                                       *)
WorkerOwns ==
    /\ pc \in Owns => lock = "Worker" /\ running = turn /\ turn # NoTurn
    /\ pc \in {"Leased", "Planned"} => lock = "Worker"
    /\ pc \in {"Resolving", "Finishing"} => lock = "Worker" /\ turn # NoTurn
    /\ pc = "Resolving" => running = NoTurn
    /\ pc = "Finishing" => running \in {NoTurn, turn}
    /\ pc = "Planned" => turn # NoTurn /\ running # turn /\ outcome[turn] = "None"
    /\ pc \in {"Planned", "Admitted"} <=> guard[Worker] # None
    /\ pc \in {"Planned", "Admitted"} => guard[Worker].turn = turn
    /\ running = turn /\ running # NoTurn /\ pc # "Admitted" => last_admitted = Receipts(turn)

Beating == {"Renewing", "Running", "Committing", "Resolving", "Stopping", "Finishing"}

(* The heartbeat is at work only in its turn, and on its way to a local    *)
(* Stop only when the turn was asked to stop.                              *)
BeatOwned ==
    /\ beat \in {"Read", "Seal", "Commit", "Cancel"} => pc \in Beating
    /\ beat = "Commit" => ~MustWait(Heartbeat)
    /\ beat \in {"Seal", "Commit", "Cancel"} => Doomed(turn)

(* What the control of the worker's turn says of the database.             *)
ControlOK ==
    /\ retained <=> control # "None"
    /\ retained => /\ turn # NoTurn
                   /\ last_admitted # None
                   /\ last_admitted.turn = turn \/ outcome[last_admitted.turn] = "Completed"
    /\ pc \in {"Start", "Leased", "Planned"} /\ retained => control = "Open"
    /\ pc \in {"Start", "Leased"} /\ retained => outcome[turn] = "Completed"
    /\ pc \in {"Building", "Adopting"} => ~retained
    /\ pc \in {"Committing", "Resolving"} <=> control = "Committing"
    /\ pc = "Resolving" => outcome[turn] \in {"Completed", "Interrupted"}
    /\ pc \in {"Finishing", "Completed"} /\ outcome[turn] = "Completed" => control = "Sealed"
    /\ pc = "Completed" => outcome[turn] = "Completed"
    /\ control = "Sealed" => outcome[turn] = "Completed"
    /\ control = "Stopped" => Doomed(turn)
    /\ deferred # "None" => control = "Committing"
    /\ deferred = "Stopped" => Doomed(turn)

Known == {"Validate", "Request", "Local", "LocalScope", "Terminal", "Commit"}

(* A Stop of the scope holds the seal and knows its target from Validate   *)
(* on; the turn it is about to cancel is doomed, and the worker's turn is  *)
(* covered when it is about to commit.                                     *)
StopOK(s) ==
    /\ at[s] \in Known \cup {"Select"} => stop[s] # None
    /\ at[s] \in Known => ~MustWait(s)
    /\ at[s] = "Local" => last_admitted = None \/ Doomed(last_admitted.turn)
    /\ at[s] \in {"LocalScope", "Terminal", "Commit"} => Covered
    /\ at[s] \in {"Exact", "SealExact", "Wake"} => target[s] # None
    /\ at[s] \in {"SealExact", "Wake"} => Doomed(target[s].turn)

StopsOK ==
    /\ \A s \in Stopper : StopOK(s)
    /\ StopCommitted => pending = None /\ Covered

SInv == IInv /\ SysTypeOK /\ RowOK /\ WorkerOwns /\ BeatOwned /\ ControlOK /\ StopsOK

-----------------------------------------------------------------------------
(* The tasks of the system are callers of RootAdmission.                   *)
LEMMA Tasks ==
    /\ Worker \in Admitter /\ Worker \in Caller /\ Chat \in Session
    /\ Heartbeat \in Coordinator /\ Heartbeat \notin Stopper
    /\ Stopper \subseteq Coordinator
BY WorkerAssumption DEF Stopper, Caller

LEMMA SInvInit == SysInit => SInv
<1>. SUFFICES ASSUME SysInit PROVE SInv
  OBVIOUS
<1>1. IInv
  BY IInvInit DEF SysInit
<1>2. SysTypeOK
  <2>1. /\ retained \in BOOLEAN /\ lost \in BOOLEAN
        /\ target \in [Stopper -> Receipt \cup {None}]
        /\ at \in [Stopper -> StopPlaces]
    BY DEF SysInit, StopPlaces
  <2>2. pc \in Places /\ turn \in 0 .. MaxTurn
    BY BoundAssumption DEF SysInit, Places, NoTurn
  <2>. QED
    BY <2>1, <2>2 DEF SysInit, SysTypeOK, Causes
<1>3. RowOK
  BY BoundAssumption, TurnAssumption DEF SysInit, RowOK, NoTurn
<1>4. WorkerOwns
  BY Tasks DEF SysInit, Init, WorkerOwns, Owns
<1>5. BeatOwned /\ ControlOK /\ StopsOK
  BY DEF SysInit, Init, BeatOwned, ControlOK, StopsOK, StopOK, StopCommitted, Known
<1>. QED
  BY <1>1, <1>2, <1>3, <1>4, <1>5 DEF SInv

-----------------------------------------------------------------------------
(* The scope is reclassified, or left alone.                               *)
LEMMA ScopeStep ==
    ASSUME NEW why, CancelScope(why) \/ CancelOwn(why), UNCHANGED AdmissionRest
    PROVE  reclassify \/ UNCHANGED vars
<1>1. CancelScope(why) \/ UNCHANGED scope
  BY DEF CancelOwn
<1>2. scope' = scope \/ (scope = "Open" /\ scope' = "Cancelled")
  BY <1>1 DEF CancelScope
<1>. QED
  BY <1>2 DEF reclassify, AdmissionRest, vars

(* No admission is pending when the heartbeat seals the scope.             *)
LEMMA NothingPending ==
    ASSUME SInv, pc \notin {"Planned", "Admitted"}
    PROVE  pending = None /\ guard[Worker] = None
<1>1. guard[Worker] = None
  BY DEF SInv, WorkerOwns
<1>. QED
  BY <1>1, WorkerAssumption DEF SInv, IInv, GuardOwnsPlan

LEMMA WorkerRefines == ASSUME SInv, WorkerStep PROVE [Next]_vars
<1>. USE Tasks
<1>1. CASE plan_turn
  <2>1. used < MaxTurn => used + 1 \in Turn
    BY BoundAssumption, TurnAssumption DEF SInv, RowOK
  <2>. QED
    BY <1>1, <2>1 DEF plan_turn, Next, AdmitterStep
<1>2. CASE publish_receipt
  <2>1. revision \in Revision
    BY <1>2, BoundAssumption, TurnAssumption
       DEF publish_receipt, Step, SInv, RowOK, WorkerOwns, Owns
  <2>. QED
    BY <1>2, <2>1 DEF publish_receipt, Next, AdmitterStep
<1>3. CASE admission_refused
  BY <1>3 DEF admission_refused, Next, AdmitterStep
<1>4. CASE enter_gate
  <2>1. guard[Worker] = None
    BY <1>4, NothingPending DEF enter_gate, Step
  <2>. QED
    BY <1>4, <2>1 DEF enter_gate, Next, AdmitterStep, wait_resolution
<1>5. CASE stop_gate
  BY <1>5 DEF stop_gate, Next, AdmitterStep, wait_resolution
<1>6. CASE classify_run_error
  BY <1>6, ScopeStep DEF classify_run_error, Next
<1>. QED
  BY <1>1, <1>2, <1>3, <1>4, <1>5, <1>6
     DEF WorkerStep, acquire_process_lease, admit_turn, first_renewal, first_renewal_fails,
         test_scope, adopt_scope, begin_success_commit, leave_loop, settle_success,
         abandon_success, resolve_success, settle_stopped, settle_fails, finish, continue_root

LEMMA BeatRefines == ASSUME SInv, heartbeat_due \/ BeatStep PROVE [Next]_vars
<1>. USE Tasks
<1>1. CASE seal_from_request
  BY <1>1 DEF seal_from_request, Next, CoordinatorStep
<1>2. CASE commit_from_request
  <2>1. ~MustWait(Heartbeat)
    BY <1>2 DEF commit_from_request, SInv, BeatOwned
  <2>. QED
    BY <1>2, <2>1
       DEF commit_from_request, Next, CoordinatorStep, commit_root_admission_stop_seal
<1>3. CASE cancel_from_request
  BY <1>3, ScopeStep DEF cancel_from_request, Next
<1>4. CASE renew_lease
  <2>1. UNCHANGED AdmissionRest /\ (CancelOwn("Superseded") \/ UNCHANGED scope)
    BY <1>4 DEF renew_lease
  <2>2. CASE UNCHANGED scope
    BY <2>1, <2>2 DEF AdmissionRest, vars
  <2>. QED
    BY <2>1, <2>2, ScopeStep DEF Next
<1>. QED
  BY <1>1, <1>2, <1>3, <1>4 DEF heartbeat_due, BeatStep, heartbeat_fails

LEMMA StopRefines == ASSUME SInv, NEW s \in Stopper, StopStep(s) PROVE [Next]_vars
<1>. USE Tasks
<1>1. CASE commit_stop(s)
  <2>1. ~MustWait(s)
    BY <1>1 DEF commit_stop, Go, SInv, StopsOK, StopOK, Known
  <2>. QED
    BY <1>1, <2>1 DEF commit_stop, Next, CoordinatorStep, commit_root_admission_stop_seal
<1>2. CASE cancel_scope(s)
  BY <1>2, ScopeStep DEF cancel_scope, Next
<1>3. CASE select_target(s) \/ release_stop(s) \/ seal_scope(s) \/ seal_exact(s)
  BY <1>3 DEF select_target, release_stop, seal_scope, seal_exact, Next, CoordinatorStep
<1>. QED
  BY <1>1, <1>2, <1>3
     DEF StopStep, validate, request_interrupt, cancel_turn, no_tree, nothing_to_cancel,
         capture_turn, request_exact, wake_exact

(* Every step of the system is a step of RootAdmission or none of it.      *)
LEMMA StepRefines == SInv /\ [SysNext]_svars => [Next]_vars
<1>. SUFFICES ASSUME SInv, [SysNext]_svars PROVE [Next]_vars
  OBVIOUS
<1>1. CASE \/ other_run \/ other_end \/ recover_expired \/ recover_orphaned \/ rollback_session
           \/ lease_expires \/ UNCHANGED svars
  BY <1>1 DEF lease_expires, other_run, other_end, recover_expired, recover_orphaned, Recover,
              rollback_session, svars
<1>2. CASE publish_token \/ \E w \in Caller : announce(w)
  BY <1>2 DEF publish_token, announce, Next
<1>. QED
  BY <1>1, <1>2, WorkerRefines, BeatRefines, StopRefines DEF SysNext

-----------------------------------------------------------------------------
(* What a step may do to the session's row.                                *)
RowPlans == used < MaxTurn /\ used' = used + 1 /\ UNCHANGED <<latest, revision, running, request, outcome>>

RowAdmits(t) ==
    /\ running = NoTurn
    /\ t \in 1 .. MaxTurn /\ outcome[t] = "None"
    /\ used' \in 0 .. MaxTurn /\ used' >= used /\ t <= used'
    /\ revision < MaxRevision /\ revision' = revision + 1
    /\ latest' = t /\ running' = t
    /\ UNCHANGED <<request, outcome>>

RowRecords == running # NoTurn /\ request' = running /\ UNCHANGED <<used, latest, revision, running, outcome>>

RowEnds ==
    /\ running # NoTurn
    /\ \E result \in {"Completed", "Failed", "Interrupted"} :
          /\ request = running => result # "Completed"
          /\ outcome' = [outcome EXCEPT ![running] = result]
    /\ running' = NoTurn /\ request' = NoTurn
    /\ UNCHANGED <<used, latest, revision>>

RowRolls ==
    /\ running = NoTurn
    /\ latest' \in 0 .. MaxTurn
    /\ revision < MaxRevision /\ revision' = revision + 1
    /\ UNCHANGED <<used, running, request, outcome>>

RowStep ==
    \/ UNCHANGED row
    \/ RowPlans \/ RowRecords \/ RowEnds \/ RowRolls
    \/ pc = "Planned" /\ RowAdmits(turn)
    \/ RowAdmits(used + 1)

LEMMA RowKinds == ASSUME SInv, [SysNext]_svars PROVE RowStep
<1>0. used \in Nat /\ MaxTurn \in Nat /\ turn \in 0 .. MaxTurn /\ Turn = 1 .. MaxTurn
      /\ latest \in 0 .. MaxTurn /\ turn <= used
  BY BoundAssumption, TurnAssumption DEF SInv, RowOK, SysTypeOK
<1>1. CASE plan_turn
  BY <1>1 DEF plan_turn, RowStep, RowPlans, row
<1>2. CASE admit_turn
  <2>1. turn # NoTurn /\ outcome[turn] = "None" /\ running = NoTurn
    BY <1>2 DEF admit_turn, Step, Admissible, SInv, WorkerOwns
  <2>2. RowAdmits(turn)
    BY <1>0, <1>2, <2>1 DEF admit_turn, RowAdmits, NoTurn, SInv, RowOK
  <2>. QED
    BY <1>2, <2>2 DEF RowStep, admit_turn, Step
<1>3. CASE settle_success \/ settle_stopped
  <2>1. running = turn /\ turn # NoTurn
    BY <1>3 DEF settle_success, settle_stopped, Step, SInv, WorkerOwns, Owns
  <2>2. CASE UNCHANGED db
    BY <2>2 DEF RowStep, db, row
  <2>3. CASE ~UNCHANGED db
    <3>1. PICK requested \in {"Completed", "Failed", "Interrupted"} : Terminalize(requested)
      BY <1>3, <2>3 DEF settle_success, settle_stopped
    <3>. QED
      BY <2>1, <3>1 DEF Terminalize, RowStep, RowEnds
  <2>. QED
    BY <2>2, <2>3
<1>4. CASE WorkerStep /\ ~(plan_turn \/ admit_turn \/ settle_success \/ settle_stopped)
  <2>1. UNCHANGED row
    BY <1>4 DEF WorkerStep, acquire_process_lease, admission_refused, publish_receipt,
         first_renewal, first_renewal_fails, enter_gate, stop_gate, test_scope, adopt_scope,
         begin_success_commit, leave_loop, abandon_success, resolve_success,
         classify_run_error, settle_fails, finish, continue_root, plan_turn, db, row
  <2>. QED
    BY <2>1 DEF RowStep
<1>5. CASE heartbeat_due \/ BeatStep
  BY <1>5 DEF heartbeat_due, BeatStep, renew_lease, heartbeat_fails, seal_from_request,
              commit_from_request, cancel_from_request, RowStep, db, row
<1>6. ASSUME NEW s \in Stopper, StopStep(s) PROVE RowStep
  <2>1. CASE request_interrupt(s)
    <3>1. CASE ~(running = Selected(s).turn /\ revision = Selected(s).revision)
      BY <2>1, <3>1 DEF request_interrupt, RowStep, db, row
    <3>2. CASE running = Selected(s).turn /\ revision = Selected(s).revision
      <4>1. RecordRequest(Selected(s))
        BY <2>1, <3>2 DEF request_interrupt
      <4>. QED
        BY <4>1 DEF RecordRequest, RowStep, RowRecords, row, SInv, RowOK
    <3>. QED
      BY <3>1, <3>2
  <2>2. CASE request_exact(s)
    <3>1. CASE ~(running = target[s].turn /\ revision = target[s].revision)
      BY <2>2, <3>1 DEF request_exact, RowStep, db, row
    <3>2. CASE running = target[s].turn /\ revision = target[s].revision
      <4>1. RecordRequest(target[s])
        BY <2>2, <3>2 DEF request_exact
      <4>. QED
        BY <4>1 DEF RecordRequest, RowStep, RowRecords, row, SInv, RowOK
    <3>. QED
      BY <3>1, <3>2
  <2>3. CASE ~(request_interrupt(s) \/ request_exact(s))
    <3>1. UNCHANGED db
      BY <1>6, <2>3 DEF StopStep, seal_scope, select_target, validate, cancel_turn, no_tree,
           cancel_scope, nothing_to_cancel, commit_stop, release_stop, capture_turn,
           seal_exact, wake_exact
    <3>. QED
      BY <3>1 DEF RowStep, db, row
  <2>. QED
    BY <2>1, <2>2, <2>3
<1>7. CASE other_run
  <2>1. RowAdmits(used + 1)
    BY <1>0, <1>7 DEF other_run, RowAdmits, SInv, RowOK
  <2>. QED
    BY <2>1 DEF RowStep
<1>8. CASE other_end
  BY <1>8 DEF other_end, RowStep, RowEnds, SInv, RowOK
<1>9. CASE recover_expired \/ recover_orphaned
  BY <1>9 DEF recover_expired, recover_orphaned, Recover, RowStep, RowEnds
<1>10. CASE rollback_session
  <2>1. latest' \in 0 .. MaxTurn
    BY <1>0, <1>10 DEF rollback_session, NoTurn
  <2>. QED
    BY <1>10, <2>1 DEF rollback_session, RowStep, RowRolls
<1>11. CASE lease_expires \/ publish_token \/ (\E w \in Caller : announce(w)) \/ UNCHANGED svars
  BY <1>11 DEF lease_expires, publish_token, announce, svars, RowStep, db, row
<1>. QED
  BY <1>1, <1>2, <1>3, <1>4, <1>5, <1>6, <1>7, <1>8, <1>9, <1>10, <1>11 DEF SysNext

(* A terminal is final, and a doomed turn stays doomed.                    *)
LEMMA RowMonotone ==
    ASSUME SInv, RowStep, NEW t \in Turn
    PROVE  /\ outcome[t] # "None" \/ running # t => outcome'[t] = outcome[t]
           /\ Doomed(t) => Doomed(t)'
<1>. USE TurnAssumption, BoundAssumption DEF SInv, RowOK, Doomed, NoTurn
<1>1. CASE RowEnds
  BY <1>1 DEF RowEnds
<1>2. CASE RowRecords
  BY <1>2 DEF RowRecords
<1>3. CASE ~RowEnds /\ ~RowRecords
  <2>1. UNCHANGED <<request, outcome>>
    BY <1>3 DEF RowStep, RowPlans, RowAdmits, RowRolls, row
  <2>. QED
    BY <2>1
<1>. QED
  BY <1>1, <1>2, <1>3

-----------------------------------------------------------------------------
(* The worker names its next turn when it plans it, and at no other time.  *)
LEMMA TurnKinds ==
    ASSUME [SysNext]_svars
    PROVE  turn' = turn \/ (plan_turn /\ turn' = used + 1 /\ used' = used + 1 /\ used < MaxTurn)
<1>1. CASE plan_turn
  BY <1>1 DEF plan_turn
<1>2. CASE WorkerStep /\ ~plan_turn
  BY <1>2 DEF WorkerStep, acquire_process_lease, admit_turn, admission_refused,
       publish_receipt, first_renewal, first_renewal_fails, enter_gate, stop_gate, test_scope,
       adopt_scope, begin_success_commit, leave_loop, settle_success, abandon_success,
       resolve_success, classify_run_error, settle_stopped, settle_fails, finish, continue_root
<1>3. CASE heartbeat_due \/ BeatStep
  BY <1>3 DEF heartbeat_due, BeatStep, renew_lease, heartbeat_fails, seal_from_request,
              commit_from_request, cancel_from_request, worker
<1>4. ASSUME NEW s \in Stopper, StopStep(s) PROVE turn' = turn
  BY <1>4 DEF StopStep, seal_scope, select_target, validate, request_interrupt, cancel_turn,
       no_tree, cancel_scope, nothing_to_cancel, commit_stop, release_stop, capture_turn,
       request_exact, seal_exact, wake_exact, worker
<1>5. CASE \/ other_run \/ other_end \/ recover_expired \/ recover_orphaned \/ rollback_session
           \/ lease_expires \/ publish_token \/ (\E w \in Caller : announce(w)) \/ UNCHANGED svars
  BY <1>5 DEF lease_expires, other_run, other_end, recover_expired, recover_orphaned, Recover,
       rollback_session, publish_token, announce, svars, worker
<1>. QED
  BY <1>1, <1>2, <1>3, <1>4, <1>5 DEF SysNext

LEMMA WorkerTypes == ASSUME SInv, WorkerStep PROVE SysTypeOK'
<1>0. turn' \in 0 .. MaxTurn /\ lost' \in BOOLEAN /\ retained' \in BOOLEAN
  <2>1. (lost' = lost \/ lost' = TRUE) /\ (retained' = retained \/ retained' = TRUE)
    BY DEF WorkerStep, acquire_process_lease, plan_turn, admit_turn, admission_refused,
         publish_receipt, first_renewal, first_renewal_fails, enter_gate, stop_gate, test_scope,
         adopt_scope, begin_success_commit, leave_loop, settle_success, abandon_success,
         resolve_success, classify_run_error, settle_stopped, settle_fails, finish,
         continue_root, Terminalize, db
  <2>2. turn' \in 0 .. MaxTurn
    BY TurnKinds, BoundAssumption DEF SysNext, SInv, SysTypeOK, RowOK
  <2>. QED
    BY <2>1, <2>2 DEF SInv, SysTypeOK
<1>. USE DEF SInv, SysTypeOK, Places, Causes
<1>1. CASE acquire_process_lease \/ plan_turn \/ admit_turn \/ admission_refused
  BY <1>0, <1>1 DEF acquire_process_lease, plan_turn, admit_turn, admission_refused, Step,
       controls, stops
<1>2. CASE publish_receipt \/ first_renewal \/ first_renewal_fails \/ enter_gate \/ stop_gate
  BY <1>0, <1>2 DEF publish_receipt, first_renewal, first_renewal_fails, enter_gate, stop_gate,
       Step, controls, stops
<1>3. CASE test_scope \/ adopt_scope \/ begin_success_commit \/ leave_loop \/ settle_success
  BY <1>0, <1>3 DEF test_scope, adopt_scope, begin_success_commit, leave_loop, settle_success,
       Step, controls, stops
<1>4. CASE abandon_success \/ resolve_success \/ settle_stopped \/ settle_fails \/ finish
           \/ continue_root
  BY <1>0, <1>4 DEF abandon_success, resolve_success, settle_stopped, settle_fails, finish,
       continue_root, ErrorCauses, Step, controls, stops
<1>5. CASE classify_run_error
  BY <1>0, <1>5 DEF classify_run_error, ErrorCauses, CancelOwn, CancelTurn, CancelScope, controls,
       stops
<1>. QED
  BY <1>1, <1>2, <1>3, <1>4, <1>5 DEF WorkerStep

LEMMA BeatTypes == ASSUME SInv, heartbeat_due \/ BeatStep PROVE SysTypeOK'
<1>. USE DEF SInv, SysTypeOK, Causes, worker, controls, stops, db
<1>1. CASE renew_lease \/ cancel_from_request
  BY <1>1 DEF renew_lease, cancel_from_request, CancelOwn, CancelTurn, CancelScope
<1>2. CASE heartbeat_due \/ heartbeat_fails \/ seal_from_request \/ commit_from_request
  BY <1>2 DEF heartbeat_due, heartbeat_fails, seal_from_request, commit_from_request, CancelTurn
<1>. QED
  BY <1>1, <1>2 DEF BeatStep

LEMMA StopTypes == ASSUME SInv, NEW s \in Stopper, StopStep(s) PROVE SysTypeOK'
<1>. USE DEF SInv, SysTypeOK, StopPlaces, Causes, db
<1>1. CASE seal_scope(s) \/ select_target(s) \/ validate(s) \/ request_interrupt(s)
  BY <1>1 DEF seal_scope, select_target, validate, request_interrupt, RecordRequest, worker, controls
<1>2. CASE cancel_turn(s) \/ no_tree(s) \/ cancel_scope(s) \/ nothing_to_cancel(s)
  BY <1>2 DEF cancel_turn, no_tree, cancel_scope, nothing_to_cancel, Go, worker, controls,
       CancelTurn, CancelScope
<1>3. CASE commit_stop(s) \/ release_stop(s) \/ seal_exact(s)
  BY <1>3 DEF commit_stop, release_stop, seal_exact, Go, worker, controls
<1>6. CASE wake_exact(s)
  BY <1>6 DEF wake_exact, CancelTurn
<1>4. CASE capture_turn(s)
  <2>1. Receipts(running) \in Receipt
    BY <1>4, Tasks, TurnAssumption, BoundAssumption
       DEF capture_turn, Receipts, Receipt, RowOK, NoTurn
  <2>. QED
    BY <1>4, <2>1 DEF capture_turn, worker, controls
<1>5. CASE request_exact(s)
  BY <1>5 DEF request_exact, RecordRequest, worker, controls
<1>. QED
  BY <1>1, <1>2, <1>3, <1>4, <1>5, <1>6 DEF StopStep

LEMMA SysTypeNext == ASSUME SInv, [SysNext]_svars PROVE SysTypeOK'
<1>1. CASE \/ other_run \/ other_end \/ recover_expired \/ recover_orphaned \/ rollback_session
           \/ lease_expires \/ publish_token \/ (\E w \in Caller : announce(w)) \/ UNCHANGED svars
  BY <1>1 DEF lease_expires, other_run, other_end, recover_expired, recover_orphaned, Recover,
       rollback_session, publish_token, announce, svars, worker, controls, stops,
       db, SInv, SysTypeOK
<1>. QED
  BY <1>1, WorkerTypes, BeatTypes, StopTypes DEF SysNext

(* A session that another owner holds is running.                          *)
LEMMA OtherRuns == ASSUME SInv, [SysNext]_svars PROVE lock' = "Other" => running' # NoTurn
<1>1. CASE other_run \/ other_end
  BY <1>1, BoundAssumption DEF other_run, other_end, NoTurn, SInv, RowOK
<1>2. CASE WorkerStep
  <2>1. CASE lock' = lock
    <3>1. CASE settle_success \/ settle_stopped
      BY <2>1, <3>1 DEF settle_success, settle_stopped, Step, SInv, WorkerOwns, Owns
    <3>2. CASE ~(settle_success \/ settle_stopped)
      <4>1. running' = running \/ lock = "Worker"
        BY <1>2, <3>2 DEF WorkerStep, acquire_process_lease, plan_turn, admit_turn,
             admission_refused, publish_receipt, first_renewal, first_renewal_fails,
             enter_gate, stop_gate, test_scope, adopt_scope, begin_success_commit, leave_loop,
             abandon_success, resolve_success, classify_run_error, settle_fails, finish,
             continue_root, db, Step, SInv, WorkerOwns
      <4>. QED
        BY <2>1, <4>1 DEF SInv, RowOK
    <3>. QED
      BY <3>1, <3>2
  <2>2. CASE lock' # lock
    <3>1. lock' # "Other"
      BY <1>2, <2>2 DEF WorkerStep, acquire_process_lease, plan_turn, admit_turn,
           admission_refused, publish_receipt, first_renewal, first_renewal_fails,
           enter_gate, stop_gate, test_scope, adopt_scope, begin_success_commit, leave_loop,
           settle_success, abandon_success, resolve_success, classify_run_error,
           settle_stopped, settle_fails, finish, continue_root
    <3>. QED
      BY <3>1
  <2>. QED
    BY <2>1, <2>2
<1>3. CASE heartbeat_due \/ BeatStep
  BY <1>3 DEF heartbeat_due, BeatStep, renew_lease, heartbeat_fails, seal_from_request,
              commit_from_request, cancel_from_request, db, SInv, RowOK
<1>4. ASSUME NEW s \in Stopper, StopStep(s) PROVE UNCHANGED <<lock, running>>
  BY <1>4 DEF StopStep, seal_scope, select_target, validate, request_interrupt, cancel_turn,
       no_tree, cancel_scope, nothing_to_cancel, commit_stop, release_stop, capture_turn,
       request_exact, seal_exact, wake_exact, RecordRequest, db
<1>5. CASE \/ lease_expires \/ recover_expired \/ recover_orphaned \/ rollback_session
           \/ publish_token \/ (\E w \in Caller : announce(w)) \/ UNCHANGED svars
  BY <1>5 DEF lease_expires, recover_expired, recover_orphaned, Recover, rollback_session, publish_token,
       announce, svars, db, SInv, RowOK
<1>. QED
  BY <1>1, <1>2, <1>3, <1>4, <1>5 DEF SysNext, SInv, RowOK

LEMMA RowNext == ASSUME SInv, [SysNext]_svars PROVE RowOK'
<1>. USE TurnAssumption, BoundAssumption DEF SInv, RowOK, NoTurn
<1>0. RowStep
  BY RowKinds
<1>1. turn' <= used' /\ turn' \in 0 .. MaxTurn
  <2>1. used' >= used /\ used' \in 0 .. MaxTurn
    BY <1>0 DEF RowStep, RowPlans, RowAdmits, RowRecords, RowEnds, RowRolls, row
  <2>. QED
    BY <2>1, TurnKinds DEF SysTypeOK
<1>2. lock' = "Other" => running' # 0
  BY OtherRuns
<1>3. CASE UNCHANGED row
  BY <1>1, <1>2, <1>3 DEF row
<1>4. CASE RowPlans
  BY <1>1, <1>2, <1>4 DEF RowPlans
<1>5. ASSUME NEW t, RowAdmits(t) PROVE RowOK'
  BY <1>1, <1>2, <1>5 DEF RowAdmits
<1>6. CASE RowRecords
  BY <1>1, <1>2, <1>6 DEF RowRecords
<1>7. CASE RowEnds
  BY <1>1, <1>2, <1>7 DEF RowEnds
<1>8. CASE RowRolls
  BY <1>1, <1>2, <1>8 DEF RowRolls
<1>. QED
  BY <1>0, <1>3, <1>4, <1>5, <1>6, <1>7, <1>8 DEF RowStep

-----------------------------------------------------------------------------
(* Only the worker moves plans, guards and receipts.                       *)
LEMMA BeatKeepsPlans ==
    ASSUME heartbeat_due \/ BeatStep
    PROVE  UNCHANGED <<pending, last_admitted, guard, pc, turn, retained, lock, db, at, target>>
<1>1. CASE seal_from_request \/ commit_from_request
  BY <1>1 DEF seal_from_request, commit_from_request, seal_root_admission_for_stop, CommitSeal,
       vars, admission, worker, stops
<1>2. CASE cancel_from_request \/ renew_lease
  BY <1>2 DEF cancel_from_request, renew_lease, AdmissionRest, admission, stops
<1>. QED
  BY <1>1, <1>2 DEF heartbeat_due, BeatStep, heartbeat_fails, vars, admission, worker, stops

LEMMA StopKeepsPlans ==
    ASSUME NEW s \in Stopper, StopStep(s)
    PROVE  UNCHANGED <<pending, last_admitted, guard, pc, turn, retained, beat, lock,
                       used, latest, revision, running, outcome>>
<1>1. CASE seal_scope(s) \/ select_target(s) \/ commit_stop(s)
  BY <1>1 DEF seal_scope, select_target, commit_stop, seal_root_admission_for_stop, CommitSeal,
       wait_settlement, subscribe, found_nothing, park, recheck, Leave, vars, admission,
       worker, db
<1>2. CASE release_stop(s) \/ seal_exact(s)
  BY <1>2 DEF release_stop, seal_exact, release_root_admission_stop_seal,
       seal_root_admission_for_stop, vars, admission, worker, db
<1>3. CASE cancel_scope(s)
  BY <1>3 DEF cancel_scope, AdmissionRest, admission, db
<1>. QED
  BY <1>1, <1>2, <1>3 DEF StopStep, validate, request_interrupt, cancel_turn, no_tree,
       nothing_to_cancel, capture_turn, request_exact, wake_exact, RecordRequest, vars,
       admission, worker, db

LEMMA WorkerKeepsPlans ==
    ASSUME WorkerStep, ~plan_turn, ~admission_refused, ~publish_receipt
    PROVE  UNCHANGED <<pending, last_admitted, guard>>
<1>1. CASE enter_gate \/ stop_gate
  BY <1>1 DEF enter_gate, stop_gate, subscribe, stop_resolved_cancelled, Leave, found_nothing,
       stop_resolved_continue, stop_unresolved, park, recheck, admission
<1>2. CASE classify_run_error
  BY <1>2 DEF classify_run_error, AdmissionRest, admission
<1>. QED
  BY <1>1, <1>2 DEF WorkerStep, acquire_process_lease, admit_turn, first_renewal,
       first_renewal_fails, test_scope, adopt_scope, begin_success_commit, leave_loop,
       settle_success, abandon_success, resolve_success, settle_stopped, settle_fails, finish,
       continue_root, vars, admission

(* What planning a turn does.                                              *)
LEMMA PlanEffect ==
    ASSUME SInv, plan_turn
    PROVE  \/ /\ pc' = "Planned" /\ turn' = used + 1 /\ used < MaxTurn
              /\ stop_lease = None /\ pending = None
              /\ guard'[Worker] # None /\ guard'[Worker].turn = turn'
              /\ UNCHANGED <<lock, stop_lease, stop, settled, last_admitted>>
           \/ pc' = "Failing" /\ lock' = "Free" /\ UNCHANGED <<vars, turn, used>>
<1>1. CASE UNCHANGED vars /\ pc' = "Failing"
  BY <1>1 DEF plan_turn
<1>2. CASE begin_root_admission(Worker, Chat, used + 1) /\ pc' = "Planned"
  <2> DEFINE plan == [id |-> next_plan_id, session |-> Chat, turn |-> used + 1]
  <2>1. used + 1 \in Turn
    BY <1>2, TurnAssumption, BoundAssumption DEF plan_turn, SInv, RowOK
  <2>2. plan \in Plan
    BY <2>1, Tasks DEF Plan, SInv, IInv, TypeOK
  <2>3. plan # None
    BY <2>2, NoneAssumption
  <2>4. guard'[Worker] = plan
    BY <1>2, Tasks DEF begin_root_admission, SInv, IInv, TypeOK
  <2>. QED
    BY <1>2, <2>3, <2>4 DEF plan_turn, begin_root_admission, MayBegin
<1>. QED
  BY <1>1, <1>2 DEF plan_turn

(* What settling the guard of the worker does.                             *)
LEMMA RefuseEffect ==
    ASSUME SInv, admission_refused
    PROVE  guard'[Worker] = None /\ pending' = None /\ UNCHANGED <<last_admitted, stop, settled>>
BY Tasks DEF admission_refused, abort_root_admission, SettlePlan, SInv, IInv, TypeOK

LEMMA PublishEffect ==
    ASSUME SInv, publish_receipt
    PROVE  /\ guard'[Worker] = None /\ pending' = None
           /\ last_admitted' = Receipts(turn)
           /\ UNCHANGED <<stop, settled>>
<1>1. /\ guard'[Worker] = None /\ pending' = None
      /\ last_admitted' = [session |-> guard[Worker].session, turn |-> guard[Worker].turn,
                           revision |-> revision]
      /\ UNCHANGED <<stop, settled>>
      /\ guard[Worker] # None
  BY Tasks DEF publish_receipt, commit_root_admission, SettlePlan, SInv, IInv, TypeOK
<1>2. guard[Worker] \in Plan
  BY <1>1, Tasks DEF SInv, IInv, TypeOK
<1>3. guard[Worker].session = Chat
  BY <1>2, WorkerAssumption DEF Plan
<1>4. guard[Worker].turn = turn
  BY DEF publish_receipt, Step, SInv, WorkerOwns
<1>. QED
  BY <1>1, <1>3, <1>4 DEF Receipts

LEMMA WorkerKeepsOwnership == ASSUME SInv, WorkerStep PROVE WorkerOwns'
<1>. USE DEF SInv, WorkerOwns, Owns
<1>1. CASE plan_turn
  <2>1. used' = used \/ used' = used + 1
    BY <1>1 DEF plan_turn
  <2>2. UNCHANGED <<latest, revision, running, request, outcome>>
    BY <1>1 DEF plan_turn
  <2>3. CASE pc' = "Planned"
    <3>1. used + 1 \in Turn /\ turn' = used + 1 /\ lock = "Worker" /\ lock' = lock
          /\ guard'[Worker] # None /\ guard'[Worker].turn = turn'
      BY <1>1, <2>3, PlanEffect, TurnAssumption, BoundAssumption DEF plan_turn, RowOK
    <3>2. running # used + 1 /\ used + 1 # NoTurn /\ outcome[used + 1] = "None"
      BY <3>1, BoundAssumption DEF RowOK, NoTurn
    <3>. QED
      BY <2>2, <2>3, <3>1, <3>2
  <2>4. CASE pc' # "Planned"
    <3>1. pc' = "Failing" /\ UNCHANGED <<guard, last_admitted, turn>> /\ pc = "Leased"
      BY <1>1, <2>4, PlanEffect DEF plan_turn, vars, admission
    <3>. QED
      BY <2>2, <3>1 DEF Receipts
  <2>. QED
    BY <2>3, <2>4
<1>2. CASE admission_refused
  <2>1. /\ guard'[Worker] = None /\ last_admitted' = last_admitted
        /\ pc = "Planned" /\ pc' \in {"Failing", "Ended"}
        /\ UNCHANGED <<turn, db>>
    BY <1>2, RefuseEffect DEF admission_refused
  <2>. QED
    BY <2>1 DEF db
<1>3. CASE publish_receipt
  <2>1. /\ guard'[Worker] = None /\ last_admitted' = Receipts(turn)
        /\ pc = "Admitted" /\ pc' = "Published"
        /\ UNCHANGED <<turn, db, lock>>
    BY <1>3, PublishEffect DEF publish_receipt, Step
  <2>. QED
    BY <2>1 DEF db, Receipts
<1>4. CASE admit_turn
  <2>1. /\ pc = "Planned" /\ pc' = "Admitted"
        /\ running' = turn
        /\ UNCHANGED <<turn, lock, outcome, guard, last_admitted>>
    BY <1>4, WorkerKeepsPlans DEF admit_turn, Step, vars, admission
  <2>. QED
    BY <2>1
<1>5. CASE settle_success \/ settle_stopped
  <2>1. /\ pc \in {"Committing", "Settling"} /\ pc' \in {"Resolving", "Finishing"}
        /\ UNCHANGED <<turn, lock, guard, last_admitted, revision>>
        /\ running' = NoTurn \/ (pc' = "Finishing" /\ running' = running)
    BY <1>5 DEF settle_success, settle_stopped, Terminalize, Step, vars, admission, db
  <2>. QED
    BY <2>1 DEF Receipts
<1>6. CASE acquire_process_lease \/ first_renewal \/ first_renewal_fails \/ settle_fails
  <2>1. UNCHANGED <<row, guard, last_admitted, turn>>
    BY <1>6 DEF acquire_process_lease, first_renewal, first_renewal_fails, settle_fails, vars,
         admission, db, row
  <2>. QED
    BY <1>6, <2>1 DEF acquire_process_lease, first_renewal, first_renewal_fails, settle_fails,
         Step, row, Receipts
<1>7. CASE enter_gate \/ stop_gate \/ test_scope \/ adopt_scope
  <2>1. UNCHANGED <<db, guard, last_admitted, turn, lock>>
    BY <1>7, WorkerKeepsPlans DEF enter_gate, stop_gate, test_scope, adopt_scope,
         plan_turn, admission_refused, publish_receipt, Step, WorkerStep
  <2>2. pc \in Owns \ {"Admitted"} /\ pc' \in Owns \ {"Admitted"}
    BY <1>7 DEF enter_gate, stop_gate, test_scope, adopt_scope, Step
  <2>. QED
    BY <2>1, <2>2 DEF db, Receipts
<1>8. CASE begin_success_commit \/ leave_loop \/ abandon_success \/ resolve_success
  <2>1. UNCHANGED <<db, guard, last_admitted, turn, lock>>
    BY <1>8 DEF begin_success_commit, leave_loop, abandon_success, resolve_success, vars, admission
  <2>. QED
    BY <1>8, <2>1 DEF begin_success_commit, leave_loop, abandon_success, resolve_success, Step,
         db, Receipts
<1>9. CASE classify_run_error \/ finish \/ continue_root
  <2>1. UNCHANGED <<db, guard, last_admitted, turn>>
    BY <1>9 DEF classify_run_error, finish, continue_root, vars, admission, AdmissionRest
  <2>. QED
    BY <1>9, <2>1 DEF classify_run_error, finish, continue_root, db, Receipts
<1>. QED
  BY <1>1, <1>2, <1>3, <1>4, <1>5, <1>6, <1>7, <1>8, <1>9 DEF WorkerStep

LEMMA WorkerOwnsNext == ASSUME SInv, [SysNext]_svars PROVE WorkerOwns'
<1>1. CASE heartbeat_due \/ BeatStep
  BY <1>1, BeatKeepsPlans DEF SInv, WorkerOwns, Receipts, db
<1>2. ASSUME NEW s \in Stopper, StopStep(s) PROVE WorkerOwns'
  BY <1>2, StopKeepsPlans DEF SInv, WorkerOwns, Receipts
<1>3. CASE other_run
  <2>1. /\ lock = "Free" /\ running' # turn
        /\ UNCHANGED <<pc, turn, guard, last_admitted>>
    BY <1>3, BoundAssumption DEF other_run, vars, admission, worker, SInv, RowOK
  <2>. QED
    BY <2>1 DEF SInv, WorkerOwns, Owns
<1>4. CASE other_end \/ recover_expired \/ recover_orphaned
  <2>1. /\ lock # "Worker" /\ running' = NoTurn
        /\ UNCHANGED <<pc, turn, guard, last_admitted>>
    BY <1>4 DEF other_end, recover_expired, recover_orphaned, Recover, vars, admission, worker
  <2>. QED
    BY <2>1 DEF SInv, WorkerOwns, Owns
<1>5. CASE rollback_session
  <2>1. /\ running = NoTurn
        /\ UNCHANGED <<pc, turn, guard, last_admitted, lock, running, outcome>>
    BY <1>5 DEF rollback_session, vars, admission, worker
  <2>. QED
    BY <2>1 DEF SInv, WorkerOwns, Owns
<1>6. CASE lease_expires \/ publish_token \/ (\E w \in Caller : announce(w)) \/ UNCHANGED svars
  <2>1. UNCHANGED <<pc, turn, guard, last_admitted, lock, row>>
    BY <1>6 DEF lease_expires, publish_token, announce, publish_wake,
         notify_root_admission_activity, svars, vars, admission, worker, db, row
  <2>. QED
    BY <2>1 DEF SInv, WorkerOwns, Owns, Receipts, row
<1>. QED
  BY <1>1, <1>2, <1>3, <1>4, <1>5, <1>6, WorkerKeepsOwnership DEF SysNext

-----------------------------------------------------------------------------
(* A doomed turn has not been completed; while it runs it carries the      *)
(* request.                                                                *)
LEMMA DoomedFacts ==
    ASSUME SInv, NEW t \in Turn, Doomed(t)
    PROVE  outcome[t] # "Completed" /\ (running = t => request = t)
           /\ (outcome[t] = "None" => running = t)
BY TurnAssumption, BoundAssumption DEF SInv, RowOK, Doomed, NoTurn

LEMMA TurnInTurn == ASSUME SInv, turn # NoTurn PROVE turn \in Turn
BY TurnAssumption, BoundAssumption DEF SInv, SysTypeOK, NoTurn

LEMMA DoomedCovers == ASSUME SInv, Doomed(turn) PROVE Covered
BY TurnInTurn, DoomedFacts DEF Doomed, Covered

(* The newest receipt is one of a turn.                                    *)
LEMMA LastInTurn == ASSUME SInv, last_admitted # None PROVE last_admitted.turn \in Turn
BY DEF SInv, IInv, TypeOK, Receipt

LEMMA ReceiptsAreReceipts == ASSUME SInv, running # NoTurn PROVE Receipts(running) \in Receipt
BY Tasks, TurnAssumption, BoundAssumption DEF Receipts, Receipt, SInv, RowOK, NoTurn

(* With nothing pending the newest receipt stays, and a covered turn stays *)
(* covered.                                                                *)
LEMMA PendingNoneKeeps ==
    ASSUME SInv, [SysNext]_svars, pending = None
    PROVE  last_admitted' = last_admitted /\ (Covered => Covered')
<1>1. guard[Worker] = None /\ pc \notin {"Planned", "Admitted"}
  BY Tasks DEF SInv, IInv, GuardOwnsPlan, WorkerOwns
<1>2. last_admitted' = last_admitted
  <2>1. CASE WorkerStep
    <3>1. ~admission_refused /\ ~publish_receipt
      BY <1>1 DEF admission_refused, publish_receipt, Step
    <3>2. CASE plan_turn
      BY <3>2, PlanEffect DEF vars, admission
    <3>. QED
      BY <2>1, <3>1, <3>2, WorkerKeepsPlans
  <2>2. CASE \/ other_run \/ other_end \/ recover_expired \/ recover_orphaned \/ rollback_session
             \/ lease_expires \/ publish_token \/ (\E w \in Caller : announce(w)) \/ UNCHANGED svars
    BY <2>2 DEF lease_expires, other_run, other_end, recover_expired, recover_orphaned, Recover,
         rollback_session, publish_token, publish_wake, announce,
         notify_root_admission_activity, svars, vars, admission
  <2>. QED
    BY <2>1, <2>2, BeatKeepsPlans, StopKeepsPlans DEF SysNext
<1>3. Covered => Covered'
  <2>. SUFFICES ASSUME Covered PROVE Covered'
    OBVIOUS
  <2>. USE BoundAssumption DEF SInv, RowOK, NoTurn
  <2>1. CASE plan_turn
    BY <2>1, PlanEffect DEF plan_turn, Covered
  <2>2. CASE ~plan_turn
    <3>1. turn' = turn /\ RowStep
      BY <2>2, TurnKinds, RowKinds
    <3>. QED
      BY <1>1, <3>1 DEF RowStep, RowPlans, RowAdmits, RowRecords, RowEnds, RowRolls, row, Covered
  <2>. QED
    BY <2>1, <2>2
<1>. QED
  BY <1>2, <1>3

-----------------------------------------------------------------------------
(* Nobody touches the Stop of another one.                                 *)
LEMMA OthersKeepStops ==
    ASSUME [SysNext]_svars, TypeOK, NEW c \in Coordinator,
           c \in Stopper => ~StopStep(c), c = Heartbeat => ~BeatStep
    PROVE  stop'[c] = stop[c] /\ settled'[c] = settled[c]
<1>. USE DEF TypeOK
<1>1. CASE WorkerStep
  <2>1. CASE plan_turn \/ admission_refused \/ publish_receipt
    BY <2>1 DEF plan_turn, begin_root_admission, admission_refused, abort_root_admission,
         publish_receipt, commit_root_admission, SettlePlan, vars
  <2>2. CASE enter_gate \/ stop_gate
    BY <2>2 DEF enter_gate, stop_gate, subscribe, stop_resolved_cancelled, stop_unresolved,
         found_nothing, stop_resolved_continue, park, recheck
  <2>3. CASE classify_run_error
    BY <2>3 DEF classify_run_error, AdmissionRest
  <2>. QED
    BY <1>1, <2>1, <2>2, <2>3 DEF WorkerStep, acquire_process_lease, admit_turn, first_renewal,
         first_renewal_fails, test_scope, adopt_scope, begin_success_commit, leave_loop,
         settle_success, abandon_success, resolve_success, settle_stopped, settle_fails, finish,
         continue_root, vars
<1>2. CASE heartbeat_due \/ (BeatStep /\ c # Heartbeat)
  <2>1. CASE cancel_from_request \/ renew_lease
    BY <2>1 DEF cancel_from_request, renew_lease, AdmissionRest
  <2>. QED
    BY <1>2, <2>1, Tasks DEF heartbeat_due, BeatStep, heartbeat_fails, seal_from_request, commit_from_request, seal_root_admission_for_stop, CommitSeal,
         Forget, vars
<1>3. ASSUME NEW s \in Stopper, StopStep(s), s # c
      PROVE  stop'[c] = stop[c] /\ settled'[c] = settled[c]
  <2>1. s \in Coordinator
    BY Tasks
  <2>2. CASE cancel_scope(s)
    BY <2>2 DEF cancel_scope, AdmissionRest
  <2>3. CASE select_target(s)
    BY <1>3, <2>1, <2>3 DEF select_target, wait_settlement, subscribe, found_nothing, park,
         recheck, vars
  <2>4. CASE seal_scope(s) \/ seal_exact(s) \/ commit_stop(s) \/ release_stop(s)
    BY <1>3, <2>1, <2>4 DEF seal_scope, seal_exact, commit_stop, release_stop, CommitSeal,
         seal_root_admission_for_stop, release_root_admission_stop_seal, Forget, vars
  <2>. QED
    BY <1>3, <2>2, <2>3, <2>4 DEF StopStep, validate, request_interrupt, cancel_turn, no_tree,
         nothing_to_cancel, capture_turn, request_exact, wake_exact, vars
<1>4. CASE \/ other_run \/ other_end \/ recover_expired \/ recover_orphaned \/ rollback_session
           \/ lease_expires \/ publish_token \/ (\E w \in Caller : announce(w)) \/ UNCHANGED svars
  BY <1>4 DEF lease_expires, other_run, other_end, recover_expired, recover_orphaned, Recover,
       rollback_session, publish_token, publish_wake, announce,
       notify_root_admission_activity, svars, vars
<1>. QED
  BY <1>1, <1>2, <1>3, <1>4 DEF SysNext

LEMMA BeatOwnedNext == ASSUME SInv, [SysNext]_svars PROVE BeatOwned'
<1>. USE DEF Beating
<1>1. CASE BeatStep
  <2>0. UNCHANGED <<pc, turn, db>>
    BY <1>1, BeatKeepsPlans
  <2>1. pc \in Beating => turn # NoTurn /\ pending = None
    BY NothingPending DEF SInv, WorkerOwns, Owns
  <2>2. CASE seal_from_request
    <3>1. Doomed(turn)' /\ pc' \in Beating
      BY <2>0, <2>2 DEF seal_from_request, SInv, BeatOwned, Doomed, db
    <3>2. CASE beat' = "Commit"
      <4>1. seal_root_admission_for_stop(Heartbeat) /\ pending = None
        BY <2>1, <2>2, <3>1, <2>0, <3>2 DEF seal_from_request, SInv, BeatOwned
      <4>2. stop'[Heartbeat].pending = None
        BY <4>1, Tasks DEF seal_root_admission_for_stop, SInv, IInv, TypeOK
      <4>. QED
        BY <3>1, <3>2, <4>2 DEF BeatOwned, MustWait
    <3>. QED
      BY <2>2, <3>1, <3>2 DEF seal_from_request, BeatOwned
  <2>3. CASE commit_from_request \/ cancel_from_request
    BY <2>0, <2>3 DEF commit_from_request, cancel_from_request, SInv, BeatOwned, Doomed, db
  <2>4. CASE renew_lease \/ heartbeat_fails
    BY <2>0, <2>1, <2>4 DEF renew_lease, heartbeat_fails, SInv, BeatOwned, Doomed, db
  <2>. QED
    BY <1>1, <2>2, <2>3, <2>4 DEF BeatStep
<1>2. CASE ~BeatStep
  <2>1. /\ beat' \in {"Seal", "Commit", "Cancel"} => beat' = beat
        /\ beat' \in {"Read", "Seal", "Commit", "Cancel"} => pc' \in Beating
    <3>1. CASE WorkerStep
      BY <3>1 DEF WorkerStep, acquire_process_lease, plan_turn, admit_turn, admission_refused,
           publish_receipt, first_renewal, first_renewal_fails, enter_gate, stop_gate,
           test_scope, adopt_scope, begin_success_commit, leave_loop, settle_success,
           abandon_success, resolve_success, classify_run_error, settle_stopped, settle_fails, finish,
           continue_root, Step, SInv, BeatOwned
    <3>2. CASE heartbeat_due
      BY <3>2 DEF heartbeat_due, worker
    <3>3. CASE (\E s \in Stopper : StopStep(s))
      BY <3>3, StopKeepsPlans DEF SInv, BeatOwned
    <3>4. CASE \/ other_run \/ other_end \/ recover_expired \/ recover_orphaned
               \/ lease_expires \/ rollback_session \/ publish_token \/ (\E w \in Caller : announce(w))
               \/ UNCHANGED svars
      BY <3>4 DEF lease_expires, other_run, other_end, recover_expired, recover_orphaned, Recover,
           rollback_session, publish_token, announce, svars, worker, SInv, BeatOwned
    <3>. QED
      BY <1>2, <3>1, <3>2, <3>3, <3>4 DEF SysNext
  <2>2. beat' = "Commit" => ~MustWait(Heartbeat)'
    BY <1>2, <2>1, OthersKeepStops, Tasks DEF SInv, IInv, BeatOwned, MustWait
  <2>3. beat' \in {"Seal", "Commit", "Cancel"} => Doomed(turn)'
    <3>. SUFFICES ASSUME beat' \in {"Seal", "Commit", "Cancel"} PROVE Doomed(turn)'
      OBVIOUS
    <3>1. Doomed(turn) /\ pc \in Beating
      BY <2>1 DEF SInv, BeatOwned
    <3>2. turn' = turn /\ turn \in Turn
      BY <3>1, TurnKinds, TurnInTurn DEF plan_turn, Doomed
    <3>3. RowStep
      BY RowKinds
    <3>4. Doomed(turn) => (request' = turn \/ outcome'[turn] \in {"Interrupted", "Failed"})
      BY <3>2, <3>3, RowMonotone DEF Doomed
    <3>. QED
      BY <3>1, <3>2, <3>4 DEF Doomed
  <2>. QED
    BY <2>1, <2>2, <2>3 DEF BeatOwned
<1>. QED
  BY <1>1, <1>2

-----------------------------------------------------------------------------
(* A step that leaves the worker and its controls alone.                   *)
LEMMA ControlKept ==
    ASSUME SInv, RowStep, UNCHANGED <<pc, turn, retained, control, deferred, last_admitted>>,
           lock = "Worker" => UNCHANGED outcome
    PROVE  ControlOK'
<1>1. retained => last_admitted.turn \in Turn
  BY LastInTurn DEF SInv, ControlOK
<1>2. turn # NoTurn => turn \in Turn
  BY TurnInTurn
<1>3. pc \in {"Resolving", "Finishing"} => turn # NoTurn /\ UNCHANGED outcome
  BY DEF SInv, WorkerOwns
<1>4. control = "Sealed" \/ pc = "Completed" => turn # NoTurn
  BY DEF SInv, ControlOK
<1>5. \A t \in Turn : /\ outcome[t] # "None" \/ running # t => outcome'[t] = outcome[t]
                      /\ Doomed(t) => Doomed(t)'
  BY RowMonotone
<1>6. Doomed(turn) => Doomed(turn)'
  <2>1. Doomed(turn) => turn \in Turn
    BY <1>2 DEF Doomed
  <2>2. turn' = turn
    OBVIOUS
  <2>. QED
    BY <1>5, <2>1, <2>2 DEF Doomed
<1>. QED
  BY <1>1, <1>2, <1>3, <1>4, <1>5, <1>6 DEF SInv, ControlOK

(* A Stop reaches the control of a doomed turn.                            *)
LEMMA ControlStopped ==
    ASSUME SInv, UNCHANGED <<pc, turn, retained, last_admitted, db>>, CancelTurn("Stopped"),
           control \in {"Open", "Committing"} => Doomed(turn)
    PROVE  ControlOK'
<1>1. Doomed(turn) => /\ turn # NoTurn /\ turn \in Turn
                      /\ outcome[turn] # "Completed"
                      /\ outcome[turn] = "None" => running = turn
  BY TurnInTurn, DoomedFacts DEF Doomed
<1>2. Doomed(turn)' = Doomed(turn)
  BY DEF Doomed, db
<1>3. control = "Open" => pc \notin {"Start", "Leased", "Planned"}
  BY <1>1 DEF SInv, ControlOK, WorkerOwns
<1>. QED
  BY <1>1, <1>2, <1>3 DEF SInv, ControlOK, CancelTurn, db

(* Another cause than a Stop reaches the control of the worker's turn.     *)
LEMMA ControlFailed ==
    ASSUME SInv, UNCHANGED <<pc, turn, retained, last_admitted, db>>,
           NEW why \in {"Failed", "Superseded"}, CancelTurn(why),
           pc \notin {"Start", "Leased", "Planned"}
    PROVE  ControlOK'
BY DEF CancelTurn, SInv, ControlOK, Doomed, db

LEMMA WorkerKeepsControl == ASSUME SInv, WorkerStep PROVE ControlOK'
<1>0. RowStep
  BY RowKinds DEF SysNext
<1>1. CASE plan_turn
  <2>1. UNCHANGED <<retained, control, deferred, last_admitted, outcome, request>> /\ pc = "Leased"
    BY <1>1, PlanEffect DEF plan_turn, controls, vars, admission
  <2>2. CASE pc' = "Planned"
    <3>1. turn' = used + 1 /\ turn' # NoTurn
      BY <1>1, <2>2, PlanEffect, BoundAssumption DEF SInv, RowOK, NoTurn
    <3>2. retained => outcome[last_admitted.turn] = "Completed"
      BY <2>1 DEF SInv, ControlOK
    <3>. QED
      BY <2>1, <2>2, <3>1, <3>2 DEF SInv, ControlOK
  <2>3. CASE pc' # "Planned"
    <3>1. pc' = "Failing" /\ turn' = turn
      BY <1>1, <2>3, PlanEffect
    <3>. QED
      BY <2>1, <3>1 DEF SInv, ControlOK, Doomed
  <2>. QED
    BY <2>2, <2>3
<1>2. CASE admission_refused
  <2>1. UNCHANGED <<turn, retained, control, deferred, last_admitted, db>>
    BY <1>2, RefuseEffect DEF admission_refused, controls
  <2>. QED
    BY <1>2, <2>1 DEF admission_refused, SInv, ControlOK, Doomed, db
<1>3. CASE publish_receipt
  <2>1. /\ UNCHANGED <<turn, retained, control, deferred, db>>
        /\ last_admitted' = Receipts(turn) /\ pc = "Admitted" /\ pc' = "Published"
    BY <1>3, PublishEffect DEF publish_receipt, Step, controls
  <2>2. Receipts(turn) \in Receipt
    BY <2>1, ReceiptsAreReceipts DEF SInv, WorkerOwns, Owns
  <2>3. Receipts(turn) # None /\ Receipts(turn).turn = turn
    BY <2>2, NoneAssumption DEF Receipts
  <2>. QED
    BY <2>1, <2>3 DEF SInv, ControlOK, Doomed, db
<1>4. CASE admit_turn
  <2>1. UNCHANGED <<turn, retained, control, deferred, last_admitted, outcome, request>>
    BY <1>4 DEF admit_turn, controls, vars, admission
  <2>. QED
    BY <1>4, <2>1 DEF admit_turn, Step, SInv, ControlOK, Doomed
<1>5. CASE adopt_scope
  <2>1. last_admitted = Receipts(turn) /\ running = turn /\ turn # NoTurn
    BY <1>5 DEF adopt_scope, Step, SInv, WorkerOwns, Owns
  <2>2. Receipts(turn) # None /\ Receipts(turn).turn = turn
    BY <2>1, ReceiptsAreReceipts, NoneAssumption DEF Receipts
  <2>3. deferred = "None" /\ control = "None"
    BY <1>5 DEF adopt_scope, Step, SInv, ControlOK
  <2>4. UNCHANGED <<turn, last_admitted, db, deferred>> /\ retained' = TRUE
        /\ control' = "Open" /\ pc' = "Running"
    BY <1>5 DEF adopt_scope, Step, vars, admission
  <2>. QED
    BY <2>1, <2>2, <2>3, <2>4 DEF ControlOK, db
<1>6. CASE settle_success \/ settle_stopped
  <2>1. running = turn /\ turn # NoTurn /\ turn \in Turn /\ outcome[turn] = "None"
    BY <1>6, TurnInTurn DEF settle_success, settle_stopped, Step, SInv, WorkerOwns, Owns, RowOK
  <2>2. UNCHANGED <<turn, retained, control, deferred, last_admitted>>
    BY <1>6 DEF settle_success, settle_stopped, controls, vars, admission
  <2>3. /\ pc = "Committing" => pc' = "Resolving" /\ outcome'[turn] \in {"Completed", "Interrupted"}
        /\ pc = "Settling" => pc' = "Finishing" /\ outcome'[turn] \in {"None", "Failed", "Interrupted"}
        /\ pc \in {"Committing", "Settling"}
    BY <1>6, <2>1 DEF settle_success, settle_stopped, Step, Terminalize, SInv, RowOK, db
  <2>4. \A t \in Turn : /\ outcome[t] # "None" => outcome'[t] = outcome[t]
                        /\ Doomed(t) => Doomed(t)'
    BY <1>0, RowMonotone
  <2>5. Doomed(turn) => Doomed(turn)'
    BY <2>1, <2>2, <2>4 DEF Doomed
  <2>6. retained => last_admitted.turn \in Turn
    BY LastInTurn DEF SInv, ControlOK
  <2>. QED
    BY <2>1, <2>2, <2>3, <2>4, <2>5, <2>6 DEF SInv, ControlOK
<1>7. CASE abandon_success \/ resolve_success
  <2>1. UNCHANGED <<turn, retained, last_admitted, db>>
    BY <1>7 DEF abandon_success, resolve_success, vars, admission
  <2>2. turn # NoTurn
    BY <1>7 DEF abandon_success, resolve_success, Step, SInv, WorkerOwns, Owns
  <2>. QED
    BY <1>7, <2>1, <2>2 DEF abandon_success, resolve_success, Step, ErrorCauses, SInv, ControlOK,
         Doomed, db, SysTypeOK, Causes
<1>8. CASE classify_run_error
  <2>1. UNCHANGED <<turn, retained, last_admitted, db>>
    BY <1>8 DEF classify_run_error, AdmissionRest, admission
  <2>2. /\ pc \in {"Stopping", "GateStopped", "Failing"} /\ pc' \in {"Settling", "Ended"}
        /\ control' = control \/ (control = "Open" /\ control' \in {"Failed", "Superseded"})
        /\ deferred' = deferred
    BY <1>8 DEF classify_run_error, ErrorCauses, CancelOwn, CancelTurn, SInv, ControlOK
  <2>. QED
    BY <2>1, <2>2 DEF SInv, ControlOK, Doomed, db
<1>9. CASE \/ acquire_process_lease \/ first_renewal \/ first_renewal_fails \/ enter_gate
           \/ stop_gate \/ test_scope \/ settle_fails
  <2>1. UNCHANGED <<turn, retained, control, deferred, last_admitted, row>>
    BY <1>9, WorkerKeepsPlans DEF acquire_process_lease, first_renewal, first_renewal_fails,
         enter_gate, stop_gate, test_scope, settle_fails, controls, WorkerStep, plan_turn,
         admission_refused, publish_receipt, Step, db, row
  <2>2. pc = "Settling" => outcome[turn] = "None"
    BY DEF SInv, WorkerOwns, Owns, RowOK
  <2>. QED
    BY <1>9, <2>1, <2>2 DEF acquire_process_lease, first_renewal, first_renewal_fails,
         enter_gate, stop_gate, test_scope, settle_fails, Step, SInv, ControlOK, Doomed, row
<1>10. CASE begin_success_commit \/ leave_loop \/ finish \/ continue_root
  <2>1. UNCHANGED <<turn, retained, deferred, last_admitted, db>>
    BY <1>10 DEF begin_success_commit, leave_loop, finish, continue_root, controls, vars, admission
  <2>. QED
    BY <1>10, <2>1 DEF begin_success_commit, leave_loop, finish, continue_root, controls, Step,
         SInv, ControlOK, Doomed, db
<1>. QED
  BY <1>1, <1>2, <1>3, <1>4, <1>5, <1>6, <1>7, <1>8, <1>9, <1>10 DEF WorkerStep

LEMMA ControlNext == ASSUME SInv, [SysNext]_svars PROVE ControlOK'
<1>0. RowStep
  BY RowKinds
<1>1. CASE heartbeat_due \/ BeatStep
  <2>0. UNCHANGED <<pc, turn, retained, last_admitted, db>>
    BY <1>1, BeatKeepsPlans
  <2>1. CASE cancel_from_request
    <3>1. Doomed(turn)
      BY <2>1 DEF cancel_from_request, SInv, BeatOwned
    <3>2. CASE CancelTurn("Stopped")
      BY <2>0, <3>1, <3>2, ControlStopped
    <3>3. CASE UNCHANGED <<control, deferred>>
      BY <1>0, <2>0, <3>3, ControlKept DEF db
    <3>. QED
      BY <2>1, <3>2, <3>3 DEF cancel_from_request, CancelOwn
  <2>2. CASE heartbeat_fails
    <3>1. pc \notin {"Start", "Leased", "Planned"}
      BY <2>2 DEF heartbeat_fails, RenewalErrs, SInv, BeatOwned, Beating
    <3>. QED
      BY <2>0, <2>2, <3>1, ControlFailed DEF heartbeat_fails
  <2>4. CASE renew_lease
    <3>1. pc \notin {"Start", "Leased", "Planned"}
      BY <2>4 DEF renew_lease, SInv, BeatOwned, Beating
    <3>2. CASE CancelTurn("Superseded")
      BY <2>0, <3>1, <3>2, ControlFailed
    <3>3. CASE UNCHANGED <<control, deferred>>
      BY <1>0, <2>0, <3>3, ControlKept DEF db
    <3>. QED
      BY <2>4, <3>2, <3>3 DEF renew_lease, CancelOwn, controls
  <2>3. CASE heartbeat_due \/ seal_from_request \/ commit_from_request
    <3>1. UNCHANGED <<control, deferred>>
      BY <2>3 DEF heartbeat_due, seal_from_request, commit_from_request, worker, controls
    <3>. QED
      BY <1>0, <2>0, <3>1, ControlKept DEF db
  <2>. QED
    BY <1>1, <2>1, <2>2, <2>3, <2>4 DEF BeatStep
<1>2. ASSUME NEW s \in Stopper, StopStep(s) PROVE ControlOK'
  <2>0. UNCHANGED <<pc, turn, retained, last_admitted, outcome>>
    BY <1>2, StopKeepsPlans
  <2>1. CASE cancel_turn(s)
    <3>1. retained /\ CancelTurn("Stopped") /\ UNCHANGED db
      BY <2>1 DEF cancel_turn
    <3>2. last_admitted # None /\ Doomed(last_admitted.turn)
      BY <2>1, <3>1 DEF cancel_turn, SInv, StopsOK, StopOK, ControlOK
    <3>3. last_admitted.turn = turn
      BY <3>1, <3>2, LastInTurn, DoomedFacts DEF SInv, ControlOK
    <3>. QED
      BY <2>0, <3>1, <3>2, <3>3, ControlStopped
  <2>2. CASE wake_exact(s) /\ CancelTurn("Stopped") /\ turn = target[s].turn
    <3>1. Doomed(turn) /\ UNCHANGED db
      BY <2>2 DEF wake_exact, SInv, StopsOK, StopOK
    <3>. QED
      BY <2>0, <2>2, <3>1, ControlStopped
  <2>3. CASE UNCHANGED <<control, deferred>>
    BY <1>0, <2>0, <2>3, ControlKept
  <2>. QED
    BY <1>2, <2>1, <2>2, <2>3 DEF StopStep, seal_scope, select_target, validate,
         request_interrupt, no_tree, cancel_scope, nothing_to_cancel, commit_stop, release_stop,
         capture_turn, request_exact, seal_exact, wake_exact, worker, controls
<1>3. CASE \/ other_run \/ other_end \/ recover_expired \/ recover_orphaned \/ rollback_session
           \/ lease_expires \/ publish_token \/ (\E w \in Caller : announce(w)) \/ UNCHANGED svars
  <2>1. UNCHANGED <<pc, turn, retained, control, deferred, last_admitted>>
    BY <1>3 DEF lease_expires, other_run, other_end, recover_expired, recover_orphaned, Recover,
         rollback_session, publish_token, publish_wake, announce,
         notify_root_admission_activity, svars, vars, admission, worker, controls
  <2>2. lock = "Worker" => UNCHANGED outcome
    BY <1>3 DEF lease_expires, other_run, other_end, recover_expired, recover_orphaned, Recover,
         rollback_session, publish_token, announce, svars, db
  <2>. QED
    BY <1>0, <2>1, <2>2, ControlKept
<1>. QED
  BY <1>1, <1>2, <1>3, WorkerKeepsControl DEF SysNext

-----------------------------------------------------------------------------
(* A Stop that knows its target knows the newest turn, and nothing is      *)
(* pending.                                                                *)
LEMMA KnownFacts ==
    ASSUME SInv, NEW s \in Stopper, stop[s] # None, ~MustWait(s)
    PROVE  pending = None /\ Selected(s) = last_admitted
BY SelectsNewest, Tasks DEF SInv, StopSelectsNewest

(* A Stop about to cancel a doomed turn covers the worker's.               *)
LEMMA LastCovers ==
    ASSUME SInv, pending = None, last_admitted = None \/ Doomed(last_admitted.turn)
    PROVE  Covered
<1>. SUFFICES ASSUME running = turn, running # NoTurn PROVE request = turn
  BY DEF Covered
<1>1. pc # "Admitted"
  BY Tasks DEF SInv, WorkerOwns, IInv, GuardOwnsPlan
<1>2. last_admitted = Receipts(turn)
  BY <1>1 DEF SInv, WorkerOwns
<1>3. Receipts(turn) # None /\ Receipts(turn).turn = turn
  BY ReceiptsAreReceipts, NoneAssumption DEF Receipts
<1>4. Doomed(turn)
  BY <1>2, <1>3
<1>. QED
  BY <1>4, DoomedCovers DEF Covered

(* A Stop that does not move.                                              *)
LEMMA StopKept ==
    ASSUME SInv, [SysNext]_svars, NEW r \in Stopper,
           at'[r] = at[r], target'[r] = target[r], stop'[r] = stop[r], settled'[r] = settled[r]
    PROVE  StopOK(r)'
<1>0. StopOK(r)
  BY DEF SInv, StopsOK
<1>1. at[r] \in Known => pending = None
  BY <1>0, KnownFacts DEF StopOK
<1>2. pending = None => last_admitted' = last_admitted /\ (Covered => Covered')
  BY PendingNoneKeeps
<1>3. \A t \in Turn : Doomed(t) => Doomed(t)'
  BY RowKinds, RowMonotone
<1>4. last_admitted # None => last_admitted.turn \in Turn
  BY LastInTurn
<1>5. target[r] # None => target[r].turn \in Turn
  BY DEF SInv, SysTypeOK, Receipt
<1>6. at[r] = "Local" => last_admitted' = None \/ Doomed(last_admitted.turn)'
  <2>. SUFFICES ASSUME at[r] = "Local", last_admitted # None PROVE Doomed(last_admitted.turn)'
    BY <1>1, <1>2 DEF Known
  <2>1. last_admitted' = last_admitted /\ Doomed(last_admitted.turn)
    BY <1>0, <1>1, <1>2 DEF StopOK, Known
  <2>. QED
    BY <1>3, <1>4, <2>1 DEF Doomed
<1>7. at[r] \in {"SealExact", "Wake"} => Doomed(target[r].turn)'
  <2>. SUFFICES ASSUME at[r] \in {"SealExact", "Wake"} PROVE Doomed(target[r].turn)'
    OBVIOUS
  <2>1. target[r] # None /\ Doomed(target[r].turn)
    BY <1>0 DEF StopOK
  <2>. QED
    BY <1>3, <1>5, <2>1 DEF Doomed
<1>8. at[r] \in {"LocalScope", "Terminal", "Commit"} => Covered'
  BY <1>0, <1>1, <1>2 DEF StopOK, Known
<1>9. MustWait(r)' = MustWait(r)
  BY DEF MustWait
<1>. QED
  BY <1>0, <1>6, <1>7, <1>8, <1>9 DEF StopOK

(* A Stop of the scope moves.                                              *)
LEMMA ScopeStopMoves ==
    ASSUME SInv, NEW s \in Stopper,
           \/ seal_scope(s) \/ select_target(s) \/ validate(s) \/ request_interrupt(s)
           \/ cancel_turn(s) \/ no_tree(s) \/ cancel_scope(s) \/ nothing_to_cancel(s)
    PROVE  StopOK(s)'
<1>. USE DEF Known
<1>0. /\ s \in Coordinator
      /\ \A x : [at EXCEPT ![s] = x][s] = x
      /\ TypeOK /\ StopOK(s)
  BY Tasks DEF SInv, IInv, SysTypeOK, StopsOK
<1>1. CASE seal_scope(s)
  <2>1. /\ stop'[s] # None /\ stop'[s].pending = pending
        /\ UNCHANGED <<pending, last_admitted>>
    BY <1>0, <1>1, SealEffect DEF seal_scope, TypeOK
  <2>2. \/ at'[s] = "Local" /\ last_admitted = None /\ pending = None
        \/ at'[s] = "Select"
    BY <1>0, <1>1 DEF seal_scope
  <2>. QED
    BY <2>1, <2>2 DEF StopOK, MustWait
<1>2. CASE select_target(s)
  <2>1. CASE UNCHANGED at
    <3>1. stop' = stop
      BY <1>2 DEF select_target, wait_settlement, subscribe, found_nothing, park, recheck, vars
    <3>. QED
      BY <1>0, <1>2, <2>1, <3>1 DEF select_target, StopOK
  <2>2. CASE ~UNCHANGED at
    <3>1. /\ ~MustWait(s) /\ UNCHANGED vars /\ at[s] = "Select"
          /\ at'[s] = IF Selected(s) = None THEN "Local" ELSE "Validate"
      BY <1>0, <1>2, <2>2 DEF select_target
    <3>2. stop[s] # None /\ Selected(s) = last_admitted
      BY <1>0, <3>1, KnownFacts DEF StopOK
    <3>. QED
      BY <3>1, <3>2 DEF StopOK, MustWait, vars, admission
  <2>. QED
    BY <2>1, <2>2
<1>3. CASE validate(s)
  <2>1. /\ UNCHANGED vars /\ UNCHANGED db /\ turn' = turn
        /\ at[s] = "Validate" /\ at'[s] \in {"Release", "Request", "Terminal"}
        /\ at'[s] = "Terminal" => running # latest
    BY <1>0, <1>3 DEF validate, worker
  <2>2. running # latest => Covered'
    BY <2>1 DEF SInv, RowOK, Covered, db
  <2>. QED
    BY <1>0, <2>1, <2>2 DEF StopOK, MustWait, vars
<1>4. CASE request_interrupt(s)
  <2>1. UNCHANGED vars /\ at[s] = "Request"
    BY <1>4 DEF request_interrupt
  <2>2. CASE running = Selected(s).turn /\ revision = Selected(s).revision
    <3>1. at'[s] = "Local" /\ request' = running
      BY <1>0, <1>4, <2>2 DEF request_interrupt, RecordRequest
    <3>2. Selected(s) = last_admitted
      BY <1>0, <2>1, KnownFacts DEF StopOK
    <3>3. last_admitted # None => request' = last_admitted.turn /\ last_admitted.turn # NoTurn
      BY <2>2, <3>1, <3>2, LastInTurn, TurnAssumption, BoundAssumption DEF NoTurn
    <3>. QED
      BY <1>0, <2>1, <3>1, <3>3 DEF StopOK, MustWait, vars, admission, Doomed
  <2>3. CASE ~(running = Selected(s).turn /\ revision = Selected(s).revision)
    <3>1. at'[s] = "Release"
      BY <1>0, <1>4, <2>3 DEF request_interrupt
    <3>. QED
      BY <3>1 DEF StopOK
  <2>. QED
    BY <2>2, <2>3
<1>5. CASE cancel_turn(s) \/ no_tree(s) \/ cancel_scope(s) \/ nothing_to_cancel(s)
  <2>1. /\ at[s] \in {"Local", "LocalScope", "Terminal"}
        /\ at'[s] \in {"LocalScope", "Commit", "Release"}
        /\ UNCHANGED <<turn, db, stop, settled>>
    BY <1>0, <1>5 DEF cancel_turn, no_tree, cancel_scope, nothing_to_cancel, Go, worker, vars,
         AdmissionRest
  <2>2. Covered
    BY <1>0, <2>1, KnownFacts, LastCovers DEF StopOK
  <2>. QED
    BY <1>0, <2>1, <2>2 DEF StopOK, MustWait, Covered, db
<1>. QED
  BY <1>1, <1>2, <1>3, <1>4, <1>5

(* A Stop of one exact turn moves, or a Stop ends.                         *)
LEMMA ExactStopMoves ==
    ASSUME SInv, NEW s \in Stopper,
           \/ commit_stop(s) \/ release_stop(s) \/ capture_turn(s) \/ request_exact(s)
           \/ seal_exact(s) \/ wake_exact(s)
    PROVE  StopOK(s)'
<1>. USE DEF Known
<1>0. /\ s \in Coordinator
      /\ \A x : [at EXCEPT ![s] = x][s] = x /\ [target EXCEPT ![s] = x][s] = x
      /\ TypeOK /\ StopOK(s)
  BY Tasks DEF SInv, IInv, SysTypeOK, StopsOK
<1>1. CASE commit_stop(s) \/ release_stop(s) \/ wake_exact(s)
  BY <1>0, <1>1 DEF commit_stop, release_stop, wake_exact, Go, StopOK
<1>2. CASE capture_turn(s)
  <2>1. Receipts(running) # None
    BY <1>2, ReceiptsAreReceipts, NoneAssumption DEF capture_turn
  <2>. QED
    BY <1>0, <1>2, <2>1 DEF capture_turn, StopOK
<1>3. CASE request_exact(s)
  <2>1. target[s] # None
    BY <1>0, <1>3 DEF request_exact, StopOK
  <2>2. target[s].turn # NoTurn
    BY <2>1, TurnAssumption, BoundAssumption DEF SInv, SysTypeOK, Receipt, NoTurn
  <2>3. \/ at'[s] = "SealExact" /\ target' = target /\ request' = target[s].turn
        \/ at'[s] = "Idle"
    BY <1>0, <1>3 DEF request_exact, RecordRequest
  <2>. QED
    BY <2>1, <2>2, <2>3 DEF StopOK, Doomed
<1>4. CASE seal_exact(s)
  <2>1. target[s] # None /\ Doomed(target[s].turn) /\ UNCHANGED db
    BY <1>0, <1>4 DEF seal_exact, StopOK
  <2>2. CASE at'[s] = "Local"
    <3>1. seal_root_admission_for_stop(s) /\ pending = None /\ last_admitted = target[s]
      BY <1>0, <1>4, <2>2 DEF seal_exact
    <3>2. stop'[s] # None /\ stop'[s].pending = None /\ last_admitted' = last_admitted
      BY <1>0, <3>1, SealEffect DEF TypeOK
    <3>. QED
      BY <2>1, <2>2, <3>1, <3>2 DEF StopOK, MustWait, Doomed, db
  <2>3. CASE at'[s] = "Wake"
    <3>1. target' = target
      BY <1>0, <1>4, <2>3 DEF seal_exact
    <3>. QED
      BY <2>1, <2>3, <3>1 DEF StopOK, Doomed, db
  <2>4. CASE at'[s] \in {"Idle", "Release"}
    BY <2>4 DEF StopOK
  <2>. QED
    BY <1>0, <1>4, <2>2, <2>3, <2>4 DEF seal_exact
<1>. QED
  BY <1>1, <1>2, <1>3, <1>4

(* Only the two commits turn an uncommitted lease into a committed one.    *)
LEMMA OnlyCommitsCommit ==
    ASSUME SInv, [SysNext]_svars, ~StopCommitted, ~commit_from_request,
           \A s \in Stopper : ~commit_stop(s)
    PROVE  ~StopCommitted'
<1>. USE DEF StopCommitted
<1>0. ASSUME UNCHANGED stop_lease PROVE ~StopCommitted'
  BY <1>0
<1>1. ASSUME NEW c, seal_root_admission_for_stop(c) PROVE ~StopCommitted'
  BY <1>1 DEF seal_root_admission_for_stop
<1>2. CASE WorkerStep
  <2>1. CASE admission_refused \/ publish_receipt
    <3>1. PICK settlement : stop_lease' = SettleLease(guard[Worker], settlement)
      BY <2>1 DEF admission_refused, abort_root_admission, publish_receipt,
           commit_root_admission, SettlePlan
    <3>. QED
      BY <3>1 DEF SettleLease
  <2>2. CASE plan_turn \/ enter_gate \/ stop_gate
    BY <1>0, <2>2 DEF plan_turn, begin_root_admission, enter_gate, stop_gate, subscribe,
         stop_resolved_cancelled, stop_resolved_continue, Leave, stop_unresolved,
         found_nothing, park, recheck, vars, admission
  <2>3. CASE classify_run_error
    BY <1>0, <2>3 DEF classify_run_error, AdmissionRest, admission
  <2>. QED
    BY <1>0, <1>2, <2>1, <2>2, <2>3 DEF WorkerStep, acquire_process_lease, admit_turn,
         first_renewal, first_renewal_fails, test_scope, adopt_scope, begin_success_commit,
         leave_loop, settle_success, abandon_success, resolve_success, settle_stopped, settle_fails, finish,
         continue_root, vars, admission
<1>3. CASE heartbeat_due \/ BeatStep
  <2>1. CASE cancel_from_request \/ renew_lease
    BY <1>0, <2>1 DEF cancel_from_request, renew_lease, AdmissionRest, admission
  <2>. QED
    BY <1>0, <1>1, <1>3, <2>1 DEF heartbeat_due, BeatStep, heartbeat_fails, seal_from_request,
         vars, admission
<1>4. ASSUME NEW s \in Stopper, StopStep(s) PROVE ~StopCommitted'
  <2>1. CASE cancel_scope(s)
    BY <1>0, <2>1 DEF cancel_scope, AdmissionRest, admission
  <2>2. CASE select_target(s) \/ release_stop(s)
    BY <1>0, <2>2 DEF select_target, wait_settlement, subscribe, found_nothing, park, recheck,
         Leave, release_stop, release_root_admission_stop_seal, vars, admission
  <2>. QED
    BY <1>0, <1>1, <1>4, <2>1, <2>2 DEF StopStep, seal_scope, seal_exact, validate,
         request_interrupt, cancel_turn, no_tree, nothing_to_cancel, capture_turn,
         request_exact, wake_exact, vars, admission
<1>5. CASE \/ other_run \/ other_end \/ recover_expired \/ recover_orphaned \/ rollback_session
           \/ lease_expires \/ publish_token \/ (\E w \in Caller : announce(w)) \/ UNCHANGED svars
  BY <1>0, <1>5 DEF lease_expires, other_run, other_end, recover_expired, recover_orphaned, Recover,
       rollback_session, publish_token, publish_wake, announce,
       notify_root_admission_activity, svars, vars, admission
<1>. QED
  BY <1>2, <1>3, <1>4, <1>5 DEF SysNext

(* A Stop is committed only when nothing is pending and the worker's turn  *)
(* is covered.                                                             *)
LEMMA CommittedCovers ==
    ASSUME SInv, [SysNext]_svars, StopCommitted'
    PROVE  pending' = None /\ Covered'
<1>1. ASSUME NEW c \in Coordinator, CommitSeal(c), ~MustWait(c), Covered
      PROVE  pending' = None /\ Covered'
  <2>1. pending = None /\ pending' = pending
    BY <1>1, SelectsNewest DEF CommitSeal, SInv, StopSelectsNewest
  <2>. QED
    BY <1>1, <2>1, PendingNoneKeeps
<1>2. CASE commit_from_request
  <2>1. Doomed(turn) /\ ~MustWait(Heartbeat) /\ CommitSeal(Heartbeat)
    BY <1>2 DEF commit_from_request, SInv, BeatOwned
  <2>. QED
    BY <1>1, <2>1, DoomedCovers, Tasks
<1>3. ASSUME NEW s \in Stopper, commit_stop(s) PROVE pending' = None /\ Covered'
  <2>1. CommitSeal(s) /\ ~MustWait(s) /\ Covered
    BY <1>3 DEF commit_stop, Go, SInv, StopsOK, StopOK, Known
  <2>. QED
    BY <1>1, <2>1, Tasks
<1>4. CASE StopCommitted
  <2>1. pending = None /\ Covered /\ stop_lease # None
    BY <1>4 DEF SInv, StopsOK, StopCommitted
  <2>2. pending' = None
    <3>1. [Next]_vars
      BY StepRefines
    <3>2. stop_lease' # None
      BY DEF StopCommitted
    <3>3. CASE pending' # None
      <4>2. CASE UNCHANGED pending
        BY <2>1, <3>3, <4>2
      <4>3. ASSUME NEW b \in Admitter, NEW session \in Session, NEW t \in Turn,
                   begin_root_admission(b, session, t)
            PROVE  FALSE
        BY <2>1, <4>3 DEF begin_root_admission, MayBegin
      <4>4. ASSUME NEW b \in Admitter, NEW settlement \in Settlement, Settles(b, settlement)
            PROVE  FALSE
        BY <3>3, <4>4 DEF Settles, SettlePlan
      <4>5. ASSUME NEW c \in Coordinator,
                   \/ seal_root_admission_for_stop(c) \/ Learns(c)
                   \/ commit_root_admission_stop_seal(c) \/ release_root_admission_stop_seal(c)
            PROVE  UNCHANGED pending
        BY <4>5 DEF seal_root_admission_for_stop, Learns, commit_root_admission_stop_seal,
             CommitSeal, release_root_admission_stop_seal, admission
      <4>. QED
        BY <3>1, <4>2, <4>3, <4>4, <4>5, StepKinds DEF Quiet, admission, SInv, IInv
    <3>. QED
      BY <3>3
  <2>. QED
    BY <2>1, <2>2, PendingNoneKeeps
<1>. QED
  BY <1>2, <1>3, <1>4, OnlyCommitsCommit

LEMMA StopsNext == ASSUME SInv, [SysNext]_svars PROVE StopsOK'
<1>1. ASSUME NEW r \in Stopper PROVE StopOK(r)'
  <2>1. CASE StopStep(r)
    BY <2>1, ScopeStopMoves, ExactStopMoves DEF StopStep
  <2>2. CASE ~StopStep(r)
    <3>1. stop'[r] = stop[r] /\ settled'[r] = settled[r]
      BY <2>2, OthersKeepStops, Tasks DEF SInv, IInv
    <3>2. at'[r] = at[r] /\ target'[r] = target[r]
      <4>1. ASSUME NEW s \in Stopper, StopStep(s), s # r
            PROVE  at'[r] = at[r] /\ target'[r] = target[r]
        BY <4>1 DEF StopStep, seal_scope, select_target, validate, request_interrupt,
             cancel_turn, no_tree, cancel_scope, nothing_to_cancel, commit_stop, release_stop,
             capture_turn, request_exact, seal_exact, wake_exact, Go, SInv, SysTypeOK
      <4>2. CASE WorkerStep
        BY <4>2 DEF WorkerStep, acquire_process_lease, plan_turn, admit_turn,
             admission_refused, publish_receipt, first_renewal, first_renewal_fails,
             enter_gate, stop_gate, test_scope, adopt_scope, begin_success_commit, leave_loop,
             settle_success, abandon_success, resolve_success, classify_run_error,
             settle_stopped, settle_fails, finish, continue_root, stops
      <4>3. CASE \/ other_run \/ other_end \/ recover_expired \/ recover_orphaned
                 \/ lease_expires \/ rollback_session \/ publish_token \/ (\E w \in Caller : announce(w))
                 \/ UNCHANGED svars
        BY <4>3 DEF lease_expires, other_run, other_end, recover_expired, recover_orphaned, Recover,
             rollback_session, publish_token, announce, svars, stops
      <4>. QED
        BY <2>2, <4>1, <4>2, <4>3, BeatKeepsPlans DEF SysNext
    <3>. QED
      BY <3>1, <3>2, StopKept
  <2>. QED
    BY <2>1, <2>2
<1>. QED
  BY <1>1, CommittedCovers DEF StopsOK

-----------------------------------------------------------------------------
(* The inductive invariant of the system.                                  *)
LEMMA SInvNext == SInv /\ [SysNext]_svars => SInv'
<1>. SUFFICES ASSUME SInv, [SysNext]_svars PROVE SInv'
  OBVIOUS
<1>1. IInv'
  BY StepRefines, IInvNext DEF SInv
<1>. QED
  BY <1>1, SysTypeNext, RowNext, WorkerOwnsNext, BeatOwnedNext, ControlNext, StopsNext DEF SInv

(* Every reachable state of the system satisfies SInv.                     *)
THEOREM SystemInvariant == SysSpec => []SInv
BY SInvInit, SInvNext, PTL DEF SysSpec

(* Whatever the worker, the heartbeat and the Stops do together is allowed *)
(* by RootAdmission: every theorem about it holds for the system.          *)
THEOREM SystemImplementsRootAdmission == SysSpec => ImplementsRootAdmission
<1>1. SysInit => Init
  BY DEF SysInit
<1>. QED
  BY <1>1, SystemInvariant, StepRefines, PTL DEF SysSpec, Spec, ImplementsRootAdmission

(* Once a Stop of the scope is committed, a turn of the worker that still  *)
(* runs carries a durable interrupt request.                               *)
THEOREM CommittedStopReachesTheTurn == SysSpec => []NoTurnEscapesStop
<1>1. SInv => NoTurnEscapesStop
  BY DEF SInv, StopsOK, Covered, NoTurnEscapesStop
<1>. QED
  BY <1>1, SystemInvariant, PTL

(* A stopped control belongs to a turn that carries a request while it     *)
(* runs and that the database never calls completed.                       *)
THEOREM StopsHitOnlyTheirTurn == SysSpec => []StopHitsOnlyItsTurn
<1>1. SInv => StopHitsOnlyItsTurn
  <2>. SUFFICES ASSUME SInv, control = "Stopped"
                PROVE  (running = turn => request = turn) /\ outcome[turn] # "Completed"
    BY DEF StopHitsOnlyItsTurn
  <2>1. Doomed(turn) /\ turn \in Turn
    BY TurnInTurn DEF SInv, ControlOK, Doomed
  <2>. QED
    BY <2>1, DoomedFacts
<1>. QED
  BY <1>1, SystemInvariant, PTL

(* A turn that was asked to stop, or has ended without success, stays so;  *)
(* a terminal outcome is never replaced.                                   *)
OutcomesAreFinal ==
    [][\A t \in Turn : /\ outcome[t] # "None" => outcome'[t] = outcome[t]
                       /\ Doomed(t) => Doomed(t)']_svars

(* No terminal, recovery or edit of another owner completes a turn that    *)
(* was asked to stop, and none replaces an outcome.                        *)
THEOREM RequestedStopsAreFinal == SysSpec => OutcomesAreFinal
<1>1. ASSUME SInv, [SysNext]_svars, NEW t \in Turn
      PROVE  (outcome[t] # "None" => outcome'[t] = outcome[t]) /\ (Doomed(t) => Doomed(t)')
  BY <1>1, RowKinds, RowMonotone
<1>2. SInv /\ [SysNext]_svars =>
        [\A t \in Turn : /\ outcome[t] # "None" => outcome'[t] = outcome[t]
                         /\ Doomed(t) => Doomed(t)']_svars
  BY <1>1
<1>. QED
  BY <1>2, SystemInvariant, PTL DEF SysSpec, OutcomesAreFinal

(* The control of a turn is sealed by success exactly when the database    *)
(* has completed it, and a cause waits only behind a commit under way.     *)
THEOREM ControlAgreesWithTheDatabase == SysSpec => []LocalMatchesDurable
<1>1. SInv => LocalMatchesDurable
  BY DEF SInv, ControlOK, LocalMatchesDurable
<1>. QED
  BY <1>1, SystemInvariant, PTL
=============================================================================
