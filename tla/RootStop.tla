------------------------------ MODULE RootStop ------------------------------
(***************************************************************************)
(* Stopping a root task from end to end (src/src/app/run_service.rs).      *)
(*                                                                         *)
(* One worker runs the root turns of a scope, one after the other: it      *)
(* plans a turn, lets the database admit it, publishes the receipt, passes *)
(* the Stop gate, runs, and settles the turn.  Stops arrive at any time,   *)
(* either for the scope or for one exact turn.  A Stop first settles its   *)
(* target with RootAdmission, then records an interrupt request in the     *)
(* session's database row, then cancels the local control, then commits    *)
(* its seal.  The heartbeat of the worker turns a request it finds in the  *)
(* database into a local Stop.  Between two turns of the worker another    *)
(* owner may run or edit the same session.                                 *)
(*                                                                         *)
(* Database transactions and critical sections are atomic, everything else *)
(* interleaves.                                                            *)
(***************************************************************************)
EXTENDS RootAdmission

CONSTANTS
    Worker,         \* the task running the root turns
    Heartbeat,      \* its heartbeat, which also may seal the scope
    Chat,           \* the one session
    MaxTurn,        \* bound on the turns of the session
    MaxRevision     \* bound on its admission revision

ASSUME WorkerAssumption == Admitter = {Worker} /\ Heartbeat \in Coordinator /\ Session = {Chat}
ASSUME TurnAssumption == Turn = 1 .. MaxTurn /\ Revision = 1 .. MaxRevision
ASSUME BoundAssumption == MaxTurn \in Nat /\ MaxRevision \in Nat

Stopper == Coordinator \ {Heartbeat}
NoTurn == 0

VARIABLES
    pc,         \* the worker's place in execute_run
    turn,       \* the turn the worker is at
    retained,   \* the agent tree owns the scope (AgentRuntime::trees)
    cause,      \* why the outer control is cancelled
    control,    \* the classification of the current root turn's RunControl
    deferred,   \* the cause that is pending behind its success commit
    beat,       \* the heartbeat's place in renew_admitted_run_lease
    lock,       \* the holder of the session's process lease
    used,       \* turn ids given out
    latest, revision, running, request,     \* the session's database row
    outcome,    \* outcome[t]: the durable terminal of t
    lost,       \* the worker cannot settle its turn: the lease expired, storage failed
    at,         \* at[s]: the place of s in its Stop
    target      \* target[s]: the receipt a Stop of an exact turn was given

controls == <<cause, control, deferred>>
worker == <<pc, turn, retained, controls>>
db == <<used, latest, revision, running, request, outcome, lost>>
stops == <<at, target>>
svars == <<vars, worker, beat, lock, db, stops>>

Receipts(t) == [session |-> Chat, turn |-> t, revision |-> revision]

-----------------------------------------------------------------------------
SysInit ==
    /\ Init
    /\ pc = "Start"
    /\ turn = NoTurn
    /\ retained = FALSE
    /\ cause = "None"
    /\ control = "None"
    /\ deferred = "None"
    /\ beat = "Off"
    /\ lock = "Free"
    /\ used = 0 /\ latest = NoTurn /\ revision = 0 /\ running = NoTurn /\ request = NoTurn
    /\ outcome = [t \in Turn |-> "None"]
    /\ lost = FALSE
    /\ at = [s \in Stopper |-> "Idle"]
    /\ target = [s \in Stopper |-> None]

(* request_cancel_local on the control of the current root turn: behind a  *)
(* success commit the first cause waits.                                   *)
CancelTurn(why) ==
    /\ control' = IF control = "Open" THEN why ELSE control
    /\ deferred' = IF control = "Committing" /\ deferred = "None" THEN why ELSE deferred

(* request_cancel_local on the outer control.                              *)
CancelScope(why) ==
    /\ scope' = IF scope = "Open" THEN "Cancelled" ELSE scope
    /\ cause' = IF scope = "Open" THEN why ELSE cause

(* A control the worker may classify: that of its turn once the tree owns  *)
(* the scope, the outer control before.                                    *)
CancelOwn(why) ==
    \/ retained /\ CancelTurn(why) /\ UNCHANGED <<scope, cause>>
    \/ ~retained /\ CancelScope(why) /\ UNCHANGED <<control, deferred>>

OwnCause == IF retained THEN control ELSE cause

AdmissionRest == <<woken, admission, guard, stop, settled, wait, changed, notify>>

-----------------------------------------------------------------------------
(* The worker: execute_single_run.                                         *)
Step(from, to) == pc = from /\ pc' = to

(* try_acquire_run_process_lease, then begin_root_admission.  A refusal    *)
(* ends the run through classify_run_error.                                *)
acquire_process_lease ==
    /\ pc = "Start"
    /\ \/ lock = "Free" /\ lock' = "Worker" /\ pc' = "Leased"
       \/ lock # "Free" /\ lock' = lock /\ pc' = "Failing"
    /\ UNCHANGED <<vars, turn, retained, controls, beat, db, stops>>

plan_turn ==
    /\ pc = "Leased"
    /\ \/ /\ used < MaxTurn
          /\ begin_root_admission(Worker, Chat, used + 1)
          /\ turn' = used + 1
          /\ used' = used + 1
          /\ pc' = "Planned"
          /\ UNCHANGED lock
       \/ /\ ~MayBegin(Chat)
          /\ pc' = "Failing"
          /\ lock' = "Free"
          /\ UNCHANGED <<vars, turn, used>>
    /\ UNCHANGED <<retained, controls, beat, latest, revision, running, request,
                   outcome, lost, stops>>

(* The database admits the turn: nobody runs, no interrupt request is      *)
(* open, and a continuation still follows its completed predecessor.       *)
Admissible ==
    /\ running = NoTurn
    /\ request = NoTurn
    /\ retained => /\ latest = last_admitted.turn
                   /\ revision = last_admitted.revision
                   /\ outcome[latest] = "Completed"

admit_turn ==
    /\ Step("Planned", "Admitted")
    /\ Admissible
    /\ revision < MaxRevision
    /\ latest' = turn
    /\ running' = turn
    /\ revision' = revision + 1
    /\ UNCHANGED <<vars, turn, retained, controls, beat, lock, used, request, outcome,
                   lost, stops>>

(* The admission is unavailable, fails, or finds the goal inactive: the    *)
(* guard is aborted or dropped.                                            *)
admission_refused ==
    /\ pc = "Planned"
    /\ abort_root_admission(Worker)
    /\ pc' \in {"Failing", "Ended"}
    /\ lock' = "Free"
    /\ UNCHANGED <<turn, retained, controls, beat, db, stops>>

publish_receipt ==
    /\ Step("Admitted", "Published")
    /\ commit_root_admission(Worker, revision)
    /\ UNCHANGED <<turn, retained, controls, beat, lock, db, stops>>

(* The first renewal of the admission lease, in line; then the Stop gate.  *)
first_renewal ==
    /\ Step("Published", "Renewing")
    /\ Ready(Worker)
    /\ beat' = "Read"
    /\ UNCHANGED <<vars, turn, retained, controls, lock, db, stops>>

(* The renewal returns an error: of the storage or, when it has found a    *)
(* request, of a scope that has no seal left to give (SequenceExhausted).  *)
SealsExhausted ==
    stop_lease = None /\ scope \notin {"SuccessSealed", "Cancelled"} /\ next_stop_seal_id = MaxId

RenewalErrs == beat = "Read" \/ (beat = "Seal" /\ SealsExhausted)

(* At the first renewal it leaves the admitted turn to expiry recovery.    *)
first_renewal_fails ==
    /\ Step("Renewing", "Failing")
    /\ RenewalErrs
    /\ beat' = "Off"
    /\ lock' = "Free"
    /\ lost' = TRUE
    /\ UNCHANGED <<vars, turn, retained, controls, used, latest, revision, running, request,
                   outcome, stops>>

enter_gate ==
    /\ Step("Renewing", "Gate")
    /\ beat = "Off"
    /\ subscribe(Worker)
    /\ UNCHANGED <<turn, retained, controls, beat, lock, db, stops>>

stop_gate ==
    /\ pc = "Gate"
    /\ \/ stop_resolved_cancelled(Worker) /\ pc' = "GateStopped"
       \/ stop_resolved_continue(Worker) /\ pc' = IF retained THEN "Running" ELSE "Building"
       \/ (stop_unresolved(Worker) \/ park(Worker) \/ recheck(Worker)) /\ UNCHANGED pc
    /\ UNCHANGED <<turn, retained, controls, beat, lock, db, stops>>

(* begin_root_with_run_service: the scope is tested, then the tree that    *)
(* owns it becomes visible to others.  It may also fail for other reasons: *)
(* the storage, or a tree left of an earlier run that refuses the scope.   *)
test_scope ==
    /\ pc = "Building"
    /\ pc' \in {"Stopping"} \cup (IF woken \/ scope = "SuccessSealed" THEN {} ELSE {"Adopting"})
    /\ UNCHANGED <<vars, turn, retained, controls, beat, lock, db, stops>>

adopt_scope ==
    /\ Step("Adopting", "Running")
    /\ retained' = TRUE
    /\ control' = "Open"
    /\ UNCHANGED <<vars, turn, cause, deferred, beat, lock, db, stops>>

(* The heartbeat beats while the turn runs.                                *)
heartbeat_due ==
    /\ pc \in {"Running", "Committing", "Resolving"}
    /\ beat = "Off"
    /\ Ready(Heartbeat)
    /\ beat' = "Read"
    /\ UNCHANGED <<vars, worker, lock, db, stops>>

(* The agent loop ends: with an answer it reserves the success commit,     *)
(* with an error or a cancelled control it stops.                          *)
begin_success_commit ==
    /\ Step("Running", "Committing")
    /\ control = "Open"
    /\ control' = "Committing"
    /\ UNCHANGED <<vars, turn, retained, cause, deferred, beat, lock, db, stops>>

leave_loop ==
    /\ Step("Running", "Stopping")
    /\ UNCHANGED <<vars, turn, retained, controls, beat, lock, db, stops>>

(* terminalize_turn_with_protocol_event_guarded: an open interrupt request *)
(* replaces the requested outcome.                                         *)
Terminalize(requested) ==
    /\ outcome' = [outcome EXCEPT ![turn] = IF request = turn THEN "Interrupted" ELSE requested]
    /\ running' = NoTurn
    /\ request' = NoTurn
    /\ UNCHANGED <<used, latest, revision, lost>>

settle_success ==
    /\ Step("Committing", "Resolving")
    /\ ~lost
    /\ Terminalize("Completed")
    /\ UNCHANGED <<vars, turn, retained, controls, beat, lock, stops>>

(* What an error of the run is classified as: an owner that has lost its   *)
(* lease may also learn that it is superseded.                             *)
ErrorCauses == IF lost THEN {"Failed", "Superseded"} ELSE {"Failed"}

(* The terminal transaction fails or does not own the turn: the            *)
(* reservation is abandoned, a deferred cause wins over the error.         *)
abandon_success ==
    /\ Step("Committing", "Stopping")
    /\ control' \in IF deferred # "None" THEN {deferred} ELSE ErrorCauses
    /\ deferred' = "None"
    /\ UNCHANGED <<vars, turn, retained, cause, beat, lock, db, stops>>

(* Faulty: success is sealed without looking at the durable summary.       *)
resolve_success_unread ==
    /\ Step("Resolving", "Finishing")
    /\ control' = "Sealed"
    /\ deferred' = "None"
    /\ UNCHANGED <<vars, turn, retained, cause, beat, lock, db, stops>>

(* resolve_success_commit_from_durable_summary.                            *)
resolve_success ==
    /\ Step("Resolving", "Finishing")
    /\ control' = IF outcome[turn] = "Completed" THEN "Sealed" ELSE "Stopped"
    /\ deferred' = "None"
    /\ UNCHANGED <<vars, turn, retained, cause, beat, lock, db, stops>>

(* finish_admitted_run of a run that did not settle itself: the heartbeat  *)
(* is gone, the error is classified, the cause decides the outcome.        *)
classify_run_error ==
    /\ pc \in {"Stopping", "GateStopped", "Failing"}
    /\ beat \in {"Off", "Done"}
    /\ \E why \in ErrorCauses : CancelOwn(why)
    /\ pc' = IF pc = "Failing" THEN "Ended" ELSE "Settling"
    /\ UNCHANGED <<AdmissionRest, turn, retained, beat, lock, db, stops>>

(* The terminal transaction needs an unexpired lease; a superseded run     *)
(* does not try it.  A turn that is not settled is left to recovery.       *)
settle_stopped ==
    /\ Step("Settling", "Finishing")
    /\ IF lost \/ OwnCause = "Superseded"
         THEN UNCHANGED db
         ELSE Terminalize(IF OwnCause = "Stopped" THEN "Interrupted" ELSE "Failed")
    /\ UNCHANGED <<vars, turn, retained, controls, beat, lock, stops>>

(* The storage fails in that transaction.                                  *)
settle_fails ==
    /\ Step("Settling", "Finishing")
    /\ lost' = TRUE
    /\ UNCHANGED <<vars, turn, retained, controls, beat, lock, used, latest, revision,
                   running, request, outcome, stops>>

finish ==
    /\ pc = "Finishing"
    /\ beat \in {"Off", "Done"}
    /\ beat' = "Off"
    /\ lock' = "Free"
    /\ pc' = IF outcome[turn] = "Completed" THEN "Completed" ELSE "Ended"
    /\ UNCHANGED <<vars, turn, retained, controls, db, stops>>

(* try_acquire_root_continuation; Blocked behind a Stop, or no goal left.  *)
continue_root ==
    /\ pc = "Completed"
    /\ \/ /\ ~woken
          /\ stop_lease = None
          /\ control = "Sealed"
          /\ control' = "Open"
          /\ pc' = "Start"
       \/ UNCHANGED control /\ pc' = "Ended"
    /\ UNCHANGED <<vars, turn, retained, cause, deferred, beat, lock, db, stops>>

-----------------------------------------------------------------------------
(* The admission lease of the worker's turn runs out: no renewal came in   *)
(* time.                                                                   *)
lease_expires ==
    /\ running = turn /\ running # NoTurn /\ ~lost
    /\ lost' = TRUE
    /\ UNCHANGED <<vars, worker, beat, lock, used, latest, revision, running, request,
                   outcome, stops>>

(* Faulty: a renewal does not look for interrupt requests.                 *)
renew_lease_only ==
    /\ beat = "Read"
    /\ beat' = IF running # turn THEN "Done" ELSE "Off"
    /\ UNCHANGED <<vars, worker, lock, db, stops>>

(* The heartbeat: renew_admitted_run_lease_with_terminal_cancel.  A turn   *)
(* that is over, was asked to stop or is lost is not renewed again; if it  *)
(* did not complete, the run is superseded.                                *)
renew_lease ==
    LET requested == running = turn /\ request = turn
        renewed == running = turn /\ request # turn /\ ~lost
        completed == running # turn /\ outcome[turn] = "Completed"
    IN  /\ beat = "Read"
        /\ beat' = IF requested THEN "Seal"
                   ELSE IF renewed \/ pc = "Renewing" THEN "Off" ELSE "Done"
        /\ IF requested \/ renewed \/ completed
             THEN UNCHANGED <<scope, controls>>
             ELSE CancelOwn("Superseded")
        /\ UNCHANGED <<AdmissionRest, pc, turn, retained, lock, db, stops>>

(* An error of a renewal ends the heartbeat and fails the run.             *)
heartbeat_fails ==
    /\ RenewalErrs
    /\ pc # "Renewing"
    /\ beat' = "Done"
    /\ CancelTurn("Failed")
    /\ UNCHANGED <<vars, pc, turn, retained, cause, lock, db, stops>>

(* commit_root_admission_stop_from_durable_request: it does not wait for a *)
(* pending plan; a seal that another holds, or a scope that is closed, is  *)
(* as good as a seal of its own.                                           *)
seal_from_request ==
    /\ beat = "Seal"
    /\ \/ seal_root_admission_for_stop(Heartbeat) /\ beat' = "Commit"
       \/ ~MaySeal /\ ~SealsExhausted /\ beat' = "Cancel" /\ UNCHANGED vars
    /\ UNCHANGED <<worker, lock, db, stops>>

commit_from_request ==
    /\ beat = "Commit"
    /\ CommitSeal(Heartbeat)
    /\ beat' = "Cancel"
    /\ UNCHANGED <<worker, lock, db, stops>>

(* Faulty: the outer control is cancelled in place of the turn's.          *)
cancel_scope_from_request ==
    /\ beat = "Cancel"
    /\ Ready(Heartbeat)
    /\ CancelScope("Stopped")
    /\ beat' = IF pc = "Renewing" THEN "Off" ELSE "Done"
    /\ UNCHANGED <<AdmissionRest, pc, turn, retained, control, deferred, lock, db, stops>>

cancel_from_request ==
    /\ beat = "Cancel"
    /\ Ready(Heartbeat)
    /\ CancelOwn("Stopped")
    /\ beat' = IF pc = "Renewing" THEN "Off" ELSE "Done"
    /\ UNCHANGED <<AdmissionRest, pc, turn, retained, lock, db, stops>>

-----------------------------------------------------------------------------
(* A Stop of the scope: request_root_execution_stop.                       *)
Go(s, from, to) == at[s] = from /\ at' = [at EXCEPT ![s] = to]

seal_scope(s) ==
    /\ at[s] = "Idle"
    /\ seal_root_admission_for_stop(s)
    /\ at' = [at EXCEPT ![s] = IF last_admitted = None /\ pending = None THEN "Local" ELSE "Select"]
    /\ UNCHANGED <<worker, beat, lock, db, target>>

(* Faulty: the plan that was pending is not waited for.                    *)
select_without_waiting(s) ==
    /\ at[s] = "Select"
    /\ at' = [at EXCEPT ![s] = IF Selected(s) = None THEN "Local" ELSE "Validate"]
    /\ UNCHANGED <<vars, worker, beat, lock, db, target>>

select_target(s) ==
    /\ at[s] = "Select"
    /\ \/ wait_settlement(s) /\ UNCHANGED at
       \/ /\ ~MustWait(s)
          /\ at' = [at EXCEPT ![s] = IF Selected(s) = None THEN "Local" ELSE "Validate"]
          /\ UNCHANGED vars
    /\ UNCHANGED <<worker, beat, lock, db, target>>

(* validate_root_execution_at_expectation.                                 *)
validate(s) ==
    /\ at[s] = "Validate"
    /\ LET exact == latest = Selected(s).turn /\ revision = Selected(s).revision
       IN  at' = [at EXCEPT ![s] = IF ~exact THEN "Release"
                                   ELSE IF running = latest THEN "Request" ELSE "Terminal"]
    /\ UNCHANGED <<vars, worker, beat, lock, db, target>>

(* request_exact_execution_interrupt: compare the exact turn and record.   *)
RecordRequest(receipt) ==
    /\ running = receipt.turn
    /\ revision = receipt.revision
    /\ request' = running
    /\ UNCHANGED <<used, latest, revision, running, outcome, lost>>

(* Faulty: only the local control is told.                                 *)
request_nothing(s) ==
    /\ Go(s, "Request", "Local")
    /\ UNCHANGED <<vars, worker, beat, lock, db, target>>

request_interrupt(s) ==
    /\ at[s] = "Request"
    /\ IF running = Selected(s).turn /\ revision = Selected(s).revision
         THEN RecordRequest(Selected(s)) /\ at' = [at EXCEPT ![s] = "Local"]
         ELSE UNCHANGED db /\ at' = [at EXCEPT ![s] = "Release"]
    /\ UNCHANGED <<vars, worker, beat, lock, target>>

(* commit_local_root_execution_stop: the root turn of the tree that owns   *)
(* the scope, or else the outer control.  Without a durable turn a control *)
(* that already has another cause refuses the Stop.                        *)
cancel_turn(s) ==
    /\ at[s] = "Local"
    /\ retained
    /\ CancelTurn("Stopped")
    /\ at' = [at EXCEPT ![s] =
                IF Selected(s) = None /\ control \in {"Failed", "Superseded", "Sealed"} THEN "Release" ELSE "Commit"]
    /\ UNCHANGED <<vars, pc, turn, retained, cause, beat, lock, db, target>>

no_tree(s) ==
    /\ Go(s, "Local", "LocalScope")
    /\ ~retained
    /\ UNCHANGED <<vars, worker, beat, lock, db, target>>

cancel_scope(s) ==
    /\ at[s] = "LocalScope"
    /\ CancelScope("Stopped")
    /\ at' = [at EXCEPT ![s] =
                IF Selected(s) = None /\ cause \in {"Failed", "Superseded"} THEN "Release" ELSE "Commit"]
    /\ UNCHANGED <<AdmissionRest, pc, turn, retained, control, deferred, beat, lock, db, target>>

(* Faulty: a turn that has already ended is cancelled all the same.        *)
cancel_settled(s) ==
    /\ Go(s, "Terminal", "Commit")
    /\ CancelTurn("Stopped")
    /\ UNCHANGED <<vars, pc, turn, retained, cause, beat, lock, db, target>>

nothing_to_cancel(s) ==
    /\ Go(s, "Terminal", "Commit")
    /\ UNCHANGED <<vars, worker, beat, lock, db, target>>

commit_stop(s) ==
    /\ Go(s, "Commit", "Idle")
    /\ CommitSeal(s)
    /\ target' = [target EXCEPT ![s] = None]
    /\ UNCHANGED <<worker, beat, lock, db>>

(* RootExecutionStopLeaseGuard::drop: the target changed, the Stop was     *)
(* dropped in its wait, the storage or the preparation of a remote Stop    *)
(* failed.                                                                 *)
release_stop(s) ==
    /\ at[s] \in {"Release", "Select", "Validate", "Request"}
    /\ release_root_admission_stop_seal(s)
    /\ at' = [at EXCEPT ![s] = "Idle"]
    /\ target' = [target EXCEPT ![s] = None]
    /\ UNCHANGED <<worker, beat, lock, db>>

(* A Stop of one exact turn: cancel_exact_root_execution.  The request is  *)
(* recorded first; the scope is sealed only if it is at that turn.         *)
capture_turn(s) ==
    /\ at[s] = "Idle"
    /\ Ready(s)
    /\ running # NoTurn
    /\ target' = [target EXCEPT ![s] = Receipts(running)]
    /\ at' = [at EXCEPT ![s] = "Exact"]
    /\ UNCHANGED <<vars, worker, beat, lock, db>>

request_exact(s) ==
    /\ at[s] = "Exact"
    /\ IF running = target[s].turn /\ revision = target[s].revision
         THEN RecordRequest(target[s]) /\ at' = [at EXCEPT ![s] = "SealExact"] /\ UNCHANGED target
         ELSE /\ UNCHANGED db
              /\ at' = [at EXCEPT ![s] = "Idle"]
              /\ target' = [target EXCEPT ![s] = None]
    /\ UNCHANGED <<vars, worker, beat, lock>>

seal_exact(s) ==
    /\ at[s] = "SealExact"
    /\ \/ /\ retained
          /\ seal_root_admission_for_stop(s)
          /\ at' = [at EXCEPT ![s] =
                      IF pending # None \/ last_admitted # target[s] THEN "Release" ELSE "Local"]
          /\ UNCHANGED target
       \/ /\ ~retained
          /\ at' = [at EXCEPT ![s] = "Wake"]
          /\ UNCHANGED <<vars, target>>
       \/ /\ retained /\ ~MaySeal
          /\ at' = [at EXCEPT ![s] = "Idle"]
          /\ target' = [target EXCEPT ![s] = None]
          /\ UNCHANGED vars
    /\ UNCHANGED <<worker, beat, lock, db>>

(* cancel_local_root_execution_at_turn: the run registers some time after  *)
(* its tree has adopted the scope.                                         *)
wake_exact(s) ==
    /\ at[s] = "Wake"
    /\ \/ /\ turn = target[s].turn
          /\ pc \in {"Running", "Committing", "Resolving"}
          /\ CancelTurn("Stopped")
       \/ /\ turn = target[s].turn => pc \notin {"Committing", "Resolving"}
          /\ UNCHANGED <<control, deferred>>
    /\ at' = [at EXCEPT ![s] = "Idle"]
    /\ target' = [target EXCEPT ![s] = None]
    /\ UNCHANGED <<vars, pc, turn, retained, cause, beat, lock, db>>

-----------------------------------------------------------------------------
(* Another owner of the session, in this process or another one.           *)
other_run ==
    /\ lock = "Free"
    /\ running = NoTurn
    /\ used < MaxTurn
    /\ revision < MaxRevision
    /\ lock' = "Other"
    /\ used' = used + 1
    /\ latest' = used + 1
    /\ running' = used + 1
    /\ revision' = revision + 1
    /\ UNCHANGED <<vars, worker, beat, request, outcome, lost, stops>>

other_end ==
    /\ lock = "Other"
    /\ lock' = "Free"
    /\ outcome' = [outcome EXCEPT ![running] = IF request = running THEN "Interrupted" ELSE "Completed"]
    /\ running' = NoTurn
    /\ request' = NoTurn
    /\ UNCHANGED <<vars, worker, beat, used, latest, revision, lost, stops>>

(* A turn nobody runs any more.  Expiry recovery, in the transaction of a  *)
(* later admission, fails the turn also when it was asked to stop, unless  *)
(* the Stop of an ancestor's tree (not modelled) interrupts it; the orphan *)
(* recovery at startup settles it like any terminal, and so serves an open *)
(* request.                                                                *)
Recover(result) ==
    /\ lock = "Free"
    /\ running # NoTurn
    /\ outcome' = [outcome EXCEPT ![running] = result]
    /\ running' = NoTurn
    /\ request' = NoTurn
    /\ UNCHANGED <<vars, worker, beat, lock, used, latest, revision, lost, stops>>

recover_expired == \E result \in {"Failed", "Interrupted"} : Recover(result)

recover_orphaned == Recover(IF request = running THEN "Interrupted" ELSE "Failed")

(* rollback_session drops the latest turns of a session at rest; it takes  *)
(* no process lease, and moves the revision.                               *)
rollback_session ==
    /\ running = NoTurn
    /\ revision < MaxRevision
    /\ latest' \in {t \in Turn : t < latest /\ outcome[t] # "None"} \cup {NoTurn}
    /\ latest' < latest
    /\ revision' = revision + 1
    /\ UNCHANGED <<vars, worker, beat, lock, used, running, request, outcome, lost, stops>>

publish_token == publish_wake /\ UNCHANGED <<worker, beat, lock, db, stops>>

announce(w) ==
    notify_root_admission_activity(w) /\ UNCHANGED <<worker, beat, lock, db, stops>>

WorkerStep ==
    \/ acquire_process_lease \/ plan_turn \/ admit_turn \/ admission_refused
    \/ publish_receipt \/ first_renewal \/ first_renewal_fails \/ enter_gate \/ stop_gate \/ test_scope
    \/ adopt_scope \/ begin_success_commit \/ leave_loop \/ settle_success
    \/ abandon_success \/ resolve_success \/ classify_run_error \/ settle_stopped
    \/ settle_fails \/ finish \/ continue_root

BeatStep == renew_lease \/ heartbeat_fails \/ seal_from_request \/ commit_from_request \/ cancel_from_request

StopStep(s) ==
    \/ seal_scope(s) \/ select_target(s) \/ validate(s) \/ request_interrupt(s)
    \/ cancel_turn(s) \/ no_tree(s) \/ cancel_scope(s) \/ nothing_to_cancel(s)
    \/ commit_stop(s) \/ release_stop(s) \/ capture_turn(s) \/ request_exact(s)
    \/ seal_exact(s) \/ wake_exact(s)

SysNext ==
    \/ WorkerStep
    \/ heartbeat_due \/ lease_expires
    \/ BeatStep
    \/ \E s \in Stopper : StopStep(s)
    \/ other_run \/ other_end \/ recover_expired \/ recover_orphaned \/ rollback_session
    \/ publish_token
    \/ \E w \in Caller : announce(w)

SysSpec == SysInit /\ [][SysNext]_svars

(* Every task is polled, the timer of the heartbeat fires and the owners   *)
(* of notifications send them.  An agent loop need not end by itself, only *)
(* when its control is cancelled (run_admitted_inner_with_cancel_grace);   *)
(* nothing makes anybody start a Stop or drop one that waits.              *)
WorkerDue == WorkerStep /\ (pc = "Running" => control # "Open")
StopDue(s) == StopStep(s) /\ at[s] # "Idle" /\ ~(at[s] = "Select" /\ at'[s] = "Idle")

SysFairness ==
    /\ WF_svars(WorkerDue)
    /\ WF_svars(heartbeat_due) /\ WF_svars(BeatStep)
    /\ \A s \in Stopper : WF_svars(StopDue(s))
    /\ WF_svars(publish_token)
    /\ \A w \in Caller : WF_svars(announce(w))

SysFairSpec == SysSpec /\ SysFairness

-----------------------------------------------------------------------------
(* Properties *)

(* Whatever the worker, the heartbeat and the Stops do together is allowed *)
(* by RootAdmission.  In particular the heartbeat, which commits a seal    *)
(* without waiting, never does so while an admission is pending.           *)
ImplementsRootAdmission == Spec

StopCommitted == stop_lease # None /\ stop_lease.committed

(* Once a Stop of the scope is committed, a turn of the worker that still  *)
(* runs carries a durable interrupt request: none is admitted past the     *)
(* Stop, and none it had to know of was left alone.                        *)
NoTurnEscapesStop == StopCommitted /\ running # NoTurn /\ running = turn => request = turn

(* A Stop cancels only the turn it was meant for: a turn whose control was *)
(* stopped carries the durable request while it runs, and the database     *)
(* never calls it completed.  Stops of earlier turns that are still at     *)
(* work do not reach the control of a continuation.                        *)
StopHitsOnlyItsTurn ==
    control = "Stopped" => /\ running = turn => request = turn
                           /\ outcome[turn] # "Completed"

(* The control of a turn is sealed by success exactly when the database    *)
(* has completed it, so the worker that goes on to a continuation owns a   *)
(* sealed predecessor (the Invalid outcome of the continuation is          *)
(* unreachable), and a cause waits only behind a commit that is under way: *)
(* it never leaks into the control of a continuation.                      *)
LocalMatchesDurable ==
    /\ control = "Sealed" => outcome[turn] = "Completed"
    /\ pc \in {"Finishing", "Completed"} /\ outcome[turn] = "Completed" => control = "Sealed"
    /\ deferred # "None" => control = "Committing"

(* An accepted Stop ends the run: whichever control the Stop could reach,  *)
(* the worker comes to its end, through the gate, the cancelled turn or    *)
(* the request its heartbeat finds.                                        *)
AcceptedStopEnds == StopCommitted ~> pc = "Ended"

(* A recorded interrupt request ends its turn as Interrupted, even when    *)
(* the Stop that recorded it has given up and whatever the run itself asks *)
(* for.  Only a worker that can no longer settle its turn, because the     *)
(* storage failed or its lease ran out, leaves it to recovery.             *)
RequestIsServed ==
    \A t \in Turn : request = t /\ turn = t ~> outcome[t] = "Interrupted" \/ lost
=============================================================================
