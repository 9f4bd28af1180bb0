---------------------------- MODULE RootAdmission ----------------------------
(***************************************************************************)
(* The root-admission half of a RunControl (src/src/runtime/cancel.rs).    *)
(*                                                                         *)
(* Before a root turn is written to the database its task publishes a plan *)
(* here; a Stop seals the same state, which shuts out later plans and      *)
(* tells it which turns it has to deal with.  Both sides meet in the       *)
(* root_admission mutex and learn of each other's progress through a watch *)
(* channel.  Every operation is one critical section of that mutex; the    *)
(* watch notification is sent after the mutex is dropped and is a step of  *)
(* its own.                                                                *)
(*                                                                         *)
(* Admitters are the tasks that run root turns of one scope, coordinators  *)
(* the tasks that serve a Stop of it.                                      *)
(***************************************************************************)
EXTENDS Naturals

CONSTANTS
    Admitter,
    Coordinator,
    Session,
    Turn,
    Revision,   \* the revisions the database may return
    MaxId,      \* u64::MAX: the last id checked_add can reach
    None        \* Option::None

ASSUME CallerAssumption == Admitter \cap Coordinator = {}
ASSUME MaxIdAssumption == MaxId \in Nat \ {0}

Id == 1 .. MaxId
Plan == [id : Id, session : Session, turn : Turn]
Receipt == [session : Session, turn : Turn, revision : Revision]
StopPlan == [seal : Id, last : Receipt \cup {None}, pending : Plan \cup {None}]

(* RootAdmissionSettlement: Admitted(receipt), or Aborted.                 *)
Admitted(receipt) == [receipt |-> receipt]
Aborted == [receipt |-> None]
Settlement == [receipt : Receipt \cup {None}]

(* RootAdmissionStopLease.                                                 *)
Lease == [plan : StopPlan, settlement : Settlement \cup {None}, committed : BOOLEAN]

ASSUME NoneAssumption ==
    /\ None \notin Plan
    /\ None \notin Receipt
    /\ None \notin StopPlan
    /\ None \notin Settlement
    /\ None \notin Lease

Caller == Admitter \cup Coordinator

VARIABLES
    scope,          \* the classification of the outer control, see RunControl
    woken,          \* its cancellation token has been cancelled
    next_plan_id,
    next_stop_seal_id,
    pending,
    last_admitted,
    stop_lease,
    guard,          \* guard[a]: the plan of the RootAdmissionGuard a holds
    stop,           \* stop[s]: the stop plan s serves
    settled,        \* settled[s]: the settlement s was given for it
    wait,           \* wait[w]: where w is in one of the two wait loops
    changed,        \* changed[w]: the watch has a value w has not seen
    notify          \* the callers about to notify_root_admission_activity

admission == <<next_plan_id, next_stop_seal_id, pending, last_admitted, stop_lease>>
vars == <<scope, woken, admission, guard, stop, settled, wait, changed, notify>>

Ready(w) == wait[w] = "Idle" /\ w \notin notify

-----------------------------------------------------------------------------
Init ==
    /\ scope = "Open"
    /\ woken = FALSE
    /\ next_plan_id = 1
    /\ next_stop_seal_id = 1
    /\ pending = None
    /\ last_admitted = None
    /\ stop_lease = None
    /\ guard = [a \in Admitter |-> None]
    /\ stop = [s \in Coordinator |-> None]
    /\ settled = [s \in Coordinator |-> None]
    /\ wait = [w \in Caller |-> "Idle"]
    /\ changed = [w \in Caller |-> FALSE]
    /\ notify = {}

(* The outer control's classification moves as RunControl allows.  Only    *)
(* what this state machine reads of it is kept: whether it is Open, held   *)
(* by a reservation, sealed by success or cancelled.                       *)
reclassify ==
    /\ \/ scope = "Open" /\ scope' \in {"Reserved", "SuccessSealed", "Cancelled"}
       \/ scope = "Reserved" /\ scope' \in {"Open", "SuccessSealed", "Cancelled"}
    /\ UNCHANGED <<woken, admission, guard, stop, settled, wait, changed, notify>>

publish_wake ==
    /\ scope = "Cancelled"
    /\ ~woken
    /\ woken' = TRUE
    /\ UNCHANGED <<scope, admission, guard, stop, settled, wait, changed, notify>>

-----------------------------------------------------------------------------
SameSession(session) == last_admitted # None => last_admitted.session = session

(* Faulty variants of the tests of begin_root_admission.                   *)
BeginUnderSeal(session) ==
    scope = "Open" /\ pending = None /\ SameSession(session) /\ next_plan_id < MaxId
BeginInAnySession(session) ==
    scope = "Open" /\ stop_lease = None /\ pending = None /\ next_plan_id < MaxId

(* Anything else is a RootAdmissionBeginError.                             *)
MayBegin(session) ==
    /\ scope = "Open"
    /\ stop_lease = None
    /\ pending = None
    /\ SameSession(session)
    /\ next_plan_id < MaxId

begin_root_admission(a, session, turn) ==
    LET plan == [id |-> next_plan_id, session |-> session, turn |-> turn]
    IN  /\ Ready(a)
        /\ guard[a] = None
        /\ MayBegin(session)
        /\ next_plan_id' = next_plan_id + 1
        /\ pending' = plan
        /\ guard' = [guard EXCEPT ![a] = plan]
        /\ UNCHANGED <<scope, woken, next_stop_seal_id, last_admitted, stop_lease,
                       stop, settled, wait, changed, notify>>

(* Faulty: nobody is told.                                                 *)
TellNobody(w) == UNCHANGED notify

(* w will notify_root_admission_activity next.                             *)
WillNotify(w) == notify' = notify \cup {w}

(* Faulty: the lease is not told how its plan ended.                       *)
SettleLeaseForgotten(plan, settlement) == stop_lease

(* The lease keeps the outcome of the plan its Stop captured.              *)
SettleLease(plan, settlement) ==
    IF stop_lease # None /\ stop_lease.plan.pending = plan
      THEN [plan |-> stop_lease.plan, settlement |-> settlement,
            committed |-> stop_lease.committed]
      ELSE stop_lease

(* commit_root_admission and abort_root_admission.  The StalePlan error is *)
(* unreachable (GuardOwnsPlan).  Dropping an unsettled guard is an abort.  *)
SettlePlan(a, settlement) ==
    /\ Ready(a)
    /\ guard[a] # None
    /\ pending = guard[a]
    /\ pending' = None
    /\ stop_lease' = SettleLease(guard[a], settlement)
    /\ guard' = [guard EXCEPT ![a] = None]
    /\ WillNotify(a)
    /\ UNCHANGED <<scope, woken, next_plan_id, next_stop_seal_id, stop, settled, wait, changed>>

commit_root_admission(a, revision) ==
    LET receipt == [session |-> guard[a].session, turn |-> guard[a].turn,
                    revision |-> revision]
    IN  /\ SettlePlan(a, Admitted(receipt))
        /\ last_admitted' = receipt

abort_root_admission(a) ==
    /\ SettlePlan(a, Aborted)
    /\ UNCHANGED last_admitted

-----------------------------------------------------------------------------
(* Faulty: a second Stop replaces the lease of the first.                  *)
SealOverLease == scope \notin {"SuccessSealed", "Cancelled"} /\ next_stop_seal_id < MaxId

(* Anything else is AlreadySealed, RejectedClosed or SequenceExhausted.    *)
MaySeal ==
    /\ stop_lease = None
    /\ scope \notin {"SuccessSealed", "Cancelled"}
    /\ next_stop_seal_id < MaxId

seal_root_admission_for_stop(s) ==
    LET plan == [seal |-> next_stop_seal_id, last |-> last_admitted, pending |-> pending]
    IN  /\ Ready(s)
        /\ stop[s] = None
        /\ MaySeal
        /\ next_stop_seal_id' = next_stop_seal_id + 1
        /\ stop_lease' = [plan |-> plan, settlement |-> None, committed |-> FALSE]
        /\ stop' = [stop EXCEPT ![s] = plan]
        /\ UNCHANGED <<scope, woken, next_plan_id, pending, last_admitted, guard, settled,
                       wait, changed, notify>>

(* Faulty: a Stop acts without waiting for the plan it captured.           *)
NeverWaits(s) == FALSE

(* A coordinator has to learn how a plan it captured ended before it acts. *)
MustWait(s) == stop[s] # None /\ stop[s].pending # None /\ settled[s] = None

(* The turn a coordinator acts on (claim_root_execution_stop).             *)
Selected(s) ==
    IF settled[s] # None /\ settled[s].receipt # None THEN settled[s].receipt ELSE stop[s].last

Forget(s) ==
    /\ stop' = [stop EXCEPT ![s] = None]
    /\ settled' = [settled EXCEPT ![s] = None]

CommitSeal(s) ==
    /\ Ready(s)
    /\ stop[s] # None
    /\ stop_lease # None
    /\ stop_lease.plan.seal = stop[s].seal
    /\ stop_lease' = [plan |-> stop_lease.plan, settlement |-> stop_lease.settlement,
                      committed |-> TRUE]
    /\ Forget(s)
    /\ WillNotify(s)
    /\ UNCHANGED <<scope, woken, next_plan_id, next_stop_seal_id, pending, last_admitted,
                   guard, wait, changed>>

(* A Stop commits its seal once it knows the turn it acts on.              *)
commit_root_admission_stop_seal(s) == ~MustWait(s) /\ CommitSeal(s)

(* Also what dropping a Stop in any of its awaits does, the wait for the   *)
(* settlement included.                                                    *)
release_root_admission_stop_seal(s) ==
    /\ stop[s] # None
    /\ stop_lease # None
    /\ stop_lease.plan.seal = stop[s].seal
    /\ ~stop_lease.committed
    /\ stop_lease' = None
    /\ Forget(s)
    /\ wait' = [wait EXCEPT ![s] = "Idle"]
    /\ changed' = [changed EXCEPT ![s] = FALSE]
    /\ WillNotify(s)
    /\ UNCHANGED <<scope, woken, next_plan_id, next_stop_seal_id, pending, last_admitted, guard>>

-----------------------------------------------------------------------------
(* Both wait loops: subscribe, then check the state; a check that finds    *)
(* nothing drops the mutex, parks until the watch has changed and checks   *)
(* again.                                                                  *)
subscribe(w) ==
    /\ Ready(w)
    /\ wait' = [wait EXCEPT ![w] = "Check"]
    /\ changed' = [changed EXCEPT ![w] = FALSE]
    /\ UNCHANGED <<scope, woken, admission, guard, stop, settled, notify>>

(* The state was inspected under the mutex and the answer is not there.    *)
found_nothing(w) ==
    /\ wait[w] = "Check"
    /\ wait' = [wait EXCEPT ![w] = "Empty"]
    /\ UNCHANGED <<scope, woken, admission, guard, stop, settled, changed, notify>>

(* Faulty: the subscription is made after the check.                       *)
park_then_subscribe(w) ==
    /\ wait[w] = "Empty"
    /\ wait' = [wait EXCEPT ![w] = "Parked"]
    /\ changed' = [changed EXCEPT ![w] = FALSE]
    /\ UNCHANGED <<scope, woken, admission, guard, stop, settled, notify>>

(* The mutex is free again and the watch is awaited.                       *)
park(w) ==
    /\ wait[w] = "Empty"
    /\ wait' = [wait EXCEPT ![w] = "Parked"]
    /\ UNCHANGED <<scope, woken, admission, guard, stop, settled, changed, notify>>

recheck(w) ==
    /\ wait[w] = "Parked"
    /\ changed[w]
    /\ wait' = [wait EXCEPT ![w] = "Check"]
    /\ changed' = [changed EXCEPT ![w] = FALSE]
    /\ UNCHANGED <<scope, woken, admission, guard, stop, settled, notify>>

Leave(w) ==
    /\ wait' = [wait EXCEPT ![w] = "Idle"]
    /\ changed' = [changed EXCEPT ![w] = FALSE]
    /\ UNCHANGED <<scope, woken, admission, guard, notify>>

(* wait_root_admission_settlement; its errors StaleStopPlan and            *)
(* SettlementLost are unreachable (StopSelectsNewest).                     *)
wait_settlement(s) ==
    \/ MustWait(s) /\ subscribe(s)
    \/ /\ wait[s] = "Check"
       /\ stop_lease # None
       /\ stop_lease.plan = stop[s]
       /\ stop_lease.settlement # None
       /\ settled' = [settled EXCEPT ![s] = stop_lease.settlement]
       /\ Leave(s)
       /\ UNCHANGED stop
    \/ /\ MustWait(s)
       /\ stop_lease # None
       /\ stop_lease.settlement = None
       /\ pending = stop[s].pending
       /\ found_nothing(s)
    \/ park(s)
    \/ recheck(s)

(* wait_for_root_admission_stop_resolution.                                *)
stop_resolved_cancelled(a) ==
    /\ \/ /\ wait[a] = "Check"
          /\ woken \/ (stop_lease # None /\ stop_lease.committed)
       \/ wait[a] = "Parked" /\ woken
    /\ Leave(a)
    /\ UNCHANGED <<stop, settled>>

stop_resolved_continue(a) ==
    /\ wait[a] = "Check"
    /\ ~woken
    /\ stop_lease = None
    /\ Leave(a)
    /\ UNCHANGED <<stop, settled>>

stop_unresolved(a) ==
    /\ ~woken
    /\ stop_lease # None
    /\ ~stop_lease.committed
    /\ found_nothing(a)

wait_resolution(a) ==
    \/ guard[a] = None /\ subscribe(a)
    \/ stop_resolved_cancelled(a)
    \/ stop_resolved_continue(a)
    \/ stop_unresolved(a)
    \/ park(a)
    \/ recheck(a)

notify_root_admission_activity(w) ==
    /\ w \in notify
    /\ notify' = notify \ {w}
    /\ changed' = [v \in Caller |-> changed[v] \/ wait[v] # "Idle"]
    /\ UNCHANGED <<scope, woken, admission, guard, stop, settled, wait>>

-----------------------------------------------------------------------------
AdmitterStep(a) ==
    \/ \E session \in Session, turn \in Turn : begin_root_admission(a, session, turn)
    \/ \E revision \in Revision : commit_root_admission(a, revision)
    \/ abort_root_admission(a)
    \/ wait_resolution(a)

CoordinatorStep(s) ==
    \/ seal_root_admission_for_stop(s)
    \/ wait_settlement(s)
    \/ commit_root_admission_stop_seal(s)
    \/ release_root_admission_stop_seal(s)

Next ==
    \/ reclassify
    \/ publish_wake
    \/ \E a \in Admitter : AdmitterStep(a)
    \/ \E s \in Coordinator : CoordinatorStep(s)
    \/ \E w \in Caller : notify_root_admission_activity(w)

Spec == Init /\ [][Next]_vars

(* A guard is settled or dropped; a parked task is polled once the watch   *)
(* has changed; a notification and a wake-up follow their critical section *)
(* with nothing in between; and a Stop that knows its target ends in a     *)
(* commit or a release (the RAII lease guard of claim_root_execution_stop).*)
(* Nothing forces a waiting Stop to give up.                               *)
Fairness ==
    /\ WF_vars(publish_wake)
    /\ \A w \in Caller : WF_vars(notify_root_admission_activity(w))
    /\ \A a \in Admitter : WF_vars(abort_root_admission(a)) /\ WF_vars(wait_resolution(a))
    /\ \A s \in Coordinator : WF_vars(wait_settlement(s))
    /\ \A s \in Coordinator : WF_vars(commit_root_admission_stop_seal(s))

FairSpec == Spec /\ Fairness

-----------------------------------------------------------------------------
(* Properties *)

(* Every variable keeps its type; in particular no id passes u64::MAX      *)
(* (the checked_add of begin_root_admission and of the seal).              *)
TypeOK ==
    /\ scope \in {"Open", "Reserved", "SuccessSealed", "Cancelled"}
    /\ woken \in BOOLEAN
    /\ next_plan_id \in Id
    /\ next_stop_seal_id \in Id
    /\ pending \in Plan \cup {None}
    /\ last_admitted \in Receipt \cup {None}
    /\ stop_lease \in Lease \cup {None}
    /\ guard \in [Admitter -> Plan \cup {None}]
    /\ stop \in [Coordinator -> StopPlan \cup {None}]
    /\ settled \in [Coordinator -> Settlement \cup {None}]
    /\ wait \in [Caller -> {"Idle", "Check", "Empty", "Parked"}]
    /\ changed \in [Caller -> BOOLEAN]
    /\ notify \in SUBSET Caller

(* The pending plan belongs to exactly one live guard, so the StalePlan    *)
(* error of commit and abort is unreachable: a turn the database admitted  *)
(* is always published to Stop.                                            *)
GuardOwnsPlan ==
    /\ \A a \in Admitter : guard[a] # None => pending = guard[a]
    /\ pending # None => \E a \in Admitter : guard[a] = pending
    /\ \A a, b \in Admitter : guard[a] # None /\ guard[b] # None => a = b

(* An uncommitted seal belongs to exactly one coordinator, and that one's  *)
(* plan is the plan of the lease: nobody releases or commits a seal it did *)
(* not take, and the "Stop lease was lost before local commit" error of    *)
(* claim_root_execution_stop is unreachable.                               *)
SealOwned ==
    /\ \A s \in Coordinator :
          stop[s] # None =>
             /\ stop_lease # None
             /\ stop_lease.plan = stop[s]
             /\ ~stop_lease.committed
    /\ stop_lease # None =>
          stop_lease.committed \/ \E s \in Coordinator : stop[s] = stop_lease.plan
    /\ \A s, r \in Coordinator : stop[s] # None /\ stop[r] # None => s = r

(* While a seal stands, the plan it captured is either still pending or    *)
(* its outcome is in the lease, so the errors StaleStopPlan and            *)
(* SettlementLost of the wait are unreachable.                             *)
PlanAccountedFor ==
    stop_lease # None =>
       /\ stop_lease.plan.pending = None => pending = None /\ stop_lease.settlement = None
       /\ pending # None => pending = stop_lease.plan.pending /\ stop_lease.settlement = None
       /\ stop_lease.plan.pending # None /\ pending = None => stop_lease.settlement # None
       /\ \A s \in Coordinator :
             settled[s] # None => stop[s] # None /\ settled[s] = stop_lease.settlement

(* The turn a Stop selects once it need not wait is the newest turn of the *)
(* scope, for as long as it holds the seal: a turn admitted while Stop was *)
(* at work is never missed, and no older turn is stopped in its place.     *)
StopSelectsNewest ==
    \A s \in Coordinator :
       stop[s] # None /\ ~MustWait(s) => pending = None /\ Selected(s) = last_admitted

(* All admissions one Stop has to deal with are of one session: the "one   *)
(* root Stop plan contained admissions from different sessions" error of   *)
(* claim_root_execution_stop is unreachable.                               *)
OneSession ==
    /\ pending # None /\ last_admitted # None => pending.session = last_admitted.session
    /\ \A s \in Coordinator :
          stop[s] # None =>
             /\ stop[s].pending # None /\ stop[s].last # None =>
                   stop[s].pending.session = stop[s].last.session
             /\ ~MustWait(s) /\ Selected(s) # None =>
                   /\ stop[s].pending # None => stop[s].pending.session = Selected(s).session
                   /\ stop[s].last # None => stop[s].last.session = Selected(s).session

(* What a task waits for that is parked, or about to park on what it has   *)
(* read, has not happened, unless the task has an unseen notification or   *)
(* one is on its way (the watch is subscribed before the state is          *)
(* inspected).                                                             *)
NoLostWakeup ==
    \A w \in Caller :
       wait[w] \in {"Empty", "Parked"} /\ ~changed[w] /\ notify = {} =>
          /\ stop_lease # None
          /\ w \in Coordinator => stop_lease.settlement = None
          /\ w \in Admitter => ~stop_lease.committed

gateView ==
    IF stop_lease = None THEN "open" ELSE IF stop_lease.committed THEN "closed" ELSE "closing"
Gate == INSTANCE StopGate WITH gate <- gateView, inflight <- (pending # None),
                               newest <- last_admitted

(* Plans, guards, leases and waits together are a gate: once a Stop has    *)
(* committed no turn of the scope is admitted any more, and none that was  *)
(* being admitted escaped it.                                              *)
ImplementsStopGate == Gate!Spec

(* A Stop that has sealed the scope ends, whatever the plan it captured    *)
(* comes to: it is not left waiting for a notification.                    *)
StopConcludes == \A s \in Coordinator : stop[s] # None ~> stop[s] = None

(* A task held behind a Stop goes on or is cancelled once the Stop ends    *)
(* (a scope is stopped finitely often).                                    *)
HeldTaskResumes == \A a \in Admitter : wait[a] # "Idle" ~> wait[a] = "Idle"
=============================================================================
