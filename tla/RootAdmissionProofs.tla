------------------------ MODULE RootAdmissionProofs ------------------------
(* Proofs that the properties of RootAdmission hold for any number of      *)
(* tasks and Stops, any sessions, turns and revisions and any id bound.    *)
EXTENDS RootAdmission, TLAPS

-----------------------------------------------------------------------------
(* A step that leaves plans, seals and their owners alone.                 *)
Quiet == UNCHANGED <<admission, guard, stop, settled>>

(* The wait of s ends with the settlement the lease has.                   *)
Learns(s) ==
    /\ stop_lease # None
    /\ stop_lease.plan = stop[s]
    /\ stop_lease.settlement # None
    /\ settled' = [settled EXCEPT ![s] = stop_lease.settlement]
    /\ UNCHANGED <<admission, guard, stop>>

(* A guard of a is settled, and the newest admitted turn with it.          *)
Settles(a, settlement) ==
    /\ SettlePlan(a, settlement)
    /\ last_admitted' = IF settlement.receipt = None THEN last_admitted ELSE settlement.receipt

(* Where the receipt a guard is committed with comes from.                 *)
FromGuard(a, settlement) ==
    settlement.receipt # None =>
       settlement.receipt.session = guard[a].session /\ settlement.receipt.turn = guard[a].turn

(* A committed guard is settled with the receipt of its own plan.          *)
LEMMA CommitSettles ==
    ASSUME TypeOK, NEW a \in Admitter, NEW r \in Revision, commit_root_admission(a, r)
    PROVE  \E settlement \in Settlement : Settles(a, settlement) /\ FromGuard(a, settlement)
<1> DEFINE rec == [session |-> guard[a].session, turn |-> guard[a].turn, revision |-> r]
<1>1. guard[a] \in Plan
  BY DEF commit_root_admission, SettlePlan, TypeOK
<1>2. rec \in Receipt
  BY <1>1 DEF Plan, Receipt
<1>3. rec # None
  BY <1>2, NoneAssumption
<1>4. Admitted(rec) \in Settlement /\ Admitted(rec).receipt = rec
  BY <1>2 DEF Admitted, Settlement
<1>5. SettlePlan(a, Admitted(rec)) /\ last_admitted' = rec
  BY DEF commit_root_admission
<1>6. Settles(a, Admitted(rec)) /\ FromGuard(a, Admitted(rec))
  BY <1>3, <1>4, <1>5 DEF Settles, FromGuard
<1> QED BY <1>4, <1>6

(* Every step is one of seven kinds.                                       *)
LEMMA StepKinds ==
    ASSUME TypeOK, [Next]_vars
    PROVE  \/ Quiet
           \/ \E a \in Admitter, session \in Session, turn \in Turn :
                 begin_root_admission(a, session, turn)
           \/ \E a \in Admitter, settlement \in Settlement :
                 Settles(a, settlement) /\ FromGuard(a, settlement)
           \/ \E s \in Coordinator : seal_root_admission_for_stop(s)
           \/ \E s \in Coordinator : Learns(s)
           \/ \E s \in Coordinator : commit_root_admission_stop_seal(s)
           \/ \E s \in Coordinator : release_root_admission_stop_seal(s)
<1>1. CASE UNCHANGED vars \/ reclassify \/ publish_wake
  BY <1>1 DEF vars, reclassify, publish_wake, Quiet, admission
<1>2. ASSUME NEW a \in Admitter, AdmitterStep(a)
      PROVE  \/ Quiet
             \/ \E session \in Session, turn \in Turn : begin_root_admission(a, session, turn)
             \/ \E settlement \in Settlement : Settles(a, settlement) /\ FromGuard(a, settlement)
  <2>1. CASE wait_resolution(a)
    BY <2>1 DEF wait_resolution, subscribe, stop_resolved_cancelled, stop_resolved_continue,
                stop_unresolved, found_nothing, park, recheck, Leave, Quiet, admission
  <2>2. CASE abort_root_admission(a)
    <3>1. Aborted \in Settlement /\ Aborted.receipt = None
      BY DEF Aborted, Settlement
    <3>2. Settles(a, Aborted) /\ FromGuard(a, Aborted)
      BY <2>2, <3>1 DEF abort_root_admission, Settles, FromGuard
    <3> QED BY <3>1, <3>2
  <2>3. CASE \E r \in Revision : commit_root_admission(a, r)
    BY <2>3, CommitSettles
  <2> QED BY <1>2, <2>1, <2>2, <2>3 DEF AdmitterStep
<1>3. ASSUME NEW s \in Coordinator, CoordinatorStep(s)
      PROVE  \/ Quiet
             \/ seal_root_admission_for_stop(s)
             \/ Learns(s)
             \/ commit_root_admission_stop_seal(s)
             \/ release_root_admission_stop_seal(s)
  <2>1. CASE wait_settlement(s)
    BY <2>1 DEF wait_settlement, subscribe, found_nothing, park, recheck, Leave, Quiet, Learns, admission
  <2> QED BY <1>3, <2>1 DEF CoordinatorStep
<1>4. ASSUME NEW w \in Caller, notify_root_admission_activity(w) PROVE Quiet
  BY <1>4 DEF notify_root_admission_activity, Quiet, admission
<1> QED BY <1>1, <1>2, <1>3, <1>4 DEF Next

-----------------------------------------------------------------------------
(* A lease that is told how its plan ended is a lease.                     *)
LEMMA SettledLeaseType ==
    ASSUME TypeOK, NEW plan, NEW settlement \in Settlement
    PROVE  SettleLease(plan, settlement) \in Lease \cup {None}
BY NoneAssumption DEF TypeOK, SettleLease, Lease

(* The initial state is well typed.                                        *)
LEMMA TypeInit == Init => TypeOK
<1> SUFFICES ASSUME Init PROVE TypeOK
  OBVIOUS
<1> USE DEF Init
<1>1. 1 \in Id
  BY MaxIdAssumption DEF Id
<1>2. woken \in BOOLEAN /\ changed \in [Caller -> BOOLEAN]
  OBVIOUS
<1> QED BY <1>1, <1>2 DEF TypeOK

(* Every step keeps the types.                                             *)
LEMMA TypeNext == TypeOK /\ [Next]_vars => TypeOK'
<1> SUFFICES ASSUME TypeOK, [Next]_vars PROVE TypeOK'
  OBVIOUS
<1> USE DEF TypeOK
<1>1. CASE UNCHANGED vars \/ reclassify \/ publish_wake
  BY <1>1 DEF vars, reclassify, publish_wake, admission
<1>2. ASSUME NEW a \in Admitter, NEW session \in Session, NEW turn \in Turn,
             begin_root_admission(a, session, turn)
      PROVE TypeOK'
  BY <1>2, MaxIdAssumption DEF begin_root_admission, MayBegin, Id, Plan
<1>3. ASSUME NEW a \in Admitter, NEW settlement \in Settlement, SettlePlan(a, settlement),
             last_admitted' \in Receipt \cup {None}
      PROVE TypeOK'
  <2>1. stop_lease' \in Lease \cup {None}
    BY <1>3, SettledLeaseType DEF SettlePlan
  <2> QED BY <1>3, <2>1 DEF SettlePlan, WillNotify, Caller
<1>4. ASSUME NEW a \in Admitter, NEW r \in Revision, commit_root_admission(a, r)
      PROVE TypeOK'
  <2> DEFINE rec == [session |-> guard[a].session, turn |-> guard[a].turn, revision |-> r]
  <2>1. guard[a] \in Plan
    BY <1>4 DEF commit_root_admission, SettlePlan
  <2>2. rec \in Receipt
    BY <2>1 DEF Plan, Receipt
  <2>3. Admitted(rec) \in Settlement
    BY <2>2 DEF Admitted, Settlement
  <2> QED BY <1>3, <1>4, <2>2, <2>3 DEF commit_root_admission
<1>5. ASSUME NEW a \in Admitter, abort_root_admission(a) PROVE TypeOK'
  <2>1. Aborted \in Settlement
    BY DEF Aborted, Settlement
  <2> QED BY <1>3, <1>5, <2>1 DEF abort_root_admission
<1>6. ASSUME NEW s \in Coordinator, seal_root_admission_for_stop(s) PROVE TypeOK'
  <2> DEFINE plan == [seal |-> next_stop_seal_id, last |-> last_admitted, pending |-> pending]
  <2>1. plan \in StopPlan
    BY DEF StopPlan
  <2>2. [plan |-> plan, settlement |-> None, committed |-> FALSE] \in Lease
    BY <2>1 DEF Lease
  <2>3. next_stop_seal_id' \in Id
    BY <1>6, MaxIdAssumption DEF seal_root_admission_for_stop, MaySeal, Id
  <2> QED BY <1>6, <2>1, <2>2, <2>3 DEF seal_root_admission_for_stop
<1>7. ASSUME NEW s \in Coordinator, CommitSeal(s) PROVE TypeOK'
  <2>1. stop_lease' \in Lease
    BY <1>7 DEF CommitSeal, Lease
  <2> QED BY <1>7, <2>1 DEF CommitSeal, Forget, WillNotify, Caller
<1>8. ASSUME NEW s \in Coordinator, release_root_admission_stop_seal(s) PROVE TypeOK'
  BY <1>8 DEF release_root_admission_stop_seal, Forget, WillNotify, Caller
<1>9. ASSUME NEW w \in Caller, subscribe(w) \/ found_nothing(w) \/ park(w) \/ recheck(w) PROVE TypeOK'
  BY <1>9 DEF subscribe, found_nothing, park, recheck, admission
<1>10. ASSUME NEW s \in Coordinator, wait_settlement(s) PROVE TypeOK'
  <2>1. s \in Caller
    BY DEF Caller
  <2>2. CASE Leave(s) /\ UNCHANGED stop /\ stop_lease # None
             /\ settled' = [settled EXCEPT ![s] = stop_lease.settlement]
    <3>1. stop_lease.settlement \in Settlement \cup {None}
      BY <2>2 DEF Lease
    <3> QED BY <2>1, <2>2, <3>1 DEF Leave, admission
  <2> QED BY <1>9, <1>10, <2>1, <2>2 DEF wait_settlement
<1>11. ASSUME NEW a \in Admitter, wait_resolution(a) PROVE TypeOK'
  <2>1. a \in Caller
    BY DEF Caller
  <2>2. CASE Leave(a) /\ UNCHANGED <<stop, settled>>
    BY <2>1, <2>2 DEF Leave, admission
  <2> QED
    BY <1>9, <1>11, <2>1, <2>2
       DEF wait_resolution, stop_resolved_cancelled, stop_resolved_continue, stop_unresolved
<1>12. ASSUME NEW w \in Caller, notify_root_admission_activity(w) PROVE TypeOK'
  BY <1>12 DEF notify_root_admission_activity, admission
<1> QED
  BY <1>1, <1>2, <1>4, <1>5, <1>6, <1>7, <1>8, <1>10, <1>11, <1>12
     DEF Next, AdmitterStep, CoordinatorStep, commit_root_admission_stop_seal

-----------------------------------------------------------------------------
(* What a settlement does to the lease, given that the plan it captured is *)
(* the pending one.                                                        *)
LEMMA SettleEffect ==
    ASSUME TypeOK, PlanAccountedFor, NEW a \in Admitter, NEW settlement \in Settlement,
           Settles(a, settlement)
    PROVE  /\ stop_lease = None => stop_lease' = None
           /\ stop_lease # None =>
                 /\ pending = stop_lease.plan.pending
                 /\ stop_lease'.plan = stop_lease.plan
                 /\ stop_lease'.settlement = settlement
                 /\ stop_lease'.committed = stop_lease.committed
                 /\ stop_lease' # None
                 /\ stop_lease.settlement = None
           /\ settlement # None
           /\ pending # None /\ pending = guard[a] /\ pending' = None
           /\ guard' = [guard EXCEPT ![a] = None]
           /\ UNCHANGED <<stop, settled>>
<1>1. /\ pending = guard[a] /\ pending # None /\ pending' = None
      /\ stop_lease' = SettleLease(guard[a], settlement)
      /\ guard' = [guard EXCEPT ![a] = None]
      /\ UNCHANGED <<stop, settled>>
  BY DEF Settles, SettlePlan
<1>2. settlement # None
  BY NoneAssumption
<1>3. CASE stop_lease = None
  BY <1>1, <1>2, <1>3 DEF SettleLease
<1>4. CASE stop_lease # None
  <2>1. pending = stop_lease.plan.pending /\ stop_lease.settlement = None
    BY <1>1, <1>4 DEF PlanAccountedFor
  <2>2. stop_lease' = [plan |-> stop_lease.plan, settlement |-> settlement,
                       committed |-> stop_lease.committed]
    BY <1>1, <1>4, <2>1 DEF SettleLease
  <2>3. stop_lease' \in Lease
    BY <1>4, <2>2 DEF TypeOK, Lease
  <2>4. stop_lease' # None
    BY <2>3, NoneAssumption
  <2> QED BY <1>1, <1>2, <1>4, <2>1, <2>2, <2>4
<1> QED BY <1>3, <1>4

(* What taking a seal does.                                                *)
LEMMA SealEffect ==
    ASSUME TypeOK, NEW s \in Coordinator, seal_root_admission_for_stop(s)
    PROVE  /\ stop_lease = None /\ stop_lease' # None
           /\ stop_lease'.plan.last = last_admitted /\ stop_lease'.plan.pending = pending
           /\ stop_lease'.settlement = None /\ stop_lease'.committed = FALSE
           /\ stop' = [stop EXCEPT ![s] = stop_lease'.plan]
           /\ stop_lease'.plan # None
           /\ stop[s] = None
           /\ UNCHANGED <<pending, last_admitted, guard, settled>>
<1> DEFINE plan == [seal |-> next_stop_seal_id, last |-> last_admitted, pending |-> pending]
<1>1. plan \in StopPlan
  BY DEF TypeOK, StopPlan
<1>2. [plan |-> plan, settlement |-> None, committed |-> FALSE] \in Lease
  BY <1>1 DEF Lease
<1>3. stop_lease' = [plan |-> plan, settlement |-> None, committed |-> FALSE]
  BY DEF seal_root_admission_for_stop
<1>4. stop_lease' # None /\ plan # None
  BY <1>1, <1>2, <1>3, NoneAssumption
<1> QED BY <1>3, <1>4 DEF seal_root_admission_for_stop, MaySeal

(* What committing a seal does.                                            *)
LEMMA CommitEffect ==
    ASSUME TypeOK, NEW s \in Coordinator, commit_root_admission_stop_seal(s)
    PROVE  /\ ~MustWait(s) /\ stop[s] # None
           /\ stop_lease # None /\ stop_lease' # None
           /\ stop_lease'.plan = stop_lease.plan
           /\ stop_lease'.settlement = stop_lease.settlement
           /\ stop_lease'.committed = TRUE
           /\ stop' = [stop EXCEPT ![s] = None] /\ settled' = [settled EXCEPT ![s] = None]
           /\ UNCHANGED <<pending, last_admitted, guard>>
<1>1. /\ stop_lease # None
      /\ stop_lease' = [plan |-> stop_lease.plan, settlement |-> stop_lease.settlement,
                        committed |-> TRUE]
  BY DEF commit_root_admission_stop_seal, CommitSeal
<1>2. stop_lease' \in Lease
  BY <1>1 DEF TypeOK, Lease
<1>3. stop_lease' # None
  BY <1>2, NoneAssumption
<1> QED BY <1>1, <1>3 DEF commit_root_admission_stop_seal, CommitSeal, Forget

-----------------------------------------------------------------------------
(* GuardOwnsPlan is inductive.                                             *)
LEMMA GuardOwnsPlanNext ==
    TypeOK /\ PlanAccountedFor /\ GuardOwnsPlan /\ [Next]_vars => GuardOwnsPlan'
<1> SUFFICES ASSUME TypeOK, PlanAccountedFor, GuardOwnsPlan, [Next]_vars PROVE GuardOwnsPlan'
  OBVIOUS
<1>1. CASE UNCHANGED <<pending, guard>>
  BY <1>1 DEF GuardOwnsPlan
<1>2. ASSUME NEW a \in Admitter, NEW session \in Session, NEW turn \in Turn,
             begin_root_admission(a, session, turn)
      PROVE GuardOwnsPlan'
  <2>1. pending = None /\ pending' # None /\ guard' = [guard EXCEPT ![a] = pending']
    <3> DEFINE plan == [id |-> next_plan_id, session |-> session, turn |-> turn]
    <3>1. plan \in Plan
      BY DEF TypeOK, Plan
    <3>2. plan # None
      BY <3>1, NoneAssumption
    <3> QED BY <1>2, <3>2 DEF begin_root_admission, MayBegin
  <2>2. \A b \in Admitter : guard[b] = None
    BY <2>1 DEF GuardOwnsPlan
  <2>3. guard'[a] = pending' /\ \A b \in Admitter : b # a => guard'[b] = None
    BY <2>1, <2>2 DEF TypeOK
  <2> QED BY <2>1, <2>3 DEF GuardOwnsPlan
<1>3. ASSUME NEW a \in Admitter, NEW settlement \in Settlement, Settles(a, settlement)
      PROVE GuardOwnsPlan'
  <2>1. pending # None /\ pending = guard[a] /\ pending' = None /\ guard' = [guard EXCEPT ![a] = None]
    BY <1>3, SettleEffect
  <2>2. \A b \in Admitter : guard'[b] = None
    BY <2>1 DEF GuardOwnsPlan, TypeOK
  <2> QED BY <2>1, <2>2 DEF GuardOwnsPlan
<1>4. ASSUME NEW s \in Coordinator, seal_root_admission_for_stop(s) \/ Learns(s)
             \/ commit_root_admission_stop_seal(s) \/ release_root_admission_stop_seal(s)
      PROVE UNCHANGED <<pending, guard>>
  BY <1>4 DEF seal_root_admission_for_stop, Learns, commit_root_admission_stop_seal, CommitSeal,
              release_root_admission_stop_seal, admission
<1> QED BY <1>1, <1>2, <1>3, <1>4, StepKinds DEF Quiet, admission

(* SealOwned is inductive.                                                 *)
LEMMA SealOwnedNext ==
    TypeOK /\ PlanAccountedFor /\ SealOwned /\ [Next]_vars => SealOwned'
<1> SUFFICES ASSUME TypeOK, PlanAccountedFor, SealOwned, [Next]_vars PROVE SealOwned'
  OBVIOUS
<1>1. CASE UNCHANGED <<stop_lease, stop>>
  BY <1>1 DEF SealOwned
<1>2. ASSUME NEW a \in Admitter, NEW settlement \in Settlement, Settles(a, settlement)
      PROVE SealOwned'
  BY <1>2, SettleEffect DEF SealOwned
<1>3. ASSUME NEW s \in Coordinator, seal_root_admission_for_stop(s) PROVE SealOwned'
  <2>1. \A r \in Coordinator : stop[r] = None
    BY <1>3, SealEffect DEF SealOwned
  <2>2. stop'[s] = stop_lease'.plan /\ \A r \in Coordinator : r # s => stop'[r] = None
    BY <1>3, <2>1, SealEffect DEF TypeOK
  <2> QED BY <1>3, <2>2, SealEffect DEF SealOwned
<1>4. ASSUME NEW s \in Coordinator, commit_root_admission_stop_seal(s) PROVE SealOwned'
  <2>1. \A r \in Coordinator : stop'[r] = None
    BY <1>4, CommitEffect DEF SealOwned, TypeOK
  <2> QED BY <1>4, <2>1, CommitEffect DEF SealOwned
<1>5. ASSUME NEW s \in Coordinator, release_root_admission_stop_seal(s) PROVE SealOwned'
  <2>1. stop[s] # None /\ stop' = [stop EXCEPT ![s] = None] /\ stop_lease' = None
    BY <1>5 DEF release_root_admission_stop_seal, Forget
  <2>2. \A r \in Coordinator : stop'[r] = None
    BY <2>1 DEF SealOwned, TypeOK
  <2> QED BY <2>1, <2>2 DEF SealOwned
<1>6. ASSUME NEW a \in Admitter, NEW session \in Session, NEW turn \in Turn,
             begin_root_admission(a, session, turn)
      PROVE UNCHANGED <<stop_lease, stop>>
  BY <1>6 DEF begin_root_admission
<1>7. ASSUME NEW s \in Coordinator, Learns(s) PROVE UNCHANGED <<stop_lease, stop>>
  BY <1>7 DEF Learns, admission
<1> QED BY <1>1, <1>2, <1>3, <1>4, <1>5, <1>6, <1>7, StepKinds DEF Quiet, admission

-----------------------------------------------------------------------------
(* A settlement is kept only by a coordinator that still serves its Stop.  *)
SettlementServed == \A s \in Coordinator : settled[s] # None => stop[s] # None

(* SettlementServed is inductive.                                          *)
LEMMA SettlementServedNext ==
    TypeOK /\ SealOwned /\ SettlementServed /\ [Next]_vars => SettlementServed'
<1> SUFFICES ASSUME TypeOK, SealOwned, SettlementServed, [Next]_vars PROVE SettlementServed'
  OBVIOUS
<1>1. CASE UNCHANGED <<stop, settled>>
  BY <1>1 DEF SettlementServed
<1>2. ASSUME NEW s \in Coordinator, seal_root_admission_for_stop(s) PROVE SettlementServed'
  BY <1>2, SealEffect DEF SettlementServed, TypeOK
<1>3. ASSUME NEW s \in Coordinator, Learns(s) PROVE SettlementServed'
  <2>1. stop_lease.plan \in StopPlan /\ stop_lease.plan = stop[s]
    BY <1>3 DEF Learns, TypeOK, Lease
  <2>2. stop[s] # None
    BY <2>1, NoneAssumption
  <2> QED BY <1>3, <2>2 DEF Learns, SettlementServed, TypeOK
<1>4. ASSUME NEW s \in Coordinator,
             commit_root_admission_stop_seal(s) \/ release_root_admission_stop_seal(s)
      PROVE SettlementServed'
  <2>1. stop' = [stop EXCEPT ![s] = None] /\ settled' = [settled EXCEPT ![s] = None]
    BY <1>4 DEF commit_root_admission_stop_seal, CommitSeal, release_root_admission_stop_seal, Forget
  <2> QED BY <2>1 DEF SettlementServed, TypeOK
<1>5. ASSUME NEW a \in Admitter, NEW session \in Session, NEW turn \in Turn,
             begin_root_admission(a, session, turn)
      PROVE UNCHANGED <<stop, settled>>
  BY <1>5 DEF begin_root_admission
<1>6. ASSUME NEW a \in Admitter, NEW settlement \in Settlement, Settles(a, settlement)
      PROVE UNCHANGED <<stop, settled>>
  BY <1>6 DEF Settles, SettlePlan
<1> QED BY <1>1, <1>2, <1>3, <1>4, <1>5, <1>6, StepKinds DEF Quiet

(* PlanAccountedFor is inductive.                                          *)
LEMMA PlanAccountedForNext ==
    TypeOK /\ SealOwned /\ SettlementServed /\ PlanAccountedFor /\ [Next]_vars => PlanAccountedFor'
<1> SUFFICES ASSUME TypeOK, SealOwned, SettlementServed, PlanAccountedFor, [Next]_vars
             PROVE  PlanAccountedFor'
  OBVIOUS
<1>1. CASE UNCHANGED <<pending, stop_lease, stop, settled>>
  BY <1>1 DEF PlanAccountedFor
<1>2. ASSUME NEW a \in Admitter, NEW session \in Session, NEW turn \in Turn,
             begin_root_admission(a, session, turn)
      PROVE PlanAccountedFor'
  BY <1>2 DEF begin_root_admission, MayBegin, PlanAccountedFor
<1>3. ASSUME NEW a \in Admitter, NEW settlement \in Settlement, Settles(a, settlement)
      PROVE PlanAccountedFor'
  BY <1>3, SettleEffect DEF PlanAccountedFor
<1>4. ASSUME NEW s \in Coordinator, seal_root_admission_for_stop(s) PROVE PlanAccountedFor'
  <2>1. \A r \in Coordinator : settled[r] = None
    BY <1>4, SealEffect DEF SealOwned, SettlementServed
  <2> QED BY <1>4, <2>1, SealEffect DEF PlanAccountedFor
<1>5. ASSUME NEW s \in Coordinator, Learns(s) PROVE PlanAccountedFor'
  <2>1. stop_lease.plan \in StopPlan /\ stop_lease.plan = stop[s]
    BY <1>5 DEF Learns, TypeOK, Lease
  <2>2. stop[s] # None
    BY <2>1, NoneAssumption
  <2>3. settled'[s] = stop_lease.settlement /\ \A r \in Coordinator : r # s => settled'[r] = settled[r]
    BY <1>5 DEF Learns, TypeOK
  <2>4. UNCHANGED <<pending, stop_lease, stop>>
    BY <1>5 DEF Learns, admission
  <2> QED BY <2>2, <2>3, <2>4 DEF PlanAccountedFor
<1>6. ASSUME NEW s \in Coordinator, commit_root_admission_stop_seal(s) PROVE PlanAccountedFor'
  <2>1. stop'[s] = None /\ settled'[s] = None
        /\ \A r \in Coordinator : r # s => settled'[r] = settled[r] /\ stop'[r] = stop[r]
    BY <1>6, CommitEffect DEF TypeOK
  <2> QED BY <1>6, <2>1, CommitEffect DEF PlanAccountedFor
<1>7. ASSUME NEW s \in Coordinator, release_root_admission_stop_seal(s) PROVE PlanAccountedFor'
  BY <1>7 DEF release_root_admission_stop_seal, PlanAccountedFor
<1> QED BY <1>1, <1>2, <1>3, <1>4, <1>5, <1>6, <1>7, StepKinds DEF Quiet, admission

-----------------------------------------------------------------------------
(* The newest admitted turn is the one the lease stands for: the receipt   *)
(* of the plan it captured, or else the turn that was newest before it.    *)
LeaseTracksNewest ==
    stop_lease # None =>
       last_admitted = IF stop_lease.settlement # None /\ stop_lease.settlement.receipt # None
                         THEN stop_lease.settlement.receipt
                         ELSE stop_lease.plan.last

(* LeaseTracksNewest is inductive.                                         *)
LEMMA LeaseTracksNewestNext ==
    TypeOK /\ PlanAccountedFor /\ LeaseTracksNewest /\ [Next]_vars => LeaseTracksNewest'
<1> SUFFICES ASSUME TypeOK, PlanAccountedFor, LeaseTracksNewest, [Next]_vars
             PROVE  LeaseTracksNewest'
  OBVIOUS
<1>1. CASE UNCHANGED <<last_admitted, stop_lease>>
  BY <1>1 DEF LeaseTracksNewest
<1>2. ASSUME NEW a \in Admitter, NEW settlement \in Settlement, Settles(a, settlement)
      PROVE LeaseTracksNewest'
  <2>1. last_admitted' = IF settlement.receipt = None THEN last_admitted ELSE settlement.receipt
    BY <1>2 DEF Settles
  <2> QED BY <1>2, <2>1, SettleEffect DEF LeaseTracksNewest
<1>3. ASSUME NEW s \in Coordinator, seal_root_admission_for_stop(s) PROVE LeaseTracksNewest'
  BY <1>3, SealEffect DEF LeaseTracksNewest
<1>4. ASSUME NEW s \in Coordinator, commit_root_admission_stop_seal(s) PROVE LeaseTracksNewest'
  BY <1>4, CommitEffect DEF LeaseTracksNewest
<1>5. ASSUME NEW s \in Coordinator, release_root_admission_stop_seal(s) PROVE LeaseTracksNewest'
  BY <1>5 DEF release_root_admission_stop_seal, LeaseTracksNewest
<1>6. ASSUME NEW a \in Admitter, NEW session \in Session, NEW turn \in Turn,
             begin_root_admission(a, session, turn)
      PROVE UNCHANGED <<last_admitted, stop_lease>>
  BY <1>6 DEF begin_root_admission
<1>7. ASSUME NEW s \in Coordinator, Learns(s) PROVE UNCHANGED <<last_admitted, stop_lease>>
  BY <1>7 DEF Learns, admission
<1> QED BY <1>1, <1>2, <1>3, <1>4, <1>5, <1>6, <1>7, StepKinds DEF Quiet, admission

(* The plans and receipts a lease can meet are of one session.             *)
SessionsAgree ==
    /\ pending # None /\ last_admitted # None => pending.session = last_admitted.session
    /\ stop_lease # None =>
          LET plan == stop_lease.plan
          IN  /\ plan.pending # None /\ plan.last # None => plan.pending.session = plan.last.session
              /\ last_admitted # None =>
                    /\ plan.pending # None => plan.pending.session = last_admitted.session
                    /\ plan.last # None => plan.last.session = last_admitted.session

(* SessionsAgree is inductive.                                             *)
LEMMA SessionsAgreeNext ==
    TypeOK /\ PlanAccountedFor /\ SessionsAgree /\ [Next]_vars => SessionsAgree'
<1> SUFFICES ASSUME TypeOK, PlanAccountedFor, SessionsAgree, [Next]_vars PROVE SessionsAgree'
  OBVIOUS
<1>1. CASE UNCHANGED <<pending, last_admitted, stop_lease>>
  BY <1>1 DEF SessionsAgree
<1>2. ASSUME NEW a \in Admitter, NEW session \in Session, NEW turn \in Turn,
             begin_root_admission(a, session, turn)
      PROVE SessionsAgree'
  <2>1. /\ stop_lease' = None
        /\ pending'.session = session
        /\ UNCHANGED last_admitted
        /\ last_admitted # None => last_admitted.session = session
    BY <1>2 DEF begin_root_admission, MayBegin, SameSession
  <2> QED BY <2>1 DEF SessionsAgree
<1>3. ASSUME NEW a \in Admitter, NEW settlement \in Settlement, Settles(a, settlement),
             FromGuard(a, settlement)
      PROVE SessionsAgree'
  <2>1. last_admitted' = IF settlement.receipt = None THEN last_admitted ELSE settlement.receipt
    BY <1>3 DEF Settles
  <2>2. settlement.receipt # None => settlement.receipt.session = pending.session
    BY <1>3, SettleEffect DEF FromGuard
  <2> QED BY <1>3, <2>1, <2>2, SettleEffect DEF SessionsAgree
<1>4. ASSUME NEW s \in Coordinator, seal_root_admission_for_stop(s) PROVE SessionsAgree'
  BY <1>4, SealEffect DEF SessionsAgree
<1>5. ASSUME NEW s \in Coordinator, commit_root_admission_stop_seal(s) PROVE SessionsAgree'
  BY <1>5, CommitEffect DEF SessionsAgree
<1>6. ASSUME NEW s \in Coordinator, release_root_admission_stop_seal(s) PROVE SessionsAgree'
  BY <1>6 DEF release_root_admission_stop_seal, SessionsAgree
<1>7. ASSUME NEW s \in Coordinator, Learns(s)
      PROVE UNCHANGED <<pending, last_admitted, stop_lease>>
  BY <1>7 DEF Learns, admission
<1> QED BY <1>1, <1>2, <1>3, <1>4, <1>5, <1>6, <1>7, StepKinds DEF Quiet, admission

-----------------------------------------------------------------------------
(* NoLostWakeup is inductive: every change of the lease is followed by a   *)
(* notification, and a notification reaches everybody who waits.           *)
LEMMA NoLostWakeupNext == TypeOK /\ NoLostWakeup /\ [Next]_vars => NoLostWakeup'
<1> SUFFICES ASSUME TypeOK, NoLostWakeup, [Next]_vars PROVE NoLostWakeup'
  OBVIOUS
<1>1. CASE UNCHANGED <<stop_lease, wait, changed, notify>>
  BY <1>1 DEF NoLostWakeup
<1>2. ASSUME NEW w \in Caller, WillNotify(w) PROVE NoLostWakeup'
  BY <1>2 DEF WillNotify, NoLostWakeup
<1>3. ASSUME NEW s \in Coordinator, seal_root_admission_for_stop(s) PROVE NoLostWakeup'
  BY <1>3 DEF seal_root_admission_for_stop, MaySeal, NoLostWakeup
<1>4. ASSUME NEW w \in Caller, subscribe(w) \/ recheck(w) \/ Leave(w) PROVE NoLostWakeup'
  <2>1. /\ UNCHANGED <<stop_lease, notify>>
        /\ wait'[w] \notin {"Empty", "Parked"}
        /\ \A v \in Caller : v # w => wait'[v] = wait[v] /\ changed'[v] = changed[v]
    BY <1>4 DEF subscribe, recheck, Leave, admission, TypeOK
  <2> QED BY <2>1 DEF NoLostWakeup
<1>5. ASSUME NEW w \in Caller, found_nothing(w), stop_lease # None,
             w \in Coordinator => stop_lease.settlement = None,
             w \in Admitter => ~stop_lease.committed
      PROVE NoLostWakeup'
  <2>1. /\ UNCHANGED <<stop_lease, changed, notify>>
        /\ \A v \in Caller : v # w => wait'[v] = wait[v]
    BY <1>5 DEF found_nothing, admission, TypeOK
  <2> QED BY <1>5, <2>1 DEF NoLostWakeup
<1>11. ASSUME NEW w \in Caller, park(w) PROVE NoLostWakeup'
  <2>1. /\ UNCHANGED <<stop_lease, changed, notify>>
        /\ wait[w] = "Empty"
        /\ \A v \in Caller : v # w => wait'[v] = wait[v]
    BY <1>11 DEF park, admission, TypeOK
  <2> QED BY <2>1 DEF NoLostWakeup
<1>6. ASSUME NEW s \in Coordinator, wait_settlement(s) PROVE NoLostWakeup'
  <2>1. s \in Caller /\ s \notin Admitter
    BY CallerAssumption DEF Caller
  <2> QED BY <1>4, <1>5, <1>6, <1>11, <2>1 DEF wait_settlement
<1>7. ASSUME NEW a \in Admitter, wait_resolution(a) PROVE NoLostWakeup'
  <2>1. a \in Caller /\ a \notin Coordinator
    BY CallerAssumption DEF Caller
  <2> QED
    BY <1>4, <1>5, <1>7, <1>11, <2>1
       DEF wait_resolution, stop_resolved_cancelled, stop_resolved_continue, stop_unresolved
<1>8. ASSUME NEW w \in Caller, notify_root_admission_activity(w) PROVE NoLostWakeup'
  <2>1. \A v \in Caller : wait'[v] \in {"Empty", "Parked"} => changed'[v]
    BY <1>8 DEF notify_root_admission_activity
  <2> QED BY <2>1 DEF NoLostWakeup
<1>9. ASSUME NEW a \in Admitter, AdmitterStep(a) PROVE NoLostWakeup'
  <2>1. a \in Caller
    BY DEF Caller
  <2>2. ASSUME NEW session \in Session, NEW turn \in Turn, begin_root_admission(a, session, turn)
        PROVE UNCHANGED <<stop_lease, wait, changed, notify>>
    BY <2>2 DEF begin_root_admission
  <2>3. ASSUME NEW settlement, SettlePlan(a, settlement) PROVE WillNotify(a)
    BY <2>3 DEF SettlePlan
  <2> QED
    BY <1>1, <1>2, <1>7, <1>9, <2>1, <2>2, <2>3
       DEF AdmitterStep, commit_root_admission, abort_root_admission
<1>10. ASSUME NEW s \in Coordinator, CoordinatorStep(s) PROVE NoLostWakeup'
  <2>1. s \in Caller
    BY DEF Caller
  <2> QED
    BY <1>2, <1>3, <1>6, <1>10, <2>1
       DEF CoordinatorStep, commit_root_admission_stop_seal, CommitSeal,
           release_root_admission_stop_seal
<1> QED
  BY <1>1, <1>8, <1>9, <1>10 DEF Next, vars, reclassify, publish_wake, admission

-----------------------------------------------------------------------------
(* The inductive invariant.                                                *)
IInv ==
    /\ TypeOK
    /\ GuardOwnsPlan
    /\ SealOwned
    /\ SettlementServed
    /\ PlanAccountedFor
    /\ LeaseTracksNewest
    /\ SessionsAgree
    /\ NoLostWakeup

(* The initial state satisfies IInv.                                       *)
LEMMA IInvInit == Init => IInv
BY TypeInit
   DEF Init, IInv, GuardOwnsPlan, SealOwned, SettlementServed, PlanAccountedFor,
       LeaseTracksNewest, SessionsAgree, NoLostWakeup

(* Every step keeps IInv.                                                  *)
LEMMA IInvNext == IInv /\ [Next]_vars => IInv'
BY TypeNext, GuardOwnsPlanNext, SealOwnedNext, SettlementServedNext, PlanAccountedForNext,
   LeaseTracksNewestNext, SessionsAgreeNext, NoLostWakeupNext DEF IInv

(* IInv holds in every reachable state.                                    *)
LEMMA Inductive == Spec => []IInv
BY IInvInit, IInvNext, PTL DEF Spec

(* A Stop that need not wait selects the newest turn.                      *)
LEMMA SelectsNewest == IInv => StopSelectsNewest
<1> SUFFICES ASSUME IInv, NEW s \in Coordinator, stop[s] # None, ~MustWait(s)
             PROVE  pending = None /\ Selected(s) = last_admitted
  BY DEF StopSelectsNewest
<1>1. stop_lease # None /\ stop_lease.plan = stop[s]
  BY DEF IInv, SealOwned
<1>2. settled[s] # None => settled[s] = stop_lease.settlement
  BY <1>1 DEF IInv, PlanAccountedFor
<1>3. stop[s].pending = None \/ settled[s] # None
  BY DEF MustWait
<1>4. pending = None
  BY <1>1, <1>2, <1>3 DEF IInv, PlanAccountedFor
<1>5. stop[s].pending = None => stop_lease.settlement = None
  BY <1>1 DEF IInv, PlanAccountedFor
<1>6. Selected(s) = last_admitted
  BY <1>1, <1>2, <1>3, <1>5 DEF IInv, LeaseTracksNewest, Selected
<1> QED BY <1>4, <1>6

-----------------------------------------------------------------------------
(* Every value of the root admission state is of its type, ids included.   *)
THEOREM TypeCorrect == Spec => []TypeOK
BY Inductive, PTL DEF IInv

(* A turn the database admitted can always be published: the plan of a     *)
(* live guard is the pending plan, so commit and abort never find it stale.*)
THEOREM GuardsOwnPlans == Spec => []GuardOwnsPlan
BY Inductive, PTL DEF IInv

(* An uncommitted seal has exactly one owner, whose plan is the lease's.   *)
THEOREM SealsAreOwned == Spec => []SealOwned
BY Inductive, PTL DEF IInv

(* The plan a Stop captured is pending or its outcome is in the lease, so  *)
(* the wait for it never finds it lost or stale.                           *)
THEOREM PlansAreAccountedFor == Spec => []PlanAccountedFor
BY Inductive, PTL DEF IInv

(* A Stop acts on the newest turn of its scope, and on nothing older.      *)
THEOREM StopsSelectTheNewestTurn == Spec => []StopSelectsNewest
BY Inductive, SelectsNewest, PTL

(* All turns one Stop has to deal with are of one session.                 *)
THEOREM StopsMeetOneSession == Spec => []OneSession
<1>1. IInv => OneSession
  <2> SUFFICES ASSUME IInv PROVE OneSession
    OBVIOUS
  <2>1. ASSUME NEW s \in Coordinator, stop[s] # None
        PROVE  stop_lease # None /\ stop_lease.plan = stop[s]
    BY <2>1 DEF IInv, SealOwned
  <2>2. ASSUME NEW s \in Coordinator, stop[s] # None, ~MustWait(s)
        PROVE  Selected(s) = last_admitted
    BY <2>2, SelectsNewest DEF StopSelectsNewest
  <2> QED BY <2>1, <2>2 DEF IInv, SessionsAgree, OneSession
<1> QED BY <1>1, Inductive, PTL

(* No task is left parked over a change it was not told of.                *)
THEOREM WakeupsAreNotLost == Spec => []NoLostWakeup
BY Inductive, PTL DEF IInv

-----------------------------------------------------------------------------
(* A step that leaves the gate, the attempt in flight and the newest turn  *)
(* alone stutters.                                                         *)
LEMMA GateStutter ==
    ASSUME UNCHANGED <<gateView, pending, last_admitted>>
    PROVE  UNCHANGED Gate!gvars
BY DEF Gate!gvars

(* Every step of RootAdmission is a step of the gate or leaves it alone.   *)
LEMMA GateStep == IInv /\ IInv' /\ [Next]_vars => [Gate!Next]_(Gate!gvars)
<1> SUFFICES ASSUME IInv, IInv', [Next]_vars PROVE Gate!Next \/ UNCHANGED Gate!gvars
  OBVIOUS
<1>0. TypeOK /\ PlanAccountedFor /\ TypeOK'
  BY DEF IInv
<1>1. CASE UNCHANGED <<pending, last_admitted, stop_lease>>
  BY <1>1, GateStutter DEF gateView
<1>2. ASSUME NEW a \in Admitter, NEW session \in Session, NEW turn \in Turn,
             begin_root_admission(a, session, turn)
      PROVE Gate!Attempt
  <2>1. /\ stop_lease = None /\ stop_lease' = None
        /\ pending = None
        /\ UNCHANGED last_admitted
        /\ pending' = [id |-> next_plan_id, session |-> session, turn |-> turn]
    BY <1>2 DEF begin_root_admission, MayBegin
  <2>2. pending' \in Plan
    BY <1>0, <2>1 DEF TypeOK, Plan
  <2>3. pending' # None
    BY <2>2, NoneAssumption
  <2>4. gateView = "open" /\ gateView' = gateView
    BY <2>1 DEF gateView
  <2> QED BY <2>1, <2>3, <2>4 DEF Gate!Attempt
<1>3. ASSUME NEW a \in Admitter, NEW settlement \in Settlement, Settles(a, settlement)
      PROVE Gate!Admit \/ Gate!Abort
  <2>1. pending # None /\ pending' = None
    BY <1>0, <1>3, SettleEffect
  <2>2. gateView' = gateView
    BY <1>0, <1>3, SettleEffect DEF gateView
  <2>3. last_admitted' = IF settlement.receipt = None THEN last_admitted ELSE settlement.receipt
    BY <1>3 DEF Settles
  <2>4. settlement.receipt \in Receipt \cup {None}
    BY DEF Settlement
  <2>5. CASE settlement.receipt = None
    BY <2>1, <2>2, <2>3, <2>5 DEF Gate!Abort
  <2>6. CASE settlement.receipt # None
    BY <2>1, <2>2, <2>3, <2>4, <2>6 DEF Gate!Admit
  <2> QED BY <2>5, <2>6
<1>4. ASSUME NEW s \in Coordinator, seal_root_admission_for_stop(s) PROVE Gate!Seal
  <2>1. UNCHANGED <<pending, last_admitted>>
    BY <1>0, <1>4, SealEffect
  <2>2. gateView = "open" /\ gateView' = "closing"
    BY <1>0, <1>4, SealEffect DEF gateView
  <2> QED BY <2>1, <2>2 DEF Gate!Seal
<1>5. ASSUME NEW s \in Coordinator, commit_root_admission_stop_seal(s) PROVE Gate!Close
  <2>1. UNCHANGED <<pending, last_admitted>>
    BY <1>0, <1>5, CommitEffect
  <2>2. pending = None
    BY <1>0, <1>5, CommitEffect, SelectsNewest DEF StopSelectsNewest
  <2>3. ~stop_lease.committed
    BY <1>0, <1>5, CommitEffect DEF IInv, SealOwned
  <2>4. gateView = "closing" /\ gateView' = "closed"
    BY <1>0, <1>5, <2>3, CommitEffect DEF gateView
  <2> QED BY <2>1, <2>2, <2>4 DEF Gate!Close
<1>6. ASSUME NEW s \in Coordinator, release_root_admission_stop_seal(s) PROVE Gate!Release
  <2>1. /\ UNCHANGED <<pending, last_admitted>>
        /\ stop_lease # None /\ ~stop_lease.committed /\ stop_lease' = None
    BY <1>6 DEF release_root_admission_stop_seal
  <2>2. gateView = "closing" /\ gateView' = "open"
    BY <2>1 DEF gateView
  <2> QED BY <2>1, <2>2 DEF Gate!Release
<1>7. ASSUME NEW s \in Coordinator, Learns(s)
      PROVE UNCHANGED <<pending, last_admitted, stop_lease>>
  BY <1>7 DEF Learns, admission
<1> QED
  BY <1>0, <1>1, <1>2, <1>3, <1>4, <1>5, <1>6, <1>7, StepKinds DEF Gate!Next, Quiet, admission

(* Root admission implements the gate: once a Stop has committed, no turn  *)
(* of the scope is admitted, and none in flight escaped it.                *)
THEOREM RootAdmissionImplementsStopGate == Spec => ImplementsStopGate
<1>1. Init => Gate!Init
  BY DEF Init, Gate!Init, gateView
<1> QED BY <1>1, Inductive, GateStep, PTL DEF Spec, ImplementsStopGate, Gate!Spec
=============================================================================
