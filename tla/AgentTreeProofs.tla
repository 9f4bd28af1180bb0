-------------------------- MODULE AgentTreeProofs --------------------------
(***************************************************************************)
(* Proofs about AgentTree for any number of children and messages, any     *)
(* capacity and any number of failures, in four layers, each inductive     *)
(* together with those before it:                                          *)
(*                                                                         *)
(*   CapInv   the capacity is kept and a reservation stands for the slot   *)
(*            of the one delivery in flight;                               *)
(*   LInv     the executions are shared out, each to one place of one      *)
(*            launch queue or to one worker or monitor;                    *)
(*   MInv     rows, mailboxes, triggers and turns agree;                   *)
(*   WInv     whatever waits for the end of a turn has someone who will    *)
(*            make it ready, and then there is room for it.                *)
(***************************************************************************)
EXTENDS AgentTree, FiniteSetTheorems, TLAPS

(* A thread in the section of j holds the delivery fence.                  *)
Mailing(j) == j.at \in {"MailCommit", "MailEnqueue"}

(* Some delivery in flight has set a slot aside.                           *)
SlotHeld == \E t \in Thread : Mailing(job[t]) /\ job[t].slot

(* The delivery fence has at most one holder, and pending_capacity_        *)
(* reservations counts its slot and nothing else.                          *)
Fenced ==
    /\ DOMAIN job = Thread
    /\ \A s, t \in Thread : Mailing(job[s]) /\ Mailing(job[t]) => s = t
    /\ \A t \in Thread : Mailing(job[t]) => job[t].slot \in BOOLEAN
    /\ reserved = IF SlotHeld THEN 1 ELSE 0

(* CapacityKept is inductive together with what a reservation stands for.  *)
CapInv ==
    /\ mark \in [Child -> Nat]
    /\ gen \in [Child -> Nat]
    /\ Fenced
    /\ CapacityKept

-----------------------------------------------------------------------------
(* Counting executions.                                                    *)

LEMMA ExecutingFinite ==
    ASSUME NEW m
    PROVE  /\ IsFiniteSet(Executing(m))
           /\ Cardinality(Executing(m)) \in Nat
<1>1. IsFiniteSet(Child)
  BY ChildrenAssumption, FS_Interval DEF Child
<1>2. Executing(m) \in SUBSET Child
  BY DEF Executing
<1> QED BY <1>1, <1>2, FS_Subset, FS_CardinalityType

(* The scheduler, which gives each candidate its rank in spawn order,      *)
(* never reserves more executions than there is room for.                  *)
LEMMA ChosenFits ==
    ASSUME NEW m, NEW b, NEW r \in Nat, ActiveCount(m, r) <= Capacity
    PROVE  /\ Chosen(m, b, r) \subseteq {c \in Child : m[c] = 0}
           /\ IsFiniteSet(Chosen(m, b, r))
           /\ ActiveCount(m, r) + Cardinality(Chosen(m, b, r)) <= Capacity
<1> DEFINE candidates == {c \in Child : m[c] = 0 /\ ReadyNotices(b, c) # {}}
           S == Chosen(m, b, r)
           room == Capacity - ActiveCount(m, r)
           below(c) == {d \in candidates : d <= c}
           rank == [c \in S |-> Cardinality(below(c))]
<1>1. ActiveCount(m, r) \in Nat /\ room \in Nat
  BY ExecutingFinite, CapacityAssumption DEF ActiveCount
<1>2. /\ S \subseteq candidates
      /\ \A c \in S : ActiveCount(m, r) + Cardinality(below(c)) <= Capacity
  BY DEF Chosen
<1>3. IsFiniteSet(candidates)
  <2>1. IsFiniteSet(Child)
    BY ChildrenAssumption, FS_Interval DEF Child
  <2>2. candidates \in SUBSET Child
    OBVIOUS
  <2> QED BY <2>1, <2>2, FS_Subset
<1>4. ASSUME NEW c
      PROVE  IsFiniteSet(below(c)) /\ Cardinality(below(c)) \in Nat
  <2>1. below(c) \in SUBSET candidates
    OBVIOUS
  <2> HIDE DEF below, candidates
  <2> QED BY <1>3, <2>1, FS_Subset, FS_CardinalityType
<1>5. \A c \in candidates : c \in Nat /\ c \in below(c)
  BY ChildrenAssumption DEF Child
<1>6. ASSUME NEW c \in S, NEW d \in S, c < d
      PROVE  Cardinality(below(c)) < Cardinality(below(d))
  <2>1. below(c) \in SUBSET below(d)
    BY <1>2, <1>5, <1>6 DEF Child
  <2>2. d \in below(d) /\ d \notin below(c)
    BY <1>2, <1>5, <1>6
  <2>3. below(c) # below(d)
    BY <2>2
  <2> HIDE DEF below
  <2>4. /\ Cardinality(below(c)) <= Cardinality(below(d))
        /\ Cardinality(below(d)) # Cardinality(below(c))
    BY <1>4, <2>1, <2>3, FS_Subset
  <2> QED BY <2>4, <1>4
<1>7. ASSUME NEW c \in S
      PROVE  Cardinality(below(c)) \in 1 .. room
  <2>1. below(c) # {}
    BY <1>2, <1>5
  <2> HIDE DEF below
  <2>2. Cardinality(below(c)) # 0
    BY <2>1, <1>4, FS_EmptySet
  <2> QED BY <2>2, <1>1, <1>2, <1>4, CapacityAssumption
<1>8. rank \in Injection(S, 1 .. room)
  <2> HIDE DEF S, below, room
  <2>1. rank \in [S -> 1 .. room]
    BY <1>7
  <2>2. ASSUME NEW c \in S, NEW d \in S, rank[c] = rank[d]
        PROVE  c = d
    <3>1. c \in Nat /\ d \in Nat
      BY <1>2, <1>5
    <3>2. Cardinality(below(c)) = Cardinality(below(d))
      BY <2>2
    <3> QED BY <3>1, <3>2, <1>4, <1>6
  <2> QED BY <2>1, <2>2 DEF Injection, IsInjective
<1>9. IsFiniteSet(1 .. room) /\ Cardinality(1 .. room) = room
  BY <1>1, FS_Interval
<1>10. IsFiniteSet(S) /\ Cardinality(S) <= room
  <2> HIDE DEF S, rank, room
  <2> QED BY <1>8, <1>9, FS_Injection
<1> QED BY <1>1, <1>2, <1>10, FS_CardinalityType, CapacityAssumption

(* What the scheduler reserves keeps the capacity.                         *)
LEMMA ReservingFits ==
    ASSUME NEW S, NEW st, NEW m \in [Child -> Nat], NEW k, NEW b, NEW r \in Nat,
           gen \in [Child -> Nat],
           ActiveCount(m, r) <= Capacity,
           S = {} \/ S = Chosen(m, b, r),
           ReserveFrom(S, st, m, k, b, r)
    PROVE  /\ mark' \in [Child -> Nat]
           /\ gen' \in [Child -> Nat]
           /\ reserved' = r
           /\ CapacityKept'
<1>1. /\ mark' = [c \in Child |-> IF c \in S THEN gen[c] + 1 ELSE m[c]]
      /\ gen' = [c \in Child |-> IF c \in S THEN gen[c] + 1 ELSE gen[c]]
      /\ reserved' = r
  BY DEF ReserveFrom
<1>2. /\ S \subseteq {c \in Child : m[c] = 0}
      /\ IsFiniteSet(S)
      /\ ActiveCount(m, r) + Cardinality(S) <= Capacity
  <2>1. CASE S = {}
    BY <2>1, FS_EmptySet, ExecutingFinite, CapacityAssumption DEF ActiveCount
  <2>2. CASE S = Chosen(m, b, r)
    BY <2>2, ChosenFits
  <2> QED BY <2>1, <2>2
<1>3. Executing(mark') = Executing(m) \cup S
  BY <1>1, <1>2 DEF Executing
<1>4. Executing(m) \cap S = {}
  BY <1>2 DEF Executing
<1>5. Cardinality(Executing(mark')) = Cardinality(Executing(m)) + Cardinality(S)
  <2>1. Cardinality(Executing(m) \cap S) = 0
    BY <1>4, FS_EmptySet
  <2>2. Cardinality(Executing(m) \cup S) = Cardinality(Executing(m)) + Cardinality(S)
                                           - Cardinality(Executing(m) \cap S)
    BY <1>2, ExecutingFinite, FS_Union
  <2> QED BY <1>2, <1>3, <2>1, <2>2, ExecutingFinite, FS_CardinalityType
<1>6. CapacityKept'
  BY <1>1, <1>2, <1>5, ExecutingFinite, FS_CardinalityType, CapacityAssumption
  DEF CapacityKept, ActiveCount
<1> QED BY <1>1, <1>6

(* An execution that ends leaves no more of them than there were.          *)
LEMMA FewerExecutions ==
    ASSUME NEW m, NEW n, NEW r \in Nat, NEW q \in Nat, q <= r,
           Executing(n) \subseteq Executing(m),
           ActiveCount(m, r) <= Capacity
    PROVE  ActiveCount(n, q) <= Capacity
<1>1. Executing(n) \in SUBSET Executing(m)
  OBVIOUS
<1>2. Cardinality(Executing(n)) <= Cardinality(Executing(m))
  BY <1>1, ExecutingFinite, FS_Subset
<1> QED BY <1>2, ExecutingFinite, CapacityAssumption DEF ActiveCount

-----------------------------------------------------------------------------
(* The steps, by what they do to executions and deliveries.                *)

(* No delivery begins, ends or changes its slot.                           *)
SameMail ==
    /\ DOMAIN job' = Thread
    /\ \A t \in Thread : /\ Mailing(job'[t]) <=> Mailing(job[t])
                         /\ Mailing(job[t]) => job'[t].slot = job[t].slot

Still == SameMail /\ UNCHANGED <<mark, gen, reserved>>

(* An execution is given up and nothing is scheduled.                      *)
GivesUpOne ==
    /\ SameMail
    /\ \E x : mark' = [mark EXCEPT ![x] = 0]
    /\ UNCHANGED <<gen, reserved>>

(* At most one execution ends and the scheduler fills the room there is.   *)
Schedules ==
    /\ SameMail
    /\ \E st, m, k, b :
          /\ m = mark \/ \E x : m = [mark EXCEPT ![x] = 0]
          /\ ReserveFrom(Chosen(m, b, reserved), st, m, k, b, reserved)

(* A thread that is in no delivery goes on in none.                        *)
LEMMA OtherSection ==
    ASSUME Fenced, NEW t \in Thread, NEW x,
           ~Mailing(job[t]), ~Mailing(x), job' = [job EXCEPT ![t] = x]
    PROVE  SameMail
BY DEF Fenced, SameMail

LEMMA UnchangedMail ==
    ASSUME Fenced, UNCHANGED job
    PROVE  SameMail
BY DEF Fenced, SameMail

LEMMA LaunchingIsNoMail ==
    ASSUME NEW queue, NEW w, NEW g
    PROVE  ~Mailing(Launching(queue, w, g))
BY DEF Mailing, Launching, Idle

LEMMA CompletionSchedules ==
    ASSUME NEW c, NEW S, SameMail,
           complete_execution(c, S) \/ retire_resolved_wake_execution(c, S)
    PROVE  Schedules
<1>1. CASE complete_execution(c, S)
  BY <1>1 DEF complete_execution, Schedules
<1>2. CASE retire_resolved_wake_execution(c, S)
  BY <1>2 DEF retire_resolved_wake_execution, Schedules
<1> QED BY <1>1, <1>2

LEMMA SectionKinds ==
    ASSUME CapInv, NEW t \in Thread, Section(t)
    PROVE  Still \/ GivesUpOne \/ Schedules \/ SendRefused(t) \/ SendEnqueue(t)
<1> USE DEF CapInv
<1>1. CASE SendRefused(t) \/ SendEnqueue(t)
  BY <1>1
<1>2. CASE SendCommit(t)
  BY <1>2 DEF SendCommit, Still, SameMail, Fenced, Mailing, tree
<1>3. CASE commit_and_interrupt_captured(t)
  <2>1. ~Mailing(job[t])
    BY <1>3 DEF commit_and_interrupt_captured, Mailing
  <2>2. \E x : ~Mailing(x) /\ job' = [job EXCEPT ![t] = x]
    BY <1>3 DEF commit_and_interrupt_captured, Mailing, Idle
  <2> QED BY <1>3, <2>1, <2>2, OtherSection DEF commit_and_interrupt_captured, Still
<1>4. CASE cancelled_execution_paths(t)
  <2>1. ~Mailing(job[t])
    BY <1>4 DEF cancelled_execution_paths, Mailing
  <2>2. \E x : ~Mailing(x) /\ job' = [job EXCEPT ![t] = x]
    BY <1>4 DEF cancelled_execution_paths, Mailing
  <2> QED BY <1>4, <2>1, <2>2, OtherSection DEF cancelled_execution_paths, Still, tree
<1>5. CASE schedule_cancelled_worker_abort(t)
  <2>1. ~Mailing(job[t])
    BY <1>5 DEF schedule_cancelled_worker_abort, Mailing
  <2>2. \E x : ~Mailing(x) /\ job' = [job EXCEPT ![t] = x]
    BY <1>5 DEF schedule_cancelled_worker_abort, Mailing, Idle
  <2> QED BY <1>5, <2>1, <2>2, OtherSection DEF schedule_cancelled_worker_abort, Still, tree
<1>6. CASE launch_agent_turn(t)
  <2>1. ~Mailing(job[t])
    BY <1>6 DEF launch_agent_turn, Mailing
  <2>2. \E x : ~Mailing(x) /\ job' = [job EXCEPT ![t] = x]
    BY <1>6, LaunchingIsNoMail DEF launch_agent_turn, NextLease
  <2> QED BY <1>6, <2>1, <2>2, OtherSection DEF launch_agent_turn, Still, tree
<1>7. CASE launch_refused(t)
  <2>1. ~Mailing(job[t])
    BY <1>7 DEF launch_refused, Mailing
  <2>2. \E x : ~Mailing(x) /\ job' = [job EXCEPT ![t] = x]
    BY <1>7 DEF launch_refused, Mailing
  <2> QED BY <1>7, <2>1, <2>2, OtherSection DEF launch_refused, Still, tree
<1>8. ASSUME NEW place \in {"Settled", "Retire", "Release"},
             job[t].at = "Settle", Becomes(t, place)
      PROVE  SameMail
  BY <1>8 DEF Becomes, SameMail, Mailing, Fenced
<1>9. CASE settle_pre_admission(t)
  BY <1>8, <1>9 DEF settle_pre_admission, Still
<1>10. CASE settle_stale(t) \/ settle_fails(t)
  BY <1>8, <1>10 DEF settle_stale, settle_fails, Still, tree
<1>11. ASSUME NEW S, ~Mailing(job[t]), NextLease(t, S)
       PROVE  SameMail
  BY <1>11, LaunchingIsNoMail, OtherSection DEF NextLease
<1>12. CASE settle_complete(t)
  <2>1. PICK S \in SUBSET Child : complete_execution(FirstLease(t), S) /\ NextLease(t, S)
    BY <1>12 DEF settle_complete
  <2>2. ~Mailing(job[t])
    BY <1>12 DEF settle_complete, Mailing
  <2> QED BY <1>11, <2>1, <2>2, CompletionSchedules
<1>13. CASE settle_retire(t)
  <2>1. PICK S \in SUBSET Child :
            retire_resolved_wake_execution(FirstLease(t), S) /\ NextLease(t, S)
    BY <1>13 DEF settle_retire
  <2>2. ~Mailing(job[t])
    BY <1>13 DEF settle_retire, Mailing
  <2> QED BY <1>11, <2>1, <2>2, CompletionSchedules
<1>14. CASE release_unsettled_trigger_execution(t)
  <2>1. ~Mailing(job[t])
    BY <1>14 DEF release_unsettled_trigger_execution, Mailing
  <2> QED BY <1>11, <1>14, <2>1 DEF release_unsettled_trigger_execution, GivesUpOne
<1>15. CASE detach_finished_worker(t)
  <2>1. ~Mailing(job[t])
    BY <1>15 DEF detach_finished_worker, Mailing
  <2>2. ~Mailing(Idle) /\ job' = [job EXCEPT ![t] = Idle]
    BY <1>15 DEF detach_finished_worker, Mailing, Idle
  <2> QED BY <1>15, <2>1, <2>2, OtherSection DEF detach_finished_worker, Still, tree
<1> QED
  BY <1>1, <1>2, <1>3, <1>4, <1>5, <1>6, <1>7, <1>9, <1>10, <1>12, <1>13, <1>14, <1>15
  DEF Section

(* A step of a worker leaves deliveries alone: it runs only while its      *)
(* thread is in no section.                                                *)
LEMMA WorkerKinds ==
    ASSUME CapInv, NEW c \in Child, Worker(c)
    PROVE  Still \/ Schedules
<1> USE DEF CapInv
<1>1. "Local" \in Thread
  BY DEF Thread
<1>2. ~Mailing(job["Local"])
  BY DEF Worker, activate_child_execution, preflight, admit, admit_unavailable,
         mark_execution_admitted, commit_pending_mailbox_delivery, turn_completes, turn_fails,
         turn_stops, finish_turn, At, LocalIdle, Mailing
<1>3. ASSUME Quietly
      PROVE  Still
  BY <1>3, UnchangedMail DEF Quietly, Still, tree
<1>4. ASSUME GivesUp(c)
      PROVE  Still
  <2>1. \E x : ~Mailing(x) /\ job' = [job EXCEPT !["Local"] = x]
    BY <1>4 DEF GivesUp, Mailing
  <2> QED BY <1>1, <1>2, <1>4, <2>1, OtherSection DEF GivesUp, Still, tree
<1>5. CASE activate_child_execution(c) \/ preflight(c)
  BY <1>3, <1>4, <1>5 DEF activate_child_execution, preflight
<1>6. CASE admit_unavailable(c)
  BY <1>4, <1>6 DEF admit_unavailable
<1>7. CASE admit(c)
  BY <1>7, UnchangedMail DEF admit, Still, tree
<1>8. CASE commit_pending_mailbox_delivery(c)
  BY <1>8, UnchangedMail DEF commit_pending_mailbox_delivery, Still
<1>9. CASE turn_completes(c) \/ turn_fails(c) \/ turn_stops(c)
  BY <1>9, UnchangedMail DEF turn_completes, turn_fails, turn_stops, Terminal, Still
<1>10. CASE mark_execution_admitted(c)
  <2> DEFINE S == Chosen(mark, box, reserved)
  <2>1. job' = [job EXCEPT !["Local"] = Launching(InOrder(S), 0, 0)]
    BY <1>10 DEF mark_execution_admitted
  <2>2. SameMail
    BY <1>1, <1>2, <2>1, LaunchingIsNoMail, OtherSection
  <2>3. ReserveFrom(S, [status EXCEPT ![c] = "Running"], mark, ctl, box, reserved)
    BY <1>10 DEF mark_execution_admitted
  <2> QED BY <2>2, <2>3 DEF Schedules
<1>11. CASE finish_turn(c)
  <2>1. PICK S \in SUBSET Child :
          /\ complete_execution(c, S)
          /\ job' = [job EXCEPT !["Local"] = Launching(InOrder(S), c, mark[c])]
    BY <1>11 DEF finish_turn
  <2>2. SameMail
    BY <1>1, <1>2, <2>1, LaunchingIsNoMail, OtherSection
  <2> QED BY <2>1, <2>2, CompletionSchedules
<1> QED BY <1>5, <1>6, <1>7, <1>8, <1>9, <1>10, <1>11 DEF Worker

LEMMA MonitorKinds ==
    ASSUME CapInv, Monitor
    PROVE  Still \/ Schedules
<1> USE DEF CapInv
<1>1. CASE \E batch \in monitors : take_captured_workers(batch)
  BY <1>1, UnchangedMail DEF take_captured_workers, Still, tree
<1>2. CASE \E p \in taken : abort_worker(p)
  BY <1>2, UnchangedMail DEF abort_worker, Still, tree
<1>3. CASE \E c \in Child : settle_hard_aborted_worker(c)
  BY <1>3, UnchangedMail DEF settle_hard_aborted_worker, Still, tree
<1>4. ASSUME NEW c \in Child, monitor_finish(c)
      PROVE  Schedules
  <2>1. PICK S \in SUBSET Child :
          /\ complete_execution(c, S) \/ retire_resolved_wake_execution(c, S)
          /\ job' = [job EXCEPT !["Local"] = Launching(InOrder(S), 0, 0)]
    BY <1>4 DEF monitor_finish
  <2>2. "Local" \in Thread /\ ~Mailing(job["Local"])
    BY <1>4 DEF monitor_finish, At, LocalIdle, Mailing, Thread
  <2>3. SameMail
    BY <2>1, <2>2, LaunchingIsNoMail, OtherSection
  <2> QED BY <2>1, <2>3, CompletionSchedules
<1> QED BY <1>1, <1>2, <1>3, <1>4 DEF Monitor

-----------------------------------------------------------------------------
(* Each kind of step keeps the invariant.                                  *)

LEMMA SameMailFenced ==
    ASSUME Fenced, SameMail, UNCHANGED reserved
    PROVE  Fenced'
<1>1. SlotHeld' <=> SlotHeld
  BY DEF SameMail, SlotHeld
<1> QED BY <1>1 DEF Fenced, SameMail, Mailing

LEMMA StillKeeps ==
    ASSUME CapInv, Still
    PROVE  CapInv'
BY SameMailFenced DEF CapInv, Still, CapacityKept, ActiveCount, Executing

(* The slots set aside are a natural number, which the room left covers.   *)
LEMMA ReservedIsNat ==
    ASSUME CapInv
    PROVE  reserved \in Nat /\ ActiveCount(mark, reserved) <= Capacity
BY DEF CapInv, Fenced, CapacityKept

LEMMA Freed ==
    ASSUME CapInv, NEW x, NEW m, m = [mark EXCEPT ![x] = 0]
    PROVE  /\ m \in [Child -> Nat]
           /\ ActiveCount(m, reserved) <= Capacity
<1>1. m \in [Child -> Nat] /\ Executing(m) \subseteq Executing(mark)
  BY DEF CapInv, Executing
<1>2. reserved \in Nat /\ reserved <= reserved /\ ActiveCount(mark, reserved) <= Capacity
  BY ReservedIsNat
<1>3. ActiveCount(m, reserved) <= Capacity
  BY <1>1, <1>2, FewerExecutions
<1> QED BY <1>1, <1>3

LEMMA GivesUpKeeps ==
    ASSUME CapInv, GivesUpOne
    PROVE  CapInv'
<1>1. PICK x : mark' = [mark EXCEPT ![x] = 0]
  BY DEF GivesUpOne
<1>2. mark' \in [Child -> Nat] /\ ActiveCount(mark', reserved) <= Capacity
  BY <1>1, Freed
<1>3. Fenced'
  BY SameMailFenced DEF CapInv, GivesUpOne
<1> QED BY <1>2, <1>3 DEF CapInv, GivesUpOne, CapacityKept, ActiveCount, Executing

LEMMA SchedulesKeeps ==
    ASSUME CapInv, Schedules
    PROVE  CapInv'
<1>1. PICK st, m, k, b :
        /\ m = mark \/ \E x : m = [mark EXCEPT ![x] = 0]
        /\ ReserveFrom(Chosen(m, b, reserved), st, m, k, b, reserved)
  BY DEF Schedules
<1>2. m \in [Child -> Nat] /\ ActiveCount(m, reserved) <= Capacity
  BY <1>1, Freed, ReservedIsNat DEF CapInv
<1>3. /\ mark' \in [Child -> Nat]
      /\ gen' \in [Child -> Nat]
      /\ reserved' = reserved
      /\ CapacityKept'
  BY <1>1, <1>2, ReservedIsNat, ReservingFits DEF CapInv
<1>4. Fenced'
  BY <1>3, SameMailFenced DEF CapInv, Schedules
<1> QED BY <1>3, <1>4 DEF CapInv

(* A spawn counts the slots that mail has set aside.                       *)
LEMMA SpawnKeeps ==
    ASSUME CapInv, NEW t \in Thread, NEW c \in Child, spawn_agent(t, c)
    PROVE  CapInv'
<1>1. SameMail
  <2>1. ~Mailing(job[t]) /\ job' = [job EXCEPT ![t] = Launching(<<c>>, 0, 0)]
    BY DEF spawn_agent, Mailing
  <2> QED BY <2>1, LaunchingIsNoMail, OtherSection DEF CapInv
<1>2. Fenced'
  BY <1>1, SameMailFenced DEF CapInv, spawn_agent
<1>3. mark' \in [Child -> Nat] /\ gen' \in [Child -> Nat]
  BY DEF CapInv, spawn_agent
<1>4. Executing(mark') \subseteq Executing(mark) \cup {c}
  BY DEF CapInv, spawn_agent, Executing
<1>5. Cardinality(Executing(mark')) <= Cardinality(Executing(mark)) + 1
  <2>1. /\ IsFiniteSet(Executing(mark) \cup {c})
        /\ Cardinality(Executing(mark) \cup {c}) <= Cardinality(Executing(mark)) + 1
    BY ExecutingFinite, FS_AddElement
  <2>2. Executing(mark') \in SUBSET (Executing(mark) \cup {c})
    BY <1>4
  <2>3. Cardinality(Executing(mark')) <= Cardinality(Executing(mark) \cup {c})
    BY <2>1, <2>2, FS_Subset
  <2>4. Cardinality(Executing(mark) \cup {c}) \in Nat
    BY <2>1, FS_CardinalityType
  <2> QED BY <2>1, <2>3, <2>4, ExecutingFinite
<1>6. reserved + Cardinality(Executing(mark)) < Capacity /\ reserved' = reserved
  BY DEF spawn_agent, ActiveCount
<1>7. CapacityKept'
  BY <1>5, <1>6, ReservedIsNat, ExecutingFinite, CapacityAssumption DEF CapacityKept, ActiveCount
<1> QED BY <1>2, <1>3, <1>7 DEF CapInv

(* A delivery begins while no other holds the fence, so its slot is the    *)
(* only one set aside.                                                     *)
LEMMA SendBeginKeeps ==
    ASSUME CapInv, NEW t \in Thread, NEW c \in Child, SendBegin(t, c)
    PROVE  CapInv'
<1> DEFINE newSlot == mark[c] = 0
           granted == ~newSlot \/ ActiveCount(mark, reserved) < Capacity
           section == [at |-> "MailCommit", to |-> c, item |-> NextItem,
                       granted |-> granted, slot |-> newSlot /\ granted]
<1>1. /\ reserved' = IF newSlot /\ granted THEN reserved + 1 ELSE reserved
      /\ job' = [job EXCEPT ![t] = section]
      /\ UNCHANGED <<mark, gen>>
  BY DEF SendBegin
<1>2. reserved = 0 /\ \A s \in Thread : ~Mailing(job[s])
  BY DEF SendBegin, DeliveryFree, CapInv, Fenced, SlotHeld, Mailing
<1>3. /\ Mailing(section)
      /\ section.slot = (newSlot /\ granted)
      /\ (newSlot /\ granted) \in BOOLEAN
  BY DEF Mailing
<1>4. /\ DOMAIN job' = Thread
      /\ job'[t] = section
      /\ \A s \in Thread \ {t} : ~Mailing(job'[s])
  BY <1>1, <1>2 DEF CapInv, Fenced
<1> HIDE DEF section
<1>5. SlotHeld' <=> (newSlot /\ granted)
  BY <1>3, <1>4 DEF SlotHeld
<1>6. Fenced'
  <2>1. reserved' = IF SlotHeld' THEN 1 ELSE 0
    BY <1>1, <1>2, <1>5
  <2>2. \A s, u \in Thread : Mailing(job'[s]) /\ Mailing(job'[u]) => s = u
    BY <1>4
  <2>3. \A s \in Thread : Mailing(job'[s]) => job'[s].slot \in BOOLEAN
    BY <1>3, <1>4
  <2> QED BY <1>4, <2>1, <2>2, <2>3 DEF Fenced, Mailing
<1>7. CapacityKept'
  <2>1. mark' = mark /\ reserved \in Nat /\ ActiveCount(mark, reserved) <= Capacity
    BY <1>1, ReservedIsNat
  <2>2. newSlot /\ granted => ActiveCount(mark, reserved) < Capacity
    OBVIOUS
  <2>3. CASE newSlot /\ granted
    BY <1>1, <2>1, <2>2, <2>3, ExecutingFinite, CapacityAssumption DEF CapacityKept, ActiveCount
  <2>4. CASE ~(newSlot /\ granted)
    BY <1>1, <2>1, <2>4 DEF CapacityKept, ActiveCount
  <2> QED BY <2>3, <2>4
<1> QED BY <1>1, <1>6, <1>7 DEF CapInv

(* The delivery that holds the fence gives back exactly its own slot.      *)
LEMMA GivingBack ==
    ASSUME CapInv, NEW t \in Thread, Mailing(job[t])
    PROVE  /\ GiveBack(t) = 0
           /\ ActiveCount(mark, 0) <= Capacity
<1>1. SlotHeld <=> job[t].slot
  BY DEF CapInv, Fenced, SlotHeld
<1>2. GiveBack(t) = 0
  BY <1>1 DEF CapInv, Fenced, GiveBack
<1>3. 0 <= reserved /\ reserved \in Nat /\ ActiveCount(mark, reserved) <= Capacity
  BY ReservedIsNat
<1>4. ActiveCount(mark, 0) <= Capacity
  BY <1>3, FewerExecutions
<1> QED BY <1>2, <1>4

LEMMA FenceReleased ==
    ASSUME CapInv, NEW t \in Thread, Mailing(job[t]), NEW x, ~Mailing(x),
           job' = [job EXCEPT ![t] = x], reserved' = 0
    PROVE  Fenced'
<1>1. DOMAIN job' = Thread /\ \A s \in Thread : ~Mailing(job'[s])
  BY DEF CapInv, Fenced
<1>2. ~SlotHeld'
  BY <1>1 DEF SlotHeld
<1> QED BY <1>1, <1>2 DEF Fenced, Mailing

LEMMA SendRefusedKeeps ==
    ASSUME CapInv, NEW t \in Thread, SendRefused(t)
    PROVE  CapInv'
<1>1. Mailing(job[t]) /\ ~Mailing(Idle)
  BY DEF SendRefused, Mailing, Idle
<1>2. reserved' = 0 /\ ActiveCount(mark, 0) <= Capacity
  BY <1>1, GivingBack DEF SendRefused
<1>3. Fenced'
  BY <1>1, <1>2, FenceReleased DEF SendRefused
<1>4. UNCHANGED <<mark, gen>>
  BY DEF SendRefused
<1> QED BY <1>2, <1>3, <1>4 DEF CapInv, CapacityKept, ActiveCount, Executing

LEMMA SendEnqueueKeeps ==
    ASSUME CapInv, NEW t \in Thread, SendEnqueue(t)
    PROVE  CapInv'
<1>1. Mailing(job[t])
  BY DEF SendEnqueue, Mailing
<1>2. GiveBack(t) = 0 /\ ActiveCount(mark, 0) <= Capacity
  BY <1>1, GivingBack
<1> DEFINE mail == [box EXCEPT ![job[t].to] =
                       Append(@, [item |-> job[t].item, ready |-> job[t].ready])]
           S == IF job[t].ready THEN Chosen(mark, mail, GiveBack(t)) ELSE {}
<1>3. /\ ReserveFrom(S, status, mark, ctl, mail, GiveBack(t))
      /\ job' = [job EXCEPT ![t] = Launching(InOrder(S), 0, 0)]
  BY DEF SendEnqueue
<1>4. S = {} \/ S = Chosen(mark, mail, 0)
  BY <1>2
<1> HIDE DEF S, mail
<1>5. /\ mark' \in [Child -> Nat]
      /\ gen' \in [Child -> Nat]
      /\ reserved' = 0
      /\ CapacityKept'
  BY <1>2, <1>3, <1>4, ReservingFits DEF CapInv
<1>6. Fenced'
  BY <1>1, <1>3, <1>5, LaunchingIsNoMail, FenceReleased
<1> QED BY <1>5, <1>6 DEF CapInv

LEMMA CapInit ==
    ASSUME Init
    PROVE  CapInv
<1>1. Executing(mark) = {}
  BY DEF Init, Executing
<1>2. CapacityKept
  <2>1. Cardinality(Executing(mark)) = 0
    BY <1>1, FS_EmptySet
  <2>2. reserved = 0
    BY DEF Init
  <2> QED BY <2>1, <2>2, CapacityAssumption DEF CapacityKept, ActiveCount
<1>3. Fenced
  BY DEF Init, Fenced, SlotHeld, Mailing, Idle
<1> QED BY <1>2, <1>3 DEF Init, CapInv

LEMMA CapNext ==
    ASSUME CapInv, [Next]_vars
    PROVE  CapInv'
<1>1. CASE UNCHANGED vars
  BY <1>1, UnchangedMail, StillKeeps DEF vars, tree, Still, CapInv
<1>2. ASSUME NEW t \in Thread, Section(t) PROVE CapInv'
  BY <1>2, SectionKinds, StillKeeps, GivesUpKeeps, SchedulesKeeps, SendRefusedKeeps,
     SendEnqueueKeeps
<1>3. ASSUME NEW t \in Thread, NEW c \in Child, Tool(t, c) PROVE CapInv'
  <2>1. CASE spawn_agent(t, c)
    BY <2>1, SpawnKeeps
  <2>2. CASE SendBegin(t, c)
    BY <2>2, SendBeginKeeps
  <2>3. CASE capture_interrupt_target(t, c)
    <3>1. ~Mailing(job[t])
      BY <2>3 DEF capture_interrupt_target, Mailing
    <3>2. \E x : ~Mailing(x) /\ job' = [job EXCEPT ![t] = x]
      BY <2>3 DEF capture_interrupt_target, Mailing
    <3>3. Still
      BY <2>3, <3>1, <3>2, OtherSection DEF capture_interrupt_target, Still, tree, CapInv
    <3> QED BY <3>3, StillKeeps
  <2> QED BY <1>3, <2>1, <2>2, <2>3 DEF Tool
<1>4. ASSUME NEW c \in Child, Worker(c) PROVE CapInv'
  BY <1>4, WorkerKinds, StillKeeps, SchedulesKeeps
<1>5. CASE Monitor
  BY <1>5, MonitorKinds, StillKeeps, SchedulesKeeps
<1> QED BY <1>1, <1>2, <1>3, <1>4, <1>5 DEF Next

(* The tree never holds more executions and slots than its capacity        *)
(* (active_agent_count against descendant_capacity), whatever spawns,      *)
(* deliveries, completions and failures interleave.                        *)
THEOREM CapacityIsKept == Spec => []CapacityKept
<1>1. Init => CapInv
  BY CapInit
<1>2. CapInv /\ [Next]_vars => CapInv'
  BY CapNext
<1>3. CapInv => CapacityKept
  BY DEF CapInv
<1> QED BY <1>1, <1>2, <1>3, PTL DEF Spec
-----------------------------------------------------------------------------
(* Leases.                                                                 *)

LeaseSection == {"Launch", "Settle", "Settled", "Retire", "Release"}

(* q names each member of S once and nothing else.                         *)
Lists(q, S) ==
    /\ q \in Seq(Child)
    /\ S = {q[k] : k \in 1 .. Len(q)}
    /\ \A i, k \in 1 .. Len(q) : q[i] = q[k] => i = k

(* The leases that the section j has in its launch queue.                  *)
InHand(j) ==
    IF j.at \in LeaseSection THEN {j.queue[k] : k \in 1 .. Len(j.queue)} ELSE {}

(* A lease is queued once, and a section that settles one has it.          *)
QueueOK(j) ==
    j.at \in LeaseSection =>
        /\ {"at", "queue"} \subseteq DOMAIN j
        /\ Lists(j.queue, InHand(j))
        /\ j.at # "Launch" => j.queue # <<>>

(* The leases that workers and monitors have.                              *)
InTask == {c \in Child : HeldByTask(c)}

(* The executions are shared out: to one thread's queue or to one task.    *)
Leased ==
    /\ \A t \in Thread : QueueOK(job[t])
    /\ InHand(job["Root"]) \cap InHand(job["Local"]) = {}
    /\ \A t \in Thread : InHand(job[t]) \cap InTask = {}
    /\ Executing(mark) = InTask \cup InHand(job["Root"]) \cup InHand(job["Local"])
    /\ \A c \in Child : status[c] = "Unborn" => mark[c] = 0

(* The parts of the state that a step updates in place are functions.      *)
Shaped ==
    /\ DOMAIN job = Thread
    /\ DOMAIN work = Child /\ DOMAIN status = Child /\ DOMAIN ctl = Child

-----------------------------------------------------------------------------
(* Messages, mailboxes and turns.                                          *)

Sent(i) == i \in Item /\ row[i].st # "Unsent"

Row == [to : Nat, st : {"Unsent", "Pending", "Delivered", "Discarded", "Unrun"},
        claimed : BOOLEAN, first : BOOLEAN]

Notice == [item : Item, ready : BOOLEAN]

(* What is claimed, announced or the cause of an execution is stored.      *)
Stored ==
    /\ row \in [Item -> Row] /\ turn \in [Child -> BOOLEAN]
    /\ box \in [Child -> Seq(Notice)] /\ wake \in [Child -> Nat]
    /\ \A i \in Item : row[i].claimed => Sent(i)
    /\ \A i \in Item : Sent(i) => row[i].to \in Child
    /\ \A c \in Child : \A k \in 1 .. Len(box[c]) : Sent(box[c][k].item)
    /\ \A c \in Child : mark[c] # 0 => Sent(wake[c])

(* A delivery before and after its durable append.                         *)
InFlight(j) ==
    /\ j.at = "MailCommit" => /\ j.to \in Child /\ j.item \in Item /\ j.granted \in BOOLEAN
                              /\ row[j.item].st = "Unsent"
    /\ j.at = "MailEnqueue" => /\ j.to \in Child /\ j.ready \in BOOLEAN
                               /\ Sent(j.item) /\ row[j.item].to = j.to

(* The trigger of an execution that is retired is no longer to be run.     *)
Retired ==
    /\ \A c \in Child : work[c] = "Resolved" => ~Unclaimed(wake[c])
    /\ \A t \in Thread : job[t].at = "Retire" => ~Unclaimed(wake[FirstLease(t)])

Mail ==
    /\ Stored
    /\ \A t \in Thread : InFlight(job[t])
    /\ TurnOwned
    /\ Retired
    /\ FollowUpKept

-----------------------------------------------------------------------------
(* Follow-ups that wait for the end of a turn.                             *)

(* A notice for c that the scheduler does not look at, in the mailbox or   *)
(* on its way there.                                                       *)
Dormant(c) ==
    \/ \E k \in 1 .. Len(box[c]) : ~box[c][k].ready
    \/ \E t \in Thread : job[t].at = "MailEnqueue" /\ job[t].to = c /\ ~job[t].ready

(* Someone will make it ready: the worker or the monitor of the turn       *)
(* during which it was queued.                                             *)
Awaited ==
    \A c \in Child : Dormant(c) =>
        /\ row[wake[c]].claimed
        /\ work[c] \in {"Admitted", "Running", "Sampling", "Finishing", "Aborted", "Interrupted"}

(* Mail for a child without an execution is ready and has a slot.          *)
SlotFor(j) ==
    Mailing(j) /\ mark[j.to] = 0 =>
        /\ j.at = "MailCommit" => j.slot = j.granted
        /\ j.at = "MailEnqueue" => j.slot /\ j.ready

Wakes ==
    /\ Awaited
    /\ \A t \in Thread : SlotFor(job[t])
    /\ faults \in Nat
    /\ \A t \in Thread : job[t].at = "Release" => faults > 0
    /\ NoIdleFollowUp

-----------------------------------------------------------------------------
(* Numbers in order.                                                       *)

(* Each rank in a finite set of numbers belongs to exactly one of them.    *)
LEMMA Ranks ==
    ASSUME NEW S \in SUBSET Nat, IsFiniteSet(S)
    PROVE  /\ Cardinality(S) \in Nat
           /\ \A c \in S : Cardinality({d \in S : d <= c}) \in 1 .. Cardinality(S)
           /\ \A c, e \in S : Cardinality({d \in S : d <= c}) = Cardinality({d \in S : d <= e})
                                => c = e
           /\ \A k \in 1 .. Cardinality(S) : \E c \in S : Cardinality({d \in S : d <= c}) = k
<1> DEFINE n == Cardinality(S)
           below(c) == {d \in S : d <= c}
           rank == [c \in S |-> Cardinality(below(c))]
<1>1. n \in Nat
  BY FS_CardinalityType
<1>2. ASSUME NEW c
      PROVE  /\ IsFiniteSet(below(c)) /\ Cardinality(below(c)) \in Nat
             /\ Cardinality(below(c)) <= n
  <2>1. below(c) \in SUBSET S
    OBVIOUS
  <2> HIDE DEF below
  <2> QED BY <2>1, FS_Subset, FS_CardinalityType
<1>3. ASSUME NEW c \in S
      PROVE  Cardinality(below(c)) \in 1 .. n
  <2>1. below(c) # {}
    OBVIOUS
  <2> HIDE DEF below
  <2>2. Cardinality(below(c)) # 0
    BY <2>1, <1>2, FS_EmptySet
  <2> QED BY <2>2, <1>1, <1>2
<1>4. ASSUME NEW c \in S, NEW d \in S, c < d
      PROVE  Cardinality(below(c)) # Cardinality(below(d))
  <2>1. /\ \A x \in S : x <= c => x <= d
        /\ d <= d /\ ~(d <= c)
    <3>1. c \in Nat /\ d \in Nat /\ \A x \in S : x \in Nat
      OBVIOUS
    <3> QED BY <1>4, <3>1
  <2>2. below(c) \in SUBSET below(d) /\ d \in below(d) /\ d \notin below(c)
    BY <2>1
  <2> HIDE DEF below
  <2> QED BY <1>2, <2>2, FS_Subset
<1>5. ASSUME NEW c \in S, NEW d \in S, Cardinality(below(c)) = Cardinality(below(d))
      PROVE  c = d
  <2>1. c \in Nat /\ d \in Nat
    OBVIOUS
  <2> HIDE DEF below
  <2> QED BY <1>4, <1>5, <2>1
<1>6. rank \in Surjection(S, 1 .. n)
  <2> HIDE DEF below, n
  <2>1. rank \in Injection(S, 1 .. n)
    BY <1>3, <1>5 DEF Injection, IsInjective
  <2>2. IsFiniteSet(1 .. n) /\ Cardinality(1 .. n) = n
    BY <1>1, FS_Interval
  <2> HIDE DEF rank
  <2> QED BY <2>1, <2>2, FS_Injection DEF n
<1>7. ASSUME NEW k \in 1 .. n
      PROVE  \E c \in S : Cardinality(below(c)) = k
  <2> HIDE DEF below, n
  <2> QED BY <1>6 DEF Surjection
<1> QED BY <1>1, <1>3, <1>5, <1>7

(* InOrder lists exactly the members, each once.                           *)
LEMMA Ordered ==
    ASSUME NEW S \in SUBSET Nat, IsFiniteSet(S)
    PROVE  /\ InOrder(S) \in Seq(S)
           /\ Len(InOrder(S)) = Cardinality(S)
           /\ \A i, k \in 1 .. Len(InOrder(S)) : InOrder(S)[i] = InOrder(S)[k] => i = k
           /\ S = {InOrder(S)[k] : k \in 1 .. Len(InOrder(S))}
<1> DEFINE n == Cardinality(S)
           rank(c) == Cardinality({d \in S : d <= c})
           q == InOrder(S)
<1>1. /\ n \in Nat
      /\ \A c \in S : rank(c) \in 1 .. n
      /\ \A c, e \in S : rank(c) = rank(e) => c = e
      /\ \A k \in 1 .. n : \E c \in S : rank(c) = k
  BY Ranks
<1>2. q = [k \in 1 .. n |-> CHOOSE c \in S : rank(c) = k]
  BY DEF InOrder
<1> HIDE DEF n, rank, q
<1>3. \A k \in 1 .. n : q[k] \in S /\ rank(q[k]) = k
  BY <1>1, <1>2
<1>4. q \in Seq(S) /\ Len(q) = n
  BY <1>1, <1>2, <1>3
<1>5. \A c \in S : q[rank(c)] = c
  BY <1>1, <1>3
<1>6. S = {q[k] : k \in 1 .. n}
  <2>1. ASSUME NEW c \in S PROVE c \in {q[k] : k \in 1 .. n}
    <3>1. rank(c) \in 1 .. n /\ q[rank(c)] = c
      BY <1>1, <1>5
    <3> QED BY <3>1
  <2>2. \A c \in {q[k] : k \in 1 .. n} : c \in S
    BY <1>3
  <2> QED BY <2>1, <2>2
<1>7. \A i, k \in 1 .. n : q[i] = q[k] => i = k
  BY <1>3
<1> QED BY <1>4, <1>6, <1>7 DEF n, q

(* A finite set of numbers that is not empty has a least and a greatest.   *)
LEMMA Extremes ==
    ASSUME NEW S \in SUBSET Nat, IsFiniteSet(S), S # {}
    PROVE  /\ \E c \in S : \A d \in S : d <= c
           /\ \E c \in S : \A d \in S : c <= d
<1> DEFINE n == Cardinality(S)
           below(c) == {d \in S : d <= c}
<1>1. n \in Nat /\ n # 0
  BY FS_CardinalityType, FS_EmptySet
<1>2. \E c \in S : \A d \in S : d <= c
  <2>1. PICK c \in S : Cardinality(below(c)) = n
    BY <1>1, Ranks
  <2>2. below(c) \in SUBSET S
    OBVIOUS
  <2>3. below(c) = S
    <3> HIDE DEF below
    <3> QED BY <2>1, <2>2, FS_Subset
  <2> QED BY <2>3
<1>3. \E c \in S : \A d \in S : c <= d
  <2>1. PICK c \in S : Cardinality(below(c)) = 1
    BY <1>1, Ranks
  <2>2. ASSUME NEW d \in S, d < c PROVE FALSE
    <3>1. below(c) \in SUBSET S /\ c \in below(c) /\ d \in below(c) /\ c # d
      BY <2>2
    <3> HIDE DEF below
    <3>2. IsFiniteSet(below(c))
      BY <3>1, FS_Subset
    <3> QED BY <2>1, <3>1, <3>2, FS_Singleton
  <2> QED BY <2>2
<1> QED BY <1>2, <1>3

-----------------------------------------------------------------------------
(* Launch queues.                                                          *)

LEMMA InOrderLists ==
    ASSUME NEW S \in SUBSET Child
    PROVE  Lists(InOrder(S), S)
<1>1. IsFiniteSet(Child) /\ Child \subseteq Nat
  BY ChildrenAssumption, FS_Interval DEF Child
<1>2. S \in SUBSET Nat /\ IsFiniteSet(S)
  BY <1>1, FS_Subset
<1>3. /\ InOrder(S) \in Seq(S)
      /\ \A i, k \in 1 .. Len(InOrder(S)) : InOrder(S)[i] = InOrder(S)[k] => i = k
      /\ S = {InOrder(S)[k] : k \in 1 .. Len(InOrder(S))}
  BY <1>2, Ordered
<1>4. InOrder(S) \in Seq(Child)
  BY <1>3
<1> QED BY <1>3, <1>4 DEF Lists

LEMMA TailLists ==
    ASSUME NEW q, NEW S, Lists(q, S), q # <<>>
    PROVE  Head(q) \in S /\ Lists(Tail(q), S \ {Head(q)})
<1>1. /\ q \in Seq(Child) /\ Len(q) \in Nat /\ Len(q) # 0
      /\ S = {q[k] : k \in 1 .. Len(q)}
      /\ \A i, k \in 1 .. Len(q) : q[i] = q[k] => i = k
  BY DEF Lists
<1>2. /\ Head(q) = q[1] /\ Tail(q) \in Seq(Child) /\ Len(Tail(q)) = Len(q) - 1
      /\ \A k \in 1 .. Len(q) - 1 : Tail(q)[k] = q[k + 1]
  BY <1>1
<1>3. \A i, k \in 1 .. Len(Tail(q)) : Tail(q)[i] = Tail(q)[k] => i = k
  BY <1>1, <1>2
<1>4. ASSUME NEW x \in S, x # q[1]
      PROVE  x \in {Tail(q)[k] : k \in 1 .. Len(Tail(q))}
  <2>1. PICK k \in 1 .. Len(q) : x = q[k]
    BY <1>1
  <2>2. k - 1 \in 1 .. Len(q) - 1 /\ Tail(q)[k - 1] = q[(k - 1) + 1] /\ (k - 1) + 1 = k
    BY <1>1, <1>2, <1>4, <2>1
  <2> QED BY <1>2, <2>1, <2>2
<1>5. ASSUME NEW k \in 1 .. Len(Tail(q))
      PROVE  Tail(q)[k] \in S /\ Tail(q)[k] # q[1]
  <2>1. k + 1 \in 1 .. Len(q) /\ k + 1 # 1 /\ 1 \in 1 .. Len(q) /\ Tail(q)[k] = q[k + 1]
    BY <1>1, <1>2
  <2> QED BY <1>1, <2>1
<1>6. S \ {q[1]} = {Tail(q)[k] : k \in 1 .. Len(Tail(q))}
  BY <1>4, <1>5
<1>7. Head(q) \in S
  BY <1>1, <1>2
<1> QED BY <1>2, <1>3, <1>6, <1>7 DEF Lists

LEMMA ConcatLists ==
    ASSUME NEW q, NEW S, Lists(q, S), NEW r, NEW T, Lists(r, T), S \cap T = {}
    PROVE  Lists(q \o r, S \cup T)
<1> DEFINE m == Len(q)
           n == Len(r)
           p == q \o r
<1>1. /\ q \in Seq(Child) /\ m \in Nat /\ r \in Seq(Child) /\ n \in Nat
      /\ S = {q[k] : k \in 1 .. m}
      /\ T = {r[k] : k \in 1 .. n}
  BY DEF Lists
<1>2. /\ p \in Seq(Child) /\ Len(p) = m + n
      /\ \A k \in 1 .. m + n : p[k] = IF k <= m THEN q[k] ELSE r[k - m]
  BY <1>1
<1>3. /\ \A i, k \in 1 .. m : q[i] = q[k] => i = k
      /\ \A i, k \in 1 .. n : r[i] = r[k] => i = k
  BY DEF Lists
<1> HIDE DEF m, n, p
<1>4. \A k \in 1 .. m : k \in 1 .. m + n /\ p[k] = q[k]
  BY <1>1, <1>2
<1>5. \A k \in 1 .. n : k + m \in 1 .. m + n /\ p[k + m] = r[k]
  BY <1>1, <1>2
<1>6. \A k \in 1 .. m + n : \/ k \in 1 .. m
                            \/ k - m \in 1 .. n /\ p[k] = r[k - m] /\ k = (k - m) + m
  BY <1>1, <1>2
<1>7. S \cup T = {p[k] : k \in 1 .. m + n}
  <2>1. ASSUME NEW x \in S \cup T PROVE x \in {p[k] : k \in 1 .. m + n}
    BY <1>1, <1>4, <1>5
  <2>2. ASSUME NEW k \in 1 .. m + n PROVE p[k] \in S \cup T
    BY <1>1, <1>4, <1>6
  <2> QED BY <2>1, <2>2
<1>8. ASSUME NEW i \in 1 .. m + n, NEW k \in 1 .. m + n, p[i] = p[k]
      PROVE  i = k
  <2>1. CASE i \in 1 .. m /\ k \in 1 .. m
    BY <1>3, <1>4, <1>8, <2>1
  <2>2. CASE i \in 1 .. m /\ k - m \in 1 .. n /\ p[k] = r[k - m]
    <3>1. p[i] \in S /\ p[k] \in T
      BY <1>1, <1>4, <2>2
    <3> QED BY <1>8, <3>1
  <2>3. CASE k \in 1 .. m /\ i - m \in 1 .. n /\ p[i] = r[i - m]
    <3>1. p[k] \in S /\ p[i] \in T
      BY <1>1, <1>4, <2>3
    <3> QED BY <1>8, <3>1
  <2>4. CASE /\ i - m \in 1 .. n /\ p[i] = r[i - m] /\ i = (i - m) + m
             /\ k - m \in 1 .. n /\ p[k] = r[k - m] /\ k = (k - m) + m
    BY <1>3, <1>8, <2>4
  <2> QED BY <1>6, <2>1, <2>2, <2>3, <2>4
<1> QED BY <1>2, <1>7, <1>8 DEF Lists, p

LEMMA NoneListed == Lists(<<>>, {})
BY DEF Lists

LEMMA OneListed ==
    ASSUME NEW c \in Child
    PROVE  Lists(<<c>>, {c})
BY DEF Lists

(* A launch queue holds the leases that are put into it.                   *)
LEMMA LaunchingHolds ==
    ASSUME NEW q, NEW S, Lists(q, S), NEW w, NEW g
    PROVE  /\ QueueOK(Launching(q, w, g))
           /\ InHand(Launching(q, w, g)) = S
           /\ Launching(q, w, g).at \in {"Idle", "Launch"}
<1>1. CASE q = <<>> /\ w = 0
  <2>1. Launching(q, w, g) = Idle /\ Idle.at = "Idle"
    BY <1>1 DEF Launching, Idle
  <2>2. S = {}
    BY <1>1 DEF Lists
  <2> QED BY <2>1, <2>2 DEF QueueOK, InHand, LeaseSection
<1>2. CASE ~(q = <<>> /\ w = 0)
  <2> DEFINE j == Launching(q, w, g)
  <2>1. j.at = "Launch" /\ j.queue = q /\ {"at", "queue"} \subseteq DOMAIN j
    BY <1>2 DEF Launching
  <2>2. S = {q[k] : k \in 1 .. Len(q)}
    BY DEF Lists
  <2> HIDE DEF j
  <2> QED BY <2>1, <2>2 DEF QueueOK, InHand, LeaseSection, j
<1> QED BY <1>1, <1>2

-----------------------------------------------------------------------------
(* How leases change hands.                                                *)

LInv == CapInv /\ Shaped /\ Leased

(* Only t and the tasks have to do with it: the executions of C, which     *)
(* were theirs, end and those of S begin, each in one place.               *)
Passes(t, C, S) ==
    /\ C \subseteq InHand(job[t]) \cup InTask
    /\ S \cap (Executing(mark) \ C) = {}
    /\ Executing(mark') = (Executing(mark) \ C) \cup S
    /\ \A s \in Thread \ {t} : job'[s] = job[s]
    /\ QueueOK(job'[t])
    /\ InHand(job'[t]) \cap InTask' = {}
    /\ InHand(job'[t]) \cup InTask' = ((InHand(job[t]) \cup InTask) \ C) \cup S
    /\ \A c \in Child : status'[c] = "Unborn" => mark'[c] = 0

LEMMA PassingKeeps ==
    ASSUME Leased, NEW t \in Thread, NEW C, NEW S, Passes(t, C, S)
    PROVE  Leased'
<1> DEFINE H == InHand(job[t])
           W == InTask
           E == Executing(mark)
           G == InHand(job'[t])
           V == InTask'
           F == Executing(mark')
<1>1. PICK s \in Thread : s # t /\ \A u \in Thread : u = s \/ u = t
  BY DEF Thread
<1> DEFINE O == InHand(job[s])
<1>2. /\ job'[s] = job[s] /\ InHand(job'[s]) = O
      /\ QueueOK(job'[s]) /\ QueueOK(job'[t])
  BY <1>1 DEF Passes, Leased
<1>3. /\ H \cap O = {} /\ H \cap W = {} /\ O \cap W = {} /\ E = W \cup H \cup O
  BY <1>1 DEF Leased, Thread
<1>4. /\ C \subseteq H \cup W /\ S \cap (E \ C) = {} /\ F = (E \ C) \cup S
      /\ G \cap V = {} /\ G \cup V = ((H \cup W) \ C) \cup S
  BY DEF Passes
<1>5. \A c \in Child : status'[c] = "Unborn" => mark'[c] = 0
  BY DEF Passes
<1> HIDE DEF H, W, E, G, V, F, O
<1>6. G \cap O = {} /\ O \cap V = {} /\ F = V \cup G \cup O
  BY <1>3, <1>4
<1>7. CASE t = "Root"
  BY <1>1, <1>2, <1>4, <1>5, <1>6, <1>7 DEF Leased, Thread, O, G, V, F
<1>8. CASE t = "Local"
  BY <1>1, <1>2, <1>4, <1>5, <1>6, <1>8 DEF Leased, Thread, O, G, V, F
<1> QED BY <1>7, <1>8 DEF Thread

(* The scheduler gives new executions only to children that have none.     *)
LEMMA Reserving ==
    ASSUME gen \in [Child -> Nat], NEW S \in SUBSET Child, NEW m \in [Child -> Nat],
           \A c \in S : m[c] = 0,
           NEW st, NEW k, NEW b, NEW r, ReserveFrom(S, st, m, k, b, r),
           \A c \in Child : st[c] = "Unborn" => m[c] = 0
    PROVE  /\ Executing(mark') = Executing(m) \cup S
           /\ S \cap Executing(m) = {}
           /\ \A c \in Child : status'[c] = "Unborn" => mark'[c] = 0
           /\ DOMAIN status' = Child /\ DOMAIN ctl' = Child
<1>1. /\ status' = [c \in Child |-> IF c \in S THEN "PendingInit" ELSE st[c]]
      /\ mark' = [c \in Child |-> IF c \in S THEN gen[c] + 1 ELSE m[c]]
      /\ ctl' = [c \in Child |-> IF c \in S THEN "Open" ELSE k[c]]
  BY DEF ReserveFrom
<1>2. \A c \in Child : c \in S => mark'[c] # 0
  BY <1>1
<1>3. Executing(mark') = Executing(m) \cup S
  BY <1>1, <1>2 DEF Executing
<1>4. \A c \in Child : status'[c] = "Unborn" => mark'[c] = 0
  BY <1>1
<1> QED BY <1>1, <1>3, <1>4 DEF Executing

LEMMA ChosenAreFree ==
    ASSUME NEW m, NEW b, NEW r
    PROVE  Chosen(m, b, r) \in SUBSET Child /\ \A c \in Chosen(m, b, r) : m[c] = 0
BY DEF Chosen

(* An execution ends and the scheduler runs.                               *)
LEMMA Ending ==
    ASSUME LInv, NEW c \in Child, NEW S,
           complete_execution(c, S) \/ retire_resolved_wake_execution(c, S)
    PROVE  /\ S \in SUBSET Child
           /\ S \cap (Executing(mark) \ {c}) = {}
           /\ Executing(mark') = (Executing(mark) \ {c}) \cup S
           /\ \A d \in Child : status'[d] = "Unborn" => mark'[d] = 0
           /\ DOMAIN status' = Child /\ DOMAIN ctl' = Child
<1> DEFINE m == [mark EXCEPT ![c] = 0]
           st == [status EXCEPT ![c] = "Inactive"]
<1>1. PICK k, b : S = Chosen(m, b, reserved) /\ ReserveFrom(S, st, m, k, b, reserved)
  BY DEF complete_execution, retire_resolved_wake_execution
<1>2. m \in [Child -> Nat] /\ gen \in [Child -> Nat]
  BY DEF LInv, CapInv
<1>3. \A d \in Child : st[d] = "Unborn" => m[d] = 0
  BY DEF LInv, CapInv, Shaped, Leased
<1>4. Executing(m) = Executing(mark) \ {c}
  BY DEF LInv, CapInv, Executing
<1> HIDE DEF m, st
<1>5. S \in SUBSET Child /\ \A d \in S : m[d] = 0
  BY <1>1, ChosenAreFree
<1>6. ReserveFrom(S, st, m, k, b, reserved)
  BY <1>1
<1>7. /\ Executing(mark') = Executing(m) \cup S
      /\ S \cap Executing(m) = {}
      /\ \A d \in Child : status'[d] = "Unborn" => mark'[d] = 0
      /\ DOMAIN status' = Child /\ DOMAIN ctl' = Child
  BY <1>2, <1>3, <1>5, <1>6, Reserving
<1> QED BY <1>4, <1>5, <1>7

(* The first lease of a queue is done with and those of S join it.         *)
LEMMA NextLeaseHolds ==
    ASSUME LInv, NEW t \in Thread, job[t].at \in LeaseSection, job[t].queue # <<>>,
           NEW S \in SUBSET Child,
           S \cap (Executing(mark) \ {FirstLease(t)}) = {},
           NextLease(t, S)
    PROVE  /\ DOMAIN job' = Thread
           /\ \A s \in Thread \ {t} : job'[s] = job[s]
           /\ QueueOK(job'[t])
           /\ InHand(job'[t]) = (InHand(job[t]) \ {FirstLease(t)}) \cup S
           /\ job'[t].at \in {"Idle", "Launch"}
<1> DEFINE q == job[t].queue
           H == InHand(job[t])
           n == Tail(q) \o InOrder(S)
<1>1. Lists(q, H)
  BY DEF LInv, Leased, QueueOK
<1>2. Head(q) \in H /\ Lists(Tail(q), H \ {Head(q)})
  BY <1>1, TailLists
<1>3. H \subseteq Executing(mark)
  BY DEF LInv, Leased, Thread
<1>4. Lists(n, (H \ {Head(q)}) \cup S)
  <2>1. (H \ {Head(q)}) \cap S = {}
    BY <1>3 DEF FirstLease
  <2> HIDE DEF H
  <2> QED BY <1>2, <2>1, InOrderLists, ConcatLists
<1>5. job' = [job EXCEPT ![t] = Launching(n, @.worker, @.gen)]
  BY DEF NextLease
<1>6. /\ DOMAIN job' = Thread
      /\ \A s \in Thread \ {t} : job'[s] = job[s]
      /\ job'[t] = Launching(n, job[t].worker, job[t].gen)
  BY <1>5 DEF LInv, Shaped
<1> HIDE DEF n, H
<1>7. /\ QueueOK(job'[t])
      /\ InHand(job'[t]) = (H \ {Head(q)}) \cup S
      /\ job'[t].at \in {"Idle", "Launch"}
  BY <1>4, <1>6, LaunchingHolds
<1> QED BY <1>6, <1>7 DEF H, FirstLease

(* The first lease is one of the queue's.                                  *)
LEMMA FirstIsHeld ==
    ASSUME LInv, NEW t \in Thread, job[t].at \in LeaseSection, job[t].queue # <<>>
    PROVE  /\ FirstLease(t) \in InHand(job[t])
           /\ FirstLease(t) \in Child
           /\ mark[FirstLease(t)] # 0
           /\ ~HeldByTask(FirstLease(t))
<1>1. FirstLease(t) \in InHand(job[t])
  BY TailLists DEF LInv, Leased, QueueOK, FirstLease
<1>2. InHand(job[t]) \subseteq Executing(mark) /\ InHand(job[t]) \cap InTask = {}
  BY DEF LInv, Leased, Thread
<1> QED BY <1>1, <1>2 DEF Executing, InTask

(* What a step that leaves every lease where it is may change.             *)
Untouched(t) ==
    /\ DOMAIN job' = Thread
    /\ \A s \in Thread \ {t} : job'[s] = job[s]
    /\ QueueOK(job'[t]) /\ InHand(job'[t]) = InHand(job[t])
    /\ DOMAIN work' = Child /\ InTask' = InTask
    /\ UNCHANGED <<mark, status>>
    /\ DOMAIN ctl' = Child

LEMMA UntouchedKeeps ==
    ASSUME LInv, NEW t \in Thread, Untouched(t)
    PROVE  Shaped' /\ Leased'
<1>1. Shaped'
  BY DEF LInv, Shaped, Untouched
<1>2. Passes(t, {}, {})
  BY DEF LInv, Leased, Passes, Untouched, Executing
<1> QED BY <1>1, <1>2, PassingKeeps DEF LInv

(* A section without a lease.                                              *)
LEMMA NoLease ==
    ASSUME NEW j, j.at \notin LeaseSection
    PROVE  QueueOK(j) /\ InHand(j) = {}
BY DEF QueueOK, InHand

(* Thread t goes from one section without leases to another.               *)
LEMMA OtherBusiness ==
    ASSUME LInv, NEW t \in Thread, NEW x,
           job[t].at \notin LeaseSection, x.at \notin LeaseSection,
           job' = [job EXCEPT ![t] = x],
           UNCHANGED <<mark, status, work>>, DOMAIN ctl' = Child
    PROVE  Untouched(t)
<1>1. /\ DOMAIN job' = Thread /\ job'[t] = x
      /\ \A s \in Thread \ {t} : job'[s] = job[s]
  BY DEF LInv, Shaped
<1>2. InTask' = InTask
  BY DEF InTask, HeldByTask, InBody
<1> QED BY <1>1, <1>2, NoLease DEF Untouched, LInv, Shaped

(* No section is entered or left, and no task gets or loses a lease.       *)
LEMMA SameHands ==
    ASSUME LInv, UNCHANGED <<job, mark, status>>, DOMAIN ctl' = Child,
           DOMAIN work' = Child, InTask' = InTask
    PROVE  Untouched("Local")
BY DEF LInv, Shaped, Leased, Untouched, Thread

(* A worker or its monitor goes from one place to another with its lease.  *)
LEMMA KeepsItsLease ==
    ASSUME LInv, NEW c \in Child, HeldByTask(c), NEW place, Moves(c, place),
           place \in {"Start", "Preflight", "Admitting", "Admitted", "Running", "Sampling",
                      "Finishing", "Aborted", "Interrupted", "Resolved"}
    PROVE  DOMAIN work' = Child /\ InTask' = InTask
BY DEF LInv, Shaped, Moves, InTask, HeldByTask, InBody

(* A task gives up its lease.                                              *)
LEMMA LosesItsLease ==
    ASSUME LInv, NEW c \in Child, NEW place, Moves(c, place), place \in {"Done", "None"}
    PROVE  DOMAIN work' = Child /\ InTask' = InTask \ {c}
BY DEF LInv, Shaped, Moves, InTask, HeldByTask, InBody

(* The queue stays, only the place in the section changes.                 *)
LEMMA SameQueue ==
    ASSUME LInv, NEW t \in Thread, NEW x,
           job[t].at \in LeaseSection, x.at \in LeaseSection,
           {"at", "queue"} \subseteq DOMAIN x, x.queue = job[t].queue,
           x.at # "Launch" => job[t].queue # <<>>,
           job' = [job EXCEPT ![t] = x],
           UNCHANGED <<mark, status, work>>, DOMAIN ctl' = Child
    PROVE  Untouched(t)
<1>1. /\ DOMAIN job' = Thread /\ job'[t] = x
      /\ \A s \in Thread \ {t} : job'[s] = job[s]
  BY DEF LInv, Shaped
<1>2. InTask' = InTask
  BY DEF InTask, HeldByTask, InBody
<1>3. InHand(x) = InHand(job[t]) /\ QueueOK(x)
  BY DEF LInv, Leased, InHand, QueueOK
<1> QED BY <1>1, <1>2, <1>3 DEF Untouched, LInv, Shaped

LEMMA CtlShaped ==
    ASSUME LInv, NEW c
    PROVE  DOMAIN Superseded(c) = Child
BY DEF LInv, Shaped, Superseded

-----------------------------------------------------------------------------
(* Every step passes leases on without losing or doubling one.             *)

LEMMA EnqueueLeases ==
    ASSUME LInv, NEW t \in Thread, SendEnqueue(t)
    PROVE  Shaped' /\ Leased'
<1> DEFINE mail == [box EXCEPT ![job[t].to] =
                       Append(@, [item |-> job[t].item, ready |-> job[t].ready])]
           S == IF job[t].ready THEN Chosen(mark, mail, GiveBack(t)) ELSE {}
<1>1. /\ ReserveFrom(S, status, mark, ctl, mail, GiveBack(t))
      /\ job' = [job EXCEPT ![t] = Launching(InOrder(S), 0, 0)]
      /\ UNCHANGED work /\ job[t].at = "MailEnqueue"
  BY DEF SendEnqueue, pool
<1>2. S \in SUBSET Child /\ \A c \in S : mark[c] = 0
  BY ChosenAreFree
<1> HIDE DEF S, mail
<1>3. /\ Executing(mark') = Executing(mark) \cup S
      /\ S \cap Executing(mark) = {}
      /\ \A c \in Child : status'[c] = "Unborn" => mark'[c] = 0
      /\ DOMAIN status' = Child /\ DOMAIN ctl' = Child
  BY <1>1, <1>2, Reserving DEF LInv, CapInv, Leased
<1>4. /\ DOMAIN job' = Thread /\ job'[t] = Launching(InOrder(S), 0, 0)
      /\ \A s \in Thread \ {t} : job'[s] = job[s]
  BY <1>1 DEF LInv, Shaped
<1>5. QueueOK(job'[t]) /\ InHand(job'[t]) = S
  BY <1>2, <1>4, InOrderLists, LaunchingHolds
<1>6. InTask' = InTask /\ InHand(job[t]) = {} /\ InTask \subseteq Executing(mark)
  BY <1>1, NoLease DEF InTask, HeldByTask, InBody, LeaseSection, LInv, Leased
<1>7. Passes(t, {}, S)
  BY <1>3, <1>4, <1>5, <1>6 DEF Passes
<1>8. Shaped'
  BY <1>1, <1>3, <1>4 DEF LInv, Shaped
<1> QED BY <1>7, <1>8, PassingKeeps DEF LInv

(* The first lease of the queue ends.                                      *)
LEMMA QueueEnds ==
    ASSUME LInv, NEW t \in Thread, job[t].at \in LeaseSection, job[t].queue # <<>>,
           NEW S \in SUBSET Child, NextLease(t, S),
           S \cap (Executing(mark) \ {FirstLease(t)}) = {},
           Executing(mark') = (Executing(mark) \ {FirstLease(t)}) \cup S,
           \A c \in Child : status'[c] = "Unborn" => mark'[c] = 0,
           DOMAIN status' = Child, DOMAIN ctl' = Child, UNCHANGED work
    PROVE  Shaped' /\ Leased'
<1> DEFINE c == FirstLease(t)
<1>1. /\ DOMAIN job' = Thread
      /\ \A s \in Thread \ {t} : job'[s] = job[s]
      /\ QueueOK(job'[t])
      /\ InHand(job'[t]) = (InHand(job[t]) \ {c}) \cup S
  BY NextLeaseHolds
<1>2. c \in InHand(job[t])
  BY FirstIsHeld
<1>3. InTask' = InTask
  BY DEF InTask, HeldByTask, InBody
<1>4. InHand(job[t]) \cap InTask = {} /\ InTask \subseteq Executing(mark)
  BY DEF LInv, Leased
<1> HIDE DEF c
<1>5. Passes(t, {c}, S)
  BY <1>1, <1>2, <1>3, <1>4 DEF Passes, c
<1>6. Shaped'
  BY <1>1 DEF LInv, Shaped
<1> QED BY <1>5, <1>6, PassingKeeps DEF LInv

LEMMA LaunchLeases ==
    ASSUME LInv, NEW t \in Thread, launch_agent_turn(t)
    PROVE  Shaped' /\ Leased'
<1> DEFINE c == FirstLease(t)
<1>1. /\ job[t].at \in LeaseSection /\ job[t].queue # <<>> /\ NextLease(t, {})
      /\ work' = [work EXCEPT ![c] = "Start"]
      /\ UNCHANGED <<mark, status, ctl>>
  BY DEF launch_agent_turn, LeaseSection, tree
<1>2. /\ DOMAIN job' = Thread
      /\ \A s \in Thread \ {t} : job'[s] = job[s]
      /\ QueueOK(job'[t])
      /\ InHand(job'[t]) = InHand(job[t]) \ {c}
  BY <1>1, NextLeaseHolds
<1>3. c \in InHand(job[t]) /\ c \in Child
  BY <1>1, FirstIsHeld
<1>4. DOMAIN work' = Child /\ InTask' = InTask \cup {c}
  BY <1>1, <1>3 DEF LInv, Shaped, InTask, HeldByTask, InBody
<1>5. InHand(job[t]) \cap InTask = {}
  BY DEF LInv, Leased
<1> HIDE DEF c
<1>6. Executing(mark') = Executing(mark)
  BY <1>1 DEF Executing
<1>7. \A d \in Child : status'[d] = "Unborn" => mark'[d] = 0
  BY <1>1 DEF LInv, Leased
<1>8. Passes(t, {}, {})
  BY <1>2, <1>3, <1>4, <1>5, <1>6, <1>7 DEF Passes
<1>9. Shaped'
  BY <1>1, <1>2, <1>4 DEF LInv, Shaped
<1> QED BY <1>8, <1>9, PassingKeeps DEF LInv

LEMMA SectionLeases ==
    ASSUME LInv, NEW t \in Thread, Section(t)
    PROVE  Shaped' /\ Leased'
<1>1. CASE SendRefused(t)
  <2>1. /\ job[t].at \notin LeaseSection /\ job' = [job EXCEPT ![t] = Idle]
        /\ Idle.at \notin LeaseSection
    BY <1>1 DEF SendRefused, Idle, LeaseSection
  <2>2. UNCHANGED <<mark, status, work>> /\ DOMAIN ctl' = Child
    BY <1>1 DEF SendRefused, pool, LInv, Shaped
  <2> QED BY <2>1, <2>2, OtherBusiness, UntouchedKeeps
<1>2. CASE SendCommit(t)
  <2>1. job[t].at \notin LeaseSection
    BY <1>2 DEF SendCommit, LeaseSection
  <2> DEFINE x == [at |-> "MailEnqueue", to |-> job[t].to, item |-> job[t].item,
                   slot |-> job[t].slot, ready |-> ~turn[job[t].to]]
  <2>2. x.at \notin LeaseSection /\ job' = [job EXCEPT ![t] = x]
    BY <1>2 DEF SendCommit, LInv, Shaped, LeaseSection
  <2>3. UNCHANGED <<mark, status, work>> /\ DOMAIN ctl' = Child
    BY <1>2 DEF SendCommit, pool, tree, LInv, Shaped
  <2> HIDE DEF x
  <2> QED BY <2>1, <2>2, <2>3, OtherBusiness, UntouchedKeeps
<1>3. CASE SendEnqueue(t)
  BY <1>3, EnqueueLeases
<1>4. CASE \/ commit_and_interrupt_captured(t) \/ cancelled_execution_paths(t)
           \/ schedule_cancelled_worker_abort(t)
  <2>1. job[t].at \notin LeaseSection
    BY <1>4 DEF commit_and_interrupt_captured, cancelled_execution_paths,
                schedule_cancelled_worker_abort, LeaseSection
  <2>2. PICK x : x.at \notin LeaseSection /\ job' = [job EXCEPT ![t] = x]
    <3>1. CASE commit_and_interrupt_captured(t)
      BY <3>1 DEF commit_and_interrupt_captured, Idle, LeaseSection
    <3>2. CASE cancelled_execution_paths(t)
      BY <3>2 DEF cancelled_execution_paths, LeaseSection
    <3>3. CASE schedule_cancelled_worker_abort(t)
      BY <3>3 DEF schedule_cancelled_worker_abort, Idle, LeaseSection
    <3> QED BY <1>4, <3>1, <3>2, <3>3
  <2>3. UNCHANGED <<mark, status, work>> /\ DOMAIN ctl' = Child
    BY <1>4 DEF commit_and_interrupt_captured, cancelled_execution_paths,
                schedule_cancelled_worker_abort, pool, tree, LInv, Shaped
  <2> QED BY <2>1, <2>2, <2>3, OtherBusiness, UntouchedKeeps
<1>5. CASE launch_agent_turn(t)
  BY <1>5, LaunchLeases
<1>6. CASE launch_refused(t)
  <2>1. job[t].at \in LeaseSection /\ job[t].queue # <<>>
    BY <1>6 DEF launch_refused, LeaseSection
  <2> DEFINE x == [at |-> "Settle", queue |-> job[t].queue, worker |-> job[t].worker,
                   gen |-> job[t].gen, cause |-> ctl[FirstLease(t)]]
  <2>2. /\ x.at \in LeaseSection /\ x.queue = job[t].queue /\ {"at", "queue"} \subseteq DOMAIN x
        /\ job' = [job EXCEPT ![t] = x]
    BY <1>6 DEF launch_refused, LInv, Shaped, LeaseSection
  <2>3. UNCHANGED <<mark, status, work>> /\ DOMAIN ctl' = Child
    BY <1>6 DEF launch_refused, pool, tree, LInv, Shaped
  <2> HIDE DEF x
  <2>4. Untouched(t)
    BY <2>1, <2>2, <2>3, SameQueue
  <2> QED BY <2>4, UntouchedKeeps
<1>7. CASE settle_pre_admission(t) \/ settle_stale(t) \/ settle_fails(t)
  <2>1. job[t].at \in LeaseSection /\ job[t].queue # <<>>
    BY <1>7 DEF settle_pre_admission, settle_stale, settle_fails, LInv, Leased, QueueOK,
                LeaseSection
  <2>2. PICK place \in {"Settled", "Retire", "Release"} : Becomes(t, place)
    BY <1>7 DEF settle_pre_admission, settle_stale, settle_fails
  <2> DEFINE x == [job[t] EXCEPT !.at = place]
  <2>3. {"at", "queue"} \subseteq DOMAIN job[t]
    BY <2>1 DEF LInv, Leased, QueueOK
  <2>4. /\ x.at \in LeaseSection /\ x.queue = job[t].queue /\ {"at", "queue"} \subseteq DOMAIN x
        /\ job' = [job EXCEPT ![t] = x]
    BY <2>2, <2>3 DEF Becomes, LeaseSection
  <2>5. UNCHANGED <<mark, status, work>> /\ DOMAIN ctl' = Child
    BY <1>7, CtlShaped DEF settle_pre_admission, settle_stale, settle_fails, pool, tree, LInv,
       Shaped
  <2> HIDE DEF x
  <2>6. Untouched(t)
    BY <2>1, <2>4, <2>5, SameQueue
  <2> QED BY <2>6, UntouchedKeeps
<1>8. CASE settle_complete(t) \/ settle_retire(t)
  <2>1. job[t].at \in LeaseSection /\ job[t].queue # <<>> /\ UNCHANGED work
    BY <1>8 DEF settle_complete, settle_retire, LInv, Leased, QueueOK, pool, LeaseSection
  <2>2. PICK S : /\ \/ complete_execution(FirstLease(t), S)
                    \/ retire_resolved_wake_execution(FirstLease(t), S)
                 /\ NextLease(t, S)
    BY <1>8 DEF settle_complete, settle_retire
  <2>3. FirstLease(t) \in Child
    BY <2>1, FirstIsHeld
  <2>4. /\ S \in SUBSET Child
        /\ S \cap (Executing(mark) \ {FirstLease(t)}) = {}
        /\ Executing(mark') = (Executing(mark) \ {FirstLease(t)}) \cup S
        /\ \A d \in Child : status'[d] = "Unborn" => mark'[d] = 0
        /\ DOMAIN status' = Child /\ DOMAIN ctl' = Child
    BY <2>2, <2>3, Ending
  <2> QED BY <2>1, <2>2, <2>4, QueueEnds
<1>9. CASE release_unsettled_trigger_execution(t)
  <2>1. /\ job[t].at \in LeaseSection /\ job[t].queue # <<>> /\ UNCHANGED work
        /\ NextLease(t, {})
    BY <1>9 DEF release_unsettled_trigger_execution, LInv, Leased, QueueOK, pool, LeaseSection
  <2>2. Executing(mark') = Executing(mark) \ {FirstLease(t)}
    BY <1>9 DEF release_unsettled_trigger_execution, LInv, CapInv, Executing
  <2>3. /\ \A d \in Child : status'[d] = "Unborn" => mark'[d] = 0
        /\ DOMAIN status' = Child
    BY <1>9 DEF release_unsettled_trigger_execution, LInv, CapInv, Shaped, Leased
  <2>4. DOMAIN ctl' = Child
    BY <1>9, CtlShaped DEF release_unsettled_trigger_execution
  <2>5. {} \in SUBSET Child /\ {} \cap (Executing(mark) \ {FirstLease(t)}) = {}
    OBVIOUS
  <2>6. Executing(mark') = (Executing(mark) \ {FirstLease(t)}) \cup {}
    BY <2>2
  <2> QED BY <2>1, <2>3, <2>4, <2>5, <2>6, QueueEnds
<1>10. CASE detach_finished_worker(t)
  <2>1. /\ job[t].at = "Launch" /\ job[t].queue = <<>> /\ job' = [job EXCEPT ![t] = Idle]
        /\ UNCHANGED <<mark, status, ctl>>
    BY <1>10 DEF detach_finished_worker, tree
  <2>2. /\ work' = [c \in Child |-> IF c = job[t].worker /\ work[c] = "Done"
                                     THEN "None" ELSE work[c]]
    BY <1>10 DEF detach_finished_worker
  <2>3. InTask' = InTask /\ DOMAIN work' = Child
    BY <2>2 DEF InTask, HeldByTask, InBody
  <2>4. /\ DOMAIN job' = Thread /\ job'[t] = Idle /\ Idle.at = "Idle"
        /\ \A s \in Thread \ {t} : job'[s] = job[s]
    BY <2>1 DEF LInv, Shaped, Idle
  <2>5. InHand(job[t]) = {} /\ QueueOK(job'[t]) /\ InHand(job'[t]) = {}
    BY <2>1, <2>4, NoLease DEF InHand, LeaseSection
  <2>6. Untouched(t)
    BY <2>1, <2>3, <2>4, <2>5 DEF Untouched, LInv, Shaped
  <2> QED BY <2>6, UntouchedKeeps
<1> QED
  BY <1>1, <1>2, <1>3, <1>4, <1>5, <1>6, <1>7, <1>8, <1>9, <1>10 DEF Section

LEMMA ToolLeases ==
    ASSUME LInv, NEW t \in Thread, NEW c \in Child, Tool(t, c)
    PROVE  Shaped' /\ Leased'
<1>1. CASE SendBegin(t, c) \/ capture_interrupt_target(t, c)
  <2>1. job[t].at \notin LeaseSection
    BY <1>1 DEF SendBegin, capture_interrupt_target, LeaseSection
  <2>2. PICK x : x.at \notin LeaseSection /\ job' = [job EXCEPT ![t] = x]
    BY <1>1 DEF SendBegin, capture_interrupt_target, LeaseSection
  <2>3. UNCHANGED <<mark, status, work>> /\ DOMAIN ctl' = Child
    BY <1>1 DEF SendBegin, capture_interrupt_target, pool, tree, LInv, Shaped
  <2> QED BY <2>1, <2>2, <2>3, OtherBusiness, UntouchedKeeps
<1>2. CASE spawn_agent(t, c)
  <2>1. /\ job[t].at = "Idle" /\ status[c] = "Unborn"
        /\ status' = [status EXCEPT ![c] = "PendingInit"]
        /\ mark' = [mark EXCEPT ![c] = gen[c] + 1]
        /\ job' = [job EXCEPT ![t] = Launching(<<c>>, 0, 0)]
        /\ UNCHANGED <<ctl, work>>
    BY <1>2 DEF spawn_agent, NextChild, pool
  <2>2. mark[c] = 0 /\ c \notin Executing(mark)
    BY <2>1 DEF LInv, Leased, Executing
  <2>3. Executing(mark') = Executing(mark) \cup {c}
    BY <2>1 DEF LInv, CapInv, Executing
  <2>4. /\ DOMAIN job' = Thread /\ job'[t] = Launching(<<c>>, 0, 0)
        /\ \A s \in Thread \ {t} : job'[s] = job[s]
    BY <2>1 DEF LInv, Shaped
  <2>5. QueueOK(job'[t]) /\ InHand(job'[t]) = {c}
    <3>1. Lists(<<c>>, {c})
      BY OneListed
    <3> QED BY <2>4, <3>1, LaunchingHolds
  <2>6. InHand(job[t]) = {} /\ InTask' = InTask /\ InTask \subseteq Executing(mark)
    BY <2>1, NoLease DEF LeaseSection, InTask, HeldByTask, InBody, LInv, Leased
  <2>7. DOMAIN status' = Child /\ \A d \in Child : status'[d] = "Unborn" => mark'[d] = 0
    BY <2>1 DEF LInv, Leased, Shaped, CapInv
  <2>8. Passes(t, {}, {c})
    BY <2>2, <2>3, <2>4, <2>5, <2>6, <2>7 DEF Passes
  <2>9. Shaped'
    BY <2>1, <2>4, <2>7 DEF LInv, Shaped
  <2> QED BY <2>8, <2>9, PassingKeeps DEF LInv
<1> QED BY <1>1, <1>2 DEF Tool

(* The task of c has its lease and gives it up to the end of its           *)
(* execution; those of S come to the queue of the local thread.            *)
LEMMA TaskEnds ==
    ASSUME LInv, NEW c \in Child, LocalIdle, HeldByTask(c), NEW S,
           complete_execution(c, S) \/ retire_resolved_wake_execution(c, S),
           NEW w, NEW g, job' = [job EXCEPT !["Local"] = Launching(InOrder(S), w, g)],
           NEW place \in {"Done", "None"}, Moves(c, place)
    PROVE  Shaped' /\ Leased'
<1>1. "Local" \in Thread
  BY DEF Thread
<1>2. /\ S \in SUBSET Child
      /\ S \cap (Executing(mark) \ {c}) = {}
      /\ Executing(mark') = (Executing(mark) \ {c}) \cup S
      /\ \A d \in Child : status'[d] = "Unborn" => mark'[d] = 0
      /\ DOMAIN status' = Child /\ DOMAIN ctl' = Child
  BY Ending
<1>3. DOMAIN work' = Child /\ InTask' = InTask \ {c}
  BY LosesItsLease
<1>4. /\ DOMAIN job' = Thread /\ job'["Local"] = Launching(InOrder(S), w, g)
      /\ \A s \in Thread \ {"Local"} : job'[s] = job[s]
  BY <1>1 DEF LInv, Shaped
<1>5. QueueOK(job'["Local"]) /\ InHand(job'["Local"]) = S
  BY <1>2, <1>4, InOrderLists, LaunchingHolds
<1>6. InHand(job["Local"]) = {} /\ c \in InTask /\ InTask \subseteq Executing(mark)
  BY NoLease DEF LocalIdle, LeaseSection, InTask, LInv, Leased
<1>7. Passes("Local", {c}, S)
  BY <1>2, <1>3, <1>4, <1>5, <1>6 DEF Passes
<1>8. Shaped'
  BY <1>2, <1>3, <1>4 DEF Shaped
<1> QED BY <1>1, <1>7, <1>8, PassingKeeps DEF LInv

(* The worker of c gives its lease up unused.                              *)
LEMMA GivingUpLeases ==
    ASSUME LInv, NEW c \in Child, LocalIdle, HeldByTask(c), GivesUp(c)
    PROVE  Shaped' /\ Leased'
<1> DEFINE x == [at |-> "Settle", queue |-> <<c>>, worker |-> c, gen |-> mark[c], cause |-> ctl[c]]
<1>1. "Local" \in Thread
  BY DEF Thread
<1>2. /\ Moves(c, "Done") /\ UNCHANGED <<mark, status, ctl>>
      /\ job' = [job EXCEPT !["Local"] = x]
  BY DEF GivesUp, tree
<1>3. DOMAIN work' = Child /\ InTask' = InTask \ {c}
  BY <1>2, LosesItsLease
<1>4. /\ DOMAIN job' = Thread /\ job'["Local"] = x
      /\ \A s \in Thread \ {"Local"} : job'[s] = job[s]
  BY <1>1, <1>2 DEF LInv, Shaped
<1>5. Lists(<<c>>, {c}) /\ {<<c>>[k] : k \in 1 .. Len(<<c>>)} = {c} /\ <<c>> # <<>>
  BY OneListed DEF Lists
<1>6. x.at = "Settle" /\ x.queue = <<c>> /\ {"at", "queue"} \subseteq DOMAIN x
  OBVIOUS
<1> HIDE DEF x
<1>7. QueueOK(job'["Local"]) /\ InHand(job'["Local"]) = {c}
  BY <1>4, <1>5, <1>6 DEF QueueOK, InHand, LeaseSection
<1>8. InHand(job["Local"]) = {} /\ c \in InTask
  BY NoLease DEF LocalIdle, LeaseSection, InTask
<1>9. Executing(mark') = Executing(mark) /\ \A d \in Child : status'[d] = "Unborn" => mark'[d] = 0
  BY <1>2 DEF Executing, LInv, Leased
<1>10. Passes("Local", {}, {})
  BY <1>3, <1>4, <1>7, <1>8, <1>9 DEF Passes
<1>11. Shaped'
  BY <1>2, <1>3, <1>4 DEF LInv, Shaped
<1> QED BY <1>1, <1>10, <1>11, PassingKeeps DEF LInv

LEMMA WorkerLeases ==
    ASSUME LInv, NEW c \in Child, Worker(c)
    PROVE  Shaped' /\ Leased'
<1>1. LocalIdle /\ HeldByTask(c)
  BY DEF Worker, activate_child_execution, preflight, admit, admit_unavailable,
         mark_execution_admitted, commit_pending_mailbox_delivery, turn_completes, turn_fails,
         turn_stops, finish_turn, At, HeldByTask, InBody
<1>2. "Local" \in Thread
  BY DEF Thread
<1>3. ASSUME NEW place \in {"Preflight", "Admitting", "Admitted", "Running", "Sampling",
                             "Finishing"},
             Moves(c, place), UNCHANGED <<job, mark, status>>, DOMAIN ctl' = Child
      PROVE  Shaped' /\ Leased'
  <2>1. DOMAIN work' = Child /\ InTask' = InTask
    BY <1>1, <1>3, KeepsItsLease
  <2> QED BY <1>2, <1>3, <2>1, SameHands, UntouchedKeeps
<1>4. ASSUME NEW place \in {"Preflight", "Admitting"}, Moves(c, place), Quietly
      PROVE  Shaped' /\ Leased'
  BY <1>3, <1>4 DEF Quietly, tree, LInv, Shaped
<1>5. ASSUME GivesUp(c)
      PROVE  Shaped' /\ Leased'
  BY <1>1, <1>5, GivingUpLeases
<1>6. CASE activate_child_execution(c) \/ preflight(c) \/ admit_unavailable(c)
  BY <1>4, <1>5, <1>6 DEF activate_child_execution, preflight, admit_unavailable
<1>7. CASE admit(c) \/ commit_pending_mailbox_delivery(c)
  BY <1>3, <1>7 DEF admit, commit_pending_mailbox_delivery, tree, LInv, Shaped
<1>8. CASE turn_completes(c) \/ turn_fails(c) \/ turn_stops(c)
  <2>1. Moves(c, "Finishing") /\ UNCHANGED <<job, mark, status>>
    BY <1>8 DEF turn_completes, turn_fails, turn_stops, Terminal
  <2>2. DOMAIN ctl' = Child
    BY <1>8 DEF turn_completes, turn_fails, turn_stops, LInv, Shaped
  <2> QED BY <1>3, <2>1, <2>2
<1>9. CASE mark_execution_admitted(c)
  <2> DEFINE S == Chosen(mark, box, reserved)
             st == [status EXCEPT ![c] = "Running"]
  <2>1. /\ ReserveFrom(S, st, mark, ctl, box, reserved)
        /\ job' = [job EXCEPT !["Local"] = Launching(InOrder(S), 0, 0)]
        /\ Moves(c, "Running")
    BY <1>9 DEF mark_execution_admitted
  <2>2. S \in SUBSET Child /\ \A d \in S : mark[d] = 0
    BY ChosenAreFree
  <2>3. \A d \in Child : st[d] = "Unborn" => mark[d] = 0
    BY DEF LInv, Leased, Shaped
  <2> HIDE DEF S, st
  <2>4. /\ Executing(mark') = Executing(mark) \cup S
        /\ S \cap Executing(mark) = {}
        /\ \A d \in Child : status'[d] = "Unborn" => mark'[d] = 0
        /\ DOMAIN status' = Child /\ DOMAIN ctl' = Child
    BY <2>1, <2>2, <2>3, Reserving DEF LInv, CapInv
  <2>5. DOMAIN work' = Child /\ InTask' = InTask
    BY <1>1, <2>1, KeepsItsLease
  <2>6. /\ DOMAIN job' = Thread /\ job'["Local"] = Launching(InOrder(S), 0, 0)
        /\ \A s \in Thread \ {"Local"} : job'[s] = job[s]
    BY <1>2, <2>1 DEF LInv, Shaped
  <2>7. QueueOK(job'["Local"]) /\ InHand(job'["Local"]) = S
    BY <2>2, <2>6, InOrderLists, LaunchingHolds
  <2>8. InHand(job["Local"]) = {} /\ InTask \subseteq Executing(mark)
    BY <1>1, NoLease DEF LocalIdle, LeaseSection, LInv, Leased
  <2>9. Passes("Local", {}, S)
    BY <2>4, <2>5, <2>6, <2>7, <2>8 DEF Passes
  <2>10. Shaped'
    BY <2>4, <2>5, <2>6 DEF Shaped
  <2> QED BY <1>2, <2>9, <2>10, PassingKeeps DEF LInv
<1>10. CASE finish_turn(c)
  <2>1. PICK S : /\ complete_execution(c, S)
                 /\ job' = [job EXCEPT !["Local"] = Launching(InOrder(S), c, mark[c])]
    BY <1>10 DEF finish_turn
  <2>2. Moves(c, "Done")
    BY <1>10 DEF finish_turn
  <2> QED BY <1>1, <2>1, <2>2, TaskEnds
<1> QED BY <1>6, <1>7, <1>8, <1>9, <1>10 DEF Worker

LEMMA DroppingKeeps ==
    ASSUME LInv, NEW p, Dropped(p)
    PROVE  DOMAIN work' = Child /\ InTask' = InTask
BY DEF LInv, Shaped, Dropped, InTask, HeldByTask, InBody

LEMMA MonitorLeases ==
    ASSUME LInv, Monitor
    PROVE  Shaped' /\ Leased'
<1>1. "Local" \in Thread
  BY DEF Thread
<1>2. CASE \/ \E batch \in monitors : take_captured_workers(batch)
           \/ \E p \in taken : abort_worker(p)
  <2>1. UNCHANGED <<job, mark, status>> /\ DOMAIN ctl' = Child
    BY <1>2 DEF take_captured_workers, abort_worker, tree, LInv, Shaped
  <2>2. UNCHANGED work \/ \E p : Dropped(p)
    BY <1>2 DEF take_captured_workers, abort_worker
  <2>3. DOMAIN work' = Child /\ InTask' = InTask
    <3>1. CASE UNCHANGED work
      BY <3>1 DEF LInv, Shaped, InTask, HeldByTask, InBody
    <3> QED BY <2>2, <3>1, DroppingKeeps
  <2> QED BY <1>1, <2>1, <2>3, SameHands, UntouchedKeeps
<1>3. ASSUME NEW c \in Child, settle_hard_aborted_worker(c)
      PROVE  Shaped' /\ Leased'
  <2>1. UNCHANGED <<job, mark, status>> /\ DOMAIN ctl' = Child
    BY <1>3 DEF settle_hard_aborted_worker, tree, LInv, Shaped
  <2>2. HeldByTask(c)
    BY <1>3 DEF settle_hard_aborted_worker, At, HeldByTask
  <2>3. PICK place \in {"Interrupted", "Resolved"} : Moves(c, place)
    BY <1>3 DEF settle_hard_aborted_worker
  <2>4. DOMAIN work' = Child /\ InTask' = InTask
    BY <2>2, <2>3, KeepsItsLease
  <2> QED BY <1>1, <2>1, <2>4, SameHands, UntouchedKeeps
<1>4. ASSUME NEW c \in Child, monitor_finish(c)
      PROVE  Shaped' /\ Leased'
  <2>1. LocalIdle /\ HeldByTask(c) /\ Moves(c, "None")
    BY <1>4 DEF monitor_finish, At, HeldByTask
  <2>2. PICK S : /\ complete_execution(c, S) \/ retire_resolved_wake_execution(c, S)
                 /\ job' = [job EXCEPT !["Local"] = Launching(InOrder(S), 0, 0)]
    BY <1>4 DEF monitor_finish
  <2> QED BY <2>1, <2>2, TaskEnds
<1> QED BY <1>2, <1>3, <1>4 DEF Monitor

LEMMA LInit ==
    ASSUME Init
    PROVE  LInv
<1>1. Shaped
  BY DEF Init, Shaped
<1>2. \A t \in Thread : QueueOK(job[t]) /\ InHand(job[t]) = {}
  BY NoLease DEF Init, Idle, LeaseSection
<1>3. InTask = {} /\ Executing(mark) = {}
  BY DEF Init, InTask, HeldByTask, InBody, Executing
<1>4. \A c \in Child : status[c] = "Unborn" => mark[c] = 0
  BY DEF Init
<1> QED BY <1>1, <1>2, <1>3, <1>4, CapInit DEF LInv, Leased, Thread

LEMMA LNext ==
    ASSUME LInv, [Next]_vars
    PROVE  LInv'
<1>1. CapInv'
  BY CapNext DEF LInv
<1>2. CASE UNCHANGED vars
  BY <1>1, <1>2 DEF LInv, Shaped, Leased, vars, tree, pool, InTask, HeldByTask, InBody,
     Executing
<1>3. CASE Next
  BY <1>1, <1>3, SectionLeases, ToolLeases, WorkerLeases, MonitorLeases DEF Next, LInv
<1> QED BY <1>2, <1>3

(* Every execution has exactly one lease: in one launch queue, once, or    *)
(* with one worker or monitor (launch_scheduled_turns, the worker bodies   *)
(* and settle_hard_aborted_worker hand it on).  A slot is never lost and a *)
(* child never runs twice.                                                 *)
THEOREM LeasesAreUnique == Spec => []OneLease
<1>1. LInv => OneLease
  <2> SUFFICES ASSUME LInv, NEW c \in Child
               PROVE  LET queued == {t \in Thread : Queued(t, c)}
                      IN  IF mark[c] = 0 THEN queued = {} /\ ~HeldByTask(c)
                          ELSE IF HeldByTask(c) THEN queued = {}
                          ELSE Cardinality(queued) = 1
    BY DEF OneLease
  <2> DEFINE queued == {t \in Thread : Queued(t, c)}
  <2>1. \A t \in Thread : Queued(t, c) <=> c \in InHand(job[t])
    BY DEF Queued, InHand, LeaseSection
  <2>2. mark[c] # 0 <=> HeldByTask(c) \/ \E t \in Thread : c \in InHand(job[t])
    BY DEF LInv, Leased, Executing, InTask, Thread
  <2>3. HeldByTask(c) => \A t \in Thread : c \notin InHand(job[t])
    BY DEF LInv, Leased, InTask
  <2>4. \A s, t \in Thread : c \in InHand(job[s]) /\ c \in InHand(job[t]) => s = t
    BY DEF LInv, Leased, Thread
  <2>5. ASSUME NEW t \in Thread, c \in InHand(job[t])
        PROVE  Cardinality(queued) = 1
    <3>1. queued = {t}
      BY <2>1, <2>4, <2>5
    <3> QED BY <3>1, FS_Singleton
  <2> QED BY <2>1, <2>2, <2>3, <2>5
<1>2. Init => LInv
  BY LInit
<1>3. LInv /\ [Next]_vars => LInv'
  BY LNext
<1> QED BY <1>1, <1>2, <1>3, PTL DEF Spec

-----------------------------------------------------------------------------
(* Mailboxes.                                                              *)

Notices(b, c) == {b[c][k] : k \in 1 .. Len(b[c])}

Mailboxes == [Child -> Seq(Notice)]

LEMMA NoticesTyped ==
    ASSUME NEW b \in Mailboxes, NEW c \in Child
    PROVE  /\ b[c] \in Seq(Notice) /\ Len(b[c]) \in Nat
           /\ \A n \in Notices(b, c) : n \in Notice
           /\ \A k \in 1 .. Len(b[c]) : b[c][k] \in Notices(b, c)
           /\ ReadyNotices(b, c) = {k \in 1 .. Len(b[c]) : b[c][k].ready}
BY DEF Mailboxes, Notices, ReadyNotices

(* Without removes the notices of the given items and nothing else.        *)
LEMMA WithoutNotices ==
    ASSUME NEW b \in Mailboxes, NEW c \in Child, NEW items
    PROVE  /\ Without(b, c, items) \in Mailboxes
           /\ Notices(Without(b, c, items), c) = {n \in Notices(b, c) : n.item \notin items}
           /\ \A d \in Child \ {c} : Without(b, c, items)[d] = b[d]
<1> DEFINE K == {k \in 1 .. Len(b[c]) : b[c][k].item \notin items}
           q == InOrder(K)
           new == [k \in 1 .. Len(q) |-> b[c][q[k]]]
<1>1. b[c] \in Seq(Notice) /\ Len(b[c]) \in Nat
  BY NoticesTyped
<1>2. K \in SUBSET Nat /\ IsFiniteSet(K)
  <2>1. IsFiniteSet(1 .. Len(b[c])) /\ K \in SUBSET (1 .. Len(b[c]))
    BY <1>1, FS_Interval
  <2> HIDE DEF K
  <2>2. K \in SUBSET Nat
    BY <1>1, <2>1
  <2> QED BY <2>1, <2>2, FS_Subset
<1>3. /\ q \in Seq(K)
      /\ K = {q[k] : k \in 1 .. Len(q)}
  <2> HIDE DEF K
  <2> QED BY <1>2, Ordered
<1>4. Len(q) \in Nat /\ \A k \in 1 .. Len(q) : q[k] \in K
  <2> HIDE DEF K, q
  <2> QED BY <1>3
<1>5. \A k \in K : k \in 1 .. Len(b[c]) /\ b[c][k] \in Notice /\ b[c][k].item \notin items
  BY <1>1
<1> HIDE DEF q
<1>6. new \in Seq(Notice) /\ Len(new) = Len(q) /\ \A k \in 1 .. Len(q) : new[k] = b[c][q[k]]
  <2> HIDE DEF K
  <2> QED BY <1>4, <1>5
<1>7. Without(b, c, items) = [b EXCEPT ![c] = new]
  BY DEF Without, q
<1> HIDE DEF new
<1>8. {new[k] : k \in 1 .. Len(new)} = {n \in Notices(b, c) : n.item \notin items}
  <2>1. ASSUME NEW k \in 1 .. Len(new)
        PROVE  new[k] \in Notices(b, c) /\ new[k].item \notin items
    <3> HIDE DEF K
    <3> QED BY <1>4, <1>5, <1>6 DEF Notices
  <2>2. ASSUME NEW n \in Notices(b, c), n.item \notin items
        PROVE  n \in {new[k] : k \in 1 .. Len(new)}
    <3>1. PICK k \in 1 .. Len(b[c]) : n = b[c][k]
      BY DEF Notices
    <3>2. k \in K
      BY <2>2, <3>1
    <3> HIDE DEF K
    <3>3. PICK j \in 1 .. Len(q) : k = q[j]
      BY <1>3, <3>2
    <3> QED BY <1>6, <3>1, <3>3
  <2> QED BY <2>1, <2>2
<1> DEFINE after == Without(b, c, items)
<1>9. /\ after \in Mailboxes /\ after[c] = new
      /\ \A d \in Child \ {c} : after[d] = b[d]
  BY <1>6, <1>7 DEF Mailboxes
<1> HIDE DEF after
<1>10. Notices(after, c) = {new[k] : k \in 1 .. Len(new)}
  BY <1>9 DEF Notices
<1> QED BY <1>8, <1>9, <1>10 DEF after

LEMMA PromotedNotices ==
    ASSUME NEW b \in Mailboxes, NEW c \in Child
    PROVE  /\ Promoted(b, c) \in Mailboxes
           /\ Len(Promoted(b, c)[c]) = Len(b[c])
           /\ \A k \in 1 .. Len(b[c]) : /\ Promoted(b, c)[c][k].item = b[c][k].item
                                       /\ Promoted(b, c)[c][k].ready
           /\ \A d \in Child \ {c} : Promoted(b, c)[d] = b[d]
<1> DEFINE new == [k \in DOMAIN b[c] |-> [b[c][k] EXCEPT !.ready = TRUE]]
<1>1. b[c] \in Seq(Notice) /\ Len(b[c]) \in Nat /\ DOMAIN b[c] = 1 .. Len(b[c])
  BY NoticesTyped
<1>2. \A n \in Notice : /\ [n EXCEPT !.ready = TRUE] \in Notice
                        /\ [n EXCEPT !.ready = TRUE].item = n.item
                        /\ [n EXCEPT !.ready = TRUE].ready = TRUE
  BY DEF Notice
<1>3. /\ new \in Seq(Notice) /\ Len(new) = Len(b[c])
      /\ \A k \in 1 .. Len(b[c]) : new[k].item = b[c][k].item /\ new[k].ready
  BY <1>1, <1>2
<1>4. Promoted(b, c) = [b EXCEPT ![c] = new]
  BY DEF Promoted
<1> HIDE DEF new
<1> QED BY <1>3, <1>4 DEF Mailboxes

LEMMA AppendedNotices ==
    ASSUME NEW b \in Mailboxes, NEW c \in Child, NEW n \in Notice, NEW mail,
           mail = [d \in Child |-> mail[d]], mail[c] = Append(b[c], n),
           \A d \in Child \ {c} : mail[d] = b[d]
    PROVE  /\ mail \in Mailboxes
           /\ Notices(mail, c) = Notices(b, c) \cup {n}
<1>1. b[c] \in Seq(Notice) /\ Len(b[c]) \in Nat
  BY NoticesTyped
<1>2. /\ mail[c] \in Seq(Notice) /\ Len(mail[c]) = Len(b[c]) + 1
      /\ \A k \in 1 .. Len(b[c]) : mail[c][k] = b[c][k]
      /\ mail[c][Len(b[c]) + 1] = n
  BY <1>1
<1>3. mail \in Mailboxes
  <2>1. \A d \in Child : mail[d] \in Seq(Notice)
    BY <1>2 DEF Mailboxes
  <2> QED BY <2>1 DEF Mailboxes
<1>4. 1 .. Len(b[c]) + 1 = (1 .. Len(b[c])) \cup {Len(b[c]) + 1}
  BY <1>1
<1>5. Notices(mail, c) = Notices(b, c) \cup {n}
  BY <1>2, <1>4 DEF Notices
<1> QED BY <1>5, <1>3

(* The newest ready notice is a notice.                                    *)
LEMMA NewestIsNotice ==
    ASSUME NEW b \in Mailboxes, NEW c \in Child, ReadyNotices(b, c) # {}
    PROVE  \E n \in Notices(b, c) : NewestReady(b, c) = n.item
<1> DEFINE R == ReadyNotices(b, c)
           newest == CHOOSE k \in R : \A j \in R : j <= k
<1>1. /\ Len(b[c]) \in Nat /\ R \in SUBSET (1 .. Len(b[c]))
  BY NoticesTyped
<1> HIDE DEF R
<1>2. R \in SUBSET Nat /\ IsFiniteSet(R)
  <2>1. IsFiniteSet(1 .. Len(b[c])) /\ 1 .. Len(b[c]) \subseteq Nat
    BY <1>1, FS_Interval
  <2> QED BY <1>1, <2>1, FS_Subset
<1>3. \E k \in R : \A j \in R : j <= k
  BY <1>2, Extremes DEF R
<1>4. newest \in R
  BY <1>3
<1>5. NewestReady(b, c) = b[c][newest].item
  BY DEF NewestReady, R
<1> HIDE DEF newest
<1> QED BY <1>1, <1>4, <1>5 DEF Notices

(* The message identity that a call takes has no row yet.                  *)
LEMMA NextIsFresh ==
    ASSUME Fresh # {}
    PROVE  /\ NextItem \in Item /\ row[NextItem].st = "Unsent"
           /\ \A t \in Thread : job[t].at = "MailCommit" => job[t].item # NextItem
<1>1. IsFiniteSet(Item) /\ Item \subseteq Nat
  BY BoundAssumption, FS_Interval DEF Item
<1>2. Fresh \in SUBSET Item
  BY DEF Fresh
<1>3. \E i \in Fresh : \A j \in Fresh : i <= j
  <2>1. Fresh \in SUBSET Nat /\ IsFiniteSet(Fresh)
    BY <1>1, <1>2, FS_Subset
  <2> QED BY <2>1, Extremes
<1>4. NextItem \in Fresh
  BY <1>3 DEF NextItem
<1> QED BY <1>4 DEF Fresh

-----------------------------------------------------------------------------
(* Steps that store no message.                                            *)

MInv == LInv /\ Mail

Owning == {"Admitted", "Running", "Sampling", "Aborted"}

Announced(i, b, c) == \E n \in Notices(b, c) : n.item = i

(* A stored message is claimed or settled for good.                        *)
RowsSettle ==
    /\ row' \in [Item -> Row]
    /\ \A i \in Item :
          /\ row[i].st = "Unsent" => row'[i] = row[i]
          /\ row[i].st # "Unsent" => row'[i].st # "Unsent"
          /\ row'[i].to = row[i].to /\ row'[i].first = row[i].first
          /\ row[i].claimed => row'[i].claimed
          /\ row'[i].st = "Pending" => row[i].st = "Pending"

(* The trigger of a retired execution, after the step.                     *)
RetiredNext ==
    /\ \A c \in Child : work'[c] = "Resolved" => ~Unclaimed(wake[c])'
    /\ \A t \in Thread : job'[t].at = "Retire" => ~Unclaimed(wake[FirstLease(t)])'

LEMMA NoticeMeans ==
    ASSUME NEW i
    PROVE  NoticeOf(i) <=> Announced(i, box, row[i].to)
BY DEF NoticeOf, Announced, Notices

LEMMA NoticeMeansNext ==
    ASSUME NEW i
    PROVE  NoticeOf(i)' <=> Announced(i, box', row'[i].to)
BY DEF NoticeOf, Announced, Notices

(* What a step that stores no message has to respect.                      *)
Respects ==
    /\ box' \in Mailboxes /\ turn' \in [Child -> BOOLEAN] /\ wake' \in [Child -> Nat]
    /\ \A c \in Child : \A n \in Notices(box', c) : Sent(n.item)
    /\ \A c \in Child : mark'[c] # 0 => Sent(wake'[c])
    /\ \A c \in Child : turn'[c] => row'[wake'[c]].claimed /\ work'[c] \in Owning
    /\ RetiredNext
    /\ \A t \in Thread : job'[t] = job[t] \/ ~Mailing(job'[t])
    /\ \A i \in Item : Unclaimed(i)' /\ Announced(i, box, row[i].to)
                          => Announced(i, box', row[i].to)
    /\ \A t \in Thread : job[t].at = "MailEnqueue" =>
          job'[t] = job[t] \/ Announced(job[t].item, box', job[t].to)

LEMMA RespectKeepsMail ==
    ASSUME MInv, LInv', RowsSettle, Respects
    PROVE  Mail'
<1>1. \A i : Sent(i) => Sent(i)'
  BY DEF RowsSettle, Sent
<1>2. Stored'
  <2>1. row' \in [Item -> Row] /\ turn' \in [Child -> BOOLEAN]
    BY DEF RowsSettle, Respects
  <2>2. box' \in [Child -> Seq(Notice)] /\ wake' \in [Child -> Nat]
    BY DEF Respects, Mailboxes
  <2>3. ASSUME NEW i \in Item, row'[i].claimed PROVE Sent(i)'
    <3>1. CASE row[i].st = "Unsent"
      BY <2>3, <3>1 DEF RowsSettle, MInv, Mail, Stored, Sent
    <3>2. CASE row[i].st # "Unsent"
      BY <3>2 DEF RowsSettle, Sent
    <3> QED BY <3>1, <3>2
  <2>4. ASSUME NEW c \in Child, NEW k \in 1 .. Len(box'[c]) PROVE Sent(box[c][k].item)'
    <3>1. box'[c][k] \in Notices(box', c)
      BY DEF Notices
    <3> QED BY <1>1, <3>1 DEF Respects
  <2>5. ASSUME NEW c \in Child, mark'[c] # 0 PROVE Sent(wake[c])'
    BY <1>1, <2>5 DEF Respects
  <2>6. ASSUME NEW i \in Item, Sent(i)' PROVE row'[i].to \in Child
    BY <2>6 DEF RowsSettle, MInv, Mail, Stored, Sent
  <2> QED BY <2>1, <2>2, <2>3, <2>4, <2>5, <2>6 DEF Stored
<1>3. ASSUME NEW t \in Thread PROVE InFlight(job[t])'
  <2>1. CASE job'[t] = job[t]
    <3>1. InFlight(job[t])
      BY DEF MInv, Mail
    <3>2. job[t].at = "MailCommit" => row'[job[t].item].st = "Unsent"
      BY <3>1 DEF InFlight, RowsSettle
    <3>3. job[t].at = "MailEnqueue" => /\ job[t].item \in Item
                                       /\ row'[job[t].item].st # "Unsent"
                                       /\ row'[job[t].item].to = job[t].to
      BY <3>1 DEF InFlight, RowsSettle, Sent
    <3> QED BY <2>1, <3>1, <3>2, <3>3 DEF InFlight, Sent
  <2>2. CASE ~Mailing(job'[t])
    BY <2>2 DEF Mailing, InFlight
  <2> QED BY <2>1, <2>2 DEF Respects
<1>4. TurnOwned'
  <2> SUFFICES ASSUME NEW c \in Child, turn'[c]
               PROVE  /\ mark'[c] # 0
                      /\ row'[wake'[c]].claimed
                      /\ work'[c] \in {"Admitted", "Running", "Sampling", "Aborted"}
    BY DEF TurnOwned
  <2>1. row'[wake'[c]].claimed /\ work'[c] \in Owning
    BY DEF Respects
  <2>2. c \in InTask'
    BY <2>1 DEF Owning, InTask, HeldByTask, InBody
  <2>3. mark'[c] # 0
    BY <2>2 DEF LInv, Leased, Executing
  <2> QED BY <2>1, <2>3 DEF Owning
<1>5. Retired'
  BY DEF Respects, RetiredNext, Retired
<1>6. FollowUpKept'
  <2> SUFFICES ASSUME NEW i \in Item, Unclaimed(i)', ~row'[i].first
               PROVE  \/ NoticeOf(i)'
                      \/ \E t \in Thread : job'[t].at = "MailEnqueue" /\ job'[t].item = i
    BY DEF FollowUpKept
  <2>1. Unclaimed(i) /\ ~row[i].first /\ row[i].st # "Unsent" /\ row'[i].to = row[i].to
    BY DEF RowsSettle, Unclaimed
  <2>2. CASE NoticeOf(i)
    BY <2>1, <2>2, NoticeMeans, NoticeMeansNext DEF Respects
  <2>3. ASSUME NEW t \in Thread, job[t].at = "MailEnqueue", job[t].item = i
        PROVE  \/ NoticeOf(i)'
               \/ job'[t].at = "MailEnqueue" /\ job'[t].item = i
    <3>1. row[i].to = job[t].to
      BY <2>3 DEF MInv, Mail, InFlight
    <3> QED BY <2>1, <2>3, <3>1, NoticeMeansNext DEF Respects
  <2> QED BY <2>1, <2>2, <2>3 DEF MInv, Mail, FollowUpKept
<1> QED BY <1>2, <1>3, <1>4, <1>5, <1>6 DEF Mail

(* What mailboxes hold is stored.                                          *)
LEMMA HeldIsSent ==
    ASSUME MInv, NEW c \in Child
    PROVE  /\ box \in Mailboxes
           /\ \A n \in Notices(box, c) : Sent(n.item)
BY DEF MInv, Mail, Stored, Mailboxes, Notices

(* What promotion and removal leave of it.                                 *)
LEMMA PromotionAnnounces ==
    ASSUME MInv, NEW c \in Child
    PROVE  /\ Promoted(box, c) \in Mailboxes
           /\ \A d \in Child : \A n \in Notices(Promoted(box, c), d) : Sent(n.item)
           /\ \A i, d : d \in Child /\ Announced(i, box, d) => Announced(i, Promoted(box, c), d)
<1> DEFINE b == Promoted(box, c)
<1>1. box \in Mailboxes /\ \A d \in Child : \A n \in Notices(box, d) : Sent(n.item)
  BY HeldIsSent
<1>2. /\ b \in Mailboxes /\ Len(b[c]) = Len(box[c])
      /\ \A k \in 1 .. Len(box[c]) : b[c][k].item = box[c][k].item
      /\ \A d \in Child \ {c} : b[d] = box[d]
  BY <1>1, PromotedNotices
<1> HIDE DEF b
<1>3. \A n \in Notices(b, c) : Sent(n.item)
  BY <1>1, <1>2 DEF Notices
<1>4. \A i : Announced(i, box, c) => Announced(i, b, c)
  BY <1>2 DEF Announced, Notices
<1>5. \A d \in Child \ {c} : Notices(b, d) = Notices(box, d)
  BY <1>2 DEF Notices
<1> QED BY <1>1, <1>2, <1>3, <1>4, <1>5 DEF b, Announced

LEMMA RemovalAnnounces ==
    ASSUME MInv, NEW c \in Child, NEW items
    PROVE  /\ Without(box, c, items) \in Mailboxes
           /\ \A d \in Child : \A n \in Notices(Without(box, c, items), d) : Sent(n.item)
           /\ \A i, d : d \in Child /\ Announced(i, box, d) /\ (d # c \/ i \notin items)
                            => Announced(i, Without(box, c, items), d)
<1> DEFINE b == Without(box, c, items)
<1>1. box \in Mailboxes /\ \A d \in Child : \A n \in Notices(box, d) : Sent(n.item)
  BY HeldIsSent
<1>2. /\ b \in Mailboxes
      /\ Notices(b, c) = {n \in Notices(box, c) : n.item \notin items}
      /\ \A d \in Child \ {c} : b[d] = box[d]
  BY <1>1, WithoutNotices
<1> HIDE DEF b
<1>3. \A d \in Child \ {c} : Notices(b, d) = Notices(box, d)
  BY <1>2 DEF Notices
<1> QED BY <1>1, <1>2, <1>3 DEF b, Announced

(* A trigger that is not to be run stays so.                               *)
LEMMA StaysResolved ==
    ASSUME RowsSettle, NEW i, Sent(i), ~Unclaimed(i)
    PROVE  ~(row'[i].st = "Pending" /\ ~row'[i].claimed)
BY DEF RowsSettle, Sent, Unclaimed

(* The rows stay as they are.                                              *)
LEMMA SameRows ==
    ASSUME MInv, UNCHANGED row
    PROVE  RowsSettle
BY DEF MInv, Mail, Stored, RowsSettle

-----------------------------------------------------------------------------
(* Steps that give nobody a new trigger.                                   *)

(* What such a step may do with sections and workers.                      *)
QuietStep ==
    /\ \A c \in Child : mark'[c] # 0 => mark[c] # 0
    /\ turn' \in [Child -> BOOLEAN]
    /\ \A c \in Child : turn'[c] => row'[wake[c]].claimed /\ work'[c] \in Owning
    /\ \A c \in Child : work'[c] = "Resolved" =>
          work[c] = "Resolved" \/ ~(row'[wake[c]].st = "Pending" /\ ~row'[wake[c]].claimed)
    /\ \A t \in Thread :
          \/ job'[t] = job[t]
          \/ /\ ~Mailing(job'[t]) /\ job[t].at # "MailEnqueue"
             /\ job'[t].at = "Retire" => ~Unclaimed(wake[Head(job'[t].queue)])
                                         /\ Sent(wake[Head(job'[t].queue)])

(* Mailboxes lose at most notices of messages that are not to be run.      *)
Removes ==
    \/ UNCHANGED box
    \/ \E c \in Child : \E items :
          /\ box' = Without(box, c, items)
          /\ \A i \in Item : i \in items /\ row[i].to = c => ~Unclaimed(i)'

LEMMA RemovesRight ==
    ASSUME MInv, Removes
    PROVE  /\ box' \in Mailboxes
           /\ \A c \in Child : \A n \in Notices(box', c) : Sent(n.item)
           /\ \A i \in Item : Unclaimed(i)' /\ row[i].to \in Child /\ Announced(i, box, row[i].to)
                                 => Announced(i, box', row[i].to)
<1>1. CASE UNCHANGED box
  <2>1. box \in Mailboxes
    BY DEF MInv, Mail, Stored, Mailboxes
  <2>2. \A c \in Child : \A n \in Notices(box, c) : Sent(n.item)
    BY HeldIsSent
  <2> QED BY <1>1, <2>1, <2>2
<1>2. ASSUME NEW c \in Child, NEW items, box' = Without(box, c, items),
             \A i \in Item : i \in items /\ row[i].to = c => ~Unclaimed(i)'
      PROVE  /\ box' \in Mailboxes
             /\ \A d \in Child : \A n \in Notices(box', d) : Sent(n.item)
             /\ \A i \in Item : Unclaimed(i)' /\ row[i].to \in Child
                                     /\ Announced(i, box, row[i].to)
                                   => Announced(i, box', row[i].to)
  <2>1. /\ box' \in Mailboxes
        /\ \A d \in Child : \A n \in Notices(box', d) : Sent(n.item)
        /\ \A i, d : d \in Child /\ Announced(i, box, d) /\ (d # c \/ i \notin items)
                        => Announced(i, box', d)
    BY <1>2, RemovalAnnounces
  <2> QED BY <1>2, <2>1
<1> QED BY <1>1, <1>2 DEF Removes

LEMMA QuietKeepsMail ==
    ASSUME MInv, LInv', RowsSettle, UNCHANGED wake, Removes, QuietStep
    PROVE  Mail'
<1>1. \A i \in Item : Unclaimed(i)' => row[i].to \in Child
  BY DEF RowsSettle, MInv, Mail, Stored, Sent, Unclaimed
<1>2. \A c \in Child : \A n \in Notices(box', c) : Sent(n.item)
  BY RemovesRight
<1>3. \A c \in Child : mark'[c] # 0 => Sent(wake'[c])
  BY DEF QuietStep, MInv, Mail, Stored
<1>4. ASSUME NEW c \in Child, work'[c] = "Resolved" PROVE ~Unclaimed(wake[c])'
  <2>1. CASE work[c] = "Resolved"
    <3>1. ~Unclaimed(wake[c])
      BY <2>1 DEF MInv, Mail, Retired
    <3>2. c \in InTask
      BY <2>1 DEF InTask, HeldByTask
    <3>3. Sent(wake[c])
      BY <3>2 DEF MInv, LInv, Leased, Executing, Mail, Stored
    <3> QED BY <3>1, <3>3, StaysResolved DEF Unclaimed
  <2>2. CASE ~(row'[wake[c]].st = "Pending" /\ ~row'[wake[c]].claimed)
    BY <2>2 DEF Unclaimed
  <2> QED BY <1>4, <2>1, <2>2 DEF QuietStep
<1>5. ASSUME NEW t \in Thread, job'[t].at = "Retire" PROVE ~Unclaimed(wake[FirstLease(t)])'
  <2>1. ~Unclaimed(wake[Head(job'[t].queue)]) /\ Sent(wake[Head(job'[t].queue)])
    <3>1. CASE job'[t] = job[t]
      <4>1. job[t].at \in LeaseSection /\ job[t].queue # <<>>
        BY <1>5, <3>1 DEF MInv, LInv, Leased, QueueOK, LeaseSection
      <4>2. FirstLease(t) \in Child /\ mark[FirstLease(t)] # 0
        BY <4>1, FirstIsHeld DEF MInv
      <4>3. Sent(wake[FirstLease(t)]) /\ ~Unclaimed(wake[FirstLease(t)])
        BY <1>5, <3>1, <4>2 DEF MInv, Mail, Stored, Retired
      <4> QED BY <3>1, <4>3 DEF FirstLease
    <3>2. CASE job'[t] # job[t]
      BY <1>5, <3>2 DEF QuietStep
    <3> QED BY <3>1, <3>2
  <2>2. FirstLease(t)' = Head(job'[t].queue)
    BY DEF FirstLease
  <2> QED BY <2>1, <2>2, StaysResolved DEF Unclaimed
<1>6. \A i \in Item : Unclaimed(i)' /\ Announced(i, box, row[i].to)
                         => Announced(i, box', row[i].to)
  BY <1>1, RemovesRight
<1>7. box' \in Mailboxes /\ wake' \in [Child -> Nat]
  BY RemovesRight DEF MInv, Mail, Stored
<1>8. Respects
  BY <1>2, <1>3, <1>4, <1>5, <1>6, <1>7 DEF Respects, RetiredNext, QuietStep
<1> QED BY <1>8, RespectKeepsMail

-----------------------------------------------------------------------------
(* Steps of the scheduler.                                                 *)

LEMMA ReservingKeepsMail ==
    ASSUME MInv, LInv', UNCHANGED <<row, turn>>,
           NEW t \in Thread, NEW S \in SUBSET Child, NEW m, NEW b \in Mailboxes,
           NEW st, NEW k, NEW r, ReserveFrom(S, st, m, k, b, r),
           \A c \in S : ReadyNotices(b, c) # {},
           \A c \in Child : m[c] # 0 => mark[c] # 0,
           \A c \in Child : \A n \in Notices(b, c) : Sent(n.item),
           S \subseteq InHand(job'[t]), job'[t].at \in {"Idle", "Launch"},
           \A s \in Thread \ {t} : job'[s] = job[s],
           \A c \in Child : turn[c] => work'[c] \in Owning,
           \A c \in Child : work'[c] = "Resolved" => work[c] = "Resolved",
           \A i \in Item : Unclaimed(i) /\ Announced(i, box, row[i].to)
                              => Announced(i, b, row[i].to),
           job[t].at = "MailEnqueue" => Announced(job[t].item, b, job[t].to)
    PROVE  Mail'
<1>1. /\ box' = b
      /\ \A c \in Child : mark'[c] = IF c \in S THEN gen[c] + 1 ELSE m[c]
      /\ \A c \in Child : wake'[c] = IF c \in S THEN NewestReady(b, c) ELSE wake[c]
      /\ DOMAIN wake' = Child /\ wake' = [c \in Child |-> wake'[c]]
  BY DEF ReserveFrom
<1>2. \A c \in S : Sent(NewestReady(b, c))
  <2> SUFFICES ASSUME NEW c \in S PROVE Sent(NewestReady(b, c))
    OBVIOUS
  <2>1. PICK n \in Notices(b, c) : NewestReady(b, c) = n.item
    BY NewestIsNotice
  <2> QED BY <2>1
<1>3. ASSUME NEW c \in Child PROVE wake'[c] \in Nat /\ (mark'[c] # 0 => Sent(wake'[c]))
  <2>1. CASE c \in S
    BY <1>1, <1>2, <2>1, BoundAssumption DEF Sent, Item
  <2>2. CASE c \notin S
    BY <1>1, <2>2 DEF MInv, Mail, Stored
  <2> QED BY <2>1, <2>2
<1>4. wake' \in [Child -> Nat]
  BY <1>1, <1>3
<1>5. S \cap InTask' = {} /\ \A s \in Thread \ {t} : S \cap InHand(job'[s]) = {}
  BY DEF LInv, Leased, Thread
<1>6. ASSUME NEW c \in Child, turn'[c] PROVE row'[wake'[c]].claimed /\ work'[c] \in Owning
  <2>1. turn[c] /\ row[wake[c]].claimed /\ work'[c] \in Owning
    BY <1>6 DEF MInv, Mail, TurnOwned
  <2>2. c \in InTask'
    BY <2>1 DEF InTask, HeldByTask, InBody, Owning
  <2>3. wake'[c] = wake[c]
    BY <1>1, <1>5, <2>2
  <2> QED BY <2>1, <2>3
<1>7. ASSUME NEW c \in Child, work'[c] = "Resolved" PROVE ~Unclaimed(wake[c])'
  <2>1. c \in InTask'
    BY <1>7 DEF InTask, HeldByTask
  <2>2. wake'[c] = wake[c]
    BY <1>1, <1>5, <2>1
  <2>3. ~Unclaimed(wake[c])
    BY <1>7 DEF MInv, Mail, Retired
  <2> QED BY <2>2, <2>3 DEF Unclaimed
<1>8. ASSUME NEW s \in Thread, job'[s].at = "Retire" PROVE ~Unclaimed(wake[FirstLease(s)])'
  <2>1. s # t /\ job'[s] = job[s]
    BY <1>8
  <2>2. job[s].at \in LeaseSection /\ job[s].queue # <<>>
    BY <1>8, <2>1 DEF MInv, LInv, Leased, QueueOK, LeaseSection
  <2>3. FirstLease(s) \in InHand(job'[s]) /\ FirstLease(s) \in Child
    BY <2>1, <2>2, FirstIsHeld DEF MInv
  <2>4. wake'[FirstLease(s)] = wake[FirstLease(s)] /\ FirstLease(s)' = FirstLease(s)
    BY <1>1, <1>5, <2>1, <2>3 DEF FirstLease
  <2>5. ~Unclaimed(wake[FirstLease(s)])
    BY <1>8, <2>1 DEF MInv, Mail, Retired
  <2> QED BY <2>4, <2>5 DEF Unclaimed
<1>9. /\ \A i \in Item : Unclaimed(i)' /\ Announced(i, box, row[i].to)
                            => Announced(i, box', row[i].to)
      /\ \A s \in Thread : job'[s] = job[s] \/ ~Mailing(job'[s])
      /\ \A s \in Thread : job[s].at = "MailEnqueue" =>
            job'[s] = job[s] \/ Announced(job[s].item, box', job[s].to)
  BY <1>1 DEF Unclaimed, Mailing
<1>10. box' \in Mailboxes /\ turn' \in [Child -> BOOLEAN]
  BY <1>1 DEF MInv, Mail, Stored
<1>11. \A c \in Child : \A n \in Notices(box', c) : Sent(n.item)
  BY <1>1
<1>12. Respects
  BY <1>3, <1>4, <1>6, <1>7, <1>8, <1>9, <1>10, <1>11 DEF Respects, RetiredNext
<1> QED BY <1>12, SameRows, RespectKeepsMail

LEMMA ChosenAreReady ==
    ASSUME NEW m, NEW b, NEW r, NEW c \in Chosen(m, b, r)
    PROVE  ReadyNotices(b, c) # {}
BY DEF Chosen

(* An execution ends; its trigger, if its notice goes, is not to be run.   *)
LEMMA EndingKeepsMail ==
    ASSUME MInv, LInv', UNCHANGED <<row, turn>>,
           NEW t \in Thread, NEW c \in Child, NEW S,
           \/ complete_execution(c, S)
           \/ retire_resolved_wake_execution(c, S) /\ ~Unclaimed(wake[c]),
           S \subseteq InHand(job'[t]), job'[t].at \in {"Idle", "Launch"},
           job[t].at # "MailEnqueue",
           \A s \in Thread \ {t} : job'[s] = job[s],
           \A d \in Child : turn[d] => work'[d] \in Owning,
           \A d \in Child : work'[d] = "Resolved" => work[d] = "Resolved"
    PROVE  Mail'
<1> DEFINE m == [mark EXCEPT ![c] = 0]
           st == [status EXCEPT ![c] = "Inactive"]
<1>1. \A d \in Child : m[d] # 0 => mark[d] # 0
  BY DEF MInv, LInv, CapInv
<1>2. \A i \in Item : Unclaimed(i) => row[i].to \in Child
  BY DEF MInv, Mail, Stored, Sent, Unclaimed
<1>3. CASE complete_execution(c, S)
  <2> DEFINE b == Promoted(box, c)
  <2>1. S = Chosen(m, b, reserved) /\ ReserveFrom(S, st, m, ctl, b, reserved)
    BY <1>3 DEF complete_execution
  <2>2. /\ b \in Mailboxes
        /\ \A d \in Child : \A n \in Notices(b, d) : Sent(n.item)
        /\ \A i, d : d \in Child /\ Announced(i, box, d) => Announced(i, b, d)
    BY PromotionAnnounces
  <2> HIDE DEF m, st, b
  <2>3. S \in SUBSET Child /\ \A d \in S : ReadyNotices(b, d) # {}
    BY <2>1, ChosenAreFree, ChosenAreReady
  <2>4. \A i \in Item : Unclaimed(i) /\ Announced(i, box, row[i].to)
                            => Announced(i, b, row[i].to)
    BY <1>2, <2>2
  <2>5. ReserveFrom(S, st, m, ctl, b, reserved)
    BY <2>1
  <2> QED BY <1>1, <2>2, <2>3, <2>4, <2>5, ReservingKeepsMail
<1>4. CASE retire_resolved_wake_execution(c, S) /\ ~Unclaimed(wake[c])
  <2> DEFINE b == Without(box, c, {wake[c]})
  <2>1. S = Chosen(m, b, reserved) /\ ReserveFrom(S, st, m, Superseded(c), b, reserved)
    BY <1>4 DEF retire_resolved_wake_execution
  <2>2. /\ b \in Mailboxes
        /\ \A d \in Child : \A n \in Notices(b, d) : Sent(n.item)
        /\ \A i, d : d \in Child /\ Announced(i, box, d) /\ (d # c \/ i \notin {wake[c]})
                        => Announced(i, b, d)
    BY RemovalAnnounces
  <2> HIDE DEF m, st, b
  <2>3. S \in SUBSET Child /\ \A d \in S : ReadyNotices(b, d) # {}
    BY <2>1, ChosenAreFree, ChosenAreReady
  <2>4. \A i \in Item : Unclaimed(i) /\ Announced(i, box, row[i].to)
                            => Announced(i, b, row[i].to)
    BY <1>2, <1>4, <2>2
  <2>5. PICK k, r : ReserveFrom(S, st, m, k, b, r)
    BY <2>1
  <2>6. /\ job[t].at = "MailEnqueue" => Announced(job[t].item, b, job[t].to)
        /\ \A d \in Child : \A n \in Notices(b, d) : Sent(n.item)
        /\ b \in Mailboxes
    BY <2>2
  <2> QED BY <1>1, <2>3, <2>4, <2>5, <2>6, ReservingKeepsMail, ZenonT(60)
<1> QED BY <1>3, <1>4

-----------------------------------------------------------------------------
(* A message is stored: by a spawn or by the append of a delivery.         *)

LEMMA StoringKeepsMail ==
    ASSUME MInv, LInv', NEW i \in Item, row[i].st = "Unsent",
           NEW c \in Child, NEW f \in BOOLEAN, row' = [row EXCEPT ![i] = Message(c, f)],
           UNCHANGED <<box, turn, work>>, wake' \in [Child -> Nat],
           \A d \in Child : mark[d] # 0 => wake'[d] = wake[d],
           \A d \in Child : mark'[d] # 0 => mark[d] # 0 \/ wake'[d] = i,
           \A t \in Thread : job'[t].at = "Retire" => job'[t] = job[t],
           \A t \in Thread : job[t].at = "MailEnqueue" => job'[t] = job[t],
           \A t \in Thread : InFlight(job[t])',
           f \/ \E t \in Thread : job'[t].at = "MailEnqueue" /\ job'[t].item = i
    PROVE  Mail'
<1>1. /\ row' \in [Item -> Row] /\ row'[i] = Message(c, f)
      /\ \A j \in Item \ {i} : row'[j] = row[j]
  BY ChildrenAssumption DEF MInv, Mail, Stored, Message, Row, Child
<1>2. /\ row'[i].st = "Pending" /\ row'[i].to = c /\ row'[i].first = f /\ ~row'[i].claimed
  BY <1>1 DEF Message
<1>3. \A j : Sent(j) => j # i /\ row'[j] = row[j] /\ row'[j].st # "Unsent" /\ j \in Item
  BY <1>1 DEF Sent
<1>4. \A d \in Child : mark[d] # 0 => wake'[d] = wake[d] /\ row'[wake[d]] = row[wake[d]]
  BY <1>3 DEF MInv, Mail, Stored
<1>5. Stored'
  <2>1. \A j \in Item : row'[j].claimed => j # i
    BY <1>2
  <2>2. \A j \in Item : row'[j].claimed => row'[j].st # "Unsent"
    BY <1>1, <2>1 DEF MInv, Mail, Stored, Sent
  <2>3. \A d \in Child : mark'[d] # 0 => wake'[d] \in Item /\ row'[wake'[d]].st # "Unsent"
    BY <1>2, <1>3, <1>4 DEF MInv, Mail, Stored
  <2>4. \A d \in Child : \A k \in 1 .. Len(box[d]) : /\ box[d][k].item \in Item
                                                     /\ row'[box[d][k].item].st # "Unsent"
    BY <1>3 DEF MInv, Mail, Stored
  <2>5. \A j \in Item : row'[j].st # "Unsent" => row'[j].to \in Child
    BY <1>1, <1>2 DEF MInv, Mail, Stored, Sent
  <2> QED BY <1>1, <2>2, <2>3, <2>4, <2>5 DEF Stored, Sent, MInv, Mail
<1>6. TurnOwned'
  <2> SUFFICES ASSUME NEW d \in Child, turn'[d]
               PROVE  /\ mark'[d] # 0
                      /\ row'[wake'[d]].claimed
                      /\ work'[d] \in {"Admitted", "Running", "Sampling", "Aborted"}
    BY DEF TurnOwned
  <2>1. mark[d] # 0 /\ row[wake[d]].claimed /\ work'[d] \in Owning
    BY DEF MInv, Mail, TurnOwned, Owning
  <2>2. d \in InTask'
    BY <2>1 DEF Owning, InTask, HeldByTask, InBody
  <2>3. mark'[d] # 0
    BY <2>2 DEF LInv, Leased, Executing
  <2> QED BY <1>4, <2>1, <2>3 DEF Owning
<1>7. ASSUME NEW d \in Child, work'[d] = "Resolved" PROVE ~Unclaimed(wake[d])'
  <2>1. d \in InTask /\ ~Unclaimed(wake[d])
    BY <1>7 DEF InTask, HeldByTask, MInv, Mail, Retired
  <2>2. mark[d] # 0
    BY <2>1 DEF MInv, LInv, Leased, Executing
  <2> QED BY <1>4, <2>1, <2>2 DEF Unclaimed
<1>8. ASSUME NEW t \in Thread, job'[t].at = "Retire" PROVE ~Unclaimed(wake[FirstLease(t)])'
  <2>1. job'[t] = job[t] /\ FirstLease(t)' = FirstLease(t)
    BY <1>8 DEF FirstLease
  <2>2. job[t].at \in LeaseSection /\ job[t].queue # <<>>
    BY <1>8, <2>1 DEF MInv, LInv, Leased, QueueOK, LeaseSection
  <2>3. FirstLease(t) \in Child /\ mark[FirstLease(t)] # 0
    BY <2>2, FirstIsHeld DEF MInv
  <2>4. ~Unclaimed(wake[FirstLease(t)])
    BY <1>8, <2>1 DEF MInv, Mail, Retired
  <2> QED BY <1>4, <2>1, <2>3, <2>4 DEF Unclaimed
<1>9. FollowUpKept'
  <2> SUFFICES ASSUME NEW j \in Item, Unclaimed(j)', ~row'[j].first
               PROVE  \/ NoticeOf(j)'
                      \/ \E t \in Thread : job'[t].at = "MailEnqueue" /\ job'[t].item = j
    BY DEF FollowUpKept
  <2>1. CASE j = i
    BY <1>2, <2>1
  <2>2. CASE j # i
    <3>1. row'[j] = row[j] /\ row[j].st # "Unsent" /\ Unclaimed(j) /\ ~row[j].first
      BY <1>1, <2>2 DEF Unclaimed
    <3>2. NoticeOf(j)' <=> NoticeOf(j)
      BY <3>1 DEF NoticeOf
    <3> QED BY <3>1, <3>2 DEF MInv, Mail, FollowUpKept
  <2> QED BY <2>1, <2>2
<1> QED BY <1>5, <1>6, <1>7, <1>8, <1>9 DEF Mail, Retired

-----------------------------------------------------------------------------
(* Every step keeps storage, mailboxes and turns in agreement.             *)

(* Thread t goes on in a section that delivers and retires nothing.        *)
Elsewhere(t) ==
    /\ \A s \in Thread \ {t} : job'[s] = job[s]
    /\ job[t].at # "MailEnqueue"
    /\ ~Mailing(job'[t]) /\ job'[t].at # "Retire"

(* A turn that runs is with its worker or monitor, and stays there.        *)
LEMMA TurnStays ==
    ASSUME MInv, UNCHANGED work, NEW c \in Child, turn[c]
    PROVE  row[wake[c]].claimed /\ work'[c] \in Owning
BY DEF MInv, Mail, TurnOwned, Owning

LEMMA ElsewhereKeepsMail ==
    ASSUME MInv, LInv', NEW t \in Thread, Elsewhere(t),
           \A c \in Child : mark'[c] # 0 => mark[c] # 0,
           UNCHANGED <<box, wake, row, turn, work>>
    PROVE  Mail'
<1>1. turn' \in [Child -> BOOLEAN]
  BY DEF MInv, Mail, Stored
<1>2. QuietStep
  BY <1>1, TurnStays DEF QuietStep, Elsewhere
<1> QED BY <1>2, SameRows, QuietKeepsMail DEF Removes

LEMMA SendBeginMail ==
    ASSUME MInv, LInv', NEW t \in Thread, NEW c \in Child, SendBegin(t, c)
    PROVE  Mail'
<1> DEFINE newSlot == mark[c] = 0
           granted == ~newSlot \/ ActiveCount(mark, reserved) < Capacity
           x == [at |-> "MailCommit", to |-> c, item |-> NextItem,
                 granted |-> granted, slot |-> newSlot /\ granted]
<1>1. /\ job[t].at = "Idle" /\ job' = [job EXCEPT ![t] = x]
      /\ UNCHANGED <<mark, box, wake, row, turn, work>>
  BY DEF SendBegin, durable, pool
<1>2. x.at = "MailCommit" /\ x.to = c /\ x.item = NextItem /\ x.granted \in BOOLEAN
  OBVIOUS
<1>3. NextItem \in Item /\ row[NextItem].st = "Unsent"
  BY NextIsFresh DEF SendBegin
<1> HIDE DEF x
<1>4. job'[t] = x /\ \A s \in Thread \ {t} : job'[s] = job[s]
  BY <1>1 DEF MInv, LInv, Shaped
<1>5. \A s \in Thread : InFlight(job[s])'
  BY <1>1, <1>2, <1>3, <1>4 DEF MInv, Mail, InFlight, Sent
<1>6. Stored' /\ TurnOwned'
  BY <1>1 DEF MInv, Mail, Stored, Sent, TurnOwned
<1>7. Retired'
  BY <1>1, <1>2, <1>4 DEF MInv, Mail, Retired, Unclaimed, FirstLease
<1>8. FollowUpKept'
  BY <1>1, <1>2, <1>4 DEF MInv, Mail, FollowUpKept, Unclaimed, NoticeOf
<1> QED BY <1>5, <1>6, <1>7, <1>8 DEF Mail

LEMMA SpawnMail ==
    ASSUME MInv, LInv', NEW t \in Thread, NEW c \in Child, spawn_agent(t, c)
    PROVE  Mail'
<1> DEFINE i == NextItem
<1>1. /\ job[t].at = "Idle" /\ status[c] = "Unborn"
      /\ mark' = [mark EXCEPT ![c] = gen[c] + 1] /\ wake' = [wake EXCEPT ![c] = i]
      /\ row' = [row EXCEPT ![i] = Message(c, TRUE)]
      /\ job' = [job EXCEPT ![t] = Launching(<<c>>, 0, 0)]
      /\ UNCHANGED <<box, turn, work>>
  BY DEF spawn_agent, NextChild, pool
<1>2. /\ i \in Item /\ row[i].st = "Unsent"
      /\ \A s \in Thread : job[s].at = "MailCommit" => job[s].item # i
  BY NextIsFresh DEF spawn_agent
<1> HIDE DEF i
<1>3. mark[c] = 0
  BY <1>1 DEF MInv, LInv, Leased
<1>4. i \in Nat
  BY <1>2, BoundAssumption DEF Item
<1>5. wake' \in [Child -> Nat]
  BY <1>1, <1>4 DEF MInv, Mail, Stored
<1>6. /\ \A d \in Child : mark[d] # 0 => wake'[d] = wake[d]
      /\ \A d \in Child : mark'[d] # 0 => mark[d] # 0 \/ wake'[d] = i
  BY <1>1, <1>3 DEF MInv, Mail, Stored, LInv, CapInv
<1>7. /\ \A s \in Thread \ {t} : job'[s] = job[s]
      /\ job'[t].at \in {"Idle", "Launch"}
  BY <1>1 DEF MInv, LInv, Shaped, Launching, Idle
<1>8. ASSUME NEW s \in Thread PROVE InFlight(job[s])'
  <2>1. CASE s = t
    BY <1>7, <2>1 DEF InFlight
  <2>2. CASE s # t
    <3>1. job'[s] = job[s] /\ InFlight(job[s])
      BY <1>7, <2>2 DEF MInv, Mail
    <3>2. \A j \in Item \ {i} : row'[j] = row[j]
      BY <1>1 DEF MInv, Mail, Stored
    <3>3. \A j : Sent(j) => j # i
      BY <1>2 DEF Sent
    <3> QED BY <1>2, <3>1, <3>2, <3>3 DEF InFlight, Sent
  <2> QED BY <2>1, <2>2
<1>9. /\ \A s \in Thread : job'[s].at = "Retire" => job'[s] = job[s]
      /\ \A s \in Thread : job[s].at = "MailEnqueue" => job'[s] = job[s]
  BY <1>1, <1>7
<1> QED BY <1>1, <1>2, <1>5, <1>6, <1>8, <1>9, StoringKeepsMail

LEMMA SendCommitMail ==
    ASSUME MInv, LInv', NEW t \in Thread, SendCommit(t)
    PROVE  Mail'
<1> DEFINE c == job[t].to
           i == job[t].item
           x == [at |-> "MailEnqueue", to |-> c, item |-> i, slot |-> job[t].slot,
                 ready |-> ~turn[c]]
<1>1. /\ job[t].at = "MailCommit"
      /\ row' = [row EXCEPT ![i] = Message(c, FALSE)]
      /\ UNCHANGED <<mark, wake, box, turn, work>>
  BY DEF SendCommit, tree, pool
<1>2. job'[t] = x /\ \A s \in Thread \ {t} : job'[s] = job[s]
  BY DEF SendCommit, MInv, LInv, Shaped
<1>3. i \in Item /\ row[i].st = "Unsent" /\ c \in Child
  BY <1>1 DEF MInv, Mail, InFlight
<1>4. x.at = "MailEnqueue" /\ x.to = c /\ x.item = i /\ x.ready \in BOOLEAN
  OBVIOUS
<1>5. \A s \in Thread \ {t} : ~Mailing(job[s])
  BY <1>1 DEF MInv, LInv, CapInv, Fenced, Mailing
<1> HIDE DEF c, i, x
<1>6. row'[i].st = "Pending" /\ row'[i].to = c
  BY <1>1, <1>3 DEF MInv, Mail, Stored, Message
<1>7. ASSUME NEW s \in Thread PROVE InFlight(job[s])'
  <2>1. CASE s = t
    BY <1>2, <1>3, <1>4, <1>6, <2>1 DEF InFlight, Sent
  <2>2. CASE s # t
    BY <1>2, <1>5, <2>2 DEF InFlight, Mailing
  <2> QED BY <2>1, <2>2
<1>8. /\ \A s \in Thread : job'[s].at = "Retire" => job'[s] = job[s]
      /\ \A s \in Thread : job[s].at = "MailEnqueue" => job'[s] = job[s]
      /\ \E s \in Thread : job'[s].at = "MailEnqueue" /\ job'[s].item = i
  BY <1>1, <1>2, <1>4
<1>9. wake' \in [Child -> Nat] /\ FALSE \in BOOLEAN
  BY <1>1 DEF MInv, Mail, Stored
<1> QED BY <1>1, <1>3, <1>7, <1>8, <1>9, StoringKeepsMail

LEMMA SendEnqueueMail ==
    ASSUME MInv, LInv', NEW t \in Thread, SendEnqueue(t)
    PROVE  Mail'
<1> DEFINE c == job[t].to
           n == [item |-> job[t].item, ready |-> job[t].ready]
           mail == [box EXCEPT ![c] = Append(@, n)]
           S == IF job[t].ready THEN Chosen(mark, mail, GiveBack(t)) ELSE {}
<1>1. /\ ReserveFrom(S, status, mark, ctl, mail, GiveBack(t))
      /\ job' = [job EXCEPT ![t] = Launching(InOrder(S), 0, 0)]
      /\ UNCHANGED <<row, turn, work>> /\ job[t].at = "MailEnqueue"
  BY DEF SendEnqueue, pool, durable
<1>2. /\ c \in Child /\ n \in Notice /\ n.item = job[t].item /\ Sent(job[t].item)
  BY <1>1 DEF MInv, Mail, InFlight, Notice, Sent
<1>3. box \in Mailboxes /\ \A d \in Child : \A p \in Notices(box, d) : Sent(p.item)
  BY <1>2, HeldIsSent
<1>4. S \in SUBSET Child /\ \A d \in S : ReadyNotices(mail, d) # {}
  BY ChosenAreFree, ChosenAreReady
<1> HIDE DEF S, n, c
<1>5. /\ mail = [d \in Child |-> mail[d]] /\ mail[c] = Append(box[c], n)
      /\ \A d \in Child \ {c} : mail[d] = box[d]
  BY <1>2, <1>3 DEF Mailboxes
<1> HIDE DEF mail
<1>6. /\ mail \in Mailboxes
      /\ Notices(mail, c) = Notices(box, c) \cup {n}
      /\ \A d \in Child \ {c} : mail[d] = box[d]
  BY <1>2, <1>3, <1>5, AppendedNotices
<1>7. \A d \in Child : d # c => Notices(mail, d) = Notices(box, d)
  BY <1>6 DEF Notices
<1>8. \A d \in Child : \A p \in Notices(mail, d) : Sent(p.item)
  BY <1>2, <1>3, <1>6, <1>7
<1>9. \A i \in Item : Unclaimed(i) /\ Announced(i, box, row[i].to)
                          => Announced(i, mail, row[i].to)
  <2>1. \A i \in Item : Unclaimed(i) => row[i].to \in Child
    BY DEF MInv, Mail, Stored, Sent, Unclaimed
  <2> QED BY <1>6, <1>7, <2>1 DEF Announced
<1>10. Announced(job[t].item, mail, job[t].to)
  BY <1>2, <1>6 DEF Announced, c
<1>11. /\ \A s \in Thread \ {t} : job'[s] = job[s]
       /\ job'[t].at \in {"Idle", "Launch"} /\ S \subseteq InHand(job'[t])
  <2>1. /\ \A s \in Thread \ {t} : job'[s] = job[s]
        /\ job'[t] = Launching(InOrder(S), 0, 0)
    BY <1>1 DEF MInv, LInv, Shaped
  <2> QED BY <1>4, <2>1, InOrderLists, LaunchingHolds
<1>12. \A d \in Child : turn[d] => work'[d] \in Owning
  BY <1>1, TurnStays
<1>13. \A d \in Child : work'[d] = "Resolved" => work[d] = "Resolved"
  BY <1>1
<1>14. \A d \in Child : mark[d] # 0 => mark[d] # 0
  OBVIOUS
<1>15. PICK k, r : ReserveFrom(S, status, mark, k, mail, r)
  BY <1>1
<1>16. UNCHANGED <<row, turn>>
  BY <1>1
<1> QED BY <1>4, <1>6, <1>8, <1>9, <1>10, <1>11, <1>12, <1>13, <1>14, <1>15, <1>16,
           ReservingKeepsMail

(* Row i, which is stored, is claimed or settled and the others stay.      *)
LEMMA SettlesOne ==
    ASSUME MInv, NEW i, Sent(i), NEW x \in Row, row' = [row EXCEPT ![i] = x],
           x.st # "Unsent", x.to = row[i].to, x.first = row[i].first,
           row[i].claimed => x.claimed, x.st = "Pending" => row[i].st = "Pending"
    PROVE  RowsSettle
<1>1. row \in [Item -> Row] /\ i \in Item /\ row[i].st # "Unsent"
  BY DEF MInv, Mail, Stored, Sent
<1>2. row' \in [Item -> Row] /\ row'[i] = x /\ \A j \in Item \ {i} : row'[j] = row[j]
  BY <1>1
<1> QED BY <1>1, <1>2 DEF RowsSettle

(* The trigger of an execution is stored.                                  *)
LEMMA TriggerStored ==
    ASSUME MInv, NEW c \in Child, HeldByTask(c) \/ \E t \in Thread : c \in InHand(job[t])
    PROVE  mark[c] # 0 /\ Sent(wake[c]) /\ wake[c] \in Item /\ row[wake[c]] \in Row
<1>1. c \in Executing(mark)
  BY DEF MInv, LInv, Leased, InTask, Thread
<1> QED BY <1>1 DEF Executing, MInv, Mail, Stored, Sent

LEMMA LaunchMail ==
    ASSUME MInv, LInv', NEW t \in Thread, launch_agent_turn(t)
    PROVE  Mail'
<1> DEFINE c == FirstLease(t)
<1>1. /\ job[t].at \in LeaseSection /\ job[t].queue # <<>> /\ NextLease(t, {})
      /\ work' = [work EXCEPT ![c] = "Start"] /\ job[t].at = "Launch"
      /\ UNCHANGED <<mark, wake, box, row, turn>>
  BY DEF launch_agent_turn, LeaseSection, tree, durable
<1>2. \A s \in Thread \ {t} : job'[s] = job[s]
  BY <1>1, NextLeaseHolds DEF MInv
<1>3. job'[t].at \in {"Idle", "Launch"}
  BY <1>1, NextLeaseHolds DEF MInv
<1>4. c \in Child /\ ~HeldByTask(c)
  BY <1>1, FirstIsHeld DEF MInv
<1> HIDE DEF c
<1>5. \A d \in Child : /\ d = c => work'[d] = "Start"
                       /\ d # c => work'[d] = work[d]
  BY <1>1, <1>4 DEF MInv, LInv, Shaped
<1>6. ~turn[c]
  BY <1>4 DEF MInv, Mail, TurnOwned, HeldByTask, InBody
<1>7. \A d \in Child : turn[d] => row[wake[d]].claimed /\ work'[d] \in Owning
  BY <1>5, <1>6 DEF MInv, Mail, TurnOwned, Owning
<1>8. QuietStep
  BY <1>1, <1>2, <1>3, <1>5, <1>7 DEF QuietStep, Mailing, MInv, Mail, Stored
<1> QED BY <1>1, <1>8, SameRows, QuietKeepsMail DEF Removes

(* The settlement of a trigger that never ran claims it for good.          *)
LEMMA SettlementRows ==
    ASSUME MInv, NEW t \in Thread, settle_pre_admission(t)
    PROVE  RowsSettle /\ row'[wake[FirstLease(t)]].claimed
<1> DEFINE c == FirstLease(t)
           i == wake[c]
           settled == IF job[t].cause = "Interrupted" THEN "Discarded" ELSE "Unrun"
           x == [row[i] EXCEPT !.claimed = TRUE, !.st = settled]
<1>1. job[t].at \in LeaseSection /\ job[t].queue # <<>>
  BY DEF settle_pre_admission, MInv, LInv, Leased, QueueOK, LeaseSection
<1>2. c \in Child /\ c \in InHand(job[t])
  BY <1>1, FirstIsHeld DEF MInv
<1>3. Sent(i) /\ row[i] \in Row
  BY <1>2, TriggerStored
<1>4. row' = [row EXCEPT ![i].claimed = TRUE, ![i].st = settled]
  BY DEF settle_pre_admission
<1>5. \A r \in Row : /\ [r EXCEPT !.claimed = TRUE, !.st = settled] \in Row
                     /\ [r EXCEPT !.claimed = TRUE, !.st = settled].claimed = TRUE
                     /\ [r EXCEPT !.claimed = TRUE, !.st = settled].st = settled
                     /\ [r EXCEPT !.claimed = TRUE, !.st = settled].to = r.to
                     /\ [r EXCEPT !.claimed = TRUE, !.st = settled].first = r.first
  BY DEF Row
<1>6. x \in Row /\ x.claimed /\ x.st = settled /\ x.to = row[i].to /\ x.first = row[i].first
  BY <1>3, <1>5
<1>7. row' = [row EXCEPT ![i] = x] /\ row'[i] = x
  BY <1>3, <1>4 DEF MInv, Mail, Stored, Sent
<1>8. settled # "Unsent" /\ settled # "Pending"
  OBVIOUS
<1>9. row'[wake[FirstLease(t)]].claimed
  BY <1>6, <1>7
<1> HIDE DEF c, i, settled, x
<1>10. RowsSettle
  BY <1>3, <1>6, <1>7, <1>8, SettlesOne
<1> QED BY <1>9, <1>10

LEMMA SettlementMail ==
    ASSUME MInv, LInv', NEW t \in Thread, settle_pre_admission(t)
    PROVE  Mail'
<1> DEFINE c == FirstLease(t)
           i == wake[c]
<1>1. job[t].at = "Settle" /\ job[t].at \in LeaseSection /\ job[t].queue # <<>>
  BY DEF settle_pre_admission, MInv, LInv, Leased, QueueOK, LeaseSection
<1>2. c \in Child
  BY <1>1, FirstIsHeld DEF MInv
<1>3. /\ Becomes(t, "Settled") /\ box' = Without(box, c, {i})
      /\ UNCHANGED <<mark, wake, turn, work>>
  BY DEF settle_pre_admission, pool
<1>4. RowsSettle /\ row'[i].claimed
  BY SettlementRows
<1> HIDE DEF c, i
<1>5. Removes
  <2>1. \A j \in Item : j \in {i} /\ row[j].to = c => ~Unclaimed(j)'
    BY <1>4 DEF Unclaimed
  <2> QED BY <1>2, <1>3, <2>1 DEF Removes
<1>6. /\ \A s \in Thread \ {t} : job'[s] = job[s]
      /\ job'[t].at = "Settled"
  <2>1. "at" \in DOMAIN job[t]
    BY <1>1 DEF MInv, LInv, Leased, QueueOK
  <2> QED BY <1>3, <2>1 DEF Becomes, MInv, LInv, Shaped
<1>7. ASSUME NEW d \in Child, turn[d] PROVE row'[wake[d]].claimed /\ work'[d] \in Owning
  <2>1. row[wake[d]].claimed /\ work'[d] \in Owning /\ Sent(wake[d])
    BY <1>3, <1>7 DEF MInv, Mail, TurnOwned, Owning, Stored
  <2> QED BY <1>4, <2>1 DEF RowsSettle, Sent
<1>8. QuietStep
  BY <1>1, <1>3, <1>6, <1>7 DEF QuietStep, Mailing, MInv, Mail, Stored
<1> QED BY <1>3, <1>4, <1>5, <1>8, QuietKeepsMail

LEMMA SectionMail ==
    ASSUME MInv, LInv', NEW t \in Thread, Section(t)
    PROVE  Mail'
<1>1. ASSUME NEW x, job' = [job EXCEPT ![t] = x]
      PROVE  job'[t] = x /\ \A s \in Thread \ {t} : job'[s] = job[s]
  BY <1>1 DEF MInv, LInv, Shaped
<1>2. CASE \/ SendRefused(t) \/ commit_and_interrupt_captured(t)
           \/ cancelled_execution_paths(t) \/ schedule_cancelled_worker_abort(t)
           \/ launch_refused(t)
  <2>1. /\ job[t].at # "MailEnqueue"
        /\ UNCHANGED <<mark, box, wake, row, turn, work>>
    BY <1>2 DEF SendRefused, commit_and_interrupt_captured, cancelled_execution_paths,
                schedule_cancelled_worker_abort, launch_refused, tree, durable, pool
  <2>2. PICK x : ~Mailing(x) /\ x.at # "Retire" /\ job' = [job EXCEPT ![t] = x]
    <3>1. CASE SendRefused(t)
      BY <3>1 DEF SendRefused, Mailing, Idle
    <3>2. CASE commit_and_interrupt_captured(t)
      BY <3>2 DEF commit_and_interrupt_captured, Mailing, Idle
    <3>3. CASE cancelled_execution_paths(t)
      BY <3>3 DEF cancelled_execution_paths, Mailing
    <3>4. CASE schedule_cancelled_worker_abort(t)
      BY <3>4 DEF schedule_cancelled_worker_abort, Mailing, Idle
    <3>5. CASE launch_refused(t)
      BY <3>5 DEF launch_refused, Mailing
    <3> QED BY <1>2, <3>1, <3>2, <3>3, <3>4, <3>5
  <2>3. Elsewhere(t)
    BY <1>1, <2>1, <2>2 DEF Elsewhere
  <2> QED BY <2>1, <2>3, ElsewhereKeepsMail
<1>3. CASE SendCommit(t)
  BY <1>3, SendCommitMail
<1>4. CASE SendEnqueue(t)
  BY <1>4, SendEnqueueMail
<1>5. CASE launch_agent_turn(t)
  BY <1>5, LaunchMail
<1>6. CASE settle_pre_admission(t)
  BY <1>6, SettlementMail
<1>7. ASSUME job[t].at \in {"Settle", "Settled", "Retire", "Release"}
      PROVE  /\ job[t].at \in LeaseSection /\ job[t].queue # <<>>
             /\ "at" \in DOMAIN job[t] /\ "queue" \in DOMAIN job[t]
             /\ FirstLease(t) \in Child /\ FirstLease(t) \in InHand(job[t])
             /\ ~HeldByTask(FirstLease(t)) /\ ~turn[FirstLease(t)] /\ Sent(wake[FirstLease(t)])
  <2>1. job[t].at \in LeaseSection /\ job[t].queue # <<>>
    BY <1>7 DEF MInv, LInv, Leased, QueueOK, LeaseSection
  <2>2. /\ FirstLease(t) \in InHand(job[t]) /\ FirstLease(t) \in Child
        /\ ~HeldByTask(FirstLease(t))
    BY <2>1, FirstIsHeld DEF MInv
  <2>3. ~turn[FirstLease(t)]
    BY <2>2 DEF MInv, Mail, TurnOwned, HeldByTask, InBody
  <2>4. Sent(wake[FirstLease(t)])
    BY <2>2, TriggerStored
  <2> QED BY <2>1, <2>2, <2>3, <2>4 DEF MInv, LInv, Leased, QueueOK
<1>8. CASE settle_fails(t)
  <2>1. /\ job[t].at = "Settle" /\ Becomes(t, "Release")
        /\ UNCHANGED <<mark, box, wake, row, turn, work>>
    BY <1>8 DEF settle_fails, tree, durable, pool
  <2>2. job'[t].at = "Release" /\ \A s \in Thread \ {t} : job'[s] = job[s]
    BY <1>7, <2>1 DEF Becomes, MInv, LInv, Shaped
  <2>3. Elsewhere(t)
    BY <2>1, <2>2 DEF Elsewhere, Mailing
  <2> QED BY <2>1, <2>3, ElsewhereKeepsMail
<1>9. CASE settle_stale(t)
  <2>1. /\ job[t].at = "Settle" /\ Becomes(t, "Retire")
        /\ UNCHANGED <<mark, box, wake, row, turn, work>>
        /\ turn[FirstLease(t)] \/ ~Unclaimed(wake[FirstLease(t)])
    BY <1>9 DEF settle_stale, tree, durable, pool
  <2>2. /\ job'[t].at = "Retire" /\ job'[t].queue = job[t].queue
        /\ \A s \in Thread \ {t} : job'[s] = job[s]
    BY <1>7, <2>1 DEF Becomes, MInv, LInv, Shaped
  <2>3. ~Unclaimed(wake[Head(job'[t].queue)]) /\ Sent(wake[Head(job'[t].queue)])
    BY <1>7, <2>1, <2>2 DEF FirstLease
  <2>4. QuietStep
    BY <2>1, <2>2, <2>3, TurnStays DEF QuietStep, Mailing, MInv, Mail, Stored
  <2> QED BY <2>1, <2>4, SameRows, QuietKeepsMail DEF Removes
<1>10. CASE release_unsettled_trigger_execution(t)
  <2>1. /\ job[t].at = "Release" /\ NextLease(t, {})
        /\ mark' = [mark EXCEPT ![FirstLease(t)] = 0]
        /\ UNCHANGED <<box, wake, row, turn, work>>
    BY <1>10 DEF release_unsettled_trigger_execution, durable, pool
  <2>2. job'[t].at \in {"Idle", "Launch"} /\ \A s \in Thread \ {t} : job'[s] = job[s]
    BY <1>7, <2>1, NextLeaseHolds DEF MInv
  <2>3. Elsewhere(t)
    BY <2>1, <2>2 DEF Elsewhere, Mailing
  <2>4. \A c \in Child : mark'[c] # 0 => mark[c] # 0
    BY <2>1 DEF MInv, LInv, CapInv
  <2> QED BY <2>1, <2>3, <2>4, ElsewhereKeepsMail
<1>11. CASE settle_complete(t) \/ settle_retire(t)
  <2>1. job[t].at \in {"Settled", "Retire"} /\ UNCHANGED <<row, turn, work>>
    BY <1>11 DEF settle_complete, settle_retire, durable, pool
  <2>2. PICK S : /\ \/ complete_execution(FirstLease(t), S)
                    \/ /\ retire_resolved_wake_execution(FirstLease(t), S)
                       /\ ~Unclaimed(wake[FirstLease(t)])
                 /\ NextLease(t, S)
    BY <1>11 DEF settle_complete, settle_retire, MInv, Mail, Retired
  <2>3. S \in SUBSET Child /\ S \cap (Executing(mark) \ {FirstLease(t)}) = {}
    BY <1>7, <2>1, <2>2, Ending DEF MInv
  <2>4. /\ job'[t].at \in {"Idle", "Launch"} /\ \A s \in Thread \ {t} : job'[s] = job[s]
        /\ S \subseteq InHand(job'[t])
    BY <1>7, <2>1, <2>2, <2>3, NextLeaseHolds DEF MInv
  <2>5. /\ \A d \in Child : turn[d] => work'[d] \in Owning
        /\ \A d \in Child : work'[d] = "Resolved" => work[d] = "Resolved"
    BY <2>1, TurnStays
  <2>6. FirstLease(t) \in Child /\ job[t].at # "MailEnqueue" /\ UNCHANGED <<row, turn>>
    BY <1>7, <2>1
  <2> QED BY <2>2, <2>4, <2>5, <2>6, EndingKeepsMail
<1>12. CASE detach_finished_worker(t)
  <2>1. /\ job[t].at = "Launch" /\ job' = [job EXCEPT ![t] = Idle]
        /\ UNCHANGED <<mark, box, wake, row, turn>>
        /\ \A c \in Child : work'[c] = work[c] \/ (work[c] = "Done" /\ work'[c] = "None")
    BY <1>12 DEF detach_finished_worker, tree, durable
  <2>2. job'[t] = Idle /\ Idle.at = "Idle" /\ \A s \in Thread \ {t} : job'[s] = job[s]
    BY <1>1, <2>1 DEF Idle
  <2>3. \A d \in Child : turn[d] => row[wake[d]].claimed /\ work'[d] \in Owning
    BY <2>1 DEF MInv, Mail, TurnOwned, Owning
  <2>4. QuietStep
    BY <2>1, <2>2, <2>3 DEF QuietStep, Mailing, MInv, Mail, Stored
  <2> QED BY <2>1, <2>4, SameRows, QuietKeepsMail DEF Removes
<1> QED
  BY <1>2, <1>3, <1>4, <1>5, <1>6, <1>8, <1>9, <1>10, <1>11, <1>12 DEF Section

LEMMA ToolMail ==
    ASSUME MInv, LInv', NEW t \in Thread, NEW c \in Child, Tool(t, c)
    PROVE  Mail'
<1>1. CASE capture_interrupt_target(t, c)
  <2>1. /\ job[t].at # "MailEnqueue"
        /\ UNCHANGED <<mark, box, wake, row, turn, work>>
    BY <1>1 DEF capture_interrupt_target, tree, durable, pool
  <2>2. PICK x : ~Mailing(x) /\ x.at # "Retire" /\ job' = [job EXCEPT ![t] = x]
    BY <1>1 DEF capture_interrupt_target, Mailing
  <2>3. Elsewhere(t)
    BY <2>1, <2>2 DEF Elsewhere, MInv, LInv, Shaped
  <2> QED BY <2>1, <2>3, ElsewhereKeepsMail
<1> QED BY <1>1, SpawnMail, SendBeginMail DEF Tool

(* No section is entered or left and the trigger of c is settled at most.  *)
LEMMA AlongsideKeepsMail ==
    ASSUME MInv, LInv', RowsSettle, UNCHANGED <<job, mark, wake>>, Removes,
           NEW c \in Child, NEW place, Moves(c, place), place # "Resolved",
           turn' \in [Child -> BOOLEAN], \A d \in Child \ {c} : turn'[d] = turn[d],
           turn'[c] => row'[wake[c]].claimed /\ place \in Owning
    PROVE  Mail'
<1>1. work'[c] = place /\ \A d \in Child \ {c} : work'[d] = work[d]
  BY DEF Moves, MInv, LInv, Shaped
<1>2. ASSUME NEW d \in Child \ {c}, turn[d] PROVE row'[wake[d]].claimed /\ work[d] \in Owning
  <2>1. row[wake[d]].claimed /\ work[d] \in Owning /\ Sent(wake[d])
    BY <1>2 DEF MInv, Mail, TurnOwned, Owning, Stored
  <2> QED BY <2>1 DEF RowsSettle, Sent
<1>3. \A d \in Child : turn'[d] => row'[wake[d]].claimed /\ work'[d] \in Owning
  BY <1>1, <1>2
<1>4. QuietStep
  BY <1>1, <1>3 DEF QuietStep
<1> QED BY <1>4, QuietKeepsMail

(* A worker admits its turn, takes in its mail or ends its turn: messages  *)
(* are claimed or settled for good.                                        *)
LEMMA AdmissionRows ==
    ASSUME MInv, NEW c \in Child, admit(c)
    PROVE  RowsSettle /\ row'[wake[c]].claimed
<1> DEFINE i == wake[c]
           x == [row[i] EXCEPT !.claimed = TRUE]
<1>1. HeldByTask(c) /\ Unclaimed(i) /\ row' = [row EXCEPT ![i].claimed = TRUE]
  BY DEF admit, At, HeldByTask, InBody
<1>2. Sent(i) /\ i \in Item /\ row[i] \in Row /\ row \in [Item -> Row]
  BY <1>1, TriggerStored DEF MInv, Mail, Stored
<1>3. /\ x \in Row /\ x.claimed /\ x.st = row[i].st /\ x.to = row[i].to
      /\ x.first = row[i].first
  BY <1>2 DEF Row
<1>4. row' = [row EXCEPT ![i] = x] /\ row'[i] = x
  BY <1>1, <1>2
<1> HIDE DEF i, x
<1>5. RowsSettle
  BY <1>1, <1>2, <1>3, <1>4, SettlesOne DEF Unclaimed
<1> QED BY <1>3, <1>4, <1>5 DEF i

LEMMA DeliveryRows ==
    ASSUME MInv, NEW c \in Child, commit_pending_mailbox_delivery(c)
    PROVE  RowsSettle /\ Removes
<1> DEFINE pending == {j \in Item : row[j].to = c /\ row[j].st = "Pending"}
<1>1. /\ row' = [j \in Item |-> IF j \in pending THEN [row[j] EXCEPT !.st = "Delivered"]
                                ELSE row[j]]
      /\ box' = Without(box, c, pending)
  BY DEF commit_pending_mailbox_delivery
<1>2. \A r \in Row : /\ [r EXCEPT !.st = "Delivered"] \in Row
                     /\ [r EXCEPT !.st = "Delivered"].st = "Delivered"
                     /\ [r EXCEPT !.st = "Delivered"].claimed = r.claimed
                     /\ [r EXCEPT !.st = "Delivered"].to = r.to
                     /\ [r EXCEPT !.st = "Delivered"].first = r.first
  BY DEF Row
<1>3. \A j \in Item : row[j] \in Row
  BY DEF MInv, Mail, Stored
<1>4. \A j \in Item : /\ row'[j] \in Row
                      /\ j \notin pending => row'[j] = row[j]
                      /\ j \in pending => row'[j].st = "Delivered"
                      /\ row'[j].claimed = row[j].claimed
                      /\ row'[j].to = row[j].to
                      /\ row'[j].first = row[j].first
  BY <1>1, <1>2, <1>3
<1>5. \A j \in pending : row[j].st = "Pending"
  OBVIOUS
<1>6. row' \in [Item -> Row]
  BY <1>1, <1>4
<1> HIDE DEF pending
<1>7. RowsSettle
  BY <1>4, <1>5, <1>6 DEF RowsSettle
<1>8. Removes
  BY <1>1, <1>4 DEF Removes, Unclaimed
<1> QED BY <1>7, <1>8

LEMMA TerminalRows ==
    ASSUME MInv, NEW c \in Child, NEW items,
           NEW settled \in {"Delivered", "Discarded"}, Terminal(c, items, settled)
    PROVE  RowsSettle
<1>1. row \in [Item -> Row]
  BY DEF MInv, Mail, Stored
<1>2. row' = [i \in Item |-> IF i \in items /\ row[i].st = "Pending"
                             THEN [row[i] EXCEPT !.st = settled] ELSE row[i]]
  BY DEF Terminal
<1>3. \A i \in Item : \/ row'[i] = row[i]
                      \/ row[i].st = "Pending" /\ row'[i] = [row[i] EXCEPT !.st = settled]
  BY <1>2
<1>4. \A i \in Item : /\ [row[i] EXCEPT !.st = settled] \in Row
                      /\ [row[i] EXCEPT !.st = settled].st = settled
                      /\ [row[i] EXCEPT !.st = settled].claimed = row[i].claimed
                      /\ [row[i] EXCEPT !.st = settled].to = row[i].to
                      /\ [row[i] EXCEPT !.st = settled].first = row[i].first
  BY <1>1 DEF Row
<1>5. row' \in [Item -> Row]
  BY <1>1, <1>2, <1>4
<1> QED BY <1>3, <1>4, <1>5 DEF RowsSettle

LEMMA WorkerMail ==
    ASSUME MInv, LInv', NEW c \in Child, Worker(c)
    PROVE  Mail'
<1>1. LocalIdle /\ HeldByTask(c) /\ "Local" \in Thread
  BY DEF Worker, activate_child_execution, preflight, admit, admit_unavailable,
         mark_execution_admitted, commit_pending_mailbox_delivery, turn_completes, turn_fails,
         turn_stops, finish_turn, At, HeldByTask, InBody, Thread
<1>2. /\ turn \in [Child -> BOOLEAN]
      /\ turn[c] => row[wake[c]].claimed /\ work[c] \in Owning
      /\ Sent(wake[c])
  BY <1>1, TriggerStored DEF MInv, Mail, Stored, TurnOwned, Owning
<1>4. ASSUME NEW place \in {"Preflight", "Admitting"}, Moves(c, place), Quietly, ~turn[c]
      PROVE  Mail'
  BY <1>2, <1>4, SameRows, AlongsideKeepsMail DEF Quietly, tree, durable, Removes
<1>5. ASSUME GivesUp(c), ~turn[c]
      PROVE  Mail'
  <2>1. /\ Moves(c, "Done") /\ UNCHANGED <<mark, box, wake, row, turn>>
    BY <1>5 DEF GivesUp, tree, durable
  <2>2. /\ \A s \in Thread \ {"Local"} : job'[s] = job[s]
        /\ job'["Local"].at = "Settle" /\ job["Local"].at = "Idle"
    BY <1>1, <1>5 DEF GivesUp, LocalIdle, MInv, LInv, Shaped
  <2>3. work'[c] = "Done" /\ \A d \in Child \ {c} : work'[d] = work[d]
    BY <2>1 DEF Moves, MInv, LInv, Shaped
  <2>4. \A d \in Child : turn[d] => row[wake[d]].claimed /\ work'[d] \in Owning
    BY <1>5, <2>3 DEF MInv, Mail, TurnOwned, Owning
  <2>5. QuietStep
    BY <1>2, <2>1, <2>2, <2>3, <2>4 DEF QuietStep, Mailing
  <2> QED BY <2>1, <2>5, SameRows, QuietKeepsMail DEF Removes
<1>6. CASE activate_child_execution(c) \/ preflight(c) \/ admit_unavailable(c)
  <2>1. ~turn[c]
    BY <1>2, <1>6 DEF activate_child_execution, preflight, admit_unavailable, At, Owning
  <2> QED BY <1>4, <1>5, <1>6, <2>1
          DEF activate_child_execution, preflight, admit_unavailable
<1>7. CASE admit(c)
  <2>1. /\ turn' = [turn EXCEPT ![c] = TRUE] /\ Moves(c, "Admitted")
        /\ UNCHANGED <<mark, wake, box, job>>
    BY <1>7 DEF admit, tree
  <2>2. RowsSettle /\ row'[wake[c]].claimed
    BY <1>7, AdmissionRows
  <2>3. turn' \in [Child -> BOOLEAN] /\ \A d \in Child \ {c} : turn'[d] = turn[d]
    BY <1>2, <2>1
  <2>4. "Admitted" \in Owning
    BY DEF Owning
  <2> QED BY <2>1, <2>2, <2>3, <2>4, AlongsideKeepsMail DEF Removes
<1>8. CASE commit_pending_mailbox_delivery(c)
  <2>1. Moves(c, "Sampling") /\ UNCHANGED <<mark, wake, turn, job>>
    BY <1>8 DEF commit_pending_mailbox_delivery
  <2>2. RowsSettle /\ Removes
    BY <1>8, DeliveryRows
  <2>3. turn' \in [Child -> BOOLEAN] /\ \A d \in Child \ {c} : turn'[d] = turn[d]
    BY <1>2, <2>1
  <2>4. turn'[c] => row'[wake[c]].claimed /\ "Sampling" \in Owning
    BY <1>2, <2>1, <2>2 DEF RowsSettle, Sent, Owning
  <2> QED BY <2>1, <2>2, <2>3, <2>4, AlongsideKeepsMail
<1>9. ASSUME NEW items, NEW settled \in {"Delivered", "Discarded"}, Terminal(c, items, settled)
      PROVE  Mail'
  <2>1. /\ turn' = [turn EXCEPT ![c] = FALSE] /\ Moves(c, "Finishing")
        /\ UNCHANGED <<mark, wake, box, job>>
    BY <1>9 DEF Terminal
  <2>2. RowsSettle
    BY <1>1, <1>9, TerminalRows
  <2>3. turn' \in [Child -> BOOLEAN] /\ ~turn'[c] /\ \A d \in Child \ {c} : turn'[d] = turn[d]
    BY <1>2, <2>1
  <2> QED BY <2>1, <2>2, <2>3, AlongsideKeepsMail DEF Removes
<1>10. CASE turn_completes(c) \/ turn_fails(c) \/ turn_stops(c)
  BY <1>9, <1>10 DEF turn_completes, turn_fails, turn_stops
<1>11. CASE mark_execution_admitted(c)
  <2> DEFINE S == Chosen(mark, box, reserved)
             st == [status EXCEPT ![c] = "Running"]
  <2>1. /\ ReserveFrom(S, st, mark, ctl, box, reserved)
        /\ job' = [job EXCEPT !["Local"] = Launching(InOrder(S), 0, 0)]
        /\ Moves(c, "Running") /\ UNCHANGED <<row, turn>>
    BY <1>11 DEF mark_execution_admitted, durable
  <2>2. S \in SUBSET Child /\ \A d \in S : ReadyNotices(box, d) # {}
    BY ChosenAreFree, ChosenAreReady
  <2> HIDE DEF S, st
  <2>3. /\ job'["Local"].at \in {"Idle", "Launch"} /\ S \subseteq InHand(job'["Local"])
        /\ \A s \in Thread \ {"Local"} : job'[s] = job[s]
    <3>1. /\ job'["Local"] = Launching(InOrder(S), 0, 0)
          /\ \A s \in Thread \ {"Local"} : job'[s] = job[s]
      BY <1>1, <2>1 DEF MInv, LInv, Shaped
    <3> QED BY <2>2, <3>1, InOrderLists, LaunchingHolds
  <2>4. work'[c] = "Running" /\ \A d \in Child \ {c} : work'[d] = work[d]
    BY <2>1 DEF Moves, MInv, LInv, Shaped
  <2>5. /\ \A d \in Child : turn[d] => work'[d] \in Owning
        /\ \A d \in Child : work'[d] = "Resolved" => work[d] = "Resolved"
    BY <2>4 DEF MInv, Mail, TurnOwned, Owning
  <2>6. box \in Mailboxes /\ \A d \in Child : \A n \in Notices(box, d) : Sent(n.item)
    BY HeldIsSent
  <2>7. job["Local"].at # "MailEnqueue"
    BY <1>1 DEF LocalIdle
  <2>8. PICK k, r : ReserveFrom(S, st, mark, k, box, r)
    BY <2>1
  <2>9. UNCHANGED <<row, turn>>
    BY <2>1
  <2> QED BY <1>1, <2>2, <2>3, <2>5, <2>6, <2>7, <2>8, <2>9, ReservingKeepsMail
<1>12. CASE finish_turn(c)
  <2>1. PICK S : /\ complete_execution(c, S)
                 /\ job' = [job EXCEPT !["Local"] = Launching(InOrder(S), c, mark[c])]
    BY <1>12 DEF finish_turn
  <2>2. /\ Moves(c, "Done") /\ UNCHANGED <<row, turn>> /\ ~turn[c]
    BY <1>2, <1>12 DEF finish_turn, durable, At, Owning
  <2>3. S \in SUBSET Child
    BY <2>1, Ending DEF MInv
  <2>4. /\ job'["Local"].at \in {"Idle", "Launch"} /\ S \subseteq InHand(job'["Local"])
        /\ \A s \in Thread \ {"Local"} : job'[s] = job[s]
    <3>1. /\ job'["Local"] = Launching(InOrder(S), c, mark[c])
          /\ \A s \in Thread \ {"Local"} : job'[s] = job[s]
      BY <1>1, <2>1 DEF MInv, LInv, Shaped
    <3> QED BY <2>3, <3>1, InOrderLists, LaunchingHolds
  <2>5. work'[c] = "Done" /\ \A d \in Child \ {c} : work'[d] = work[d]
    BY <2>2 DEF Moves, MInv, LInv, Shaped
  <2>6. /\ \A d \in Child : turn[d] => work'[d] \in Owning
        /\ \A d \in Child : work'[d] = "Resolved" => work[d] = "Resolved"
    BY <2>2, <2>5 DEF MInv, Mail, TurnOwned, Owning
  <2>7. job["Local"].at # "MailEnqueue" /\ UNCHANGED <<row, turn>>
    BY <1>1, <2>2 DEF LocalIdle
  <2> QED BY <1>1, <2>1, <2>4, <2>6, <2>7, EndingKeepsMail
<1> QED BY <1>6, <1>7, <1>8, <1>10, <1>11, <1>12 DEF Worker


(* A worker is dropped and its turn, if it runs, is the monitor's.         *)
LEMMA DroppingKeepsTurns ==
    ASSUME MInv, NEW p, Dropped(p)
    PROVE  /\ \A c \in Child : turn[c] => work'[c] \in Owning
           /\ \A c \in Child : work'[c] = "Resolved" => work[c] = "Resolved"
<1>1. \A c \in Child : work'[c] = work[c] \/ work'[c] = "Aborted"
  BY DEF Dropped, MInv, LInv, Shaped
<1> QED BY <1>1 DEF MInv, Mail, TurnOwned, Owning

(* The hard abort settles the trigger of the execution at most.            *)
LEMMA AbortRows ==
    ASSUME MInv, NEW c \in Child, settle_hard_aborted_worker(c)
    PROVE  RowsSettle
<1> DEFINE i == wake[c]
           applies == turn[c] \/ Unclaimed(i)
           x == [row[i] EXCEPT !.claimed = TRUE, !.st = IF @ = "Pending" THEN "Discarded" ELSE @]
<1>1. /\ HeldByTask(c)
      /\ row' = IF applies
                THEN [row EXCEPT ![i].claimed = TRUE,
                                 ![i].st = IF @ = "Pending" THEN "Discarded" ELSE @]
                ELSE row
  BY DEF settle_hard_aborted_worker, At, HeldByTask
<1>2. Sent(i) /\ i \in Item /\ row[i] \in Row /\ row \in [Item -> Row]
  BY <1>1, TriggerStored DEF MInv, Mail, Stored
<1>3. \A r \in Row :
        LET y == [r EXCEPT !.claimed = TRUE, !.st = IF @ = "Pending" THEN "Discarded" ELSE @]
        IN  /\ y \in Row /\ y.claimed /\ y.to = r.to /\ y.first = r.first
            /\ y.st # "Pending" /\ (y.st = r.st \/ y.st = "Discarded")
  BY DEF Row
<1>4. /\ x \in Row /\ x.claimed /\ x.to = row[i].to /\ x.first = row[i].first
      /\ x.st # "Pending" /\ (x.st = row[i].st \/ x.st = "Discarded")
  BY <1>2, <1>3
<1>5. row' = IF applies THEN [row EXCEPT ![i] = x] ELSE row
  BY <1>1, <1>2
<1> HIDE DEF i, x, applies
<1>6. x.st # "Unsent"
  BY <1>2, <1>4 DEF Sent
<1>7. CASE applies
  BY <1>2, <1>4, <1>5, <1>6, <1>7, SettlesOne
<1>8. CASE ~applies
  BY <1>5, <1>8, SameRows
<1> QED BY <1>7, <1>8

LEMMA AbortedMail ==
    ASSUME MInv, LInv', NEW c \in Child, settle_hard_aborted_worker(c)
    PROVE  Mail'
<1> DEFINE i == wake[c]
           applies == turn[c] \/ Unclaimed(i)
           place == IF applies \/ row[i].claimed THEN "Interrupted" ELSE "Resolved"
<1>1. /\ turn' = [turn EXCEPT ![c] = FALSE]
      /\ ~applies => UNCHANGED row
      /\ Moves(c, place)
      /\ UNCHANGED <<mark, wake, box, job>>
  BY DEF settle_hard_aborted_worker, tree
<1>2. turn' \in [Child -> BOOLEAN] /\ ~turn'[c] /\ \A d \in Child \ {c} : turn'[d] = turn[d]
  BY <1>1 DEF MInv, Mail, Stored
<1>3. RowsSettle
  BY AbortRows
<1>4. CASE place = "Interrupted"
  <2>1. place # "Resolved" /\ Moves(c, place)
    BY <1>1, <1>4
  <2> HIDE DEF place, i, applies
  <2> QED BY <1>1, <1>2, <1>3, <2>1, AlongsideKeepsMail DEF Removes
<1>5. CASE ~applies /\ ~row[i].claimed
  <2>1. /\ UNCHANGED <<row, turn>>
        /\ ~Unclaimed(i) /\ ~turn[c]
    <3>1. ~turn[c] /\ ~Unclaimed(i)
      BY <1>5
    <3>2. turn' = turn
      BY <1>1, <3>1 DEF MInv, Mail, Stored
    <3> QED BY <1>1, <1>5, <3>1, <3>2
  <2>2. work'[c] = place /\ \A d \in Child \ {c} : work'[d] = work[d]
    BY <1>1 DEF Moves, MInv, LInv, Shaped
  <2>3. \A d \in Child : turn[d] => row[wake[d]].claimed /\ work'[d] \in Owning
    BY <2>1, <2>2 DEF MInv, Mail, TurnOwned, Owning
  <2>4. ~(row'[i].st = "Pending" /\ ~row'[i].claimed)
    BY <2>1 DEF Unclaimed
  <2>5. QuietStep
    BY <1>1, <1>2, <2>1, <2>2, <2>3, <2>4 DEF QuietStep
  <2> QED BY <1>1, <1>3, <2>5, QuietKeepsMail DEF Removes
<1> QED BY <1>4, <1>5

LEMMA MonitorMail ==
    ASSUME MInv, LInv', Monitor
    PROVE  Mail'
<1>1. "Local" \in Thread
  BY DEF Thread
<1>2. CASE \/ \E batch \in monitors : take_captured_workers(batch)
           \/ \E p \in taken : abort_worker(p)
  <2>1. UNCHANGED <<mark, box, wake, row, turn, job>>
    BY <1>2 DEF take_captured_workers, abort_worker, tree, durable
  <2>2. UNCHANGED work \/ \E p : Dropped(p)
    BY <1>2 DEF take_captured_workers, abort_worker
  <2>3. /\ \A c \in Child : turn[c] => work'[c] \in Owning
        /\ \A c \in Child : work'[c] = "Resolved" => work[c] = "Resolved"
    BY <2>2, TurnStays, DroppingKeepsTurns
  <2>4. \A c \in Child : turn[c] => row[wake[c]].claimed
    BY DEF MInv, Mail, TurnOwned
  <2>5. QuietStep
    BY <2>1, <2>3, <2>4 DEF QuietStep, MInv, Mail, Stored
  <2> QED BY <2>1, <2>5, SameRows, QuietKeepsMail DEF Removes
<1>3. ASSUME NEW c \in Child, monitor_finish(c)
      PROVE  Mail'
  <2>1. /\ LocalIdle /\ HeldByTask(c) /\ work[c] \notin Owning
        /\ Moves(c, "None") /\ UNCHANGED <<row, turn>>
    BY <1>3 DEF monitor_finish, At, HeldByTask, Owning, durable
  <2>2. PICK S : /\ \/ complete_execution(c, S)
                    \/ retire_resolved_wake_execution(c, S) /\ ~Unclaimed(wake[c])
                 /\ job' = [job EXCEPT !["Local"] = Launching(InOrder(S), 0, 0)]
    BY <1>3 DEF monitor_finish, At, MInv, Mail, Retired
  <2>3. S \in SUBSET Child
    BY <2>2, Ending DEF MInv
  <2>4. /\ job'["Local"].at \in {"Idle", "Launch"} /\ S \subseteq InHand(job'["Local"])
        /\ \A s \in Thread \ {"Local"} : job'[s] = job[s]
    <3>1. /\ job'["Local"] = Launching(InOrder(S), 0, 0)
          /\ \A s \in Thread \ {"Local"} : job'[s] = job[s]
      BY <1>1, <2>2 DEF MInv, LInv, Shaped
    <3> QED BY <2>3, <3>1, InOrderLists, LaunchingHolds
  <2>5. work'[c] = "None" /\ \A d \in Child \ {c} : work'[d] = work[d]
    BY <2>1 DEF Moves, MInv, LInv, Shaped
  <2>6. /\ \A d \in Child : turn[d] => work'[d] \in Owning
        /\ \A d \in Child : work'[d] = "Resolved" => work[d] = "Resolved"
    BY <2>1, <2>5 DEF MInv, Mail, TurnOwned, Owning
  <2>7. job["Local"].at # "MailEnqueue" /\ UNCHANGED <<row, turn>>
    BY <2>1 DEF LocalIdle
  <2> QED BY <1>1, <2>2, <2>4, <2>6, <2>7, EndingKeepsMail
<1> QED BY <1>2, <1>3, AbortedMail DEF Monitor

LEMMA MInit ==
    ASSUME Init
    PROVE  MInv
<1>1. Stored
  BY DEF Init, Stored, Row, Sent
<1>2. \A t \in Thread : InFlight(job[t])
  BY DEF Init, InFlight, Idle
<1>3. TurnOwned /\ Retired
  BY DEF Init, TurnOwned, Retired, Idle
<1>4. FollowUpKept
  BY DEF Init, FollowUpKept
<1> QED BY <1>1, <1>2, <1>3, <1>4, LInit DEF MInv, Mail

LEMMA MNext ==
    ASSUME MInv, [Next]_vars
    PROVE  MInv'
<1>1. LInv'
  BY LNext DEF MInv
<1>2. CASE UNCHANGED vars
  <2>1. UNCHANGED <<mark, box, wake, row, turn, work, job>>
    BY <1>2 DEF vars, tree, durable, pool
  <2>2. QuietStep
    BY <2>1, TurnStays DEF QuietStep, MInv, Mail, Stored
  <2> QED BY <1>1, <2>1, <2>2, SameRows, QuietKeepsMail DEF Removes, MInv
<1>3. CASE Next
  BY <1>1, <1>3, SectionMail, ToolMail, WorkerMail, MonitorMail DEF Next, MInv
<1> QED BY <1>2, <1>3

(* A durable running turn belongs to an execution whose worker or monitor  *)
(* will end it (finish_agent_turn, settle_hard_aborted_worker): no turn is *)
(* left running without an owner, whatever is aborted, refused or retired. *)
THEOREM TurnsAreOwned == Spec => []TurnOwned
<1>1. MInv => TurnOwned
  BY DEF MInv, Mail
<1> QED BY <1>1, MInit, MNext, PTL DEF Spec

(* A durable follow-up that no turn has claimed is in the live mailbox of  *)
(* its recipient or on its way there: no end of an execution, refused      *)
(* launch or hard abort drops the notice of a message that is still to be  *)
(* run.                                                                    *)
THEOREM FollowUpsAreKept == Spec => []FollowUpKept
<1>1. MInv => FollowUpKept
  BY DEF MInv, Mail
<1> QED BY <1>1, MInit, MNext, PTL DEF Spec

-----------------------------------------------------------------------------
(* Follow-ups of children that have no execution.                          *)

WInv == MInv /\ Wakes

Awaiting == {"Admitted", "Running", "Sampling", "Finishing", "Aborted", "Interrupted"}

Unready(b, c) == \E n \in Notices(b, c) : ~n.ready

LEMMA DormantMeans ==
    ASSUME NEW c
    PROVE  Dormant(c) <=> \/ Unready(box, c)
                          \/ \E t \in Thread : /\ job[t].at = "MailEnqueue"
                                               /\ job[t].to = c /\ ~job[t].ready
BY DEF Dormant, Unready, Notices

LEMMA DormantMeansNext ==
    ASSUME NEW c
    PROVE  Dormant(c)' <=> \/ Unready(box', c)
                           \/ \E t \in Thread : /\ job'[t].at = "MailEnqueue"
                                                /\ job'[t].to = c /\ ~job'[t].ready
BY DEF Dormant, Unready, Notices

(* A child with a dormant follow-up is executed.                           *)
LEMMA DormantIsHeld ==
    ASSUME WInv, NEW c \in Child, Dormant(c)
    PROVE  /\ work[c] \in Awaiting /\ HeldByTask(c) /\ mark[c] # 0
           /\ row[wake[c]].claimed /\ Sent(wake[c])
<1>1. work[c] \in Awaiting /\ row[wake[c]].claimed
  BY DEF WInv, Wakes, Awaited, Awaiting
<1>2. HeldByTask(c)
  BY <1>1 DEF HeldByTask, InBody, Awaiting
<1> QED BY <1>1, <1>2, TriggerStored DEF WInv

(* The claims of stored messages stay.                                     *)
ClaimsStay == \A i : Sent(i) /\ row[i].claimed => row'[i].claimed

LEMMA SettlingKeepsClaims ==
    ASSUME RowsSettle
    PROVE  ClaimsStay
BY DEF RowsSettle, ClaimsStay, Sent

(* Nothing becomes dormant and what is dormant is still awaited.           *)
DormantStays ==
    \A c \in Child : Dormant(c)' =>
        Dormant(c) /\ wake'[c] = wake[c] /\ work'[c] \in Awaiting

LEMMA AwaitedStays ==
    ASSUME WInv, ClaimsStay, DormantStays
    PROVE  Awaited'
<1> SUFFICES ASSUME NEW c \in Child, Dormant(c)'
             PROVE  row'[wake'[c]].claimed /\ work'[c] \in Awaiting
  BY DEF Awaited, Awaiting
<1>1. Dormant(c) /\ wake'[c] = wake[c] /\ work'[c] \in Awaiting
  BY DEF DormantStays
<1>2. row[wake[c]].claimed /\ Sent(wake[c])
  BY <1>1, DormantIsHeld
<1> QED BY <1>1, <1>2 DEF ClaimsStay

(* What a step does about the other parts of Wakes.                        *)
Heeds ==
    /\ \A t \in Thread : job'[t] = job[t] \/ SlotFor(job[t])'
    /\ DeliveryFree \/ \A c \in Child : mark'[c] = 0 => mark[c] = 0
    /\ faults' = faults \/ faults' = faults + 1
    /\ \A t \in Thread : job'[t].at = "Release" => job'[t] = job[t] \/ faults' > 0
    /\ faults' = 0 => \A c \in Child : mark'[c] = 0 => box'[c] = <<>>

LEMMA HeedingKeepsWakes ==
    ASSUME WInv, Awaited', Heeds
    PROVE  Wakes'
<1>1. faults \in Nat /\ faults' \in Nat /\ faults' >= faults
  BY DEF Heeds, WInv, Wakes
<1>2. ASSUME NEW t \in Thread PROVE SlotFor(job[t])'
  <2>1. CASE job'[t] = job[t]
    <3>1. SlotFor(job[t])
      BY DEF WInv, Wakes
    <3>2. CASE ~Mailing(job[t])
      BY <2>1, <3>2 DEF SlotFor, Mailing
    <3>3. CASE Mailing(job[t])
      <4>1. job[t].to \in Child /\ ~DeliveryFree
        BY <3>3 DEF Mailing, DeliveryFree, WInv, MInv, Mail, InFlight
      <4>2. mark'[job[t].to] = 0 => mark[job[t].to] = 0
        BY <4>1 DEF Heeds
      <4> QED BY <2>1, <3>1, <4>2 DEF SlotFor, Mailing
    <3> QED BY <3>2, <3>3
  <2> QED BY <2>1 DEF Heeds
<1>3. ASSUME NEW t \in Thread, job'[t].at = "Release" PROVE faults' > 0
  BY <1>1, <1>3 DEF Heeds, WInv, Wakes
<1>4. NoIdleFollowUp'
  BY DEF Heeds, NoIdleFollowUp
<1> QED BY <1>1, <1>2, <1>3, <1>4 DEF Wakes

-----------------------------------------------------------------------------
(* Steps without the scheduler.                                            *)

(* Executions and triggers stay, mailboxes of executed children lose at    *)
(* most notices, and nobody leaves a dormant follow-up.                    *)
Calm ==
    /\ UNCHANGED <<mark, wake>>
    /\ \A c \in Child : \/ box'[c] = box[c]
                        \/ mark[c] # 0 /\ Notices(box', c) \subseteq Notices(box, c)
    /\ \A c \in Child : work[c] \in Awaiting /\ row[wake[c]].claimed => work'[c] \in Awaiting
    /\ \A t \in Thread : job'[t] = job[t] \/ ~Mailing(job'[t])
    /\ faults' = faults \/ faults' = faults + 1
    /\ \A t \in Thread : job'[t].at = "Release" => job'[t] = job[t] \/ faults' > 0

LEMMA CalmKeepsWakes ==
    ASSUME WInv, RowsSettle, Calm
    PROVE  Wakes'
<1>1. \A c \in Child : Notices(box', c) \subseteq Notices(box, c)
  BY DEF Calm, Notices
<1>2. ASSUME NEW c \in Child, Dormant(c)'
      PROVE  Dormant(c) /\ wake'[c] = wake[c] /\ work'[c] \in Awaiting
  <2>1. Dormant(c)
    BY <1>1, <1>2, DormantMeans, DormantMeansNext DEF Calm, Mailing, Unready
  <2> QED BY <2>1, DormantIsHeld DEF Calm
<1>3. Awaited'
  BY <1>2, SettlingKeepsClaims, AwaitedStays DEF DormantStays
<1>4. \A t \in Thread : job'[t] = job[t] \/ SlotFor(job[t])'
  BY DEF Calm, SlotFor, Mailing
<1>5. faults' = 0 => \A c \in Child : mark'[c] = 0 => box'[c] = <<>>
  BY DEF Calm, WInv, Wakes, NoIdleFollowUp
<1>6. Heeds
  BY <1>4, <1>5 DEF Heeds, Calm
<1> QED BY <1>3, <1>6, HeedingKeepsWakes

-----------------------------------------------------------------------------
(* The scheduler wakes whom it should.                                     *)

(* The only candidate is chosen when there is room for one.                *)
LEMMA OnlyCandidateIsChosen ==
    ASSUME NEW m, NEW b, NEW r, NEW c \in Child, m[c] = 0, ReadyNotices(b, c) # {},
           \A d \in Child \ {c} : m[d] = 0 => ReadyNotices(b, d) = {},
           ActiveCount(m, r) + 1 <= Capacity
    PROVE  c \in Chosen(m, b, r)
<1> DEFINE candidates == {d \in Child : m[d] = 0 /\ ReadyNotices(b, d) # {}}
<1>1. candidates = {c}
  OBVIOUS
<1>2. {d \in candidates : d <= c} = {c}
  BY <1>1, ChildrenAssumption DEF Child
<1>3. Cardinality({d \in candidates : d <= c}) = 1
  BY <1>2, FS_Singleton
<1> QED BY <1>1, <1>3 DEF Chosen

(* An execution that ends leaves room for one.                             *)
LEMMA EndingLeavesRoom ==
    ASSUME CapInv, NEW c \in Child, mark[c] # 0
    PROVE  ActiveCount([mark EXCEPT ![c] = 0], reserved) + 1 <= Capacity
<1> DEFINE m == [mark EXCEPT ![c] = 0]
<1>1. Executing(m) = Executing(mark) \ {c} /\ c \in Executing(mark)
  BY DEF CapInv, Executing
<1> HIDE DEF m
<1>2. Cardinality(Executing(m)) = Cardinality(Executing(mark)) - 1
  BY <1>1, ExecutingFinite, FS_RemoveElement
<1>3. ActiveCount(mark, reserved) <= Capacity /\ reserved \in Nat
  BY ReservedIsNat
<1> QED BY <1>2, <1>3, ExecutingFinite, CapacityAssumption DEF ActiveCount, m

(* A mailbox in which every notice is ready has a ready one or is empty.   *)
LEMMA ReadyOrEmpty ==
    ASSUME NEW b \in Mailboxes, NEW c \in Child, ~Unready(b, c), b[c] # <<>>
    PROVE  ReadyNotices(b, c) # {}
<1>1. b[c] \in Seq(Notice) /\ Len(b[c]) \in Nat /\ Len(b[c]) # 0
  BY NoticesTyped
<1>2. 1 \in 1 .. Len(b[c]) /\ b[c][1].ready
  BY <1>1 DEF Unready, Notices
<1> QED BY <1>2 DEF ReadyNotices

LEMMA EmptyHasNoneReady ==
    ASSUME NEW b, NEW c, b[c] = <<>>
    PROVE  ReadyNotices(b, c) = {}
BY DEF ReadyNotices

(* The scheduler runs on mailboxes b; c alone may have lost its execution  *)
(* or got mail.                                                            *)
LEMMA NobodyIsLeftIdle ==
    ASSUME WInv, faults = 0, NEW c \in Child, NEW m, NEW b \in Mailboxes, NEW r, NEW S,
           NEW st, NEW k, ReserveFrom(S, st, m, k, b, r),
           \A d \in Child \ {c} : b[d] = box[d] /\ m[d] = mark[d],
           m[c] = 0 => /\ S = Chosen(m, b, r)
                       /\ ~Unready(b, c)
                       /\ ActiveCount(m, r) + 1 <= Capacity
    PROVE  \A d \in Child : mark'[d] = 0 => box'[d] = <<>>
<1>1. \A d \in Child : mark[d] = 0 => box[d] = <<>>
  BY DEF WInv, Wakes, NoIdleFollowUp
<1>2. /\ box' = b
      /\ \A d \in Child : mark'[d] = IF d \in S THEN gen[d] + 1 ELSE m[d]
      /\ \A d \in Child : gen[d] + 1 # 0
  BY DEF ReserveFrom, WInv, MInv, LInv, CapInv
<1>3. m[c] = 0 /\ b[c] # <<>> => c \in S
  <2> SUFFICES ASSUME m[c] = 0, b[c] # <<>> PROVE c \in S
    OBVIOUS
  <2>1. ReadyNotices(b, c) # {}
    BY ReadyOrEmpty
  <2>2. \A d \in Child \ {c} : m[d] = 0 => ReadyNotices(b, d) = {}
    BY <1>1, EmptyHasNoneReady
  <2> QED BY <2>1, <2>2, OnlyCandidateIsChosen
<1> QED BY <1>1, <1>2, <1>3

(* What a section that delivers nothing leaves to be said.                 *)
LEMMA OutsideDeliveries ==
    ASSUME NEW t \in Thread, job'[t].at \in {"Idle", "Launch"},
           \A s \in Thread \ {t} : job'[s] = job[s]
    PROVE  /\ \A s \in Thread : job'[s] = job[s] \/ SlotFor(job[s])'
           /\ \A s \in Thread : job'[s].at = "Release" => job'[s] = job[s]
           /\ \A s \in Thread : job'[s].at = "MailEnqueue" => job'[s] = job[s]
BY DEF SlotFor, Mailing

(* An execution ends; if its follow-ups are not made ready, none is        *)
(* dormant.                                                                *)
LEMMA EndingKeepsWakes ==
    ASSUME WInv, UNCHANGED <<row, faults>>,
           NEW t \in Thread, NEW c \in Child, mark[c] # 0, NEW S,
           complete_execution(c, S) \/ (retire_resolved_wake_execution(c, S) /\ ~Dormant(c)),
           job'[t].at \in {"Idle", "Launch"},
           \A s \in Thread \ {t} : job'[s] = job[s],
           \A d \in Child \ {c} : work'[d] = work[d]
    PROVE  Wakes'
<1> DEFINE m == [mark EXCEPT ![c] = 0]
<1>1. DeliveryFree
  BY DEF complete_execution, retire_resolved_wake_execution
<1>2. box \in Mailboxes /\ mark \in [Child -> Nat]
  BY HeldIsSent DEF WInv, MInv, LInv, CapInv
<1>3. PICK st, k, b :
        /\ S = Chosen(m, b, reserved) /\ ReserveFrom(S, st, m, k, b, reserved)
        /\ b \in Mailboxes /\ ~Unready(b, c) /\ \A d \in Child \ {c} : b[d] = box[d]
  <2>1. CASE complete_execution(c, S)
    <3> DEFINE b == Promoted(box, c)
    <3>1. /\ S = Chosen(m, b, reserved)
          /\ ReserveFrom(S, [status EXCEPT ![c] = "Inactive"], m, ctl, b, reserved)
      BY <2>1 DEF complete_execution
    <3>2. /\ b \in Mailboxes /\ \A d \in Child \ {c} : b[d] = box[d]
          /\ Len(b[c]) = Len(box[c]) /\ \A k \in 1 .. Len(box[c]) : b[c][k].ready
      BY <1>2, PromotedNotices
    <3> HIDE DEF b, m
    <3>3. ~Unready(b, c)
      BY <3>2 DEF Unready, Notices
    <3> QED BY <3>1, <3>2, <3>3
  <2>2. CASE retire_resolved_wake_execution(c, S) /\ ~Dormant(c)
    <3> DEFINE b == Without(box, c, {wake[c]})
    <3>1. /\ S = Chosen(m, b, reserved)
          /\ ReserveFrom(S, [status EXCEPT ![c] = "Inactive"], m, Superseded(c), b, reserved)
      BY <2>2 DEF retire_resolved_wake_execution
    <3>2. /\ b \in Mailboxes /\ \A d \in Child \ {c} : b[d] = box[d]
          /\ Notices(b, c) \subseteq Notices(box, c)
      BY <1>2, WithoutNotices
    <3> HIDE DEF b, m
    <3>3. ~Unready(b, c)
      BY <2>2, <3>2, DormantMeans DEF Unready
    <3> QED BY <3>1, <3>2, <3>3
  <2> QED BY <2>1, <2>2
<1>4. m[c] = 0 /\ \A d \in Child \ {c} : m[d] = mark[d]
  BY <1>2
<1>5. ActiveCount(m, reserved) + 1 <= Capacity
  BY EndingLeavesRoom DEF WInv, MInv, LInv
<1> HIDE DEF m
<1>6. box' = b /\ \A d \in Child : d \notin S => wake'[d] = wake[d]
  BY <1>3 DEF ReserveFrom
<1>7. \A s \in Thread : job'[s].at # "MailEnqueue"
  BY <1>1 DEF DeliveryFree
<1>8. ASSUME NEW d \in Child, Dormant(d)'
      PROVE  Dormant(d) /\ wake'[d] = wake[d] /\ work'[d] \in Awaiting
  <2>1. Unready(b, d) /\ d # c
    BY <1>3, <1>6, <1>7, <1>8, DormantMeansNext
  <2>2. Dormant(d)
    BY <1>3, <2>1, DormantMeans DEF Unready, Notices
  <2>3. work[d] \in Awaiting /\ mark[d] # 0
    BY <2>2, DormantIsHeld
  <2>4. d \notin S
    BY <1>3, <1>4, <2>1, <2>3, ChosenAreFree
  <2> QED BY <1>6, <2>1, <2>2, <2>3, <2>4
<1>9. Awaited'
  BY <1>8, SameRows, SettlingKeepsClaims, AwaitedStays DEF DormantStays, WInv
<1>10. faults = 0 => \A d \in Child : mark'[d] = 0 => box'[d] = <<>>
  BY <1>3, <1>4, <1>5, NobodyIsLeftIdle
<1>11. Heeds
  BY <1>1, <1>10, OutsideDeliveries DEF Heeds
<1> QED BY <1>9, <1>11, HeedingKeepsWakes

(* The admission of a turn runs the scheduler too.                         *)
LEMMA AdmittedWakes ==
    ASSUME WInv, NEW c \in Child, mark_execution_admitted(c)
    PROVE  Wakes'
<1> DEFINE S == Chosen(mark, box, reserved)
           st == [status EXCEPT ![c] = "Running"]
<1>1. /\ ReserveFrom(S, st, mark, ctl, box, reserved) /\ DeliveryFree
      /\ job' = [job EXCEPT !["Local"] = Launching(InOrder(S), 0, 0)]
      /\ Moves(c, "Running") /\ UNCHANGED <<row, turn, faults>>
      /\ work[c] = "Admitted" /\ "Local" \in Thread
  BY DEF mark_execution_admitted, durable, At, Thread
<1>2. HeldByTask(c)
  BY <1>1 DEF HeldByTask, InBody
<1>3. mark[c] # 0 /\ box \in Mailboxes
  BY <1>2, TriggerStored, HeldIsSent DEF WInv
<1>4. S \in SUBSET Child /\ \A d \in S : mark[d] = 0
  BY ChosenAreFree
<1> HIDE DEF S, st
<1>5. job'["Local"].at \in {"Idle", "Launch"} /\ \A s \in Thread \ {"Local"} : job'[s] = job[s]
  <2>1. /\ job'["Local"] = Launching(InOrder(S), 0, 0)
        /\ \A s \in Thread \ {"Local"} : job'[s] = job[s]
    BY <1>1 DEF WInv, MInv, LInv, Shaped
  <2> QED BY <1>4, <2>1, InOrderLists, LaunchingHolds
<1>6. /\ box' = box /\ \A d \in Child : d \notin S => wake'[d] = wake[d]
      /\ \A d \in Child : mark'[d] = IF d \in S THEN gen[d] + 1 ELSE mark[d]
  BY <1>1 DEF ReserveFrom
<1>7. work'[c] = "Running" /\ \A d \in Child \ {c} : work'[d] = work[d]
  BY <1>1 DEF Moves, WInv, MInv, LInv, Shaped
<1>8. ASSUME NEW d \in Child, Dormant(d)'
      PROVE  Dormant(d) /\ wake'[d] = wake[d] /\ work'[d] \in Awaiting
  <2>1. Dormant(d)
    BY <1>5, <1>6, <1>8, DormantMeans, DormantMeansNext, OutsideDeliveries, <1>1
  <2>2. work[d] \in Awaiting /\ mark[d] # 0
    BY <2>1, DormantIsHeld
  <2> QED BY <1>4, <1>6, <1>7, <2>1, <2>2 DEF Awaiting
<1>9. Awaited'
  BY <1>1, <1>8, SameRows, SettlingKeepsClaims, AwaitedStays DEF DormantStays, WInv
<1>10. \A d \in Child : gen[d] + 1 # 0
  BY DEF WInv, MInv, LInv, CapInv
<1>11. faults = 0 => \A d \in Child : mark'[d] = 0 => box'[d] = <<>>
  BY <1>6, <1>10 DEF WInv, Wakes, NoIdleFollowUp
<1>12. Heeds
  BY <1>1, <1>5, <1>11, OutsideDeliveries DEF Heeds
<1> QED BY <1>9, <1>12, HeedingKeepsWakes

LEMMA SendEnqueueWakes ==
    ASSUME WInv, NEW t \in Thread, SendEnqueue(t)
    PROVE  Wakes'
<1> DEFINE c == job[t].to
           n == [item |-> job[t].item, ready |-> job[t].ready]
           mail == [box EXCEPT ![c] = Append(@, n)]
           S == IF job[t].ready THEN Chosen(mark, mail, GiveBack(t)) ELSE {}
<1>1. /\ ReserveFrom(S, status, mark, ctl, mail, GiveBack(t))
      /\ job' = [job EXCEPT ![t] = Launching(InOrder(S), 0, 0)]
      /\ UNCHANGED <<row, turn, work, faults>> /\ job[t].at = "MailEnqueue"
  BY DEF SendEnqueue, pool, durable
<1>2. /\ c \in Child /\ n \in Notice /\ n.ready = job[t].ready
  BY <1>1 DEF WInv, MInv, Mail, InFlight, Notice, Sent
<1>3. box \in Mailboxes
  BY <1>2, HeldIsSent DEF WInv
<1>4. S \in SUBSET Child /\ \A d \in S : mark[d] = 0
  BY ChosenAreFree
<1>5. job[t].ready => S = Chosen(mark, mail, GiveBack(t))
  OBVIOUS
<1> HIDE DEF S, n
<1>6. /\ mail = [d \in Child |-> mail[d]] /\ mail[c] = Append(box[c], n)
      /\ \A d \in Child \ {c} : mail[d] = box[d]
  BY <1>2, <1>3 DEF Mailboxes
<1> HIDE DEF mail, c
<1>7. /\ mail \in Mailboxes
      /\ Notices(mail, c) = Notices(box, c) \cup {n}
      /\ \A d \in Child \ {c} : mail[d] = box[d]
  BY <1>2, <1>3, <1>6, AppendedNotices
<1>8. job'[t].at \in {"Idle", "Launch"} /\ \A s \in Thread \ {t} : job'[s] = job[s]
  <2>1. /\ job'[t] = Launching(InOrder(S), 0, 0)
        /\ \A s \in Thread \ {t} : job'[s] = job[s]
    BY <1>1 DEF WInv, MInv, LInv, Shaped
  <2> QED BY <1>4, <2>1, InOrderLists, LaunchingHolds
<1>9. /\ box' = mail /\ \A d \in Child : d \notin S => wake'[d] = wake[d]
      /\ \A d \in Child : mark'[d] = IF d \in S THEN gen[d] + 1 ELSE mark[d]
      /\ \A d \in Child : gen[d] + 1 # 0
  BY <1>1 DEF ReserveFrom, WInv, MInv, LInv, CapInv
<1>10. ASSUME NEW d \in Child, Dormant(d)'
       PROVE  Dormant(d) /\ wake'[d] = wake[d] /\ work'[d] \in Awaiting
  <2>1. \/ Unready(mail, d)
        \/ \E s \in Thread : job[s].at = "MailEnqueue" /\ job[s].to = d /\ ~job[s].ready
    BY <1>8, <1>9, <1>10, DormantMeansNext
  <2>2. Unready(mail, d) => Unready(box, d) \/ (d = c /\ ~job[t].ready)
    BY <1>2, <1>7 DEF Unready, Notices
  <2>3. Dormant(d)
    BY <1>1, <2>1, <2>2, DormantMeans DEF c
  <2>4. work[d] \in Awaiting /\ mark[d] # 0
    BY <2>3, DormantIsHeld
  <2> QED BY <1>1, <1>4, <1>9, <2>3, <2>4
<1>11. Awaited'
  BY <1>1, <1>10, SameRows, SettlingKeepsClaims, AwaitedStays DEF DormantStays, WInv
<1>12. mark[c] = 0 => /\ S = Chosen(mark, mail, GiveBack(t))
                      /\ ~Unready(mail, c)
                      /\ ActiveCount(mark, GiveBack(t)) + 1 <= Capacity
  <2> SUFFICES ASSUME mark[c] = 0
               PROVE  /\ S = Chosen(mark, mail, GiveBack(t))
                      /\ ~Unready(mail, c)
                      /\ ActiveCount(mark, GiveBack(t)) + 1 <= Capacity
    OBVIOUS
  <2>1. job[t].slot /\ job[t].ready
    BY <1>1 DEF WInv, Wakes, SlotFor, Mailing, c
  <2>2. ~Dormant(c)
    BY <1>2, DormantIsHeld
  <2>3. ~Unready(mail, c)
    BY <1>2, <1>7, <2>1, <2>2, DormantMeans DEF Unready
  <2>4. reserved = 1 /\ GiveBack(t) = 0
    BY <1>1, <2>1, GivingBack DEF WInv, MInv, LInv, CapInv, Fenced, SlotHeld, Mailing
  <2>5. ActiveCount(mark, 1) <= Capacity
    BY <2>4, ReservedIsNat DEF WInv, MInv, LInv
  <2>6. ActiveCount(mark, 0) + 1 <= Capacity
    BY <2>5, ExecutingFinite DEF ActiveCount
  <2> QED BY <1>5, <2>1, <2>3, <2>4, <2>6
<1>13. faults = 0 => \A d \in Child : mark'[d] = 0 => box'[d] = <<>>
  <2>1. PICK k, r : r = GiveBack(t) /\ ReserveFrom(S, status, mark, k, mail, r)
    BY <1>1
  <2> QED BY <1>2, <1>7, <1>12, <2>1, NobodyIsLeftIdle
<1>14. \A d \in Child : mark'[d] = 0 => mark[d] = 0
  BY <1>9
<1>15. Heeds
  BY <1>1, <1>8, <1>13, <1>14, OutsideDeliveries DEF Heeds
<1> QED BY <1>11, <1>15, HeedingKeepsWakes

-----------------------------------------------------------------------------
(* Every step keeps follow-ups awake.                                      *)

(* A message gets a row that was free.                                     *)
LEMMA StoringKeepsClaims ==
    ASSUME WInv, NEW i, row[i].st = "Unsent", NEW x, row' = [row EXCEPT ![i] = x]
    PROVE  ClaimsStay
<1>1. \A j \in Item : j # i => row'[j] = row[j]
  BY DEF WInv, MInv, Mail, Stored
<1> QED BY <1>1 DEF ClaimsStay, Sent

LEMMA SpawnWakes ==
    ASSUME WInv, NEW t \in Thread, NEW c \in Child, spawn_agent(t, c)
    PROVE  Wakes'
<1> DEFINE i == NextItem
<1>1. /\ job[t].at = "Idle" /\ status[c] = "Unborn"
      /\ mark' = [mark EXCEPT ![c] = gen[c] + 1] /\ wake' = [wake EXCEPT ![c] = i]
      /\ row' = [row EXCEPT ![i] = Message(c, TRUE)]
      /\ job' = [job EXCEPT ![t] = Launching(<<c>>, 0, 0)]
      /\ UNCHANGED <<box, turn, work, faults>>
  BY DEF spawn_agent, NextChild, pool
<1>2. row[i].st = "Unsent"
  BY NextIsFresh DEF spawn_agent
<1>3. ClaimsStay
  <2> DEFINE x == Message(c, TRUE)
  <2>1. row' = [row EXCEPT ![i] = x]
    BY <1>1
  <2> HIDE DEF i, x
  <2> QED BY <1>2, <2>1, StoringKeepsClaims
<1> HIDE DEF i
<1>4. mark[c] = 0 /\ mark'[c] # 0 /\ \A d \in Child \ {c} : mark'[d] = mark[d]
  BY <1>1 DEF WInv, MInv, LInv, Leased, CapInv
<1>5. \A d \in Child \ {c} : wake'[d] = wake[d]
  BY <1>1 DEF WInv, MInv, Mail, Stored
<1>6. /\ \A s \in Thread \ {t} : job'[s] = job[s]
      /\ job'[t].at \in {"Idle", "Launch"}
  BY <1>1 DEF WInv, MInv, LInv, Shaped, Launching, Idle
<1>7. ASSUME NEW d \in Child, Dormant(d)'
      PROVE  Dormant(d) /\ wake'[d] = wake[d] /\ work'[d] \in Awaiting
  <2>1. Dormant(d)
    BY <1>1, <1>6, <1>7, DormantMeans, DormantMeansNext
  <2>2. work[d] \in Awaiting /\ d # c
    BY <1>4, <2>1, DormantIsHeld
  <2> QED BY <1>1, <1>5, <2>1, <2>2
<1>8. Awaited'
  BY <1>3, <1>7, AwaitedStays DEF DormantStays
<1>9. faults = 0 => \A d \in Child : mark'[d] = 0 => box'[d] = <<>>
  BY <1>1, <1>4 DEF WInv, Wakes, NoIdleFollowUp
<1>10. Heeds
  BY <1>1, <1>4, <1>6, <1>9, OutsideDeliveries DEF Heeds
<1> QED BY <1>8, <1>10, HeedingKeepsWakes

LEMMA SendBeginWakes ==
    ASSUME WInv, NEW t \in Thread, NEW c \in Child, SendBegin(t, c)
    PROVE  Wakes'
<1> DEFINE newSlot == mark[c] = 0
           granted == ~newSlot \/ ActiveCount(mark, reserved) < Capacity
           x == [at |-> "MailCommit", to |-> c, item |-> NextItem,
                 granted |-> granted, slot |-> newSlot /\ granted]
<1>1. /\ job' = [job EXCEPT ![t] = x]
      /\ UNCHANGED <<mark, box, wake, row, turn, work, faults>>
  BY DEF SendBegin, durable, pool
<1>2. x.at = "MailCommit" /\ x.to = c /\ (mark[c] = 0 => x.slot = x.granted)
  OBVIOUS
<1> HIDE DEF x
<1>3. job'[t] = x /\ \A s \in Thread \ {t} : job'[s] = job[s]
  BY <1>1 DEF WInv, MInv, LInv, Shaped
<1>4. ASSUME NEW d \in Child, Dormant(d)'
      PROVE  Dormant(d) /\ wake'[d] = wake[d] /\ work'[d] \in Awaiting
  <2>1. Dormant(d)
    BY <1>1, <1>2, <1>3, <1>4, DormantMeans, DormantMeansNext
  <2> QED BY <1>1, <2>1, DormantIsHeld
<1>5. Awaited'
  BY <1>1, <1>4, SameRows, SettlingKeepsClaims, AwaitedStays DEF DormantStays, WInv
<1>6. SlotFor(job[t])'
  BY <1>1, <1>2, <1>3 DEF SlotFor
<1>7. Heeds
  BY <1>1, <1>2, <1>3, <1>6 DEF Heeds, WInv, Wakes, NoIdleFollowUp
<1> QED BY <1>5, <1>7, HeedingKeepsWakes

(* The message waits for the end of a turn that runs, and the turn has an  *)
(* owner.                                                                  *)
LEMMA SendCommitWakes ==
    ASSUME WInv, NEW t \in Thread, SendCommit(t)
    PROVE  Wakes'
<1> DEFINE c == job[t].to
           i == job[t].item
           x == [at |-> "MailEnqueue", to |-> c, item |-> i, slot |-> job[t].slot,
                 ready |-> ~turn[c]]
<1>1. /\ job[t].at = "MailCommit" /\ (~turn[c] => job[t].granted)
      /\ row' = [row EXCEPT ![i] = Message(c, FALSE)]
      /\ UNCHANGED <<mark, wake, box, turn, work, faults>>
  BY DEF SendCommit, tree, pool
<1>2. job'[t] = x /\ \A s \in Thread \ {t} : job'[s] = job[s]
  BY DEF SendCommit, WInv, MInv, LInv, Shaped
<1>3. row[i].st = "Unsent" /\ c \in Child /\ job[t].granted \in BOOLEAN
  BY <1>1 DEF WInv, MInv, Mail, InFlight
<1>4. x.at = "MailEnqueue" /\ x.to = c /\ x.slot = job[t].slot /\ (x.ready <=> ~turn[c])
  OBVIOUS
<1>5. ClaimsStay
  <2> DEFINE y == Message(c, FALSE)
  <2>1. row' = [row EXCEPT ![i] = y]
    BY <1>1
  <2> HIDE DEF i, y
  <2> QED BY <1>3, <2>1, StoringKeepsClaims
<1> HIDE DEF c, i, x
<1>6. ASSUME NEW d \in Child, Dormant(d)'
      PROVE  row'[wake'[d]].claimed /\ work'[d] \in Awaiting
  <2>1. Dormant(d) \/ (d = c /\ turn[c])
    BY <1>1, <1>2, <1>4, <1>6, DormantMeans, DormantMeansNext
  <2>2. row[wake[d]].claimed /\ Sent(wake[d]) /\ work[d] \in Awaiting
    <3>1. CASE Dormant(d)
      BY <3>1, DormantIsHeld
    <3>2. CASE turn[d]
      BY <3>2 DEF WInv, MInv, Mail, TurnOwned, Stored, Awaiting
    <3> QED BY <2>1, <3>1, <3>2
  <2> QED BY <1>1, <1>5, <2>2 DEF ClaimsStay
<1>7. Awaited'
  BY <1>6 DEF Awaited, Awaiting
<1>8. SlotFor(job[t])'
  <2>1. mark[c] = 0 => ~turn[c]
    BY <1>3 DEF WInv, MInv, Mail, TurnOwned
  <2>2. mark[c] = 0 => job[t].slot = job[t].granted
    BY <1>1 DEF WInv, Wakes, SlotFor, Mailing, c
  <2> QED BY <1>1, <1>2, <1>3, <1>4, <2>1, <2>2 DEF SlotFor
<1>9. Heeds
  BY <1>1, <1>2, <1>4, <1>8 DEF Heeds, WInv, Wakes, NoIdleFollowUp
<1> QED BY <1>7, <1>9, HeedingKeepsWakes

(* An execution is given up without the scheduler only after a failure.    *)
LEMMA ReleaseWakes ==
    ASSUME WInv, NEW t \in Thread, release_unsettled_trigger_execution(t)
    PROVE  Wakes'
<1>1. /\ job[t].at = "Release" /\ NextLease(t, {}) /\ DeliveryFree
      /\ mark' = [mark EXCEPT ![FirstLease(t)] = 0]
      /\ UNCHANGED <<box, wake, row, turn, work, faults>>
  BY DEF release_unsettled_trigger_execution, durable, pool
<1>2. job[t].at \in LeaseSection /\ job[t].queue # <<>>
  BY <1>1 DEF WInv, MInv, LInv, Leased, QueueOK, LeaseSection
<1>3. job'[t].at \in {"Idle", "Launch"} /\ \A s \in Thread \ {t} : job'[s] = job[s]
  BY <1>1, <1>2, NextLeaseHolds DEF WInv, MInv
<1>4. ASSUME NEW d \in Child, Dormant(d)'
      PROVE  Dormant(d) /\ wake'[d] = wake[d] /\ work'[d] \in Awaiting
  <2>1. Dormant(d)
    BY <1>1, <1>3, <1>4, DormantMeans, DormantMeansNext
  <2> QED BY <1>1, <2>1, DormantIsHeld
<1>5. Awaited'
  BY <1>1, <1>4, SameRows, SettlingKeepsClaims, AwaitedStays DEF DormantStays, WInv
<1>6. faults # 0
  BY <1>1 DEF WInv, Wakes
<1>7. Heeds
  BY <1>1, <1>3, <1>6, OutsideDeliveries DEF Heeds
<1> QED BY <1>5, <1>7, HeedingKeepsWakes

(* Thread t goes on in a section that delivers nothing; the trees and the  *)
(* mailboxes stay.                                                         *)
LEMMA ElsewhereKeepsWakes ==
    ASSUME WInv, NEW t \in Thread, UNCHANGED <<mark, wake, box, row>>,
           \A s \in Thread \ {t} : job'[s] = job[s],
           ~Mailing(job'[t]), job'[t].at = "Release" => faults' > 0,
           faults' = faults \/ faults' = faults + 1,
           \A c \in Child : work[c] \in Awaiting /\ row[wake[c]].claimed => work'[c] \in Awaiting
    PROVE  Wakes'
<1>1. Calm
  BY DEF Calm
<1> QED BY <1>1, SameRows, CalmKeepsWakes DEF WInv

LEMMA SectionWakes ==
    ASSUME WInv, NEW t \in Thread, Section(t)
    PROVE  Wakes'
<1>1. ASSUME NEW x, job' = [job EXCEPT ![t] = x]
      PROVE  job'[t] = x /\ \A s \in Thread \ {t} : job'[s] = job[s]
  BY <1>1 DEF WInv, MInv, LInv, Shaped
<1>2. faults \in Nat /\ faults + 1 > 0
  BY DEF WInv, Wakes
<1>3. CASE \/ SendRefused(t) \/ commit_and_interrupt_captured(t)
           \/ cancelled_execution_paths(t) \/ schedule_cancelled_worker_abort(t)
           \/ launch_refused(t)
  <2>1. UNCHANGED <<mark, box, wake, row, turn, work>>
    BY <1>3 DEF SendRefused, commit_and_interrupt_captured, cancelled_execution_paths,
                schedule_cancelled_worker_abort, launch_refused, tree, durable, pool
  <2>2. PICK x : ~Mailing(x) /\ x.at # "Release" /\ job' = [job EXCEPT ![t] = x]
    <3>1. CASE SendRefused(t)
      BY <3>1 DEF SendRefused, Mailing, Idle
    <3>2. CASE commit_and_interrupt_captured(t)
      BY <3>2 DEF commit_and_interrupt_captured, Mailing, Idle
    <3>3. CASE cancelled_execution_paths(t)
      BY <3>3 DEF cancelled_execution_paths, Mailing
    <3>4. CASE schedule_cancelled_worker_abort(t)
      BY <3>4 DEF schedule_cancelled_worker_abort, Mailing, Idle
    <3>5. CASE launch_refused(t)
      BY <3>5 DEF launch_refused, Mailing
    <3> QED BY <1>3, <3>1, <3>2, <3>3, <3>4, <3>5
  <2>3. faults' = faults \/ faults' = faults + 1
    BY <1>3 DEF SendRefused, commit_and_interrupt_captured, cancelled_execution_paths,
                schedule_cancelled_worker_abort, launch_refused
  <2> QED BY <1>1, <2>1, <2>2, <2>3, ElsewhereKeepsWakes
<1>4. ASSUME job[t].at \in LeaseSection, job[t].queue # <<>>
      PROVE  /\ "at" \in DOMAIN job[t] /\ "queue" \in DOMAIN job[t]
             /\ FirstLease(t) \in Child /\ mark[FirstLease(t)] # 0
             /\ ~HeldByTask(FirstLease(t)) /\ ~Dormant(FirstLease(t))
             /\ Sent(wake[FirstLease(t)])
  <2>1. /\ FirstLease(t) \in InHand(job[t]) /\ FirstLease(t) \in Child
        /\ mark[FirstLease(t)] # 0 /\ ~HeldByTask(FirstLease(t))
    BY <1>4, FirstIsHeld DEF WInv, MInv
  <2>2. ~Dormant(FirstLease(t))
    BY <2>1, DormantIsHeld
  <2>3. Sent(wake[FirstLease(t)])
    BY <2>1, TriggerStored DEF WInv
  <2> QED BY <1>4, <2>1, <2>2, <2>3 DEF WInv, MInv, LInv, Leased, QueueOK
<1>5. ASSUME job[t].at \in {"Settle", "Settled", "Retire", "Release"}
      PROVE  job[t].at \in LeaseSection /\ job[t].queue # <<>>
  BY <1>5 DEF WInv, MInv, LInv, Leased, QueueOK, LeaseSection
<1>6. CASE launch_agent_turn(t)
  <2>1. /\ job[t].at \in LeaseSection /\ job[t].queue # <<>> /\ NextLease(t, {})
        /\ work' = [work EXCEPT ![FirstLease(t)] = "Start"]
        /\ UNCHANGED <<mark, wake, box, row, faults>>
    BY <1>6 DEF launch_agent_turn, LeaseSection, tree, durable
  <2>2. job'[t].at \in {"Idle", "Launch"} /\ \A s \in Thread \ {t} : job'[s] = job[s]
    BY <2>1, NextLeaseHolds DEF WInv, MInv
  <2>3. \A c \in Child : work[c] \in Awaiting => work'[c] = work[c]
    BY <1>4, <2>1 DEF Awaiting, HeldByTask, InBody, WInv, MInv, LInv, Shaped
  <2> QED BY <2>1, <2>2, <2>3, ElsewhereKeepsWakes DEF Mailing
<1>7. CASE settle_pre_admission(t)
  <2> DEFINE c == FirstLease(t)
             i == wake[c]
  <2>1. /\ job[t].at = "Settle" /\ Becomes(t, "Settled") /\ box' = Without(box, c, {i})
        /\ UNCHANGED <<mark, wake, turn, work, faults>>
    BY <1>7 DEF settle_pre_admission, pool
  <2>2. c \in Child /\ mark[c] # 0 /\ Sent(i)
    BY <1>4, <1>5, <2>1
  <2>3. /\ job'[t].at = "Settled" /\ \A s \in Thread \ {t} : job'[s] = job[s]
    BY <1>4, <1>5, <2>1 DEF Becomes, WInv, MInv, LInv, Shaped
  <2>4. RowsSettle
    BY <1>7, SettlementRows DEF WInv
  <2> HIDE DEF c, i
  <2>5. /\ Notices(box', c) \subseteq Notices(box, c)
        /\ \A d \in Child \ {c} : box'[d] = box[d]
    BY <2>1, <2>2, HeldIsSent, WithoutNotices DEF WInv
  <2>6. Calm
    BY <2>1, <2>2, <2>3, <2>5 DEF Calm, Mailing
  <2> QED BY <2>4, <2>6, CalmKeepsWakes
<1>8. CASE settle_fails(t) \/ settle_stale(t)
  <2>1. PICK place \in {"Release", "Retire"} :
           /\ job[t].at = "Settle" /\ Becomes(t, place)
           /\ UNCHANGED <<mark, box, wake, row, turn, work>>
           /\ faults' = faults \/ faults' = faults + 1
           /\ place = "Release" => faults' = faults + 1
    BY <1>8 DEF settle_fails, settle_stale, tree, durable, pool
  <2>2. job'[t].at = place /\ \A s \in Thread \ {t} : job'[s] = job[s]
    BY <1>4, <1>5, <2>1 DEF Becomes, WInv, MInv, LInv, Shaped
  <2>3. ~Mailing(job'[t]) /\ (job'[t].at = "Release" => faults' > 0)
    BY <1>2, <2>1, <2>2 DEF Mailing
  <2> QED BY <2>1, <2>2, <2>3, ElsewhereKeepsWakes
<1>9. CASE settle_complete(t) \/ settle_retire(t)
  <2>1. job[t].at \in {"Settled", "Retire"} /\ UNCHANGED <<row, work, faults>>
    BY <1>9 DEF settle_complete, settle_retire, durable, pool
  <2>2. PICK S : /\ \/ complete_execution(FirstLease(t), S)
                    \/ retire_resolved_wake_execution(FirstLease(t), S)
                 /\ NextLease(t, S)
    BY <1>9 DEF settle_complete, settle_retire
  <2>3. FirstLease(t) \in Child /\ mark[FirstLease(t)] # 0 /\ ~Dormant(FirstLease(t))
    BY <1>4, <1>5, <2>1
  <2>4. S \in SUBSET Child /\ S \cap (Executing(mark) \ {FirstLease(t)}) = {}
    BY <2>2, <2>3, Ending DEF WInv, MInv
  <2>5. job'[t].at \in {"Idle", "Launch"} /\ \A s \in Thread \ {t} : job'[s] = job[s]
    BY <1>5, <2>1, <2>2, <2>4, NextLeaseHolds DEF WInv, MInv
  <2>6. UNCHANGED <<row, faults>> /\ \A d \in Child \ {FirstLease(t)} : work'[d] = work[d]
    BY <2>1
  <2> QED BY <2>2, <2>3, <2>5, <2>6, EndingKeepsWakes
<1>10. CASE detach_finished_worker(t)
  <2>1. /\ job' = [job EXCEPT ![t] = Idle] /\ UNCHANGED <<mark, box, wake, row, faults>>
        /\ \A c \in Child : work'[c] = work[c] \/ work[c] = "Done"
    BY <1>10 DEF detach_finished_worker, tree, durable
  <2>2. job'[t] = Idle /\ Idle.at = "Idle" /\ \A s \in Thread \ {t} : job'[s] = job[s]
    BY <1>1, <2>1 DEF Idle
  <2> QED BY <2>1, <2>2, ElsewhereKeepsWakes DEF Mailing, Awaiting
<1> QED BY <1>3, <1>6, <1>7, <1>8, <1>9, <1>10, SendCommitWakes, SendEnqueueWakes,
           ReleaseWakes DEF Section

LEMMA ToolWakes ==
    ASSUME WInv, NEW t \in Thread, NEW c \in Child, Tool(t, c)
    PROVE  Wakes'
<1>1. CASE capture_interrupt_target(t, c)
  <2>1. UNCHANGED <<mark, box, wake, row, turn, work, faults>>
    BY <1>1 DEF capture_interrupt_target, tree, durable, pool
  <2>2. PICK x : ~Mailing(x) /\ x.at # "Release" /\ job' = [job EXCEPT ![t] = x]
    BY <1>1 DEF capture_interrupt_target, Mailing
  <2>3. job'[t] = x /\ \A s \in Thread \ {t} : job'[s] = job[s]
    BY <2>2 DEF WInv, MInv, LInv, Shaped
  <2> QED BY <2>1, <2>2, <2>3, ElsewhereKeepsWakes
<1> QED BY <1>1, SpawnWakes, SendBeginWakes DEF Tool

(* The worker of c, or its monitor, goes on outside any section.           *)
LEMMA AlongsideKeepsWakes ==
    ASSUME WInv, RowsSettle, UNCHANGED <<job, mark, wake, faults>>,
           \A c \in Child : \/ box'[c] = box[c]
                            \/ mark[c] # 0 /\ Notices(box', c) \subseteq Notices(box, c),
           \A c \in Child : work[c] \in Awaiting /\ row[wake[c]].claimed => work'[c] \in Awaiting
    PROVE  Wakes'
<1>1. Calm
  BY DEF Calm
<1> QED BY <1>1, CalmKeepsWakes

LEMMA WorkerWakes ==
    ASSUME WInv, NEW c \in Child, Worker(c)
    PROVE  Wakes'
<1>1. LocalIdle /\ HeldByTask(c) /\ "Local" \in Thread
  BY DEF Worker, activate_child_execution, preflight, admit, admit_unavailable,
         mark_execution_admitted, commit_pending_mailbox_delivery, turn_completes, turn_fails,
         turn_stops, finish_turn, At, HeldByTask, InBody, Thread
<1>2. mark[c] # 0 /\ box \in Mailboxes
  BY <1>1, TriggerStored, HeldIsSent DEF WInv
<1>3. ASSUME NEW place, Moves(c, place)
      PROVE  work'[c] = place /\ \A d \in Child \ {c} : work'[d] = work[d]
  BY <1>3 DEF Moves, WInv, MInv, LInv, Shaped
<1>4. ASSUME NEW place, Moves(c, place), Quietly, work[c] \notin Awaiting
      PROVE  Wakes'
  <2>1. RowsSettle
    BY <1>4, SameRows DEF Quietly, durable, WInv
  <2> QED BY <1>3, <1>4, <2>1, AlongsideKeepsWakes DEF Quietly, tree
<1>5. ASSUME GivesUp(c), work[c] \notin Awaiting, faults' = faults \/ faults' = faults + 1
      PROVE  Wakes'
  <2>1. Moves(c, "Done") /\ UNCHANGED <<mark, box, wake, row>>
    BY <1>5 DEF GivesUp, tree, durable
  <2>2. /\ \A s \in Thread \ {"Local"} : job'[s] = job[s]
        /\ job'["Local"].at = "Settle"
    BY <1>1, <1>5 DEF GivesUp, WInv, MInv, LInv, Shaped
  <2> QED BY <1>1, <1>3, <1>5, <2>1, <2>2, ElsewhereKeepsWakes DEF Mailing
<1>6. CASE activate_child_execution(c) \/ preflight(c) \/ admit_unavailable(c)
  <2>1. work[c] \notin Awaiting
    BY <1>6 DEF activate_child_execution, preflight, admit_unavailable, At, Awaiting
  <2> QED BY <1>4, <1>5, <1>6, <2>1
          DEF activate_child_execution, preflight, admit_unavailable, Quietly
<1>7. ASSUME NEW place \in Awaiting, Moves(c, place), RowsSettle,
             UNCHANGED <<job, mark, wake, faults>>,
             \/ UNCHANGED box
             \/ \E items : box' = Without(box, c, items)
      PROVE  Wakes'
  <2>1. \A d \in Child : \/ box'[d] = box[d]
                         \/ mark[d] # 0 /\ Notices(box', d) \subseteq Notices(box, d)
    BY <1>2, <1>7, WithoutNotices
  <2>2. \A d \in Child : work[d] \in Awaiting => work'[d] \in Awaiting
    BY <1>3, <1>7
  <2> QED BY <1>7, <2>1, <2>2, AlongsideKeepsWakes
<1>8. "Admitted" \in Awaiting /\ "Sampling" \in Awaiting /\ "Finishing" \in Awaiting
  BY DEF Awaiting
<1>9. CASE admit(c)
  <2>1. Moves(c, "Admitted") /\ UNCHANGED <<mark, wake, box, job, faults>>
    BY <1>9 DEF admit, tree
  <2> QED BY <1>7, <1>8, <1>9, <2>1, AdmissionRows DEF WInv
<1>10. CASE commit_pending_mailbox_delivery(c)
  <2>1. Moves(c, "Sampling") /\ UNCHANGED <<mark, wake, job, faults>>
    BY <1>10 DEF commit_pending_mailbox_delivery
  <2>2. \E items : box' = Without(box, c, items)
    BY <1>10 DEF commit_pending_mailbox_delivery
  <2> QED BY <1>7, <1>8, <1>10, <2>1, <2>2, DeliveryRows DEF WInv
<1>11. CASE turn_completes(c) \/ turn_fails(c) \/ turn_stops(c)
  <2>1. PICK items, settled : settled \in {"Delivered", "Discarded"} /\ Terminal(c, items, settled)
    BY <1>11 DEF turn_completes, turn_fails, turn_stops
  <2>2. Moves(c, "Finishing") /\ UNCHANGED <<mark, wake, box, job, faults>>
    BY <2>1 DEF Terminal
  <2> QED BY <1>1, <1>7, <1>8, <2>1, <2>2, TerminalRows DEF WInv
<1>12. CASE finish_turn(c)
  <2>1. PICK S : /\ complete_execution(c, S)
                 /\ job' = [job EXCEPT !["Local"] = Launching(InOrder(S), c, mark[c])]
    BY <1>12 DEF finish_turn
  <2>2. Moves(c, "Done") /\ UNCHANGED <<row, faults>>
    BY <1>12 DEF finish_turn, durable
  <2>3. S \in SUBSET Child
    BY <2>1, Ending DEF WInv, MInv
  <2>4. /\ job'["Local"].at \in {"Idle", "Launch"}
        /\ \A s \in Thread \ {"Local"} : job'[s] = job[s]
    <3>1. /\ job'["Local"] = Launching(InOrder(S), c, mark[c])
          /\ \A s \in Thread \ {"Local"} : job'[s] = job[s]
      BY <1>1, <2>1 DEF WInv, MInv, LInv, Shaped
    <3> QED BY <2>3, <3>1, InOrderLists, LaunchingHolds
  <2>5. \A d \in Child \ {c} : work'[d] = work[d]
    BY <1>3, <2>2
  <2> QED BY <1>1, <1>2, <2>1, <2>2, <2>4, <2>5, EndingKeepsWakes
<1> QED BY <1>6, <1>9, <1>10, <1>11, <1>12, AdmittedWakes DEF Worker

LEMMA MonitorWakes ==
    ASSUME WInv, Monitor
    PROVE  Wakes'
<1>1. "Local" \in Thread
  BY DEF Thread
<1>2. CASE \/ \E batch \in monitors : take_captured_workers(batch)
           \/ \E p \in taken : abort_worker(p)
  <2>1. UNCHANGED <<mark, box, wake, row, turn, job, faults>>
    BY <1>2 DEF take_captured_workers, abort_worker, tree, durable
  <2>2. UNCHANGED work \/ \E p : Dropped(p)
    BY <1>2 DEF take_captured_workers, abort_worker
  <2>3. \A c \in Child : work'[c] = work[c] \/ work'[c] = "Aborted"
    BY <2>2 DEF Dropped, WInv, MInv, LInv, Shaped
  <2>4. RowsSettle
    BY <2>1, SameRows DEF WInv
  <2> QED BY <2>1, <2>3, <2>4, AlongsideKeepsWakes DEF Awaiting
<1>3. ASSUME NEW c \in Child, settle_hard_aborted_worker(c)
      PROVE  Wakes'
  <2>1. UNCHANGED <<mark, wake, box, job, faults>>
    BY <1>3 DEF settle_hard_aborted_worker, tree
  <2>2. /\ row[wake[c]].claimed => work'[c] = "Interrupted"
        /\ \A d \in Child \ {c} : work'[d] = work[d]
    BY <1>3 DEF settle_hard_aborted_worker, Moves, WInv, MInv, LInv, Shaped
  <2>3. RowsSettle
    BY <1>3, AbortRows DEF WInv
  <2> QED BY <2>1, <2>2, <2>3, AlongsideKeepsWakes DEF Awaiting
<1>4. ASSUME NEW c \in Child, monitor_finish(c)
      PROVE  Wakes'
  <2>1. /\ HeldByTask(c) /\ Moves(c, "None") /\ UNCHANGED <<row, faults>>
        /\ work[c] \in {"Interrupted", "Resolved"}
    BY <1>4 DEF monitor_finish, At, HeldByTask, durable
  <2>2. work[c] = "Resolved" => ~Dormant(c)
    BY DormantIsHeld DEF Awaiting
  <2>3. PICK S : /\ \/ complete_execution(c, S)
                    \/ retire_resolved_wake_execution(c, S) /\ ~Dormant(c)
                 /\ job' = [job EXCEPT !["Local"] = Launching(InOrder(S), 0, 0)]
    BY <1>4, <2>1, <2>2 DEF monitor_finish
  <2>4. S \in SUBSET Child
    BY <2>3, Ending DEF WInv, MInv
  <2>5. /\ job'["Local"].at \in {"Idle", "Launch"}
        /\ \A s \in Thread \ {"Local"} : job'[s] = job[s]
    <3>1. /\ job'["Local"] = Launching(InOrder(S), 0, 0)
          /\ \A s \in Thread \ {"Local"} : job'[s] = job[s]
      BY <1>1, <2>3 DEF WInv, MInv, LInv, Shaped
    <3> QED BY <2>4, <3>1, InOrderLists, LaunchingHolds
  <2>6. mark[c] # 0 /\ \A d \in Child \ {c} : work'[d] = work[d]
    BY <2>1, TriggerStored DEF Moves, WInv, MInv, LInv, Shaped
  <2>7. UNCHANGED <<row, faults>>
    BY <2>1
  <2> QED BY <1>1, <2>3, <2>5, <2>6, <2>7, EndingKeepsWakes
<1> QED BY <1>2, <1>3, <1>4 DEF Monitor

LEMMA WInit ==
    ASSUME Init
    PROVE  WInv
<1>1. \A c \in Child : ~Dormant(c)
  BY DEF Init, Dormant, Idle
<1>2. \A t \in Thread : SlotFor(job[t]) /\ job[t].at # "Release"
  BY DEF Init, SlotFor, Mailing, Idle
<1>3. faults \in Nat /\ NoIdleFollowUp
  BY DEF Init, NoIdleFollowUp
<1> QED BY <1>1, <1>2, <1>3, MInit DEF WInv, Wakes, Awaited

LEMMA WNext ==
    ASSUME WInv, [Next]_vars
    PROVE  WInv'
<1>1. MInv'
  BY MNext DEF WInv
<1>2. CASE UNCHANGED vars
  <2>1. UNCHANGED <<mark, box, wake, row, work, job, faults>>
    BY <1>2 DEF vars, tree, durable, pool
  <2>2. RowsSettle
    BY <2>1, SameRows DEF WInv
  <2> QED BY <1>1, <2>1, <2>2, AlongsideKeepsWakes DEF WInv
<1>3. CASE Next
  BY <1>1, <1>3, SectionWakes, ToolWakes, WorkerWakes, MonitorWakes DEF Next, WInv
<1> QED BY <1>2, <1>3

(* As long as storage and launches work, no trigger notice lies in the     *)
(* mailbox of a child that has no execution: whatever frees a slot         *)
(* (complete_execution, retire_resolved_wake_execution) leaves room for    *)
(* the child it freed and schedules it, and mail for an idle child comes   *)
(* with the slot that was set aside for it.                                *)
THEOREM FollowUpsAreScheduled == Spec => []NoIdleFollowUp
<1>1. WInv => NoIdleFollowUp
  BY DEF WInv, Wakes
<1> QED BY <1>1, WInit, WNext, PTL DEF Spec
=============================================================================
