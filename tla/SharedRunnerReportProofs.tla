---------------------- MODULE SharedRunnerReportProofs ----------------------
(***************************************************************************)
(* AcceptedIsRecorded and ReleasedIsDrained of SharedRunner, for any       *)
(* number of attempts, faults and stops.                                   *)
(*                                                                         *)
(* What the Hub, the journal, the spool and the host hold of one attempt   *)
(* changes in a dozen ways (the moves below).  Each move keeps the row of  *)
(* its attempt consistent; each action makes one move for one attempt and  *)
(* leaves the rows of the others alone.                                    *)
(***************************************************************************)
EXTENDS SharedRunnerProofs

Pending == {"Intent", "Executing", "Uncertain"}
Reported == {"ReportPending", "Settled"}

(* The types of the variables that IInv does not read.                     *)
HostTypeOK ==
    /\ spool \in [Attempt -> Outcome \cup {None}]
    /\ run \in [Attempt -> Receipt \cup {None}]
    /\ process \in [Attempt -> {"None", "Running", "Gone"}]

-----------------------------------------------------------------------------
(* The row of an attempt.  Its entry: a report exists once the execution   *)
(* is over, and only a retained service has a lease or a receipt.          *)
EntryOK(a) ==
    journal[a] # None =>
        /\ journal[a].fallback \in {None, "Uncertain", "YieldRejected"}
        /\ journal[a].phase = "Uncertain" => journal[a].report = "Uncertain"
        /\ journal[a].phase \in Reported => journal[a].report \notin {None, "Uncertain"}
        /\ journal[a].retained_service => journal[a].phase \in Reported
        /\ ~journal[a].retained_service =>
              /\ ~journal[a].retention_reported
              /\ ~journal[a].service_stopped_ack /\ ~journal[a].service_reconciliation

(* What the Hub accepted, and that the report which it may have seen is    *)
(* the one the payload is bound to.                                        *)
FinalOK(a) ==
    /\ journal[a] = None \/ journal[a].phase \in Pending =>
          hub[a].final = None /\ spool[a] = None
    /\ hub[a].final # None =>
          /\ hub[a].final # "Uncertain"
          /\ hub[a].final \in {journal[a].report, journal[a].fallback}
    /\ InPhase(a, "ReportPending") /\ hub[a].final # None => spool[a] # None
    /\ InPhase(a, "Settled") => hub[a].final # None /\ spool[a] = None

(* A bound report is never replaced: its service has a lease, or is gone.  *)
SpoolOK(a) ==
    spool[a] # None => spool[a] = journal[a].report /\ ~NeedsLease(a) /\ ~MustDrain(a)

LeaseOK(a) ==
    /\ hub[a].lease # "None" => journal[a] # None /\ journal[a].retained_service
    /\ journal[a] # None /\ journal[a].retention_reported => hub[a].lease # "None"

ReceiptOK(a) ==
    /\ run[a] # None => effects[a] # 0
    /\ run[a] # None /\ run[a].processes_drained => ~active(a) /\ process[a] # "Running"
    /\ active(a) => InPhase(a, "Executing") \/ InPhase(a, "Uncertain")

(* A stop that the Hub or the journal believes in has happened.            *)
StopOK(a) ==
    /\ hub[a].lease = "Stopped" => process[a] # "Running"
    /\ /\ journal[a] # None
       /\ journal[a].service_stopped_ack \/ journal[a].service_reconciliation
       => process[a] # "Running"

(* A process of this Runner outlives the turn only as a service.           *)
ProcessOK(a) ==
    a \notin earlier /\ process[a] = "Running" =>
        /\ effects[a] # 0
        /\ journal[a].phase \in Reported => journal[a].retained_service
        /\ hub[a].final # None => hub[a].lease = "Held"

RowOK(a) ==
    /\ EntryOK(a) /\ FinalOK(a) /\ SpoolOK(a) /\ LeaseOK(a)
    /\ ReceiptOK(a) /\ StopOK(a) /\ ProcessOK(a)

(* The position of the loop.  A report on its way is bound and frozen.     *)
Delivering == {"Persist", "Report", "Rejected", "Fallback"}

DeliveryOK ==
    tick.pc \in Delivering =>
        LET a == First(tick.todo)
        IN  /\ InPhase(a, "ReportPending") /\ ~NeedsLease(a) /\ ~MustDrain(a)
            /\ tick.pc # "Persist" => spool[a] # None
            /\ tick.pc = "Fallback" => journal[a].fallback = "YieldRejected"

StartOK ==
    /\ tick.pc = "Status" => \A a \in tick.todo : journal[a].phase = "Intent"
    /\ tick.pc = "Prepare" => \A a \in tick.todo : journal[a].phase = "Executing"
    /\ tick.pc = "OrphanIntent" => journal[First(tick.seen)].phase = "Intent"
    /\ tick.pc = "OrphanExecuting" => journal[First(tick.seen)].phase = "Executing"
    /\ tick.pc = "Service" => \A a \in tick.todo : journal[a].retained_service

(* An execution that is recorded has its receipt, but for the windows in   *)
(* which a crash makes it uncertain.                                       *)
Awaited(a) ==
    \/ tick.pc = "Down"
    \/ tick.pc = "Prepare" /\ a \in tick.todo
    \/ tick.pc = "OrphanExecuting" /\ a = First(tick.seen)

ExecutingOK == \A a \in Attempt : InPhase(a, "Executing") => run[a] # None \/ Awaited(a)

RInv ==
    /\ IInv /\ HostTypeOK
    /\ \A a \in Attempt : RowOK(a)
    /\ DeliveryOK /\ StartOK /\ ExecutingOK

-----------------------------------------------------------------------------
(* What happens on the host, but for a new execution: workers end,         *)
(* processes exit, receipts are observed or retired.                       *)
Calm(a) ==
    /\ effects'[a] = effects[a]
    /\ run'[a] # None => run[a] # None
    /\ active(a)' => active(a)
    /\ process'[a] = "Running" => process[a] = "Running"
    /\ run'[a] # None /\ run'[a].processes_drained => ~active(a)' /\ process'[a] # "Running"

SameHubRow(a) == hub'[a].final = hub[a].final /\ hub'[a].lease = hub[a].lease

(* The moves of an attempt.                                                *)
Stays(a) == SameHubRow(a) /\ journal'[a] = journal[a] /\ spool'[a] = spool[a]

IsRecorded(a) ==
    /\ SameHubRow(a) /\ spool'[a] = spool[a]
    /\ journal[a] = None /\ \E leases : journal'[a] = Entry(leases)

Begins(a) ==
    /\ SameHubRow(a) /\ spool'[a] = spool[a]
    /\ InPhase(a, "Intent")
    /\ journal'[a] = [journal[a] EXCEPT !.phase = "Executing"]

BecomesUncertain(a) ==
    /\ SameHubRow(a) /\ spool'[a] = spool[a]
    /\ InPhase(a, "Executing")
    /\ journal'[a] = [journal[a] EXCEPT !.phase = "Uncertain", !.report = "Uncertain"]

Concludes(a, r, keeps) ==
    /\ SameHubRow(a) /\ spool'[a] = spool[a]
    /\ InPhase(a, "Intent") \/ InPhase(a, "Executing")
    /\ ~active(a)'
    /\ a \notin earlier /\ process'[a] = "Running" => keeps
    /\ journal'[a] = [journal[a] EXCEPT !.phase = "ReportPending", !.report = r,
                                        !.retained_service = keeps]

IsReconciled(a) ==
    /\ SameHubRow(a) /\ spool'[a] = spool[a]
    /\ InPhase(a, "Uncertain")
    /\ ~active(a)' /\ process'[a] # "Running"
    /\ journal'[a] = [journal[a] EXCEPT !.phase = "ReportPending",
                         !.fallback = journal[a].report, !.report = "Reconciled"]

(* The lease and the receipts of a service.                                *)
Serves(a) ==
    /\ hub'[a].final = hub[a].final /\ spool'[a] = spool[a]
    /\ journal[a] # None /\ journal[a].retained_service
    /\ \/ hub'[a].lease = hub[a].lease
       \/ hub[a].lease = "None" /\ hub'[a].lease = "Held"
       \/ hub'[a].lease = "Stopped" /\ process'[a] # "Running"
    /\ \/ journal'[a] = journal[a]
       \/ /\ journal'[a] = [journal[a] EXCEPT !.retention_reported = TRUE]
          /\ hub'[a].lease # "None"
       \/ journal'[a] = [journal[a] EXCEPT !.service_uncertain_ack = TRUE]
       \/ /\ \/ journal'[a] = [journal[a] EXCEPT !.service_stopped_ack = TRUE]
             \/ journal'[a] = [journal[a] EXCEPT !.service_reconciliation = TRUE]
          /\ process'[a] # "Running"

FailsHandoff(a) ==
    /\ SameHubRow(a) /\ spool'[a] = spool[a] /\ spool[a] = None
    /\ InPhase(a, "ReportPending")
    /\ journal'[a] = [journal[a] EXCEPT !.report = "HandoffFailed"]

IsBound(a) ==
    /\ SameHubRow(a) /\ journal'[a] = journal[a]
    /\ InPhase(a, "ReportPending") /\ ~NeedsLease(a) /\ ~MustDrain(a)
    /\ spool'[a] = journal[a].report

Final(a) == {hub[a].final, journal[a].report, journal[a].fallback} \ {"Uncertain"}

IsSent(a) ==
    /\ hub'[a].final \in Final(a) /\ hub'[a].lease = hub[a].lease
    /\ journal'[a] = journal[a] /\ spool'[a] = spool[a]
    /\ InPhase(a, "ReportPending") /\ spool[a] # None

Settles(a) ==
    /\ hub'[a].final \in Final(a) \ {None} /\ hub'[a].lease = hub[a].lease
    /\ InPhase(a, "ReportPending") /\ spool[a] # None
    /\ journal'[a] = [journal[a] EXCEPT !.phase = "Settled"]
    /\ spool'[a] = None

FallsBack(a) ==
    /\ SameHubRow(a) /\ spool'[a] = spool[a]
    /\ InPhase(a, "ReportPending")
    /\ journal'[a] = [journal[a] EXCEPT !.fallback = "YieldRejected"]

Moves(a) ==
    \/ Stays(a) \/ IsRecorded(a) \/ Begins(a) \/ BecomesUncertain(a)
    \/ \E r \in Outcome \ {"Uncertain"}, keeps \in BOOLEAN : Concludes(a, r, keeps)
    \/ IsReconciled(a) \/ Serves(a) \/ FailsHandoff(a) \/ IsBound(a) \/ IsSent(a)
    \/ Settles(a) \/ FallsBack(a)

-----------------------------------------------------------------------------
(* Every move keeps the row.  The context that all of them share.          *)
Context(a) ==
    /\ TypeOK /\ TypeOK' /\ HostTypeOK /\ HostTypeOK' /\ earlier' = earlier
    /\ RowOK(a) /\ Calm(a)

LEMMA RowTypes ==
    ASSUME NEW a \in Attempt, Context(a)
    PROVE  /\ hub[a] \in HubRow /\ hub'[a] \in HubRow
           /\ journal[a] # None => journal[a] \in JournalEntry
           /\ journal'[a] # None => journal'[a] \in JournalEntry
           /\ None \notin Outcome
BY NoneAssumption DEF Context, TypeOK

LEMMA MoveKeepsRow ==
    ASSUME NEW a \in Attempt, Context(a), Moves(a)
    PROVE  RowOK(a)'
<1> USE DEF Context, RowOK
<1>t. /\ hub[a] \in HubRow /\ hub'[a] \in HubRow
      /\ journal[a] # None => journal[a] \in JournalEntry
      /\ journal'[a] # None => journal'[a] \in JournalEntry
      /\ None \notin Outcome /\ None \notin JournalEntry
  BY RowTypes, NoneAssumption
<1>1. CASE Stays(a)
  <2>1. EntryOK(a)'
    BY <1>t, <1>1
    DEF EntryOK, InPhase, Stays
  <2>2. FinalOK(a)'
    BY <1>t, <1>1
    DEF FinalOK, InPhase, Stays, SameHubRow
  <2>3. SpoolOK(a)'
    BY <1>t, <1>1
    DEF SpoolOK, NeedsLease, MustDrain, Stays
  <2>4. LeaseOK(a)'
    BY <1>t, <1>1
    DEF LeaseOK, Stays, SameHubRow
  <2>5. ReceiptOK(a)'
    BY <1>t, <1>1
    DEF Calm, ReceiptOK, active, InPhase, Stays
  <2>6. StopOK(a)'
    BY <1>t, <1>1
    DEF Calm, StopOK, Stays, SameHubRow
  <2>7. ProcessOK(a)'
    BY <1>t, <1>1
    DEF Calm, ProcessOK, Stays, SameHubRow
  <2> QED
    BY <2>1, <2>2, <2>3, <2>4, <2>5, <2>6, <2>7
<1>2. CASE IsRecorded(a)
  <2>1. EntryOK(a)'
    BY <1>t, <1>2
    DEF EntryOK, IsRecorded, Entry, Reported
  <2>2. FinalOK(a)'
    BY <1>t, <1>2
    DEF FinalOK, InPhase, IsRecorded, Entry, SameHubRow
  <2>3. SpoolOK(a)'
    BY <1>t, <1>2
    DEF EntryOK, FinalOK, SpoolOK, NeedsLease, MustDrain, InPhase, IsRecorded, Entry, SameHubRow, Pending, Reported, Outcome, HubRow
  <2>4. LeaseOK(a)'
    BY <1>t, <1>2
    DEF LeaseOK, IsRecorded, Entry, SameHubRow
  <2>5. ReceiptOK(a)'
    BY <1>t, <1>2
    DEF Calm, ReceiptOK, active, InPhase, IsRecorded, Entry
  <2>6. StopOK(a)'
    BY <1>t, <1>2
    DEF Calm, StopOK, IsRecorded, Entry, SameHubRow
  <2>7. ProcessOK(a)'
    BY <1>t, <1>2
    DEF Calm, ProcessOK, IsRecorded, Entry, SameHubRow, Reported
  <2> QED
    BY <2>1, <2>2, <2>3, <2>4, <2>5, <2>6, <2>7
<1>3. CASE Begins(a)
  <2>0. /\ journal[a] # None /\ journal'[a] # None /\ journal'[a] \in JournalEntry
        /\ journal'[a].phase = "Executing"
        /\ journal'[a].report = journal[a].report
        /\ journal'[a].fallback = journal[a].fallback
        /\ journal'[a].retained_service = journal[a].retained_service
        /\ journal'[a].retention_reported = journal[a].retention_reported
        /\ journal'[a].service_stopped_ack = journal[a].service_stopped_ack
        /\ journal'[a].service_reconciliation = journal[a].service_reconciliation
    BY <1>t, <1>3 DEF Begins, InPhase, JournalEntry, Outcome
  <2>1. EntryOK(a)'
    BY <1>t, <2>0, <1>3
    DEF EntryOK, InPhase, Begins, Reported
  <2>2. FinalOK(a)'
    BY <1>t, <2>0, <1>3
    DEF FinalOK, InPhase, Begins, SameHubRow, Pending
  <2>3. SpoolOK(a)'
    BY <1>t, <2>0, <1>3
    DEF SpoolOK, NeedsLease, MustDrain, Begins
  <2>4. LeaseOK(a)'
    BY <1>t, <2>0, <1>3
    DEF LeaseOK, Begins, SameHubRow
  <2>5. ReceiptOK(a)'
    BY <1>t, <2>0, <1>3
    DEF Calm, ReceiptOK, active, InPhase, Begins
  <2>6. StopOK(a)'
    BY <1>t, <2>0, <1>3
    DEF Calm, StopOK, Begins, SameHubRow
  <2>7. ProcessOK(a)'
    BY <1>t, <2>0, <1>3
    DEF Calm, ProcessOK, Begins, SameHubRow, Reported
  <2> QED
    BY <2>1, <2>2, <2>3, <2>4, <2>5, <2>6, <2>7
<1>4. CASE BecomesUncertain(a)
  <2>0. /\ journal[a] # None /\ journal'[a] # None /\ journal'[a] \in JournalEntry
        /\ journal'[a].phase = "Uncertain"
        /\ journal'[a].report = "Uncertain"
        /\ journal'[a].fallback = journal[a].fallback
        /\ journal'[a].retained_service = journal[a].retained_service
        /\ journal'[a].retention_reported = journal[a].retention_reported
        /\ journal'[a].service_stopped_ack = journal[a].service_stopped_ack
        /\ journal'[a].service_reconciliation = journal[a].service_reconciliation
    BY <1>t, <1>4 DEF BecomesUncertain, InPhase, JournalEntry, Outcome
  <2>1. EntryOK(a)'
    BY <1>t, <2>0, <1>4
    DEF EntryOK, InPhase, BecomesUncertain, Reported
  <2>2. FinalOK(a)'
    BY <1>t, <2>0, <1>4
    DEF FinalOK, InPhase, BecomesUncertain, SameHubRow, Pending
  <2>3. SpoolOK(a)'
    BY <1>t, <2>0, <1>4
    DEF FinalOK, SpoolOK, InPhase, BecomesUncertain, Pending
  <2>4. LeaseOK(a)'
    BY <1>t, <2>0, <1>4
    DEF LeaseOK, BecomesUncertain, SameHubRow
  <2>5. ReceiptOK(a)'
    BY <1>t, <2>0, <1>4
    DEF Calm, ReceiptOK, active, InPhase, BecomesUncertain
  <2>6. StopOK(a)'
    BY <1>t, <2>0, <1>4
    DEF Calm, StopOK, BecomesUncertain, SameHubRow
  <2>7. ProcessOK(a)'
    BY <1>t, <2>0, <1>4
    DEF Calm, ProcessOK, BecomesUncertain, SameHubRow, Reported
  <2> QED
    BY <2>1, <2>2, <2>3, <2>4, <2>5, <2>6, <2>7
<1>5. ASSUME NEW r \in Outcome \ {"Uncertain"}, NEW keeps \in BOOLEAN, Concludes(a, r, keeps)
      PROVE  RowOK(a)'
  <2>0. /\ journal[a] # None /\ journal'[a] # None /\ journal'[a] \in JournalEntry
        /\ journal'[a].phase = "ReportPending"
        /\ journal'[a].report = r
        /\ journal'[a].fallback = journal[a].fallback
        /\ journal'[a].retained_service = keeps
        /\ journal'[a].retention_reported = journal[a].retention_reported
        /\ journal'[a].service_stopped_ack = journal[a].service_stopped_ack
        /\ journal'[a].service_reconciliation = journal[a].service_reconciliation
    <3> DEFINE e == [journal[a] EXCEPT !.phase = "ReportPending", !.report = r,
                                       !.retained_service = keeps]
    <3>1. journal[a] # None /\ journal[a] \in JournalEntry /\ journal'[a] = e
      BY <1>t, <1>5 DEF Concludes, InPhase
    <3>2. e \in JournalEntry
      BY <3>1 DEF JournalEntry
    <3>3. e # None
      BY <1>t, <3>2
    <3> QED
      BY <3>1, <3>2, <3>3 DEF JournalEntry
  <2>1. EntryOK(a)'
    BY <1>t, <2>0, <1>5
    DEF EntryOK, InPhase, Concludes, Reported
  <2>2. FinalOK(a)'
    BY <1>t, <2>0, <1>5
    DEF FinalOK, InPhase, Concludes, SameHubRow, Pending
  <2>3. SpoolOK(a)'
    BY <1>t, <2>0, <1>5
    DEF FinalOK, SpoolOK, InPhase, Concludes, Pending
  <2>4. LeaseOK(a)'
    BY <1>t, <2>0, <1>5
    DEF EntryOK, LeaseOK, InPhase, Concludes, SameHubRow, Reported
  <2>5. ReceiptOK(a)'
    BY <1>t, <2>0, <1>5
    DEF Calm, ReceiptOK, active, Concludes
  <2>6. StopOK(a)'
    BY <1>t, <2>0, <1>5
    DEF Calm, StopOK, Concludes, SameHubRow
  <2>7. ProcessOK(a)'
    BY <1>t, <2>0, <1>5
    DEF Calm, ProcessOK, Concludes, SameHubRow
  <2> QED
    BY <2>1, <2>2, <2>3, <2>4, <2>5, <2>6, <2>7
<1>6. CASE IsReconciled(a)
  <2>0. /\ journal[a] # None /\ journal'[a] # None /\ journal'[a] \in JournalEntry
        /\ journal'[a].phase = "ReportPending"
        /\ journal'[a].report = "Reconciled"
        /\ journal'[a].fallback = "Uncertain"
        /\ journal'[a].retained_service = journal[a].retained_service
        /\ journal'[a].retention_reported = journal[a].retention_reported
        /\ journal'[a].service_stopped_ack = journal[a].service_stopped_ack
        /\ journal'[a].service_reconciliation = journal[a].service_reconciliation
    BY <1>t, <1>6 DEF IsReconciled, InPhase, JournalEntry, Outcome, EntryOK
  <2>1. EntryOK(a)'
    BY <1>t, <2>0, <1>6
    DEF EntryOK, IsReconciled, Outcome
  <2>2. FinalOK(a)'
    BY <1>t, <2>0, <1>6
    DEF FinalOK, InPhase, IsReconciled, SameHubRow, Pending
  <2>3. SpoolOK(a)'
    BY <1>t, <2>0, <1>6
    DEF FinalOK, SpoolOK, InPhase, IsReconciled, Pending
  <2>4. LeaseOK(a)'
    BY <1>t, <2>0, <1>6
    DEF LeaseOK, IsReconciled, SameHubRow
  <2>5. ReceiptOK(a)'
    BY <1>t, <2>0, <1>6
    DEF Calm, ReceiptOK, active, IsReconciled
  <2>6. StopOK(a)'
    BY <1>t, <2>0, <1>6
    DEF Calm, StopOK, IsReconciled
  <2>7. ProcessOK(a)'
    BY <1>t, <2>0, <1>6
    DEF Calm, ProcessOK, IsReconciled
  <2> QED
    BY <2>1, <2>2, <2>3, <2>4, <2>5, <2>6, <2>7
<1>7. CASE Serves(a)
  <2>0. /\ journal[a] # None /\ journal'[a] # None /\ journal'[a] \in JournalEntry
        /\ journal'[a].phase = journal[a].phase
        /\ journal'[a].report = journal[a].report
        /\ journal'[a].fallback = journal[a].fallback
        /\ journal[a].retained_service /\ journal'[a].retained_service
        /\ journal[a].retention_reported => journal'[a].retention_reported
        /\ journal[a].service_stopped_ack => journal'[a].service_stopped_ack
        /\ journal'[a].retention_reported =>
              journal[a].retention_reported \/ hub'[a].lease # "None"
        /\ journal'[a].service_stopped_ack \/ journal'[a].service_reconciliation =>
              \/ journal[a].service_stopped_ack \/ journal[a].service_reconciliation
              \/ process'[a] # "Running"
    <3>1. journal[a] # None /\ journal[a] \in JournalEntry
      BY <1>t, <1>7 DEF Serves
    <3> DEFINE e == journal[a]
               New == {e, [e EXCEPT !.retention_reported = TRUE],
                       [e EXCEPT !.service_uncertain_ack = TRUE],
                       [e EXCEPT !.service_stopped_ack = TRUE],
                       [e EXCEPT !.service_reconciliation = TRUE]}
    <3>2. \A n \in New : n \in JournalEntry
      BY <3>1 DEF JournalEntry
    <3>3. journal'[a] \in New
      BY <1>7 DEF Serves
    <3>4. journal'[a] # None /\ journal'[a] \in JournalEntry
      BY <1>t, <3>2, <3>3
    <3>5. CASE journal'[a] = e
      BY <1>7, <3>1, <3>4, <3>5 DEF Serves
    <3>6. CASE journal'[a] = [e EXCEPT !.retention_reported = TRUE] /\ hub'[a].lease # "None"
      BY <1>7, <3>1, <3>4, <3>6 DEF Serves, JournalEntry
    <3>7. CASE journal'[a] = [e EXCEPT !.service_uncertain_ack = TRUE]
      BY <1>7, <3>1, <3>4, <3>7 DEF Serves, JournalEntry
    <3>8. CASE /\ \/ journal'[a] = [e EXCEPT !.service_stopped_ack = TRUE]
                  \/ journal'[a] = [e EXCEPT !.service_reconciliation = TRUE]
               /\ process'[a] # "Running"
      BY <1>7, <3>1, <3>4, <3>8 DEF Serves, JournalEntry
    <3> QED
      BY <1>7, <3>5, <3>6, <3>7, <3>8 DEF Serves
  <2>1. EntryOK(a)'
    BY <1>t, <2>0, <1>7
    DEF EntryOK, InPhase, Serves
  <2>2. FinalOK(a)'
    BY <1>t, <2>0, <1>7
    DEF FinalOK, InPhase, Serves
  <2>3. SpoolOK(a)'
    BY <1>t, <2>0, <1>7
    DEF SpoolOK, NeedsLease, MustDrain, Serves
  <2>4. LeaseOK(a)'
    BY <1>t, <2>0, <1>7
    DEF EntryOK, LeaseOK, Serves
  <2>5. ReceiptOK(a)'
    BY <1>t, <2>0, <1>7
    DEF Calm, ReceiptOK, active, InPhase, Serves
  <2>6. StopOK(a)'
    BY <1>t, <2>0, <1>7
    DEF Calm, StopOK, Serves
  <2>7. ProcessOK(a)'
    BY <1>t, <2>0, <1>7
    DEF Calm, ProcessOK, Serves
  <2> QED
    BY <2>1, <2>2, <2>3, <2>4, <2>5, <2>6, <2>7
<1>8. CASE FailsHandoff(a)
  <2>0. /\ journal[a] # None /\ journal'[a] # None /\ journal'[a] \in JournalEntry
        /\ journal'[a].phase = journal[a].phase
        /\ journal'[a].report = "HandoffFailed"
        /\ journal'[a].fallback = journal[a].fallback
        /\ journal'[a].retained_service = journal[a].retained_service
        /\ journal'[a].retention_reported = journal[a].retention_reported
        /\ journal'[a].service_stopped_ack = journal[a].service_stopped_ack
        /\ journal'[a].service_reconciliation = journal[a].service_reconciliation
    BY <1>t, <1>8 DEF FailsHandoff, InPhase, JournalEntry, Outcome
  <2>1. EntryOK(a)'
    BY <1>t, <2>0, <1>8
    DEF EntryOK, InPhase, FailsHandoff, Outcome
  <2>2. FinalOK(a)'
    BY <1>t, <2>0, <1>8
    DEF FinalOK, InPhase, FailsHandoff, SameHubRow
  <2>3. SpoolOK(a)'
    BY <1>t, <2>0, <1>8
    DEF FinalOK, SpoolOK, FailsHandoff
  <2>4. LeaseOK(a)'
    BY <1>t, <2>0, <1>8
    DEF LeaseOK, FailsHandoff, SameHubRow
  <2>5. ReceiptOK(a)'
    BY <1>t, <2>0, <1>8
    DEF Calm, ReceiptOK, active, InPhase, FailsHandoff
  <2>6. StopOK(a)'
    BY <1>t, <2>0, <1>8
    DEF Calm, StopOK, FailsHandoff, SameHubRow
  <2>7. ProcessOK(a)'
    BY <1>t, <2>0, <1>8
    DEF Calm, ProcessOK, FailsHandoff, SameHubRow
  <2> QED
    BY <2>1, <2>2, <2>3, <2>4, <2>5, <2>6, <2>7
<1>9. CASE IsBound(a)
  <2>1. EntryOK(a)'
    BY <1>t, <1>9
    DEF EntryOK, InPhase, IsBound
  <2>2. FinalOK(a)'
    BY <1>t, <1>9
    DEF EntryOK, FinalOK, InPhase, IsBound, SameHubRow, Pending, Reported
  <2>3. SpoolOK(a)'
    BY <1>t, <1>9
    DEF SpoolOK, NeedsLease, MustDrain, IsBound
  <2>4. LeaseOK(a)'
    BY <1>t, <1>9
    DEF LeaseOK, IsBound, SameHubRow
  <2>5. ReceiptOK(a)'
    BY <1>t, <1>9
    DEF Calm, ReceiptOK, active, InPhase, IsBound
  <2>6. StopOK(a)'
    BY <1>t, <1>9
    DEF Calm, StopOK, IsBound, SameHubRow
  <2>7. ProcessOK(a)'
    BY <1>t, <1>9
    DEF Calm, ProcessOK, IsBound, SameHubRow
  <2> QED
    BY <2>1, <2>2, <2>3, <2>4, <2>5, <2>6, <2>7
<1>10. CASE IsSent(a)
  <2>1. EntryOK(a)'
    BY <1>t, <1>10
    DEF EntryOK, IsSent, Final
  <2>2. FinalOK(a)'
    BY <1>t, <1>10
    DEF FinalOK, InPhase, IsSent, Final
  <2>3. SpoolOK(a)'
    BY <1>t, <1>10
    DEF SpoolOK, NeedsLease, MustDrain, IsSent, Final
  <2>4. LeaseOK(a)'
    BY <1>t, <1>10
    DEF LeaseOK, IsSent, Final
  <2>5. ReceiptOK(a)'
    BY <1>t, <1>10
    DEF Calm, ReceiptOK, active, InPhase, IsSent, Final
  <2>6. StopOK(a)'
    BY <1>t, <1>10
    DEF Calm, StopOK, IsSent, Final
  <2>7. ProcessOK(a)'
    BY <1>t, <1>10
    DEF Calm, SpoolOK, LeaseOK, StopOK, ProcessOK, NeedsLease, MustDrain, InPhase, IsSent, Final, Reported, HubRow
  <2> QED
    BY <2>1, <2>2, <2>3, <2>4, <2>5, <2>6, <2>7
<1>11. CASE Settles(a)
  <2>0. /\ journal[a] # None /\ journal'[a] # None /\ journal'[a] \in JournalEntry
        /\ journal'[a].phase = "Settled"
        /\ journal'[a].report = journal[a].report
        /\ journal'[a].fallback = journal[a].fallback
        /\ journal'[a].retained_service = journal[a].retained_service
        /\ journal'[a].retention_reported = journal[a].retention_reported
        /\ journal'[a].service_stopped_ack = journal[a].service_stopped_ack
        /\ journal'[a].service_reconciliation = journal[a].service_reconciliation
    BY <1>t, <1>11 DEF Settles, InPhase, JournalEntry, Outcome
  <2>1. EntryOK(a)'
    BY <1>t, <2>0, <1>11
    DEF EntryOK, InPhase, Settles, Final, Reported
  <2>2. FinalOK(a)'
    BY <1>t, <2>0, <1>11
    DEF FinalOK, InPhase, Settles, Final, Pending
  <2>3. SpoolOK(a)'
    BY <1>t, <2>0, <1>11
    DEF SpoolOK, Settles, Final
  <2>4. LeaseOK(a)'
    BY <1>t, <2>0, <1>11
    DEF LeaseOK, Settles, Final
  <2>5. ReceiptOK(a)'
    BY <1>t, <2>0, <1>11
    DEF Calm, ReceiptOK, active, InPhase, Settles, Final
  <2>6. StopOK(a)'
    BY <1>t, <2>0, <1>11
    DEF Calm, StopOK, Settles, Final
  <2>7. ProcessOK(a)'
    BY <1>t, <2>0, <1>11
    DEF Calm, SpoolOK, LeaseOK, StopOK, ProcessOK, NeedsLease, MustDrain, InPhase, Settles, Final, Reported, HubRow
  <2> QED
    BY <2>1, <2>2, <2>3, <2>4, <2>5, <2>6, <2>7
<1>12. CASE FallsBack(a)
  <2>0. /\ journal[a] # None /\ journal'[a] # None /\ journal'[a] \in JournalEntry
        /\ journal'[a].phase = journal[a].phase
        /\ journal'[a].report = journal[a].report
        /\ journal'[a].fallback = "YieldRejected"
        /\ journal'[a].retained_service = journal[a].retained_service
        /\ journal'[a].retention_reported = journal[a].retention_reported
        /\ journal'[a].service_stopped_ack = journal[a].service_stopped_ack
        /\ journal'[a].service_reconciliation = journal[a].service_reconciliation
    BY <1>t, <1>12 DEF FallsBack, InPhase, JournalEntry, Outcome
  <2>1. EntryOK(a)'
    BY <1>t, <2>0, <1>12
    DEF EntryOK, InPhase, FallsBack
  <2>2. FinalOK(a)'
    BY <1>t, <2>0, <1>12
    DEF EntryOK, FinalOK, InPhase, FallsBack, SameHubRow
  <2>3. SpoolOK(a)'
    BY <1>t, <2>0, <1>12
    DEF SpoolOK, NeedsLease, MustDrain, FallsBack
  <2>4. LeaseOK(a)'
    BY <1>t, <2>0, <1>12
    DEF LeaseOK, FallsBack, SameHubRow
  <2>5. ReceiptOK(a)'
    BY <1>t, <2>0, <1>12
    DEF Calm, ReceiptOK, active, InPhase, FallsBack
  <2>6. StopOK(a)'
    BY <1>t, <2>0, <1>12
    DEF Calm, StopOK, FallsBack, SameHubRow
  <2>7. ProcessOK(a)'
    BY <1>t, <2>0, <1>12
    DEF Calm, ProcessOK, FallsBack, SameHubRow
  <2> QED
    BY <2>1, <2>2, <2>3, <2>4, <2>5, <2>6, <2>7
<1> QED
  BY <1>1, <1>2, <1>3, <1>4, <1>5, <1>6, <1>7, <1>8, <1>9, <1>10, <1>11, <1>12 DEF Moves

-----------------------------------------------------------------------------
(* What the steps do on the host.                                          *)
HostTypes ==
    /\ run \in [Attempt -> Receipt \cup {None}]
    /\ process \in [Attempt -> {"None", "Running", "Gone"}]

Calmly == HostTypes' /\ \A b \in Attempt : Calm(b)

(* A receipt that may take the place of the one of a.                      *)
Succeeds(a, r) ==
    /\ r \in Receipt
    /\ r.worker = "Running" => run[a].worker = "Running"
    /\ r.processes_drained => r.worker # "Running" /\ process[a] # "Running"

LEMMA DrainedIsGone ==
    ASSUME NEW a \in Attempt, RInv, run[a] # None, Drained(a)
    PROVE  ~active(a) /\ process[a] # "Running"
BY DEF RInv, RowOK, ReceiptOK, Drained

LEMMA ObservedSucceeds ==
    ASSUME NEW a \in Attempt, RInv, run[a] # None,
           NEW r \in Receipt, r.worker = run[a].worker
    PROVE  Succeeds(a, Observed(a, r))
<1>1. run[a] \in Receipt
  BY DEF RInv, HostTypeOK
<1>2. Drained(a) \in BOOLEAN
  BY <1>1 DEF Drained, Receipt
<1>3. Observed(a, r) \in Receipt
  BY <1>2 DEF Observed, Receipt
<1>4. /\ Observed(a, r).worker = run[a].worker
      /\ Observed(a, r).processes_drained => Drained(a)
  BY DEF Observed, Receipt
<1> QED
  BY <1>3, <1>4, DrainedIsGone DEF Succeeds, active

(* Its process lifetime is over.                                           *)
LEMMA CancelledSucceeds ==
    ASSUME NEW a \in Attempt, RInv, run[a] # None
    PROVE  /\ Succeeds(a, Observed(a, [run[a] EXCEPT !.process_lifetime = "Cancelled"]))
           /\ Succeeds(a, Observed(a, run[a]))
<1>1. run[a] \in Receipt
  BY DEF RInv, HostTypeOK
<1>2. /\ [run[a] EXCEPT !.process_lifetime = "Cancelled"] \in Receipt
      /\ [run[a] EXCEPT !.process_lifetime = "Cancelled"].worker = run[a].worker
  BY <1>1 DEF Receipt
<1> QED
  BY <1>1, <1>2, ObservedSucceeds

LEMMA StoppedSucceeds ==
    ASSUME NEW a \in Attempt, RInv, run[a] # None
    PROVE  Succeeds(a, stop_execution(a, run[a]))
<1>1. run[a] \in Receipt
  BY DEF RInv, HostTypeOK
<1>2. CASE Drained(a)
  BY <1>2, CancelledSucceeds DEF stop_execution
<1>3. CASE ~Drained(a)
  <2> DEFINE s == [run[a] EXCEPT !.process_lifetime = "Cancelled",
                                 !.cancelled = run[a].result # "Completed"]
  <2>1. (run[a].result # "Completed") \in BOOLEAN
    OBVIOUS
  <2>2. /\ s \in Receipt /\ s.worker = run[a].worker
        /\ s.processes_drained = run[a].processes_drained
    BY <1>1, <2>1 DEF Receipt
  <2>3. ~run[a].processes_drained
    BY <1>3 DEF Drained
  <2>4. stop_execution(a, run[a]) = s
    BY <1>3 DEF stop_execution
  <2> HIDE DEF s
  <2> QED
    BY <2>2, <2>3, <2>4 DEF Succeeds
<1> QED
  BY <1>2, <1>3

LEMMA SameHost ==
    ASSUME RInv, UNCHANGED <<run, process, effects>>
    PROVE  Calmly
BY DEF RInv, HostTypeOK, HostTypes, RowOK, ReceiptOK, Calmly, Calm, active

LEMMA OneReceipt ==
    ASSUME RInv, NEW a \in Attempt, run[a] # None, NEW r, Succeeds(a, r),
           run' = [run EXCEPT ![a] = r], UNCHANGED <<process, effects>>
    PROVE  Calmly /\ \A b \in Attempt : run[b] # None => run'[b] # None
<1>1. HostTypes'
  BY DEF RInv, HostTypeOK, HostTypes, Succeeds
<1>2. r # None
  BY ReceiptAssumption DEF Succeeds
<1>3. ASSUME NEW b \in Attempt PROVE Calm(b) /\ (run[b] # None => run'[b] # None)
  <2>1. CASE b = a
    <3>1. run'[b] = r
      BY <2>1 DEF RInv, HostTypeOK
    <3> QED
      BY <1>2, <2>1, <3>1 DEF Calm, active, Succeeds
  <2>2. CASE b # a
    <3>1. run'[b] = run[b]
      BY <2>2 DEF RInv, HostTypeOK
    <3> QED
      BY <3>1 DEF RInv, RowOK, ReceiptOK, Calm, active
  <2> QED
    BY <2>1, <2>2
<1> QED
  BY <1>1, <1>3 DEF Calmly

(* A drained receipt is retired.                                           *)
LEMMA Retired ==
    ASSUME RInv, NEW a \in Attempt, run' = [run EXCEPT ![a] = None],
           UNCHANGED <<process, effects>>
    PROVE  Calmly /\ \A b \in Attempt \ {a} : run'[b] = run[b]
<1>1. HostTypes'
  BY DEF RInv, HostTypeOK, HostTypes
<1>2. run'[a] = None /\ \A b \in Attempt \ {a} : run'[b] = run[b]
  BY DEF RInv, HostTypeOK
<1>3. \A b \in Attempt : Calm(b)
  BY <1>2 DEF RInv, RowOK, ReceiptOK, Calm, active
<1> QED
  BY <1>1, <1>2, <1>3 DEF Calmly

-----------------------------------------------------------------------------
(* What a call does to the row of its attempt at the Hub.                  *)
Ending == Outcome \ {"Uncertain"}
Call == Outcome \cup {"Started", "RetainService", "ServiceStopped", "ServiceUncertain"}

Effect(a, r, reply, h) ==
    /\ \A b \in Attempt \ {a} : h[b] = hub[b]
    /\ h[a].final \in {hub[a].final} \cup ({r} \cap Ending)
    /\ r \in Ending /\ reply = "Ok" => h[a].final = r
    /\ \/ h[a].lease = hub[a].lease
       \/ r = "RetainService" /\ hub[a].lease = "None" /\ h[a].lease = "Held"
       \/ r = "ServiceStopped" /\ h[a].lease = "Stopped"
    /\ r = "RetainService" /\ reply = "Ok" => h[a].lease # "None"
    /\ reply = "Rejected" => h = hub

LEMMA AnswerEffect ==
    ASSUME TypeOK, NEW a \in Attempt, NEW r \in Call, NEW y \in Answer(a, r)
    PROVE  Effect(a, r, y.reply, y.hub) /\ y.reply \in {"Ok", "Rejected"}
<1>1. hub[a] \in HubRow
  BY DEF TypeOK
<1>2. \A s \in HubRow : Put(a, s)[a] = s /\ \A b \in Attempt \ {a} : Put(a, s)[b] = hub[b]
  BY DEF TypeOK, Put
<1> DEFINE h == hub[a]
<1>3. ASSUME NEW s \in HubRow, y.hub = Put(a, s), y.reply = "Ok",
             s.final \in {h.final} \cup ({r} \cap Ending),
             r \in Ending => s.final = r,
             \/ s.lease = h.lease
             \/ r = "RetainService" /\ h.lease = "None" /\ s.lease = "Held"
             \/ r = "ServiceStopped" /\ s.lease = "Stopped",
             r = "RetainService" => s.lease # "None"
      PROVE  Effect(a, r, y.reply, y.hub) /\ y.reply \in {"Ok", "Rejected"}
  <2>1. y.hub[a] = s /\ \A b \in Attempt \ {a} : y.hub[b] = hub[b]
    BY <1>2, <1>3
  <2> QED
    BY <1>3, <2>1 DEF Effect
<1>4. CASE y.hub = hub /\ y.reply = "Rejected"
  BY <1>4 DEF Effect
<1>5. CASE r = "Started"
  <2>1. \/ y.hub = hub /\ y.reply = "Rejected"
        \/ y.hub = Put(a, [h EXCEPT !.state = "Running"]) /\ y.reply = "Ok"
    BY <1>5 DEF Answer
  <2>2. /\ [h EXCEPT !.state = "Running"] \in HubRow
        /\ [h EXCEPT !.state = "Running"].final = h.final
        /\ [h EXCEPT !.state = "Running"].lease = h.lease
    BY <1>1 DEF HubRow
  <2>3. r \notin Ending
    BY <1>5 DEF Ending, Outcome, Handoff
  <2> QED
    BY <1>3, <1>4, <1>5, <2>1, <2>2, <2>3
<1>6. CASE r = "RetainService"
  <2> DEFINE s == [h EXCEPT !.lease = IF h.lease = "None" THEN "Held" ELSE h.lease]
  <2>1. \/ y.hub = hub /\ y.reply = "Rejected"
        \/ y.hub = Put(a, s) /\ y.reply = "Ok"
    BY <1>6 DEF Answer
  <2>2. /\ s \in HubRow /\ s.final = h.final /\ s.lease # "None"
        /\ s.lease = h.lease \/ (h.lease = "None" /\ s.lease = "Held")
    BY <1>1 DEF HubRow
  <2>3. r \notin Ending
    BY <1>6 DEF Ending, Outcome, Handoff
  <2> QED
    <3> HIDE DEF s
    <3> QED BY <1>3, <1>4, <1>6, <2>1, <2>2, <2>3
<1>7. CASE r = "ServiceStopped"
  <2>1. y.hub = Put(a, [h EXCEPT !.lease = "Stopped"]) /\ y.reply = "Ok"
    BY <1>7 DEF Answer
  <2>2. /\ [h EXCEPT !.lease = "Stopped"] \in HubRow
        /\ [h EXCEPT !.lease = "Stopped"].final = h.final
        /\ [h EXCEPT !.lease = "Stopped"].lease = "Stopped"
    BY <1>1 DEF HubRow
  <2>3. r \notin Ending
    BY <1>7 DEF Ending, Outcome, Handoff
  <2> QED
    BY <1>3, <1>7, <2>1, <2>2, <2>3
<1>8. CASE r = "ServiceUncertain"
  <2>1. y.hub = Put(a, h) /\ y.reply = "Ok"
    BY <1>8 DEF Answer
  <2>2. r \notin Ending
    BY <1>8 DEF Ending, Outcome, Handoff
  <2> QED
    BY <1>1, <1>3, <1>8, <2>1, <2>2
<1>9. CASE r = "Uncertain"
  <2>1. \/ y.hub = hub /\ y.reply = "Rejected"
        \/ y.hub = Put(a, [h EXCEPT !.state = "Uncertain"]) /\ y.reply = "Ok"
    BY <1>9 DEF Answer
  <2>2. /\ [h EXCEPT !.state = "Uncertain"] \in HubRow
        /\ [h EXCEPT !.state = "Uncertain"].final = h.final
        /\ [h EXCEPT !.state = "Uncertain"].lease = h.lease
    BY <1>1 DEF HubRow
  <2> QED
    BY <1>3, <1>4, <1>9, <2>1, <2>2 DEF Ending
<1>10. CASE r \notin {"Started", "RetainService", "ServiceStopped", "ServiceUncertain",
                      "Uncertain"}
  <2>1. r \in Ending /\ r \in Outcome
    BY <1>10 DEF Call, Ending
  <2> DEFINE s == [h EXCEPT !.state = "Over", !.final = r]
  <2>2. \/ y.hub = hub /\ y.reply = "Rejected"
        \/ y.hub = Put(a, h) /\ y.reply = "Ok" /\ h.final = r
        \/ y.hub = Put(a, s) /\ y.reply = "Ok"
    <3>1. CASE r = "Yielded"
      BY <3>1 DEF Answer
    <3>2. CASE r # "Yielded"
      BY <1>10, <3>2 DEF Answer
    <3> QED
      BY <3>1, <3>2
  <2>3. s \in HubRow /\ s.final = r /\ s.lease = h.lease
    BY <1>1, <2>1 DEF HubRow
  <2> QED
    <3> HIDE DEF s
    <3> QED BY <1>1, <1>3, <1>4, <1>10, <2>1, <2>2, <2>3
<1> QED
  BY <1>5, <1>6, <1>7, <1>8, <1>9, <1>10

(* The same of a call that may have been lost.                             *)
LEMMA TellEffect ==
    ASSUME TypeOK, NEW a \in Attempt, NEW r \in Call,
           NEW x \in report(a, r), Told(x)
    PROVE  Effect(a, r, x.reply, hub')
<1>1. hub' = x.hub
  BY DEF Told
<1>2. CASE x \in Answer(a, r)
  BY <1>1, <1>2, AnswerEffect DEF Effect
<1>3. CASE x \notin Answer(a, r)
  <2>1. PICK h \in {hub} \cup {y.hub : y \in Answer(a, r)} :
            x = [hub |-> h, reply |-> "Unavailable"]
    BY <1>3 DEF report, Lossy
  <2>2. x.reply = "Unavailable" /\ hub' = h
    BY <1>1, <2>1
  <2>3. CASE h = hub
    BY <2>2, <2>3 DEF Effect
  <2>4. CASE h # hub
    <3>1. PICK y \in Answer(a, r) : h = y.hub
      BY <2>4
    <3>2. Effect(a, r, y.reply, y.hub)
      BY AnswerEffect
    <3> QED
      BY <2>2, <3>1, <3>2 DEF Effect
  <2> QED
    BY <2>3, <2>4
<1> QED
  BY <1>2, <1>3

-----------------------------------------------------------------------------
(* How the parts of a step make up the invariant.                          *)
SpoolType == spool \in [Attempt -> Outcome \cup {None}]

LEMMA Assembled ==
    ASSUME RInv, IInv', earlier' = earlier, SpoolType', Calmly,
           \A b \in Attempt : Moves(b), DeliveryOK', StartOK', ExecutingOK'
    PROVE  RInv'
<1>1. HostTypeOK'
  BY DEF SpoolType, Calmly, HostTypes, HostTypeOK
<1>2. ASSUME NEW b \in Attempt PROVE RowOK(b)'
  <2>1. Context(b)
    BY <1>1 DEF RInv, IInv, Calmly, Context
  <2> QED
    BY <2>1, MoveKeepsRow
<1> QED
  BY <1>1, <1>2 DEF RInv

LEMMA SameRows ==
    ASSUME RInv, UNCHANGED <<hub, journal, spool>>
    PROVE  SpoolType' /\ \A b \in Attempt : Moves(b)
BY DEF RInv, HostTypeOK, SpoolType, Moves, Stays, SameHubRow

Plain == {"Operate", "Collect", "Services", "Flush", "Admit", "Down"}

LEMMA PlainPosition ==
    ASSUME tick'.pc \in Plain
    PROVE  DeliveryOK' /\ StartOK'
BY DEF Plain, DeliveryOK, StartOK, Delivering

LEMMA SamePosition ==
    ASSUME RInv, UNCHANGED <<tick, journal, spool>>
    PROVE  DeliveryOK' /\ StartOK'
BY DEF RInv, DeliveryOK, StartOK, InPhase, NeedsLease, MustDrain

LEMMA SameAwaited ==
    ASSUME RInv, tick' = tick \/ tick.pc \notin {"Down", "Prepare", "OrphanExecuting"},
           \A b \in Attempt : InPhase(b, "Executing")' =>
               InPhase(b, "Executing") /\ (run[b] # None => run'[b] # None)
    PROVE  ExecutingOK'
BY DEF RInv, ExecutingOK, Awaited

LEMMA IdleIsPlain ==
    /\ Idle.pc \in Plain /\ Idle.todo = {} /\ Idle.seen = {}
    /\ FlushNext.pc \in Plain
BY DEF Plain, Idle, At, FlushNext, Flushing

-----------------------------------------------------------------------------
(* What happens around the loop.                                           *)
LEMMA HubRequestKeeps ==
    ASSUME RInv, IInv', NEW a \in Attempt, hub_request_stop(a) \/ hub_stop_service(a)
    PROVE  RInv'
<1>1. UNCHANGED <<journal, spool, run, process, effects, earlier, tick>>
  BY DEF hub_request_stop, hub_stop_service
<1>2. \A b \in Attempt : SameHubRow(b)
  BY DEF hub_request_stop, hub_stop_service, SameHubRow, RInv, IInv, TypeOK, HubRow
<1>3. SpoolType' /\ \A b \in Attempt : Moves(b)
  BY <1>1, <1>2 DEF Moves, Stays, SpoolType, RInv, HostTypeOK
<1>4. ExecutingOK'
  BY <1>1, SameAwaited DEF InPhase
<1> QED
  BY <1>1, <1>3, <1>4, SameHost, SamePosition, Assembled

LEMMA HostStepKeeps ==
    ASSUME RInv, IInv', NEW a \in Attempt,
           \/ worker_end(a) \/ lifetime_noticed(a) \/ process_exit(a) \/ client_status(a)
           \/ client_stop(a) \/ stop_retained_service(a)
    PROVE  RInv'
<1>1. UNCHANGED <<hub, journal, spool, effects, earlier, tick>>
  BY DEF worker_end, lifetime_noticed, process_exit, client_status, client_stop,
         stop_retained_service, world
<1>2. Calmly /\ \A b \in Attempt : run[b] # None => run'[b] # None
  <2>1. CASE worker_end(a)
    <3>1. run[a] # None /\ run[a] \in Receipt /\ ~run[a].processes_drained
      BY <2>1 DEF worker_end, active, RInv, HostTypeOK, RowOK, ReceiptOK
    <3>2. PICK result \in {"Completed", "Yielded", "Failed", "Lost"}, offers \in BOOLEAN :
              run' = [run EXCEPT ![a].worker = "Ended", ![a].result = result,
                                 ![a].offers = offers]
      BY <2>1 DEF worker_end
    <3> DEFINE r == [run[a] EXCEPT !.worker = "Ended", !.result = result, !.offers = offers]
    <3>3. run' = [run EXCEPT ![a] = r]
      BY <3>1, <3>2 DEF RInv, HostTypeOK, Receipt
    <3>4. r \in Receipt /\ r.worker = "Ended" /\ ~r.processes_drained
      BY <3>1 DEF Receipt
    <3>5. Succeeds(a, r)
      BY <3>4 DEF Succeeds
    <3> HIDE DEF r
    <3> QED
      BY <2>1, <3>1, <3>3, <3>5, OneReceipt DEF worker_end, world
  <2>2. CASE lifetime_noticed(a) \/ stop_retained_service(a)
    BY <2>2, SameHost DEF lifetime_noticed, stop_retained_service, world
  <2>3. CASE process_exit(a)
    <3>1. run' = run /\ effects' = effects /\ process' = [process EXCEPT ![a] = "Gone"]
      BY <2>3 DEF process_exit
    <3>2. HostTypes' /\ \A b \in Attempt : process'[b] = "Running" => process[b] = "Running"
      BY <3>1 DEF HostTypes, RInv, HostTypeOK
    <3> QED
      BY <3>1, <3>2 DEF Calmly, Calm, active, RInv, RowOK, ReceiptOK
  <2>4. CASE client_status(a)
    BY <2>4, CancelledSucceeds, OneReceipt DEF client_status, world
  <2>5. CASE client_stop(a)
    BY <2>5, StoppedSucceeds, OneReceipt DEF client_stop
  <2> QED
    BY <2>1, <2>2, <2>3, <2>4, <2>5
<1>3. ExecutingOK'
  BY <1>1, <1>2, SameAwaited DEF InPhase
<1> QED
  BY <1>1, <1>2, <1>3, SameRows, SamePosition, Assembled

LEMMA CrashKeeps ==
    ASSUME RInv, IInv', crash
    PROVE  RInv'
<1>1. UNCHANGED <<hub, journal, spool, process, effects, earlier>>
  BY DEF crash, world
<1>2. run' = [b \in Attempt |-> None] /\ tick'.pc = "Down"
  BY DEF crash, At
<1>3. Calmly
  BY <1>1, <1>2 DEF Calmly, Calm, active, HostTypes, RInv, HostTypeOK
<1>4. ExecutingOK'
  BY <1>2 DEF ExecutingOK, Awaited
<1> QED
  BY <1>1, <1>2, <1>3, <1>4, SameRows, PlainPosition, Assembled DEF Plain

LEMMA ReconcileAttemptKeeps ==
    ASSUME RInv, IInv', NEW a \in Attempt, reconcile_attempt(a)
    PROVE  RInv'
<1>1. UNCHANGED <<hub, spool, process, effects, earlier>> /\ tick.pc = "Operate"
  BY DEF reconcile_attempt, world
<1>2. Calmly /\ \A b \in Attempt : run[b] # None => run'[b] # None
  <2>1. CASE run[a] = None
    BY <1>1, <2>1, SameHost DEF reconcile_attempt
  <2>2. CASE run[a] # None
    BY <1>1, <2>2, CancelledSucceeds, OneReceipt DEF reconcile_attempt
  <2> QED
    BY <2>1, <2>2
<1>3. CASE UNCHANGED <<journal, tick>>
  <2>1. ExecutingOK'
    BY <1>1, <1>2, <1>3, SameAwaited DEF InPhase
  <2> QED
    BY <1>1, <1>2, <1>3, <2>1, SameRows, SamePosition, Assembled
<1>4. CASE ~UNCHANGED <<journal, tick>>
  <2>1. /\ journal' = [journal EXCEPT ![a].phase = "ReportPending",
                          ![a].fallback = journal[a].report, ![a].report = "Reconciled"]
        /\ tick' = [At("Flush") EXCEPT !.todo = {a}, !.then = "Operate"]
        /\ run[a] = None \/ Drained(a)
    BY <1>4 DEF reconcile_attempt
  <2>2. InPhase(a, "Uncertain") /\ journal[a] \in JournalEntry
    BY DEF reconcile_attempt, InPhase, RInv, IInv, TypeOK
  <2>3. /\ journal'[a] = [journal[a] EXCEPT !.phase = "ReportPending",
                             !.fallback = journal[a].report, !.report = "Reconciled"]
        /\ \A b \in Attempt \ {a} : journal'[b] = journal[b]
    BY <2>1, <2>2 DEF RInv, IInv, TypeOK, JournalEntry
  <2>4. ~active(a) /\ process[a] # "Running"
    <3>1. CASE run[a] = None
      BY <3>1 DEF reconcile_attempt, active
    <3>2. CASE run[a] # None
      BY <2>1, <3>2, DrainedIsGone
    <3> QED
      BY <3>1, <3>2
  <2>5. ~active(a)' /\ process'[a] # "Running"
    BY <1>1, <1>2, <2>4 DEF Calmly, Calm
  <2>6. SpoolType' /\ \A b \in Attempt : Moves(b)
    BY <1>1, <2>2, <2>3, <2>5
    DEF Moves, Stays, IsReconciled, SameHubRow, SpoolType, RInv, HostTypeOK
  <2>7. tick'.pc \in Plain
    BY <2>1 DEF At, Plain
  <2>8. journal'[a].phase = "ReportPending"
    BY <2>2, <2>3 DEF JournalEntry
  <2>9. ExecutingOK'
    BY <1>1, <1>2, <2>3, <2>8, SameAwaited DEF InPhase
  <2> QED
    BY <1>1, <1>2, <2>6, <2>7, <2>9, PlainPosition, Assembled
<1> QED
  BY <1>3, <1>4

LEMMA ReconcileServiceKeeps ==
    ASSUME RInv, IInv', NEW a \in Attempt, reconcile_service(a)
    PROVE  RInv'
<1>1. UNCHANGED <<hub, spool, process, effects, earlier, tick>> /\ tick.pc = "Operate"
  BY DEF reconcile_service, world
<1>2. journal[a] # None /\ journal[a].retained_service /\ journal[a] \in JournalEntry
  BY DEF reconcile_service, retained_services, RInv, IInv, TypeOK
<1>3. Calmly /\ \A b \in Attempt : run[b] # None => run'[b] # None
  <2>1. CASE run[a] = None
    BY <1>1, <2>1, SameHost DEF reconcile_service
  <2>2. CASE run[a] # None
    BY <1>1, <2>2, CancelledSucceeds, OneReceipt DEF reconcile_service
  <2> QED
    BY <2>1, <2>2
<1>4. process[a] # "Running"
  BY DrainedIsGone DEF reconcile_service
<1>5. /\ journal'[a] = [journal[a] EXCEPT !.service_reconciliation = TRUE]
      /\ \A b \in Attempt \ {a} : journal'[b] = journal[b]
  BY DEF reconcile_service, RInv, IInv, TypeOK
<1>6. SpoolType' /\ \A b \in Attempt : Moves(b)
  BY <1>1, <1>2, <1>4, <1>5 DEF Moves, Stays, Serves, SameHubRow, SpoolType, RInv, HostTypeOK
<1>7. journal'[a].phase = journal[a].phase
  BY <1>2, <1>5 DEF JournalEntry
<1>8. ExecutingOK'
  BY <1>1, <1>2, <1>3, <1>5, <1>7, SameAwaited DEF InPhase
<1>9. tick'.pc \in Plain
  BY <1>1 DEF Plain
<1> QED
  BY <1>1, <1>3, <1>6, <1>8, <1>9, PlainPosition, Assembled

-----------------------------------------------------------------------------
(* The first half of a tick.                                               *)
LEMMA PollKeeps ==
    ASSUME RInv, IInv', poll
    PROVE  RInv'
<1>1. UNCHANGED <<hub, journal, spool, process, effects, earlier>> /\ tick.pc = "Operate"
  BY DEF poll, world
<1>2. tick'.pc \in Plain
  BY DEF poll, At, Plain
<1>3. \A b \in Attempt : InPhase(b, "Executing") => run[b] # None
  BY <1>1 DEF RInv, ExecutingOK, Awaited
<1>4. ASSUME NEW seen, run' = stop_fenced_executions(seen)
      PROVE  Calmly /\ \A b \in Attempt : run[b] # None => run'[b] # None
  <2>1. \A b \in Attempt :
            \/ run'[b] = run[b]
            \/ run[b] # None /\ run'[b] = stop_execution(b, run[b])
    BY <1>3, <1>4 DEF stop_fenced_executions
  <2>2. ASSUME NEW b \in Attempt
        PROVE  \/ run'[b] = run[b]
               \/ run[b] # None /\ run'[b] # None /\ Succeeds(b, run'[b])
    BY <2>1, StoppedSucceeds, ReceiptAssumption DEF Succeeds
  <2>3. HostTypes'
    <3>1. \A b \in Attempt : run'[b] \in Receipt \cup {None}
      BY <2>2 DEF RInv, HostTypeOK, Succeeds
    <3>2. run' = [b \in Attempt |-> run'[b]]
      BY <1>4 DEF stop_fenced_executions
    <3> QED
      BY <1>1, <3>1, <3>2 DEF RInv, HostTypeOK, HostTypes
  <2>4. \A b \in Attempt : Calm(b)
    BY <1>1, <2>2 DEF Calm, active, Succeeds, RInv, RowOK, ReceiptOK
  <2> QED
    BY <2>2, <2>3, <2>4 DEF Calmly
<1>5. Calmly /\ \A b \in Attempt : run[b] # None => run'[b] # None
  BY <1>4 DEF poll
<1>6. ExecutingOK'
  BY <1>1, <1>5, SameAwaited DEF InPhase
<1> QED
  BY <1>1, <1>2, <1>5, <1>6, SameRows, PlainPosition, Assembled

(* An outcome is recorded when the worker has ended and its processes are  *)
(* gone, or with the service that the turn hands over.                     *)
LEMMA CollectKeeps ==
    ASSUME RInv, IInv', collect
    PROVE  RInv'
<1>1. UNCHANGED <<hub, spool, process, effects, earlier>> /\ tick.pc = "Collect"
  BY DEF collect, world
<1>2. tick'.pc \in Plain
  <2>1. tick' = Idle \/ tick' = [tick EXCEPT !.pc = "Services", !.then = None]
    BY DEF collect
  <2>2. [tick EXCEPT !.pc = "Services", !.then = None].pc = "Services"
    BY DEF RInv, IInv, TypeOK, Position
  <2> QED
    BY <2>1, <2>2, IdleIsPlain DEF Plain
<1>3. CASE UNCHANGED <<run, journal>>
  <2>1. ExecutingOK'
    BY <1>1, <1>3, SameAwaited DEF InPhase
  <2> QED
    BY <1>1, <1>2, <1>3, <2>1, SameRows, SameHost, PlainPosition, Assembled
<1>4. ASSUME NEW a \in Executing, collect_outcome(a) PROVE RInv'
  <2> DEFINE keeps == run[a].offers /\ ~run[a].cancelled /\ retained_service_live(a)
             r == IF run[a].result \notin {None, "Lost"} /\ ~keeps
                    THEN [run[a] EXCEPT !.process_lifetime = "Cancelled"] ELSE run[a]
  <2>1. /\ a \in Attempt /\ InPhase(a, "Executing") /\ journal[a] # None
        /\ journal[a] \in JournalEntry
    BY DEF Executing, InPhase, RInv, IInv, TypeOK
  <2>2. run[a] # None /\ run[a] \in Receipt
    BY <1>1, <2>1 DEF RInv, ExecutingOK, Awaited, HostTypeOK
  <2>3. keeps \in BOOLEAN
    BY <2>2 DEF Receipt
  <2>4. run' = [run EXCEPT ![a] = Observed(a, r)]
    BY <1>4 DEF collect_outcome
  <2>5. r \in Receipt /\ r.worker = run[a].worker
    BY <2>2 DEF Receipt
  <2>6. Calmly /\ \A b \in Attempt : run[b] # None => run'[b] # None
    <3> HIDE DEF r, keeps
    <3>1. Succeeds(a, Observed(a, r))
      BY <2>1, <2>2, <2>5, ObservedSucceeds
    <3> QED
      BY <1>1, <2>1, <2>2, <2>4, <3>1, OneReceipt
  <2>7. CASE journal' = journal
    <3>1. ExecutingOK'
      BY <1>1, <2>6, <2>7, SameAwaited DEF InPhase
    <3> QED
      BY <1>1, <1>2, <2>6, <2>7, <3>1, SameRows, PlainPosition, Assembled
  <2>8. CASE journal' # journal
    <3>1. /\ journal' = [journal EXCEPT ![a] = Collected(a, r, keeps)]
          /\ ~active(a) /\ (keeps \/ Drained(a))
      BY <1>4, <2>8 DEF collect_outcome
    <3> HIDE DEF r, keeps
    <3>2. /\ journal'[a] = Collected(a, r, keeps)
          /\ \A b \in Attempt \ {a} : journal'[b] = journal[b]
      BY <2>1, <3>1 DEF RInv, IInv, TypeOK
    <3>3. ~active(a)' /\ (process'[a] = "Running" => keeps)
      BY <1>1, <2>1, <2>2, <2>6, <3>1, DrainedIsGone DEF Calmly, Calm
    <3>4. \/ Collected(a, r, keeps) =
               [journal[a] EXCEPT !.phase = "Uncertain", !.report = "Uncertain"]
          \/ \E o \in {"Yielded", "Succeeded", "Failed"} : Collected(a, r, keeps) =
               [journal[a] EXCEPT !.phase = "ReportPending", !.report = o,
                                  !.retained_service = keeps]
      <4>1. ASSUME NEW o
            PROVE  [journal[a] EXCEPT !.phase = "ReportPending", !.retained_service = keeps,
                                      !.report = o]
                   = [journal[a] EXCEPT !.phase = "ReportPending", !.report = o,
                                        !.retained_service = keeps]
        BY <2>1 DEF JournalEntry
      <4> QED
        BY <4>1 DEF Collected
    <3>5. BecomesUncertain(a) \/ \E o \in Ending : Concludes(a, o, keeps)
      <4>1. {"Yielded", "Succeeded", "Failed"} \subseteq Ending
        BY DEF Ending, Outcome, Handoff
      <4> QED
        BY <1>1, <2>1, <3>2, <3>3, <3>4, <4>1 DEF BecomesUncertain, Concludes, SameHubRow
    <3>6. SpoolType' /\ \A b \in Attempt : Moves(b)
      BY <1>1, <2>3, <3>2, <3>5
      DEF Moves, Stays, SameHubRow, SpoolType, RInv, HostTypeOK, Ending
    <3>7. journal'[a].phase # "Executing"
      BY <2>1, <3>2, <3>4 DEF JournalEntry
    <3>8. ExecutingOK'
      BY <1>1, <2>1, <2>6, <3>2, <3>7, SameAwaited DEF InPhase
    <3> QED
      BY <1>1, <1>2, <2>6, <3>6, <3>8, PlainPosition, Assembled
  <2> QED
    BY <2>7, <2>8
<1> QED
  BY <1>3, <1>4 DEF collect

LEMMA RecoverKeeps ==
    ASSUME RInv, IInv', recover
    PROVE  RInv'
<1>1. UNCHANGED <<hub, spool, run, process, effects, earlier>> /\ tick' = Idle
  BY DEF recover, world
<1>2. \A b \in Attempt :
          \/ ~InPhase(b, "Executing") /\ journal'[b] = journal[b]
          \/ /\ InPhase(b, "Executing")
             /\ journal'[b] = [journal[b] EXCEPT !.phase = "Uncertain", !.report = "Uncertain"]
  BY DEF recover
<1>3. SpoolType' /\ \A b \in Attempt : Moves(b)
  BY <1>1, <1>2
  DEF Moves, Stays, BecomesUncertain, SameHubRow, SpoolType, RInv, HostTypeOK
<1>4. \A b \in Attempt : ~InPhase(b, "Executing")'
  <2>1. ASSUME NEW b \in Attempt, InPhase(b, "Executing")
        PROVE  [journal[b] EXCEPT !.phase = "Uncertain", !.report = "Uncertain"].phase
                 = "Uncertain"
    BY <2>1 DEF InPhase, RInv, IInv, TypeOK, JournalEntry
  <2> QED
    BY <1>2, <2>1 DEF InPhase
<1>5. ExecutingOK'
  BY <1>4 DEF ExecutingOK
<1> QED
  BY <1>1, <1>3, <1>5, SameHost, IdleIsPlain, PlainPosition, Assembled

LEMMA AdmitNothingKeeps ==
    ASSUME RInv, IInv', admit_nothing
    PROVE  RInv'
<1>1. /\ UNCHANGED <<hub, journal, spool, run, process, effects, earlier>>
      /\ tick' = Idle /\ tick.pc = "Admit"
  BY DEF admit_nothing, world
<1>2. ExecutingOK'
  BY <1>1, SameAwaited DEF InPhase
<1> QED
  BY <1>1, <1>2, SameHost, SameRows, IdleIsPlain, PlainPosition, Assembled

(* The loop visits services that it retains.                               *)
LEMMA ServingPosition ==
    ASSUME RInv, NEW todo, tick' = Serving(todo),
           \A b \in todo : journal'[b].retained_service
    PROVE  DeliveryOK' /\ StartOK'
<1>1. CASE todo = {}
  <2>1. tick'.pc \in Plain
    BY <1>1 DEF Serving, Flushing, Idle, At, Plain, RInv, IInv, TypeOK, Position
  <2> QED
    BY <2>1, PlainPosition
<1>2. CASE todo # {}
  <2>1. tick'.pc = "Service" /\ tick'.todo = todo
    BY <1>2 DEF Serving, RInv, IInv, TypeOK, Position
  <2> QED
    BY <2>1 DEF DeliveryOK, StartOK, Delivering
<1> QED
  BY <1>1, <1>2

LEMMA ReadServicesKeeps ==
    ASSUME RInv, IInv', read_services
    PROVE  RInv'
<1>1. /\ UNCHANGED <<hub, journal, spool, run, process, effects, earlier>>
      /\ tick.pc = "Services"
  BY DEF read_services, world
<1>2. DeliveryOK' /\ StartOK'
  <2> DEFINE leased == {a \in retained_services : journal[a].retention_reported}
  <2>1. tick' = Serving({}) \/ tick' = Serving(leased) \/ tick' = Idle
    BY DEF read_services
  <2>2. \A b \in leased : journal'[b].retained_service
    BY <1>1 DEF retained_services
  <2> HIDE DEF leased
  <2> QED
    BY <2>1, <2>2, ServingPosition, IdleIsPlain, PlainPosition
<1>3. ExecutingOK'
  BY <1>1, SameAwaited DEF InPhase
<1> QED
  BY <1>1, <1>2, <1>3, SameHost, SameRows, Assembled

LEMMA ReportServiceKeeps ==
    ASSUME RInv, IInv', NEW a \in Attempt, report_service(a)
    PROVE  RInv'
<1>1. UNCHANGED <<spool, process, effects, earlier>> /\ tick.pc = "Service"
  BY DEF report_service, world
<1>2. /\ a \in tick.todo /\ journal[a] # None /\ journal[a].retained_service
      /\ journal[a] \in JournalEntry /\ tick.todo \subseteq Attempt
  BY <1>1, VisitedIsRecorded
  DEF report_service, Visiting, RInv, IInv, StartOK, TypeOK, Position
<1>3. Calmly /\ \A b \in Attempt : run[b] # None => run'[b] # None
  <2>1. CASE run' = run
    BY <1>1, <2>1, SameHost
  <2>2. CASE run' # run
    BY <1>1, <2>2, CancelledSucceeds, OneReceipt DEF report_service
  <2> QED
    BY <2>1, <2>2
<1>4. CASE UNCHANGED <<hub, journal>>
  <2>1. tick' = Serving(tick.todo \ {a}) \/ tick' = Idle
    BY DEF report_service, ServiceReceipt
  <2>2. DeliveryOK' /\ StartOK'
    <3>1. \A b \in tick.todo \ {a} : journal'[b].retained_service
      BY <1>1, <1>4 DEF RInv, StartOK
    <3> QED
      BY <2>1, <3>1, ServingPosition, IdleIsPlain, PlainPosition
  <2>3. ExecutingOK'
    BY <1>1, <1>3, <1>4, SameAwaited DEF InPhase
  <2> QED
    BY <1>1, <1>3, <1>4, <2>2, <2>3, SameRows, Assembled
<1>5. ASSUME NEW r, NEW f, ServiceReceipt(a, r, f),
             \/ r = "ServiceStopped" /\ f = "stopped" /\ process[a] # "Running"
             \/ r = "ServiceUncertain" /\ f = "uncertain"
      PROVE  RInv'
  <2>1. PICK x \in report(a, r) :
          /\ Told(x)
          /\ journal' = IF x.reply # "Ok" THEN journal
                        ELSE IF f = "stopped"
                          THEN [journal EXCEPT ![a].service_stopped_ack = TRUE]
                          ELSE [journal EXCEPT ![a].service_uncertain_ack = TRUE]
          /\ tick' = IF x.reply = "Ok" THEN Serving(tick.todo \ {a}) ELSE Idle
    BY <1>5 DEF ServiceReceipt
  <2>2. r \in Call /\ r \notin Ending
    <3>1. {"ServiceStopped", "ServiceUncertain"} \subseteq Call
      BY DEF Call
    <3>2. {"ServiceStopped", "ServiceUncertain"} \cap Ending = {}
      BY DEF Ending, Outcome, Handoff
    <3> QED
      BY <1>5, <3>1, <3>2
  <2>3. Effect(a, r, x.reply, hub')
    BY <2>1, <2>2, TellEffect DEF RInv, IInv
  <2>4. /\ \A b \in Attempt \ {a} : journal'[b] = journal[b] /\ hub'[b] = hub[b]
        /\ \/ journal'[a] = journal[a]
           \/ /\ journal'[a] = [journal[a] EXCEPT !.service_stopped_ack = TRUE]
              /\ process[a] # "Running"
           \/ journal'[a] = [journal[a] EXCEPT !.service_uncertain_ack = TRUE]
        /\ hub'[a].final = hub[a].final
        /\ hub'[a].lease = hub[a].lease
             \/ (hub'[a].lease = "Stopped" /\ process[a] # "Running")
    <3>1. \A b \in Attempt \ {a} : hub'[b] = hub[b]
      BY <2>3 DEF Effect
    <3>2. /\ hub'[a].final = hub[a].final
          /\ hub'[a].lease = hub[a].lease
               \/ (hub'[a].lease = "Stopped" /\ process[a] # "Running")
      BY <1>5, <2>2, <2>3 DEF Effect
    <3> QED
      BY <1>5, <2>1, <3>1, <3>2 DEF RInv, IInv, TypeOK
  <2>5. SpoolType' /\ \A b \in Attempt : Moves(b)
    BY <1>1, <1>2, <2>4 DEF Moves, Stays, Serves, SameHubRow, SpoolType, RInv, HostTypeOK
  <2>6. journal'[a].phase = journal[a].phase /\ journal'[a].retained_service
    BY <1>2, <2>4 DEF JournalEntry
  <2>7. DeliveryOK' /\ StartOK'
    <3>1. \A b \in tick.todo \ {a} : journal'[b].retained_service
      BY <1>1, <1>2, <2>4 DEF RInv, StartOK
    <3> QED
      BY <2>1, <3>1, ServingPosition, IdleIsPlain, PlainPosition
  <2>8. ExecutingOK'
    BY <1>1, <1>2, <1>3, <2>4, <2>6, SameAwaited DEF InPhase
  <2> QED
    BY <1>1, <1>3, <2>5, <2>7, <2>8, Assembled
<1>6. StopKnown(a) => process[a] # "Running"
  BY <1>2, DrainedIsGone DEF StopKnown, RInv, RowOK, StopOK
<1> QED
  BY <1>4, <1>5, <1>6 DEF report_service

-----------------------------------------------------------------------------
(* The reports.                                                            *)
Flush(a) ==
    \/ flush_uncertain(a) \/ flush_retain(a) \/ flush_handoff(a) \/ flush_persist(a)
    \/ flush_report(a) \/ flush_rejected(a) \/ flush_fallback(a)

LEMMA FlushFacts ==
    ASSUME RInv, NEW a \in Attempt, Flush(a)
    PROVE  /\ UNCHANGED <<process, effects, earlier>>
           /\ tick.pc \in {"Flush", "Persist", "Report", "Rejected", "Fallback"}
           /\ a = First(tick.todo) /\ journal[a] # None /\ journal[a] \in JournalEntry
           /\ journal[a].report \in Outcome \cup {None}
<1>1. /\ UNCHANGED <<process, effects, earlier>>
      /\ tick.pc \in {"Flush", "Persist", "Report", "Rejected", "Fallback"}
      /\ a = First(tick.todo)
  BY DEF Flush, flush_uncertain, flush_retain, flush_handoff, flush_persist, flush_report,
         flush_rejected, flush_fallback, Now, world
<1>2. journal[a] # None
  BY <1>1, VisitedIsRecorded DEF RInv, Visiting
<1> QED
  BY <1>1, <1>2 DEF RInv, IInv, TypeOK, JournalEntry

(* Where the loop goes on with the same entry.                             *)
LEMMA MovedPosition ==
    ASSUME RInv, NEW pc \in Delivering, tick' = [tick EXCEPT !.pc = pc]
    PROVE  tick'.pc = pc /\ tick'.todo = tick.todo
BY DEF RInv, IInv, TypeOK, Position

(* No flush makes an entry executing or retires a receipt of one.          *)
LEMMA FlushAwaited ==
    ASSUME RInv, NEW a \in Attempt, Flush(a),
           journal'[a].phase # "Executing",
           \A b \in Attempt \ {a} : journal'[b] = journal[b],
           \A b \in Attempt \ {a} : run[b] # None => run'[b] # None
    PROVE  ExecutingOK'
<1>1. tick.pc \notin {"Down", "Prepare", "OrphanExecuting"}
  BY FlushFacts
<1> QED
  BY <1>1, SameAwaited DEF InPhase

LEMMA FlushUncertainKeeps ==
    ASSUME RInv, IInv', NEW a \in Attempt, flush_uncertain(a)
    PROVE  RInv'
<1>1. /\ UNCHANGED <<journal, spool, run, process, effects, earlier>>
      /\ tick.pc = "Flush"
  BY FlushFacts DEF Flush, flush_uncertain, Now
<1>2. PICK x \in report(a, "Uncertain") :
          Told(x) /\ tick' = IF x.reply = "Ok" THEN FlushNext ELSE Idle
  BY DEF flush_uncertain
<1>3. "Uncertain" \in Call /\ "Uncertain" \notin Ending
  BY DEF Call, Outcome, Ending
<1>4. Effect(a, "Uncertain", x.reply, hub')
  BY <1>2, <1>3, TellEffect DEF RInv, IInv
<1>5. \A b \in Attempt : SameHubRow(b)
  BY <1>3, <1>4 DEF Effect, SameHubRow
<1>6. SpoolType' /\ \A b \in Attempt : Moves(b)
  BY <1>1, <1>5 DEF Moves, Stays, SpoolType, RInv, HostTypeOK
<1>7. tick'.pc \in Plain
  BY <1>2, IdleIsPlain
<1>8. ExecutingOK'
  BY <1>1, SameAwaited DEF InPhase
<1> QED
  BY <1>1, <1>6, <1>7, <1>8, SameHost, PlainPosition, Assembled

LEMMA FlushRetainKeeps ==
    ASSUME RInv, IInv', NEW a \in Attempt, flush_retain(a)
    PROVE  RInv'
<1>1. /\ UNCHANGED <<spool, run, process, effects, earlier>>
      /\ tick.pc = "Flush" /\ journal[a] # None /\ journal[a] \in JournalEntry
      /\ InPhase(a, "ReportPending") /\ NeedsLease(a)
  BY FlushFacts DEF Flush, flush_retain, Now
<1>2. PICK x \in report(a, "RetainService") :
        /\ Told(x)
        /\ \/ /\ x.reply = "Ok" /\ tick' = tick
              /\ journal' = [journal EXCEPT ![a].retention_reported = TRUE]
           \/ /\ x.reply = "Rejected" /\ tick' = FlushNext
              /\ journal' = [journal EXCEPT ![a].report = "HandoffFailed"]
           \/ tick' = Idle /\ journal' = journal
  BY DEF flush_retain, FailHandoff
<1>3. "RetainService" \in Call /\ "RetainService" \notin Ending
  BY DEF Call, Outcome, Ending, Handoff
<1>4. Effect(a, "RetainService", x.reply, hub')
  BY <1>2, <1>3, TellEffect DEF RInv, IInv
<1>5. spool[a] = None
  BY <1>1 DEF RInv, RowOK, SpoolOK
<1>6. \A b \in Attempt \ {a} : hub'[b] = hub[b] /\ journal'[b] = journal[b]
  BY <1>2, <1>4 DEF Effect, RInv, IInv, TypeOK
<1>7. Serves(a) \/ FailsHandoff(a)
  <2>1. /\ hub'[a].final = hub[a].final
        /\ \/ hub'[a].lease = hub[a].lease
           \/ hub[a].lease = "None" /\ hub'[a].lease = "Held"
    BY <1>3, <1>4 DEF Effect
  <2>2. journal[a].retained_service
    BY <1>1 DEF NeedsLease
  <2>3. CASE x.reply = "Ok" /\ journal' = [journal EXCEPT ![a].retention_reported = TRUE]
    <3>1. hub'[a].lease # "None"
      BY <1>4, <2>3 DEF Effect
    <3>2. journal'[a] = [journal[a] EXCEPT !.retention_reported = TRUE]
      BY <2>3 DEF RInv, IInv, TypeOK
    <3> QED
      BY <1>1, <2>1, <2>2, <3>1, <3>2 DEF Serves
  <2>4. CASE x.reply = "Rejected" /\ journal' = [journal EXCEPT ![a].report = "HandoffFailed"]
    <3>1. hub' = hub
      BY <1>4, <2>4 DEF Effect
    <3>2. journal'[a] = [journal[a] EXCEPT !.report = "HandoffFailed"]
      BY <2>4 DEF RInv, IInv, TypeOK
    <3> QED
      BY <1>1, <1>5, <3>1, <3>2 DEF FailsHandoff, SameHubRow
  <2>5. CASE journal' = journal
    BY <1>1, <2>1, <2>2, <2>5 DEF Serves
  <2> QED
    BY <1>2, <2>3, <2>4, <2>5
<1>8. SpoolType' /\ \A b \in Attempt : Moves(b)
  BY <1>1, <1>6, <1>7 DEF Moves, Stays, SameHubRow, SpoolType, RInv, HostTypeOK
<1>9. tick'.pc \in Plain
  BY <1>1, <1>2, IdleIsPlain DEF Plain
<1>10. journal'[a].phase = "ReportPending"
  BY <1>1, <1>2 DEF RInv, IInv, TypeOK, JournalEntry, InPhase
<1>11. ExecutingOK'
  BY <1>1, <1>6, <1>10, FlushAwaited DEF Flush
<1> QED
  BY <1>1, <1>8, <1>9, <1>11, SameHost, PlainPosition, Assembled

(* A dead service fails the handoff unless its report is bound; a service  *)
(* that is not handed over is drained before its turn is reported.         *)
LEMMA FlushHandoffKeeps ==
    ASSUME RInv, IInv', NEW a \in Attempt, flush_handoff(a)
    PROVE  RInv'
<1>1. /\ UNCHANGED <<hub, spool, process, effects, earlier>>
      /\ tick.pc = "Flush" /\ a = First(tick.todo)
      /\ journal[a] # None /\ journal[a] \in JournalEntry
      /\ InPhase(a, "ReportPending") /\ ~NeedsLease(a)
  BY FlushFacts DEF Flush, flush_handoff, Now
<1>2. Calmly /\ \A b \in Attempt : run[b] # None => run'[b] # None
  <2>1. CASE run' = run
    BY <1>1, <2>1, SameHost
  <2>2. CASE run' # run
    BY <1>1, <2>2, CancelledSucceeds, OneReceipt DEF flush_handoff
  <2> QED
    BY <2>1, <2>2
<1>3. ASSUME journal' = journal,
             tick'.pc \in Plain \/ (tick' = [tick EXCEPT !.pc = "Persist"] /\ ~MustDrain(a))
      PROVE  RInv'
  <2>1. DeliveryOK' /\ StartOK'
    <3>1. CASE tick'.pc \in Plain
      BY <3>1, PlainPosition
    <3>2. CASE tick' = [tick EXCEPT !.pc = "Persist"] /\ ~MustDrain(a)
      <4>1. tick'.pc = "Persist" /\ tick'.todo = tick.todo
        BY <3>2, MovedPosition DEF Delivering
      <4> QED
        BY <1>1, <1>3, <3>2, <4>1 DEF DeliveryOK, StartOK, InPhase, NeedsLease, MustDrain
    <3> QED
      BY <1>3, <3>1, <3>2
  <2>2. ExecutingOK'
    BY <1>1, <1>2, <1>3, SameAwaited DEF InPhase
  <2> QED
    BY <1>1, <1>2, <1>3, <2>1, <2>2, SameRows, Assembled
<1>4. ASSUME journal' = FailHandoff(a), tick' = FlushNext, spool[a] = None
      PROVE  RInv'
  <2>1. /\ journal'[a] = [journal[a] EXCEPT !.report = "HandoffFailed"]
        /\ \A b \in Attempt \ {a} : journal'[b] = journal[b]
    BY <1>4 DEF FailHandoff, RInv, IInv, TypeOK
  <2>2. SpoolType' /\ \A b \in Attempt : Moves(b)
    BY <1>1, <1>4, <2>1
    DEF Moves, Stays, FailsHandoff, SameHubRow, SpoolType, RInv, HostTypeOK
  <2>3. journal'[a].phase = "ReportPending"
    BY <1>1, <2>1 DEF JournalEntry, InPhase
  <2>4. ExecutingOK'
    BY <1>2, <2>1, <2>3, FlushAwaited DEF Flush
  <2> QED
    BY <1>1, <1>2, <1>4, <2>2, <2>4, IdleIsPlain, PlainPosition, Assembled
<1>5. ASSUME journal' = [journal EXCEPT ![a].service_stopped_ack = TRUE],
             tick' = [tick EXCEPT !.pc = "Persist"], process[a] # "Running", MustDrain(a)
      PROVE  RInv'
  <2>1. /\ journal'[a] = [journal[a] EXCEPT !.service_stopped_ack = TRUE]
        /\ \A b \in Attempt \ {a} : journal'[b] = journal[b]
    BY <1>5 DEF RInv, IInv, TypeOK
  <2>2. SpoolType' /\ \A b \in Attempt : Moves(b)
    BY <1>1, <1>5, <2>1
    DEF Moves, Stays, Serves, SameHubRow, SpoolType, RInv, HostTypeOK, MustDrain
  <2>3. journal'[a].phase = "ReportPending" /\ journal'[a].service_stopped_ack
    BY <1>1, <2>1 DEF JournalEntry, InPhase
  <2>4. journal'[a] # None
    <3>1. journal'[a] \in JournalEntry
      BY <1>1, <2>1 DEF JournalEntry
    <3> QED
      BY <3>1, NoneAssumption
  <2>5. tick'.pc = "Persist" /\ tick'.todo = tick.todo
    BY <1>5, MovedPosition DEF Delivering
  <2>6. DeliveryOK' /\ StartOK'
    BY <1>1, <2>3, <2>4, <2>5 DEF DeliveryOK, StartOK, InPhase, NeedsLease, MustDrain
  <2>7. ExecutingOK'
    BY <1>2, <2>1, <2>3, FlushAwaited DEF Flush
  <2> QED
    BY <1>1, <1>2, <2>2, <2>6, <2>7, Assembled
<1>6. CASE ServiceDead(a) /\ ~report_frozen(a)
  BY <1>3, <1>4, <1>6, IdleIsPlain
  DEF flush_handoff, report_frozen, ServiceDead, MustDrain
<1>7. CASE ServiceDead(a) /\ report_frozen(a)
  BY <1>3, <1>7, IdleIsPlain DEF flush_handoff, ServiceDead, MustDrain
<1>8. CASE MustDrain(a)
  <2>1. ~ServiceDead(a)
    BY <1>8 DEF ServiceDead, MustDrain
  <2>2. journal[a].service_reconciliation => process[a] # "Running"
    BY <1>1 DEF RInv, RowOK, StopOK
  <2>3. run[a] # None /\ Drained(a) => process[a] # "Running"
    BY DrainedIsGone
  <2> QED
    BY <1>3, <1>5, <1>8, <2>1, <2>2, <2>3, IdleIsPlain DEF flush_handoff
<1>9. CASE ~ServiceDead(a) /\ ~MustDrain(a)
  BY <1>3, <1>9 DEF flush_handoff
<1> QED
  BY <1>6, <1>7, <1>8, <1>9

(* The report is bound to the payload before it is sent.                   *)
LEMMA FlushPersistKeeps ==
    ASSUME RInv, IInv', NEW a \in Attempt, flush_persist(a)
    PROVE  RInv'
<1>1. /\ UNCHANGED <<hub, journal, run, process, effects, earlier>>
      /\ tick.pc = "Persist" /\ a = First(tick.todo)
      /\ journal[a] # None /\ journal[a] \in JournalEntry
  BY FlushFacts DEF Flush, flush_persist, Now
<1>2. InPhase(a, "ReportPending") /\ ~NeedsLease(a) /\ ~MustDrain(a)
  BY <1>1 DEF RInv, DeliveryOK, Delivering
<1>3. journal[a].report \in Ending
  BY <1>1, <1>2 DEF RInv, RowOK, EntryOK, InPhase, Reported, JournalEntry, Ending
<1>4. spool[a] \in {None, journal[a].report}
  BY DEF RInv, RowOK, SpoolOK
<1>5. /\ spool' = [spool EXCEPT ![a] = journal[a].report]
      /\ tick' = [tick EXCEPT !.pc = "Report"] \/ tick' = Idle
  BY <1>4 DEF flush_persist
<1>6. /\ SpoolType' /\ spool'[a] = journal[a].report
      /\ \A b \in Attempt \ {a} : spool'[b] = spool[b]
  BY <1>3, <1>5 DEF SpoolType, RInv, HostTypeOK, Ending
<1>7. \A b \in Attempt : Moves(b)
  BY <1>1, <1>2, <1>6 DEF Moves, Stays, IsBound, SameHubRow
<1>8. DeliveryOK' /\ StartOK'
  <2>1. CASE tick' = Idle
    BY <2>1, IdleIsPlain, PlainPosition
  <2>2. CASE tick' = [tick EXCEPT !.pc = "Report"]
    <3>1. tick'.pc = "Report" /\ tick'.todo = tick.todo
      BY <2>2, MovedPosition DEF Delivering
    <3>2. spool'[a] # None
      BY <1>3, <1>6, NoneAssumption DEF Ending
    <3> QED
      BY <1>1, <1>2, <3>1, <3>2 DEF DeliveryOK, StartOK, InPhase, NeedsLease, MustDrain
  <2> QED
    BY <1>5, <2>1, <2>2
<1>9. ExecutingOK'
  BY <1>1, SameAwaited DEF InPhase
<1> QED
  BY <1>1, <1>6, <1>7, <1>8, <1>9, SameHost, Assembled

(* An entry that the Hub has accepted is settled.                          *)
LEMMA SettleKeeps ==
    ASSUME RInv, IInv', NEW a \in Attempt, Flush(a), Settle(a),
           InPhase(a, "ReportPending"), spool[a] # None,
           hub'[a].final \in Final(a) \ {None}, hub'[a].lease = hub[a].lease,
           \A b \in Attempt \ {a} : hub'[b] = hub[b]
    PROVE  RInv'
<1>1. /\ UNCHANGED <<process, effects, earlier>>
      /\ journal[a] # None /\ journal[a] \in JournalEntry
  BY FlushFacts
<1>2. /\ journal'[a] = [journal[a] EXCEPT !.phase = "Settled"]
      /\ spool'[a] = None /\ SpoolType' /\ tick' = FlushNext
      /\ \A b \in Attempt \ {a} : journal'[b] = journal[b] /\ spool'[b] = spool[b]
  BY DEF Settle, SpoolType, RInv, HostTypeOK, IInv, TypeOK
<1>3. \A b \in Attempt : Moves(b)
  BY <1>2 DEF Moves, Stays, Settles, SameHubRow
<1>4. Calmly /\ \A b \in Attempt \ {a} : run[b] # None => run'[b] # None
  <2>1. CASE run' = run
    BY <1>1, <2>1, SameHost
  <2>2. CASE run' = [run EXCEPT ![a] = None]
    BY <1>1, <2>2, Retired
  <2> QED
    BY <2>1, <2>2 DEF Settle
<1>5. journal'[a].phase = "Settled"
  BY <1>1, <1>2 DEF JournalEntry
<1>6. ExecutingOK'
  BY <1>2, <1>4, <1>5, FlushAwaited
<1> QED
  BY <1>1, <1>2, <1>3, <1>4, <1>6, IdleIsPlain, PlainPosition, Assembled

(* A report that is on its way is bound.                                   *)
LEMMA OnItsWay ==
    ASSUME RInv, NEW a \in Attempt, a = First(tick.todo),
           tick.pc \in {"Report", "Rejected", "Fallback"}
    PROVE  /\ InPhase(a, "ReportPending") /\ ~NeedsLease(a) /\ ~MustDrain(a)
           /\ spool[a] # None /\ journal[a].report \in Ending
           /\ journal[a].report \in Call /\ journal[a].report # None
           /\ tick.pc = "Fallback" => journal[a].fallback = "YieldRejected"
<1>1. /\ InPhase(a, "ReportPending") /\ ~NeedsLease(a) /\ ~MustDrain(a)
      /\ spool[a] # None
      /\ tick.pc = "Fallback" => journal[a].fallback = "YieldRejected"
  BY DEF RInv, DeliveryOK, Delivering
<1>2. journal[a].report \in Ending
  BY <1>1 DEF RInv, IInv, TypeOK, RowOK, EntryOK, InPhase, Reported, JournalEntry, Ending
<1> QED
  BY <1>1, <1>2, NoneAssumption DEF Ending, Call

LEMMA FlushReportKeeps ==
    ASSUME RInv, IInv', NEW a \in Attempt, flush_report(a)
    PROVE  RInv'
<1>1. /\ UNCHANGED <<process, effects, earlier>> /\ tick.pc = "Report"
      /\ a = First(tick.todo) /\ journal[a] # None
  BY FlushFacts DEF Flush, flush_report, Now
<1>2. /\ InPhase(a, "ReportPending") /\ ~NeedsLease(a) /\ ~MustDrain(a)
      /\ spool[a] # None /\ journal[a].report \in Ending
      /\ journal[a].report \in Call /\ journal[a].report # None
  BY <1>1, OnItsWay
<1>3. PICK x \in report(a, journal[a].report) :
        /\ Told(x)
        /\ \/ x.reply = "Ok" /\ Settle(a)
           \/ tick' = [tick EXCEPT !.pc = "Rejected"] /\ UNCHANGED <<journal, spool, run>>
           \/ tick' = Idle /\ UNCHANGED <<journal, spool, run>>
  BY DEF flush_report
<1>4. Effect(a, journal[a].report, x.reply, hub')
  BY <1>2, <1>3, TellEffect DEF RInv, IInv
<1>5. /\ \A b \in Attempt \ {a} : hub'[b] = hub[b]
      /\ hub'[a].final \in {hub[a].final, journal[a].report}
      /\ x.reply = "Ok" => hub'[a].final = journal[a].report
      /\ hub'[a].lease = hub[a].lease
  <2>1. journal[a].report \notin {"RetainService", "ServiceStopped"}
    BY <1>2 DEF Ending, Outcome, Handoff
  <2> QED
    BY <1>2, <1>4, <2>1 DEF Effect
<1>6. journal[a].report # "Uncertain" /\ hub[a].final # "Uncertain"
  <2>1. "Uncertain" # None
    BY NoneAssumption DEF Outcome
  <2> QED
    BY <1>2, <2>1 DEF Ending, RInv, RowOK, FinalOK
<1>7. CASE x.reply = "Ok" /\ Settle(a)
  <2>1. hub'[a].final \in Final(a) \ {None}
    BY <1>2, <1>5, <1>6, <1>7 DEF Final
  <2> QED
    BY <1>2, <1>5, <1>7, <2>1, SettleKeeps DEF Flush
<1>8. CASE /\ UNCHANGED <<journal, spool, run>>
           /\ tick' = [tick EXCEPT !.pc = "Rejected"] \/ tick' = Idle
  <2>1. SpoolType' /\ \A b \in Attempt : Moves(b)
    BY <1>2, <1>5, <1>6, <1>8
    DEF Moves, Stays, IsSent, Final, SameHubRow, SpoolType, RInv, HostTypeOK
  <2>2. DeliveryOK' /\ StartOK'
    <3>1. CASE tick' = Idle
      BY <3>1, IdleIsPlain, PlainPosition
    <3>2. CASE tick' = [tick EXCEPT !.pc = "Rejected"]
      <4>1. tick'.pc = "Rejected" /\ tick'.todo = tick.todo
        BY <3>2, MovedPosition DEF Delivering
      <4> QED
        BY <1>1, <1>2, <1>8, <4>1 DEF DeliveryOK, StartOK, InPhase, NeedsLease, MustDrain
    <3> QED
      BY <1>8, <3>1, <3>2
  <2>3. ExecutingOK'
    BY <1>1, <1>8, SameAwaited DEF InPhase
  <2> QED
    BY <1>1, <1>8, <2>1, <2>2, <2>3, SameHost, Assembled
<1> QED
  BY <1>3, <1>7, <1>8

LEMMA FlushRejectedKeeps ==
    ASSUME RInv, IInv', NEW a \in Attempt, flush_rejected(a)
    PROVE  RInv'
<1>1. /\ UNCHANGED <<hub, process, effects, earlier>> /\ tick.pc = "Rejected"
      /\ a = First(tick.todo) /\ journal[a] # None /\ journal[a] \in JournalEntry
  BY FlushFacts DEF Flush, flush_rejected, Now
<1>2. /\ InPhase(a, "ReportPending") /\ ~NeedsLease(a) /\ ~MustDrain(a)
      /\ spool[a] # None /\ journal[a].report \in Ending
  BY <1>1, OnItsWay
<1>3. CASE ~Open(a) /\ Settle(a)
  <2>1. hub'[a].final \in Final(a) \ {None} /\ hub'[a].lease = hub[a].lease
    BY <1>1, <1>3 DEF Open, Final, RInv, RowOK, FinalOK
  <2> QED
    BY <1>1, <1>2, <1>3, <2>1, SettleKeeps DEF Flush
<1>4. CASE /\ journal' = [journal EXCEPT ![a].fallback = "YieldRejected"]
           /\ tick' = [tick EXCEPT !.pc = "Fallback"]
           /\ UNCHANGED <<spool, run>>
  <2>1. /\ journal'[a] = [journal[a] EXCEPT !.fallback = "YieldRejected"]
        /\ \A b \in Attempt \ {a} : journal'[b] = journal[b]
    BY <1>4 DEF RInv, IInv, TypeOK
  <2>2. SpoolType' /\ \A b \in Attempt : Moves(b)
    BY <1>1, <1>2, <1>4, <2>1
    DEF Moves, Stays, FallsBack, SameHubRow, SpoolType, RInv, HostTypeOK
  <2>3. /\ journal'[a] \in JournalEntry /\ journal'[a].fallback = "YieldRejected"
        /\ journal'[a].phase = journal[a].phase
        /\ journal'[a].report = journal[a].report
        /\ journal'[a].retained_service = journal[a].retained_service
        /\ journal'[a].retention_reported = journal[a].retention_reported
        /\ journal'[a].service_stopped_ack = journal[a].service_stopped_ack
    BY <1>1, <2>1 DEF JournalEntry, Outcome
  <2>4. journal'[a] # None
    BY <2>3, NoneAssumption
  <2>5. tick'.pc = "Fallback" /\ tick'.todo = tick.todo
    BY <1>4, MovedPosition DEF Delivering
  <2>6. DeliveryOK' /\ StartOK'
    BY <1>1, <1>2, <1>4, <2>3, <2>4, <2>5
    DEF DeliveryOK, StartOK, InPhase, NeedsLease, MustDrain
  <2>7. ExecutingOK'
    BY <1>2, <1>4, <2>1, <2>3, FlushAwaited DEF Flush, InPhase
  <2> QED
    BY <1>1, <1>4, <2>2, <2>6, <2>7, SameHost, Assembled
<1> QED
  BY <1>3, <1>4 DEF flush_rejected

LEMMA FlushFallbackKeeps ==
    ASSUME RInv, IInv', NEW a \in Attempt, flush_fallback(a)
    PROVE  RInv'
<1>1. /\ UNCHANGED <<process, effects, earlier>> /\ tick.pc = "Fallback"
      /\ a = First(tick.todo) /\ journal[a] # None
  BY FlushFacts DEF Flush, flush_fallback, Now
<1>2. /\ InPhase(a, "ReportPending") /\ spool[a] # None
      /\ journal[a].fallback = "YieldRejected"
  BY <1>1, OnItsWay
<1>3. PICK x \in report(a, "YieldRejected") :
        /\ Told(x)
        /\ \/ x.reply = "Ok" /\ Settle(a)
           \/ tick' = Idle /\ UNCHANGED <<journal, spool, run>>
  BY <1>2 DEF flush_fallback
<1>4. "YieldRejected" \in Call /\ "YieldRejected" \in Ending /\ "YieldRejected" # None
  BY NoneAssumption DEF Call, Ending, Outcome
<1>5. Effect(a, "YieldRejected", x.reply, hub')
  BY <1>3, <1>4, TellEffect DEF RInv, IInv
<1>6. /\ \A b \in Attempt \ {a} : hub'[b] = hub[b]
      /\ hub'[a].final \in {hub[a].final, "YieldRejected"}
      /\ x.reply = "Ok" => hub'[a].final = "YieldRejected"
      /\ hub'[a].lease = hub[a].lease
  BY <1>4, <1>5 DEF Effect
<1>7. hub[a].final # "Uncertain"
  <2>1. "Uncertain" # None
    BY NoneAssumption DEF Outcome
  <2> QED
    BY <2>1 DEF RInv, RowOK, FinalOK
<1>8. CASE x.reply = "Ok" /\ Settle(a)
  <2>1. hub'[a].final \in Final(a) \ {None}
    BY <1>2, <1>4, <1>6, <1>8 DEF Final
  <2> QED
    BY <1>2, <1>6, <1>8, <2>1, SettleKeeps DEF Flush
<1>9. CASE tick' = Idle /\ UNCHANGED <<journal, spool, run>>
  <2>1. SpoolType' /\ \A b \in Attempt : Moves(b)
    BY <1>2, <1>6, <1>7, <1>9
    DEF Moves, Stays, IsSent, Final, SameHubRow, SpoolType, RInv, HostTypeOK
  <2>2. ExecutingOK'
    BY <1>1, <1>9, SameAwaited DEF InPhase
  <2> QED
    BY <1>1, <1>9, <2>1, <2>2, SameHost, IdleIsPlain, PlainPosition, Assembled
<1> QED
  BY <1>3, <1>8, <1>9

-----------------------------------------------------------------------------
(* Adoption, claim and start.                                              *)
LEMMA AdoptKeeps ==
    ASSUME RInv, IInv', NEW a \in Attempt,
           orphan_intent(a) \/ orphan_executing(a) \/ orphan_uncertain(a)
    PROVE  RInv'
<1>1. /\ UNCHANGED <<hub, spool, run, process, effects, earlier>>
      /\ a = First(tick.seen)
  BY DEF orphan_intent, orphan_executing, orphan_uncertain, world
<1>2. CASE orphan_intent(a)
  <2>1. journal[a] = None
    BY <1>1, <1>2, FirstIsMember
    DEF orphan_intent, RInv, IInv, SeenIsUnrecorded, Adopting, TypeOK, Position
  <2>2. /\ journal'[a] = Entry({})
        /\ \A b \in Attempt \ {a} : journal'[b] = journal[b]
    BY <1>2 DEF orphan_intent, RInv, IInv, TypeOK
  <2>3. SpoolType' /\ \A b \in Attempt : Moves(b)
    BY <1>1, <2>1, <2>2
    DEF Moves, Stays, IsRecorded, SameHubRow, SpoolType, RInv, HostTypeOK
  <2>4. tick'.pc = "OrphanIntent" /\ tick'.seen = tick.seen /\ tick.pc = "Admit"
    BY <1>2 DEF orphan_intent, RInv, IInv, TypeOK, Position
  <2>5. journal'[a].phase = "Intent"
    BY <2>2 DEF Entry
  <2>6. DeliveryOK' /\ StartOK'
    BY <1>1, <2>4, <2>5 DEF DeliveryOK, StartOK, Delivering
  <2>7. ExecutingOK'
    BY <1>1, <2>2, <2>4, <2>5, SameAwaited DEF InPhase
  <2> QED
    BY <1>1, <2>3, <2>6, <2>7, SameHost, Assembled
<1>3. CASE orphan_executing(a)
  <2>1. tick.pc = "OrphanIntent"
    BY <1>3 DEF orphan_executing
  <2>2. InPhase(a, "Intent") /\ journal[a] \in JournalEntry
    BY <1>1, <2>1 DEF RInv, StartOK, IInv, SeenIsUnrecorded, Adopting, InPhase, TypeOK
  <2>3. /\ journal'[a] = [journal[a] EXCEPT !.phase = "Executing"]
        /\ \A b \in Attempt \ {a} : journal'[b] = journal[b]
    BY <1>3 DEF orphan_executing, RInv, IInv, TypeOK
  <2>4. SpoolType' /\ \A b \in Attempt : Moves(b)
    BY <1>1, <2>2, <2>3 DEF Moves, Stays, Begins, SameHubRow, SpoolType, RInv, HostTypeOK
  <2>5. tick'.pc = "OrphanExecuting" /\ tick'.seen = tick.seen
    BY <1>3 DEF orphan_executing, RInv, IInv, TypeOK, Position
  <2>6. journal'[a].phase = "Executing"
    BY <2>2, <2>3 DEF JournalEntry
  <2>7. DeliveryOK' /\ StartOK'
    BY <1>1, <2>5, <2>6 DEF DeliveryOK, StartOK, Delivering
  <2>8. ExecutingOK'
    BY <1>1, <2>1, <2>3, <2>5 DEF RInv, ExecutingOK, Awaited, InPhase
  <2> QED
    BY <1>1, <2>4, <2>7, <2>8, SameHost, Assembled
<1>4. CASE orphan_uncertain(a)
  <2>1. tick.pc = "OrphanExecuting" /\ tick' = Idle
    BY <1>4 DEF orphan_uncertain
  <2>2. InPhase(a, "Executing") /\ journal[a] \in JournalEntry
    BY <1>1, <2>1 DEF RInv, StartOK, IInv, SeenIsUnrecorded, Adopting, InPhase, TypeOK
  <2>3. /\ journal'[a] = [journal[a] EXCEPT !.phase = "Uncertain", !.report = "Uncertain"]
        /\ \A b \in Attempt \ {a} : journal'[b] = journal[b]
    BY <1>4, <2>2 DEF orphan_uncertain, RInv, IInv, TypeOK, JournalEntry
  <2>4. SpoolType' /\ \A b \in Attempt : Moves(b)
    BY <1>1, <2>2, <2>3
    DEF Moves, Stays, BecomesUncertain, SameHubRow, SpoolType, RInv, HostTypeOK
  <2>5. journal'[a].phase = "Uncertain"
    BY <2>2, <2>3 DEF JournalEntry
  <2>6. ExecutingOK'
    BY <1>1, <2>1, <2>3, <2>5 DEF RInv, ExecutingOK, Awaited, InPhase
  <2> QED
    BY <1>1, <2>1, <2>4, <2>6, SameHost, IdleIsPlain, PlainPosition, Assembled
<1> QED
  BY <1>2, <1>3, <1>4

LEMMA ClaimKeepsRows ==
    ASSUME RInv, IInv', NEW a \in Attempt, claim(a)
    PROVE  RInv'
<1>1. UNCHANGED <<spool, run, process, effects, earlier>> /\ tick.pc = "Admit"
  BY DEF claim, world
<1>2. PICK x \in Lossy({[hub |-> Put(a, [hub[a] EXCEPT !.state = "Assigned"]), reply |-> "Ok"]}) :
        /\ Told(x)
        /\ \/ journal' = [journal EXCEPT ![a] = Entry(Leases)] /\ tick' = tick
           \/ tick' = Idle /\ journal' = journal
  BY DEF claim
<1>3. \A b \in Attempt : SameHubRow(b)
  <2>1. hub' \in {hub, Put(a, [hub[a] EXCEPT !.state = "Assigned"])}
    BY <1>2 DEF Lossy, Told
  <2> QED
    BY <2>1 DEF SameHubRow, Put, RInv, IInv, TypeOK, HubRow
<1>4. journal[a] = None
  BY FirstIsMember DEF claim, Claimable, RInv, IInv, RecordedIsAssigned
<1>5. tick'.pc \in Plain
  BY <1>1, <1>2, IdleIsPlain DEF Plain
<1>6. CASE journal' = journal
  <2>1. SpoolType' /\ \A b \in Attempt : Moves(b)
    BY <1>1, <1>3, <1>6 DEF Moves, Stays, SpoolType, RInv, HostTypeOK
  <2>2. ExecutingOK'
    BY <1>1, <1>6, SameAwaited DEF InPhase
  <2> QED
    BY <1>1, <1>5, <2>1, <2>2, SameHost, PlainPosition, Assembled
<1>7. CASE journal' = [journal EXCEPT ![a] = Entry(Leases)]
  <2>1. /\ journal'[a] = Entry(Leases)
        /\ \A b \in Attempt \ {a} : journal'[b] = journal[b]
    BY <1>7 DEF RInv, IInv, TypeOK
  <2>2. SpoolType' /\ \A b \in Attempt : Moves(b)
    BY <1>1, <1>3, <1>4, <2>1 DEF Moves, Stays, IsRecorded, SpoolType, RInv, HostTypeOK
  <2>3. journal'[a].phase = "Intent"
    BY <2>1 DEF Entry
  <2>4. ExecutingOK'
    BY <1>1, <2>1, <2>3, SameAwaited DEF InPhase
  <2> QED
    BY <1>1, <1>5, <2>2, <2>4, SameHost, PlainPosition, Assembled
<1> QED
  BY <1>2, <1>6, <1>7

(* An attempt that was never executed here is reported as not started.     *)
LEMMA NotStartedKeeps ==
    ASSUME RInv, IInv', NEW a \in Attempt, effects[a] = 0,
           InPhase(a, "Intent") \/ InPhase(a, "Executing"),
           journal' = [journal EXCEPT ![a].phase = "ReportPending", ![a].report = "NotStarted"],
           \A b \in Attempt : SameHubRow(b),
           UNCHANGED <<spool, run, process, effects, earlier>>,
           tick'.pc \in Plain,
           tick.pc \in {"Admit", "Status"} \/ (tick.pc = "Prepare" /\ tick.todo = {a})
    PROVE  RInv'
<1>1. journal[a] # None /\ journal[a] \in JournalEntry
  BY DEF InPhase, RInv, IInv, TypeOK
<1>2. ~active(a) /\ (a \notin earlier => process[a] # "Running")
  BY DEF RInv, RowOK, ReceiptOK, ProcessOK, active
<1>3. journal[a].retained_service = FALSE
  BY <1>1 DEF RInv, RowOK, EntryOK, InPhase, Reported, JournalEntry
<1>4. /\ journal'[a] = [journal[a] EXCEPT !.phase = "ReportPending", !.report = "NotStarted",
                                          !.retained_service = FALSE]
      /\ \A b \in Attempt \ {a} : journal'[b] = journal[b]
  BY <1>1, <1>3 DEF RInv, IInv, TypeOK, JournalEntry
<1>5. "NotStarted" \in Outcome \ {"Uncertain"}
  BY DEF Outcome
<1>6. Concludes(a, "NotStarted", FALSE)
  BY <1>2, <1>4 DEF Concludes, active
<1>7. SpoolType' /\ \A b \in Attempt : Moves(b)
  BY <1>4, <1>5, <1>6 DEF Moves, Stays, SpoolType, RInv, HostTypeOK
<1>8. journal'[a].phase = "ReportPending"
  <2>1. \A e \in JournalEntry :
            [e EXCEPT !.phase = "ReportPending", !.report = "NotStarted",
                      !.retained_service = FALSE].phase = "ReportPending"
    BY DEF JournalEntry
  <2> QED
    BY <1>1, <1>4, <2>1
<1>9. ExecutingOK'
  BY <1>4, <1>8 DEF RInv, ExecutingOK, Awaited, InPhase
<1> QED
  BY <1>7, <1>9, SameHost, PlainPosition, Assembled

LEMMA FailedPosition ==
    ASSUME NEW a, preparation_failed(a)
    PROVE  tick'.pc \in Plain
BY DEF preparation_failed, At, Plain

LEMMA StartKeepsRows ==
    ASSUME RInv, IInv', NEW a \in Attempt, start_rejected(a) \/ start(a)
    PROVE  RInv'
<1>1. /\ UNCHANGED <<spool, run, process, effects, earlier>> /\ tick.pc = "Admit"
      /\ Starting(a)
  BY DEF start_rejected, start, Starting, world
<1>2. effects[a] = 0 /\ InPhase(a, "Intent")
  <2>1. a \in Active
    BY <1>1, FirstIsMember DEF Starting, Active
  <2> QED
    BY <1>1, <2>1, StartingIsFresh DEF RInv, Starting, Busy, InPhase
<1>3. CASE start_rejected(a)
  <2>1. \A b \in Attempt : SameHubRow(b)
    BY <1>3 DEF start_rejected, SameHubRow
  <2> QED
    BY <1>1, <1>2, <1>3, <2>1, NotStartedKeeps, FailedPosition
    DEF start_rejected, preparation_failed
<1>4. CASE start(a)
  <2>1. PICK x \in report(a, "Started") :
          /\ Told(x)
          /\ \/ tick' = [At("Status") EXCEPT !.todo = {a}] /\ journal' = journal
             \/ preparation_failed(a)
             \/ tick' = Idle /\ journal' = journal
    BY <1>4 DEF start
  <2>2. "Started" \in Call /\ "Started" \notin Ending
    BY DEF Call, Outcome, Ending, Handoff
  <2>3. Effect(a, "Started", x.reply, hub')
    BY <2>1, <2>2, TellEffect DEF RInv, IInv
  <2>4. \A b \in Attempt : SameHubRow(b)
    BY <2>2, <2>3 DEF Effect, SameHubRow
  <2>5. CASE preparation_failed(a)
    BY <1>1, <1>2, <2>4, <2>5, NotStartedKeeps, FailedPosition DEF preparation_failed
  <2>6. CASE /\ journal' = journal
             /\ tick' = [At("Status") EXCEPT !.todo = {a}] \/ tick' = Idle
    <3>1. SpoolType' /\ \A b \in Attempt : Moves(b)
      BY <1>1, <2>4, <2>6 DEF Moves, Stays, SpoolType, RInv, HostTypeOK
    <3>2. DeliveryOK' /\ StartOK'
      <4>1. CASE tick' = Idle
        BY <4>1, IdleIsPlain, PlainPosition
      <4>2. CASE tick' = [At("Status") EXCEPT !.todo = {a}]
        <5>1. tick'.pc = "Status" /\ tick'.todo = {a}
          BY <4>2 DEF At
        <5> QED
          BY <1>2, <2>6, <5>1 DEF DeliveryOK, StartOK, Delivering, InPhase
      <4> QED
        BY <2>6, <4>1, <4>2
    <3>3. ExecutingOK'
      BY <1>1, <2>6, SameAwaited DEF InPhase
    <3> QED
      BY <1>1, <3>1, <3>2, <3>3, SameHost, Assembled
  <2> QED
    BY <2>1, <2>5, <2>6
<1> QED
  BY <1>3, <1>4

LEMMA StatusKeepsRows ==
    ASSUME RInv, IInv', NEW a \in Attempt, start_status(a)
    PROVE  RInv'
<1>1. UNCHANGED <<hub, spool, run, process, effects, earlier>> /\ tick.pc = "Status"
  BY DEF start_status, Now, world
<1>2. tick.todo = {a} /\ effects[a] = 0 /\ journal[a] # None
  BY StartedIsFresh DEF start_status, RInv
<1>3. InPhase(a, "Intent") /\ journal[a] \in JournalEntry
  BY <1>1, <1>2 DEF RInv, StartOK, InPhase, IInv, TypeOK
<1>4. \A b \in Attempt : SameHubRow(b)
  BY <1>1 DEF SameHubRow
<1>5. CASE tick' = Idle /\ journal' = journal
  <2>1. ExecutingOK'
    BY <1>1, <1>5, SameAwaited DEF InPhase
  <2> QED
    BY <1>1, <1>5, <2>1, SameHost, SameRows, IdleIsPlain, PlainPosition, Assembled
<1>6. CASE preparation_failed(a)
  BY <1>1, <1>2, <1>3, <1>4, <1>6, NotStartedKeeps, FailedPosition DEF preparation_failed
<1>7. CASE /\ journal' = [journal EXCEPT ![a].phase = "Executing"]
           /\ tick' = [tick EXCEPT !.pc = "Prepare"]
  <2>1. /\ journal'[a] = [journal[a] EXCEPT !.phase = "Executing"]
        /\ \A b \in Attempt \ {a} : journal'[b] = journal[b]
    BY <1>7 DEF RInv, IInv, TypeOK
  <2>2. SpoolType' /\ \A b \in Attempt : Moves(b)
    BY <1>1, <1>3, <1>4, <2>1 DEF Moves, Stays, Begins, SpoolType, RInv, HostTypeOK
  <2>3. tick'.pc = "Prepare" /\ tick'.todo = {a}
    BY <1>2, <1>7 DEF RInv, IInv, TypeOK, Position
  <2>4. journal'[a].phase = "Executing"
    BY <1>3, <2>1 DEF JournalEntry
  <2>5. DeliveryOK' /\ StartOK'
    BY <2>3, <2>4 DEF DeliveryOK, StartOK, Delivering
  <2>6. ExecutingOK'
    BY <1>1, <2>1, <2>3 DEF RInv, ExecutingOK, Awaited, InPhase
  <2> QED
    BY <1>1, <2>2, <2>5, <2>6, SameHost, Assembled
<1> QED
  BY <1>5, <1>6, <1>7 DEF start_status

(* The execution that begins is recorded, and the first one of its attempt.*)
LEMMA SubmitKeepsRows ==
    ASSUME RInv, IInv', NEW a \in Attempt,
           prepare_fails(a) \/ submit_execution(a) \/ submit_refused(a)
    PROVE  RInv'
<1>1. /\ UNCHANGED <<hub, spool, earlier>> /\ tick.pc = "Prepare"
      /\ tick.todo = {a} /\ effects[a] = 0 /\ journal[a] # None
  BY StartedIsFresh DEF prepare_fails, submit_execution, submit_refused, Now, world, RInv
<1>2. InPhase(a, "Executing") /\ journal[a] \in JournalEntry
  BY <1>1 DEF RInv, StartOK, InPhase, IInv, TypeOK
<1>3. \A b \in Attempt : SameHubRow(b)
  BY <1>1 DEF SameHubRow
<1>4. CASE prepare_fails(a)
  BY <1>1, <1>2, <1>3, <1>4, NotStartedKeeps, FailedPosition
  DEF prepare_fails, preparation_failed, world
<1>5. CASE submit_refused(a)
  BY <1>1, <1>2, <1>3, <1>5, NotStartedKeeps, IdleIsPlain DEF submit_refused, world
<1>6. CASE submit_execution(a)
  <2>1. /\ run' = [b \in Attempt |-> IF b = a THEN Accepted
                      ELSE IF run[b] # None THEN Observed(b, run[b]) ELSE None]
        /\ process' = [process EXCEPT ![a] = "Running"]
        /\ effects' = [effects EXCEPT ![a] = @ + 1]
        /\ tick' = Idle
        /\ \/ journal' = journal
           \/ journal' = [journal EXCEPT ![a].phase = "Uncertain", ![a].report = "Uncertain"]
    BY <1>6 DEF submit_execution
  <2>2. Accepted \in Receipt /\ Accepted.processes_drained = FALSE
    BY DEF Accepted, Receipt
  <2>3. \A b \in Attempt \ {a} :
            \/ run[b] = None /\ run'[b] = None
            \/ run[b] # None /\ run'[b] # None /\ Succeeds(b, run'[b])
    BY <2>1, CancelledSucceeds, ReceiptAssumption DEF Succeeds
  <2>4. /\ process'[a] = "Running" /\ run'[a] = Accepted /\ effects'[a] = 1
        /\ \A b \in Attempt \ {a} : process'[b] = process[b] /\ effects'[b] = effects[b]
    BY <1>1, <2>1 DEF RInv, HostTypeOK, IInv, TypeOK
  <2>5. HostTypeOK'
    <3>1. \A b \in Attempt : run'[b] \in Receipt \cup {None}
      BY <2>2, <2>3, <2>4 DEF Succeeds
    <3> QED
      BY <1>1, <2>1, <3>1 DEF RInv, HostTypeOK
  <2>6. /\ \/ journal'[a] = journal[a]
           \/ journal'[a] = [journal[a] EXCEPT !.phase = "Uncertain", !.report = "Uncertain"]
        /\ \A b \in Attempt \ {a} : journal'[b] = journal[b]
    BY <1>2, <2>1 DEF RInv, IInv, TypeOK, JournalEntry
  <2>7. ASSUME NEW b \in Attempt \ {a} PROVE RowOK(b)'
    <3>1. Calm(b)
      BY <2>3, <2>4 DEF Calm, active, Succeeds
    <3>2. Moves(b)
      BY <1>1, <1>3, <2>6 DEF Moves, Stays
    <3>3. Context(b)
      BY <1>1, <2>5, <3>1 DEF RInv, IInv, Context
    <3> QED
      BY <3>2, <3>3, MoveKeepsRow
  <2>8. RowOK(a)'
    <3>1. /\ journal'[a] \in JournalEntry /\ journal'[a] # None
          /\ journal'[a].phase \in {"Executing", "Uncertain"}
          /\ journal'[a].phase = "Uncertain" => journal'[a].report = "Uncertain"
          /\ journal'[a].fallback = journal[a].fallback
          /\ journal'[a].retained_service = journal[a].retained_service
          /\ journal'[a].retention_reported = journal[a].retention_reported
          /\ journal'[a].service_stopped_ack = journal[a].service_stopped_ack
          /\ journal'[a].service_reconciliation = journal[a].service_reconciliation
      <4>1. /\ [journal[a] EXCEPT !.phase = "Uncertain", !.report = "Uncertain"] \in JournalEntry
            /\ journal'[a] \in JournalEntry
        BY <1>2, <2>6 DEF JournalEntry, Outcome
      <4>2. journal'[a] # None
        BY <4>1, NoneAssumption
      <4> QED
        BY <1>2, <2>6, <4>1, <4>2 DEF JournalEntry, InPhase
    <3>2. /\ ~journal[a].retained_service /\ ~journal[a].retention_reported
          /\ ~journal[a].service_stopped_ack /\ ~journal[a].service_reconciliation
          /\ journal[a].fallback \in {None, "Uncertain", "YieldRejected"}
      BY <1>2 DEF RInv, RowOK, EntryOK, InPhase, Reported
    <3>3. hub[a].final = None /\ spool[a] = None /\ hub[a].lease = "None"
      BY <1>2, <3>2 DEF RInv, RowOK, FinalOK, LeaseOK, InPhase, Pending
    <3>4. (EntryOK(a) /\ FinalOK(a) /\ SpoolOK(a) /\ LeaseOK(a))'
      BY <1>1, <3>1, <3>2, <3>3
      DEF EntryOK, FinalOK, SpoolOK, LeaseOK, InPhase, Reported
    <3>5. (ReceiptOK(a) /\ StopOK(a) /\ ProcessOK(a))'
      BY <1>1, <2>2, <2>4, <3>1, <3>2, <3>3
      DEF ReceiptOK, StopOK, ProcessOK, active, InPhase, Reported
    <3> QED
      BY <3>4, <3>5 DEF RowOK
  <2>9. ExecutingOK'
    <3>1. run'[a] # None
      BY <2>2, <2>4, ReceiptAssumption
    <3> QED
      BY <1>1, <2>3, <2>6, <3>1 DEF RInv, ExecutingOK, Awaited, InPhase
  <2> QED
    BY <2>1, <2>5, <2>7, <2>8, <2>9, IdleIsPlain, PlainPosition DEF RInv
<1> QED
  BY <1>4, <1>5, <1>6

-----------------------------------------------------------------------------
LEMMA RInvInit == Init => RInv
<1> SUFFICES ASSUME Init PROVE RInv
  OBVIOUS
<1>1. IInv
  BY InitIsFresh
<1>2. HostTypeOK
  BY DEF Init, HostTypeOK
<1>3. \A a \in Attempt :
          /\ journal[a] = None /\ spool[a] = None /\ run[a] = None
          /\ hub[a].final = None /\ hub[a].lease = "None"
          /\ a \notin earlier => process[a] = "None"
  BY DEF Init
<1>4. \A a \in Attempt : RowOK(a)
  BY <1>3
  DEF RowOK, EntryOK, FinalOK, SpoolOK, LeaseOK, ReceiptOK, StopOK, ProcessOK, active, InPhase
<1>5. DeliveryOK /\ StartOK /\ ExecutingOK
  BY <1>3 DEF Init, Idle, At, DeliveryOK, StartOK, ExecutingOK, Delivering, InPhase
<1> QED
  BY <1>1, <1>2, <1>4, <1>5 DEF RInv

LEMMA RInvNext == RInv /\ [Next]_vars => RInv'
<1> SUFFICES ASSUME RInv, [Next]_vars PROVE RInv'
  OBVIOUS
<1>0. IInv'
  BY StepKeeps DEF RInv
<1>1. CASE UNCHANGED vars
  <2>1. ExecutingOK'
    BY <1>1, SameAwaited DEF vars, InPhase
  <2> QED
    BY <1>0, <1>1, <2>1, SameHost, SameRows, SamePosition, Assembled DEF vars
<1>2. CASE Around
  BY <1>0, <1>2, CrashKeeps, HubRequestKeeps, HostStepKeeps, ReconcileAttemptKeeps,
     ReconcileServiceKeeps DEF Around
<1>3. CASE poll \/ collect \/ recover \/ read_services \/ admit_nothing
  BY <1>0, <1>3, PollKeeps, CollectKeeps, RecoverKeeps, ReadServicesKeeps, AdmitNothingKeeps
<1>4. ASSUME NEW a \in Attempt,
             \/ report_service(a) \/ flush_uncertain(a) \/ flush_retain(a) \/ flush_handoff(a)
      PROVE  RInv'
  BY <1>0, <1>4, ReportServiceKeeps, FlushUncertainKeeps, FlushRetainKeeps, FlushHandoffKeeps
<1>5. ASSUME NEW a \in Attempt,
             \/ flush_persist(a) \/ flush_report(a) \/ flush_rejected(a) \/ flush_fallback(a)
      PROVE  RInv'
  BY <1>0, <1>5, FlushPersistKeeps, FlushReportKeeps, FlushRejectedKeeps, FlushFallbackKeeps
<1>6. ASSUME NEW a \in Attempt,
             \/ orphan_intent(a) \/ orphan_executing(a) \/ orphan_uncertain(a) \/ claim(a)
      PROVE  RInv'
  BY <1>0, <1>6, AdoptKeeps, ClaimKeepsRows
<1>7. ASSUME NEW a \in Attempt,
             \/ start_rejected(a) \/ start(a) \/ start_status(a)
             \/ prepare_fails(a) \/ submit_execution(a) \/ submit_refused(a)
      PROVE  RInv'
  BY <1>0, <1>7, StartKeepsRows, StatusKeepsRows, SubmitKeepsRows
<1> QED
  BY <1>1, <1>2, <1>3, <1>4, <1>5, <1>6, <1>7 DEF Next, Loop

(* The rows of all attempts agree between the Hub, the journal, the spool  *)
(* and the host in every reachable state.                                  *)
THEOREM RowsAgree == Spec => []RInv
BY RInvInit, RInvNext, PTL DEF Spec

(* What the Hub accepted as final is the report or the fallback that the   *)
(* journal holds, and a settled entry was accepted: a report that may have *)
(* reached the Hub is bound to its payload and never replaced, whatever    *)
(* call is lost, whichever service dies and wherever the Runner crashes.   *)
THEOREM FinalIsRecorded == Spec => []AcceptedIsRecorded
<1>1. RInv => AcceptedIsRecorded
  BY DEF RInv, RowOK, FinalOK, AcceptedIsRecorded, InPhase, Pending
<1> QED
  BY RInvInit, RInvNext, <1>1, PTL DEF Spec

(* The Hub believes an attempt of this Runner released only when its       *)
(* worker has ended and its process is gone or under a lease that is held; *)
(* and a lease is reported as stopped only when the process is gone.       *)
THEOREM ReleasedAfterDrain == Spec => []ReleasedIsDrained
<1>1. RInv => ReleasedIsDrained
  <2> SUFFICES ASSUME RInv, NEW a \in Attempt \ earlier
               PROVE  /\ hub[a].final # None =>
                           ~active(a) /\ (process[a] = "Running" => hub[a].lease = "Held")
                      /\ hub[a].lease = "Stopped" => process[a] # "Running"
    BY DEF ReleasedIsDrained
  <2> QED
    BY DEF RInv, RowOK, FinalOK, ReceiptOK, StopOK, ProcessOK, InPhase, Pending
<1> QED
  BY RInvInit, RInvNext, <1>1, PTL DEF Spec
=============================================================================
