---------------------------- MODULE SharedRunner ----------------------------
(***************************************************************************)
(* The shared Runner (src/src/runner/shared/mod.rs, journal.rs, data.rs    *)
(* and src/src/runner/mod.rs): it executes attempts that a Hub assigns to  *)
(* it, one after the other, and reports what became of them.               *)
(*                                                                         *)
(* One loop ticks: it polls the assignments, stops what the Hub fenced,    *)
(* records outcomes, reconciles the services that outlive their turn,      *)
(* delivers reports and starts the next attempt.  Every call of the Hub is *)
(* a step of its own, and so is every write of the journal after which the *)
(* process may die.  Workers and their processes run meanwhile.            *)
(*                                                                         *)
(* A call may be lost before or after the Hub has applied it; the Runner   *)
(* cannot tell.  The process may crash: journal and spool survive, the     *)
(* receipts of executions do not, and an operating system process may      *)
(* outlive its Runner.                                                     *)
(***************************************************************************)
EXTENDS Naturals, FiniteSets

CONSTANTS
    Attempts,       \* attempts the Hub assigns to this Runner, in this order
    None,           \* Option::None
    MaxFaults,      \* bound: lost calls, failed local steps, crashes
    MaxStops        \* bound: stops asked for by the Hub or a local client

ASSUME BoundAssumption == Attempts \in Nat /\ MaxFaults \in Nat /\ MaxStops \in Nat

Attempt == 1..Attempts

VARIABLES
    hub,        \* hub[a]: what the Hub knows of the attempt
    journal,    \* runner_attempts: the durable entry of a, or None
    spool,      \* outcome_payloads: the report its payload is bound to, or None
    run,        \* state.runs: the receipt of the execution of a, or None
    process,    \* process[a]: the managed process of the attempt
    shell,      \* managed_shells: what this Runner's registry holds of it
    effects,    \* effects[a]: executions of a that this Runner began
    earlier,    \* attempts that an earlier host of this device was running
    tick,       \* where the loop is
    faults,     \* faults so far
    stops       \* stops asked for so far

vars == <<hub, journal, spool, run, process, shell, effects, earlier, tick, faults, stops>>
world == <<process, effects, earlier, stops>>

-----------------------------------------------------------------------------
(* The reports an entry may hold; no two have the same event id and        *)
(* payload.  The first two hand a live service over with the turn.         *)
Handoff == {"Succeeded", "Yielded"}
Outcome == Handoff \cup {"Failed", "NotStarted", "HandoffFailed", "YieldRejected",
                         "Reconciled", "Uncertain"}

(* An entry goes from Intent over Executing to ReportPending or Uncertain, *)
(* and is Settled in the end.                                              *)
Entry(leases) ==
    [phase |-> "Intent", report |-> None, fallback |-> None,
     retained_service |-> FALSE, retention_reported |-> FALSE,
     service_stopped_ack |-> FALSE, service_uncertain_ack |-> FALSE,
     service_reconciliation |-> FALSE, leases |-> leases]

JournalEntry ==
    [phase : {"Intent", "Executing", "ReportPending", "Uncertain", "Settled"},
     report : Outcome \cup {None}, fallback : Outcome \cup {None},
     retained_service : BOOLEAN, retention_reported : BOOLEAN,
     service_stopped_ack : BOOLEAN, service_uncertain_ack : BOOLEAN,
     service_reconciliation : BOOLEAN, leases : SUBSET Attempt]

ASSUME NoneAssumption == None \notin Outcome /\ None \notin JournalEntry

(* The journal is read in the order of the attempt ids.                    *)
First(set) == CHOOSE a \in set : \A b \in set : a <= b

InPhase(a, p) == journal[a] # None /\ journal[a].phase = p
Active == {a \in Attempt : journal[a] # None /\ journal[a].phase # "Settled"}
retained_services == {a \in Attempt : journal[a] # None /\ journal[a].retained_service
                                        /\ ~journal[a].service_stopped_ack}

(* The loop between two ticks, where operators are heard, and a position   *)
(* inside a tick.                                                          *)
At(pc) == [pc |-> pc, todo |-> {}, then |-> None, seen |-> {}]
Idle == At("Operate")

Init ==
    /\ earlier \in {{}, {a \in Attempt : a = 1}}
    /\ hub = [a \in Attempt |-> [state |-> IF a \in earlier THEN "Running" ELSE "Queued",
                                 stop |-> FALSE, final |-> None,
                                 lease |-> "None", lease_stop |-> FALSE]]
    /\ journal = [a \in Attempt |-> None]
    /\ spool = [a \in Attempt |-> None]
    /\ run = [a \in Attempt |-> None]
    /\ process = [a \in Attempt |-> IF a \in earlier THEN "Running" ELSE "None"]
    /\ shell = [a \in Attempt |-> "None"]
    /\ effects = [a \in Attempt |-> 0]
    /\ tick = Idle
    /\ faults = 0
    /\ stops = 0

-----------------------------------------------------------------------------
(* The Hub, as the Runner uses it.  A report is applied once per event id; *)
(* a final report of an attempt that is over is accepted only when it is   *)
(* the same one.  A stop fence refuses a start, a lease and a handoff.     *)
Put(a, s) == [hub EXCEPT ![a] = s]

Open(a) == hub[a].final = None

Answer(a, report) ==
    LET h == hub[a]
        Accept(s) == {[hub |-> Put(a, s), reply |-> "Ok"]}
        Reject == {[hub |-> hub, reply |-> "Rejected"]}
    IN  CASE report = "Started" ->
               IF h.state = "Running" \/ (h.state = "Assigned" /\ ~h.stop)
                 THEN Accept([h EXCEPT !.state = "Running"]) ELSE Reject
          [] report = "RetainService" ->
               IF h.lease # "None" \/ (h.state = "Running" /\ ~h.stop)
                 THEN Accept([h EXCEPT !.lease = IF @ = "None" THEN "Held" ELSE @])
                 ELSE Reject
          [] report = "ServiceStopped" -> Accept([h EXCEPT !.lease = "Stopped"])
          [] report = "ServiceUncertain" -> Accept(h)
          [] report = "Uncertain" ->
               IF Open(a) THEN Accept([h EXCEPT !.state = "Uncertain"]) ELSE Reject
          [] report = "Yielded" ->
               IF h.final = "Yielded" THEN Accept(h) \cup Reject
               ELSE IF Open(a) /\ ~h.stop
                 THEN Accept([h EXCEPT !.state = "Over", !.final = report]) \cup Reject
                 ELSE Reject
          [] OTHER ->
               IF h.final = report THEN Accept(h)
               ELSE IF Open(a) THEN Accept([h EXCEPT !.state = "Over", !.final = report])
                 ELSE Reject

(* What a call may lead to: an answer, or a loss before or after it.       *)
Lossy(answers) ==
    answers \cup {[hub |-> h, reply |-> "Unavailable"] :
                     h \in {hub} \cup {x.hub : x \in answers}}

Told(x) ==
    /\ x.reply = "Unavailable" => faults < MaxFaults
    /\ hub' = x.hub
    /\ faults' = IF x.reply = "Unavailable" THEN faults + 1 ELSE faults

report(a, r) == Lossy(Answer(a, r))

AskStop == stops < MaxStops /\ stops' = stops + 1

hub_request_stop(a) ==
    /\ Open(a) /\ hub[a].state # "Queued" /\ ~hub[a].stop
    /\ hub' = [hub EXCEPT ![a].stop = TRUE]
    /\ AskStop
    /\ UNCHANGED <<shell, journal, spool, run, process, effects, earlier, tick, faults>>

(* The lease of a service is stopped by the Hub or expires.                *)
hub_stop_service(a) ==
    /\ hub[a].lease = "Held" /\ ~hub[a].lease_stop
    /\ hub' = [hub EXCEPT ![a].lease_stop = TRUE]
    /\ AskStop
    /\ UNCHANGED <<shell, journal, spool, run, process, effects, earlier, tick, faults>>

-----------------------------------------------------------------------------
(* Executions on the host.                                                 *)
active(a) == run[a] # None /\ run[a].worker = "Running"

Receipt ==
    [worker : {"Running", "Ended"}, result : {None, "Completed", "Yielded", "Failed", "Lost"},
     offers : BOOLEAN, cancelled : BOOLEAN,
     process_lifetime : {"Open", "Cancelled"}, processes_drained : BOOLEAN]

ASSUME ReceiptAssumption == None \notin Receipt

Accepted ==
    [worker |-> "Running", result |-> None, offers |-> FALSE, cancelled |-> FALSE,
     process_lifetime |-> "Open", processes_drained |-> FALSE]

Drained(a) == run[a].processes_drained \/ (~active(a) /\ process[a] # "Running")

(* observe_process_completion on a receipt with other changes.             *)
Observed(a, r) == [r EXCEPT !.processes_drained = Drained(a)]

retained_service_state(a) ==
    CASE shell[a] = "None" -> "Unknown"
      [] shell[a] = "Open" -> "Running"
      [] shell[a] = "Cancelled" -> "Stopping"
      [] shell[a] = "Ended" -> "Stopped"

retained_service_live(a) == retained_service_state(a) = "Running"

(* stop_execution: a turn that already completed is not cancelled by it.   *)
stop_execution(a, r) ==
    IF Drained(a) THEN Observed(a, r)
    ELSE [r EXCEPT !.process_lifetime = "Cancelled",
                   !.cancelled = r.result # "Completed"]

cancel_retained_services(services) ==
    shell' = [a \in Attempt |->
                 IF a \in services /\ shell[a] = "Open" THEN "Cancelled" ELSE shell[a]]

(* The worker ends; a cancelled one does not complete or yield.  It may    *)
(* offer its process as a service that outlives the turn.                  *)
worker_end(a) ==
    /\ active(a)
    /\ \E result \in IF run[a].cancelled THEN {"Failed", "Lost"}
                     ELSE {"Completed", "Yielded", "Failed", "Lost"} :
       \E offers \in IF process[a] = "Running" /\ result \in {"Completed", "Yielded"}
                     THEN BOOLEAN ELSE {FALSE} :
          run' = [run EXCEPT ![a].worker = "Ended", ![a].result = result,
                             ![a].offers = offers]
    /\ UNCHANGED <<shell, hub, journal, spool, world, tick, faults>>

(* The thread of the process notices that the lifetime of its run is over. *)
lifetime_noticed(a) ==
    /\ run[a] # None /\ run[a].process_lifetime = "Cancelled"
    /\ shell[a] = "Open"
    /\ shell' = [shell EXCEPT ![a] = "Cancelled"]
    /\ UNCHANGED <<hub, journal, spool, run, world, tick, faults>>

process_exit(a) ==
    /\ process[a] = "Running"
    /\ process' = [process EXCEPT ![a] = "Gone"]
    /\ shell' = [shell EXCEPT ![a] = IF @ = "None" THEN @ ELSE "Ended"]
    /\ UNCHANGED <<hub, journal, spool, run, effects, earlier, tick, faults, stops>>

(* Local clients: Status and List observe a receipt; Stop, and StopShared  *)
(* of an operator, end a run.                                              *)
client_status(a) ==
    /\ run[a] # None
    /\ run' = [run EXCEPT ![a] = Observed(a, @)]
    /\ UNCHANGED <<shell, hub, journal, spool, world, tick, faults>>

client_stop(a) ==
    /\ run[a] # None
    /\ run' = [run EXCEPT ![a] = stop_execution(a, @)]
    /\ AskStop
    /\ UNCHANGED <<shell, hub, journal, spool, process, effects, earlier, tick, faults>>

-----------------------------------------------------------------------------
(* tick, first part.  The fences are observed before any outcome is        *)
(* collected; without an answer every worker and service is stopped.       *)
Assigned(a) == [attempt |-> a, state |-> hub[a].state, stop |-> hub[a].stop]
Assignments == {Assigned(a) : a \in {x \in Attempt : hub[x].state \notin {"Queued", "Over"}}}

(* Active at the Hub and unknown to the journal.                           *)
Orphans(seen) ==
    {x.attempt : x \in {y \in seen : /\ journal[y.attempt] = None
                                     /\ (y.state # "Assigned") \/ y.stop}}

Fenced(a, seen) == ~\E x \in seen : x.attempt = a /\ ~x.stop

(* Faulty: a fence on an attempt that is still listed is not looked at.    *)
stop_listed_executions(seen) ==
    [a \in Attempt |->
        IF InPhase(a, "Executing") /\ ~\E x \in seen : x.attempt = a
          THEN stop_execution(a, run[a]) ELSE run[a]]

stop_fenced_executions(seen) ==
    [a \in Attempt |->
        IF InPhase(a, "Executing") /\ Fenced(a, seen)
          THEN stop_execution(a, run[a]) ELSE run[a]]

poll ==
    /\ tick.pc = "Operate"
    /\ \/ /\ run' = stop_fenced_executions(Assignments)
          /\ tick' = [At("Collect") EXCEPT !.seen = Orphans(Assignments), !.then = "Services"]
          /\ UNCHANGED <<shell, faults>>
       \/ /\ faults < MaxFaults
          /\ faults' = faults + 1
          /\ run' = stop_fenced_executions({})
          /\ cancel_retained_services(retained_services)
          /\ tick' = [At("Collect") EXCEPT !.then = "Operate"]
    /\ UNCHANGED <<hub, journal, spool, world>>

Executing == {a \in Attempt : InPhase(a, "Executing")}

(* The outcome of an ended execution is recorded once its processes are    *)
(* gone, or with the live service that it hands over.  A worker that ended *)
(* without an outcome is Lost: its processes are not told to end.          *)
Collected(a, r, keeps) ==
    CASE r.result = "Lost" -> [journal[a] EXCEPT !.phase = "Uncertain", !.report = "Uncertain"]
      [] OTHER ->
           [journal[a] EXCEPT
               !.phase = "ReportPending", !.retained_service = keeps,
               !.report = IF r.result = "Yielded" /\ ~r.cancelled /\ (r.offers => keeps)
                            THEN "Yielded"
                          ELSE IF r.result = "Completed" /\ ~r.cancelled
                            THEN "Succeeded" ELSE "Failed"]

(* Faulty: the outcome is recorded as soon as the worker has ended.        *)
collect_outcome_at_end(a) ==
    LET keeps == run[a].offers /\ ~run[a].cancelled /\ retained_service_live(a)
        r == IF run[a].result \notin {None, "Lost"} /\ ~keeps
               THEN [run[a] EXCEPT !.process_lifetime = "Cancelled"] ELSE run[a]
    IN  /\ run' = [run EXCEPT ![a] = Observed(a, r)]
        /\ journal' = IF active(a) THEN journal
                      ELSE [journal EXCEPT ![a] = Collected(a, r, keeps)]

collect_outcome(a) ==
    LET keeps == run[a].offers /\ ~run[a].cancelled /\ retained_service_live(a)
        r == IF run[a].result \notin {None, "Lost"} /\ ~keeps
               THEN [run[a] EXCEPT !.process_lifetime = "Cancelled"] ELSE run[a]
    IN  /\ run' = [run EXCEPT ![a] = Observed(a, r)]
        /\ journal' = IF active(a) \/ (~keeps /\ ~Drained(a)) THEN journal
                      ELSE [journal EXCEPT ![a] = Collected(a, r, keeps)]

collect ==
    /\ tick.pc = "Collect"
    /\ \/ /\ Executing = {} /\ UNCHANGED <<run, journal>>
       \/ \E a \in Executing : collect_outcome(a)
    /\ tick' = IF tick.then = "Operate" THEN Idle
               ELSE [tick EXCEPT !.pc = "Services", !.then = None]
    /\ UNCHANGED <<hub, spool, shell, world, faults>>

-----------------------------------------------------------------------------
(* reconcile_retained_services: the fences of all services first, then one *)
(* receipt after the other.  A failed call ends the tick.                  *)
Flushing(todo, then) ==
    IF todo # {} THEN [tick EXCEPT !.pc = "Flush", !.todo = todo, !.then = then]
    ELSE IF then = "Admit" THEN [At("Admit") EXCEPT !.seen = tick.seen] ELSE Idle

Undelivered == {a \in Active : journal[a].phase \in {"ReportPending", "Uncertain"}}

Serving(todo) ==
    IF todo # {} THEN [tick EXCEPT !.pc = "Service", !.todo = todo]
    ELSE Flushing(Undelivered, "Admit")

read_services ==
    /\ tick.pc = "Services"
    /\ \/ /\ retained_services = {}
          /\ tick' = Serving({})
          /\ UNCHANGED <<shell, faults>>
       \/ /\ retained_services # {}
          /\ LET leased == {a \in retained_services : journal[a].retention_reported}
             IN  /\ cancel_retained_services({a \in leased :
                        hub[a].lease # "Held" \/ hub[a].lease_stop})
                 /\ tick' = Serving(leased)
          /\ UNCHANGED faults
       \/ /\ retained_services # {}
          /\ faults < MaxFaults
          /\ faults' = faults + 1
          /\ cancel_retained_services(retained_services)
          /\ tick' = Idle
    /\ UNCHANGED <<hub, journal, spool, run, world>>

(* The receipt of a service: its stop is reported once the process and     *)
(* everything else of the attempt is gone, or an operator confirmed it.    *)
StopKnown(a) ==
    \/ journal[a].service_reconciliation
    \/ retained_service_state(a) = "Stopped" /\ run[a] # None /\ Drained(a)

ReceiptLost(a) ==
    ~journal[a].service_reconciliation /\ retained_service_state(a) = "Stopped" /\ run[a] = None

ServiceReceipt(a, r, field) ==
    \E x \in report(a, r) :
        /\ Told(x)
        /\ journal' = IF x.reply # "Ok" THEN journal
                      ELSE IF field = "stopped"
                        THEN [journal EXCEPT ![a].service_stopped_ack = TRUE]
                        ELSE [journal EXCEPT ![a].service_uncertain_ack = TRUE]
        /\ tick' = IF x.reply = "Ok" THEN Serving(tick.todo \ {a}) ELSE Idle

report_service(a) ==
    /\ tick.pc = "Service" /\ a = First(tick.todo)
    /\ IF StopKnown(a)
         THEN ServiceReceipt(a, "ServiceStopped", "stopped")
         ELSE IF ReceiptLost(a)
           THEN tick' = Idle /\ UNCHANGED <<hub, journal, faults>>
         ELSE IF retained_service_state(a) = "Unknown" /\ ~journal[a].service_uncertain_ack
           THEN ServiceReceipt(a, "ServiceUncertain", "uncertain")
           ELSE /\ tick' = Serving(tick.todo \ {a})
                /\ UNCHANGED <<hub, journal, faults>>
    /\ run' = IF run[a] # None /\ retained_service_state(a) = "Stopped"
              THEN [run EXCEPT ![a] =
                       Observed(a, [@ EXCEPT !.process_lifetime = "Cancelled"])]
              ELSE run
    /\ UNCHANGED <<spool, shell, world>>

-----------------------------------------------------------------------------
(* Delivery of the reports, entry by entry; the first error ends the tick. *)
Now(a, pc) == tick.pc = pc /\ a = First(tick.todo)
FlushNext == Flushing(tick.todo \ {First(tick.todo)}, tick.then)

(* A service is leased at the Hub before its turn is reported.             *)
NeedsLease(a) ==
    /\ journal[a].retained_service /\ ~journal[a].retention_reported
    /\ ~journal[a].service_stopped_ack
    /\ journal[a].report \in Handoff

flush_uncertain(a) ==
    /\ Now(a, "Flush") /\ InPhase(a, "Uncertain")
    /\ \E x \in report(a, "Uncertain") :
          /\ Told(x)
          /\ tick' = IF x.reply = "Ok" THEN FlushNext ELSE Idle
    /\ UNCHANGED <<shell, journal, spool, run, world>>

FailHandoff(a) == [journal EXCEPT ![a].report = "HandoffFailed"]

flush_retain(a) ==
    /\ Now(a, "Flush") /\ InPhase(a, "ReportPending") /\ NeedsLease(a)
    /\ \E x \in report(a, "RetainService") :
          /\ Told(x)
          /\ CASE x.reply = "Ok" ->
                     /\ journal' = [journal EXCEPT ![a].retention_reported = TRUE]
                     /\ UNCHANGED <<tick, shell>>
               [] x.reply = "Rejected" ->
                     /\ journal' = FailHandoff(a)
                     /\ cancel_retained_services({a})
                     /\ tick' = FlushNext
               [] OTHER -> tick' = Idle /\ UNCHANGED <<journal, shell>>
    /\ UNCHANGED <<spool, run, world>>

(* Faulty: the report of a dead service is always replaced.                *)
report_never_frozen(a) == FALSE

(* Once the report of a handoff may have reached the Hub it is never       *)
(* replaced, even if its service has died.                                 *)
report_frozen(a) == spool[a] # None

ServiceDead(a) ==
    journal[a].retained_service /\ journal[a].report \in Handoff /\ ~retained_service_live(a)

(* Faulty: a stop that is acknowledged is waited for all the same.         *)
MustDrain_again(a) == journal[a].retained_service /\ journal[a].report \notin Handoff

MustDrain(a) ==
    /\ journal[a].retained_service /\ ~journal[a].service_stopped_ack
    /\ journal[a].report \notin Handoff

flush_handoff(a) ==
    /\ Now(a, "Flush") /\ InPhase(a, "ReportPending") /\ ~NeedsLease(a)
    /\ \/ /\ ServiceDead(a) /\ ~report_frozen(a)
          /\ cancel_retained_services({a})
          /\ journal' = FailHandoff(a)
          /\ tick' = FlushNext
          /\ UNCHANGED run
       \/ /\ ServiceDead(a) /\ report_frozen(a)
          /\ cancel_retained_services({a})
          /\ tick' = IF journal[a].service_stopped_ack THEN [tick EXCEPT !.pc = "Persist"]
                     ELSE FlushNext
          /\ UNCHANGED <<journal, run>>
       \/ /\ MustDrain(a)
          /\ UNCHANGED shell
          /\ IF journal[a].retention_reported
               THEN tick' = FlushNext /\ UNCHANGED <<journal, run>>
             ELSE IF journal[a].service_reconciliation
               THEN /\ journal' = [journal EXCEPT ![a].service_stopped_ack = TRUE]
                    /\ tick' = [tick EXCEPT !.pc = "Persist"]
                    /\ UNCHANGED run
             ELSE IF run[a] = None
               THEN tick' = Idle /\ UNCHANGED <<journal, run>>
             ELSE /\ run' = [run EXCEPT ![a] = Observed(a, [@ EXCEPT !.process_lifetime = "Cancelled"])]
                  /\ IF Drained(a)
                       THEN /\ journal' = [journal EXCEPT ![a].service_stopped_ack = TRUE]
                            /\ tick' = [tick EXCEPT !.pc = "Persist"]
                       ELSE tick' = FlushNext /\ UNCHANGED journal
       \/ /\ ~ServiceDead(a) /\ ~MustDrain(a)
          /\ tick' = [tick EXCEPT !.pc = "Persist"]
          /\ UNCHANGED <<journal, run, shell>>
    /\ UNCHANGED <<hub, spool, world, faults>>

(* data::persist: the payload is bound to the report, then uploaded.  Its  *)
(* failure is a fault that passes; a payload above the size limits, which  *)
(* fails at every tick, is not modelled.                                   *)
flush_persist(a) ==
    /\ Now(a, "Persist")
    /\ LET bound == spool[a] \in {None, journal[a].report}
       IN  /\ spool' = IF bound THEN [spool EXCEPT ![a] = journal[a].report] ELSE spool
           /\ \/ tick' = (IF bound THEN [tick EXCEPT !.pc = "Report"] ELSE Idle)
                 /\ UNCHANGED faults
              \/ /\ faults < MaxFaults
                 /\ faults' = faults + 1
                 /\ tick' = Idle
    /\ UNCHANGED <<shell, hub, journal, run, world>>

(* The acknowledged entry is settled and a drained receipt is retired.     *)
Settle(a) ==
    /\ journal' = [journal EXCEPT ![a].phase = "Settled"]
    /\ spool' = [spool EXCEPT ![a] = None]
    /\ run' = IF run[a] # None /\ run[a].processes_drained
              THEN [run EXCEPT ![a] = None] ELSE run
    /\ tick' = FlushNext

flush_report(a) ==
    /\ Now(a, "Report")
    /\ \E x \in report(a, journal[a].report) :
          /\ Told(x)
          /\ CASE x.reply = "Ok" -> Settle(a)
               [] x.reply = "Rejected" /\ journal[a].report = "Yielded" ->
                     /\ tick' = [tick EXCEPT !.pc = "Rejected"]
                     /\ UNCHANGED <<journal, spool, run>>
               [] OTHER -> tick' = Idle /\ UNCHANGED <<journal, spool, run>>
    /\ UNCHANGED <<shell, world>>

(* A rejected yield: the attempt is read back, and unless it is over the   *)
(* fallback is saved before it is sent.                                    *)
flush_rejected(a) ==
    /\ Now(a, "Rejected")
    /\ \/ /\ ~Open(a)
          /\ Settle(a)
          /\ UNCHANGED <<shell, faults>>
       \/ /\ \/ Open(a) /\ UNCHANGED faults
             \/ faults < MaxFaults /\ faults' = faults + 1
          /\ journal' = [journal EXCEPT ![a].fallback = "YieldRejected"]
          /\ cancel_retained_services({a} \cap retained_services)
          /\ tick' = [tick EXCEPT !.pc = "Fallback"]
          /\ UNCHANGED <<spool, run>>
    /\ UNCHANGED <<hub, world>>

flush_fallback(a) ==
    /\ Now(a, "Fallback")
    /\ \E x \in report(a, journal[a].fallback) :
          /\ Told(x)
          /\ IF x.reply = "Ok" THEN Settle(a)
             ELSE tick' = Idle /\ UNCHANGED <<journal, spool, run>>
    /\ UNCHANGED <<shell, world>>

-----------------------------------------------------------------------------
(* The rest of a tick.  An attempt that is active at the Hub and unknown   *)
(* to the journal is recorded as uncertain, in three writes.               *)
orphan_intent(a) ==
    /\ tick.pc = "Admit" /\ tick.seen # {} /\ a = First(tick.seen)
    /\ journal' = [journal EXCEPT ![a] = Entry({})]
    /\ tick' = [tick EXCEPT !.pc = "OrphanIntent"]
    /\ UNCHANGED <<hub, spool, run, shell, world, faults>>

orphan_executing(a) ==
    /\ tick.pc = "OrphanIntent" /\ a = First(tick.seen)
    /\ journal' = [journal EXCEPT ![a].phase = "Executing"]
    /\ tick' = [tick EXCEPT !.pc = "OrphanExecuting"]
    /\ UNCHANGED <<hub, spool, run, shell, world, faults>>

orphan_uncertain(a) ==
    /\ tick.pc = "OrphanExecuting" /\ a = First(tick.seen)
    /\ journal' = [journal EXCEPT ![a].phase = "Uncertain", ![a].report = "Uncertain"]
    /\ tick' = Idle
    /\ UNCHANGED <<hub, spool, run, shell, world, faults>>

(* One execution at a time: an entry that is not settled keeps the Runner  *)
(* from the next claim.  A claim that was lost is answered again.          *)
Busy == \E a \in Active : journal[a].phase # "Intent"

Claimable(a) ==
    LET again == {x \in Attempt : hub[x].state = "Assigned" /\ journal[x] = None}
        queued == {x \in Attempt : hub[x].state = "Queued"}
    IN  IF again # {} THEN a = First(again) ELSE queued # {} /\ a = First(queued)

Leases == {a \in Attempt : hub[a].lease = "Held"}

admit_nothing ==
    /\ tick.pc = "Admit" /\ tick.seen = {}
    /\ Busy \/ (Active = {} /\ ~\E a \in Attempt : Claimable(a))
    /\ tick' = Idle
    /\ UNCHANGED <<hub, journal, spool, run, shell, world, faults>>

claim(a) ==
    /\ tick.pc = "Admit" /\ tick.seen = {} /\ Active = {}
    /\ Claimable(a)
    /\ \E x \in Lossy({[hub |-> Put(a, [hub[a] EXCEPT !.state = "Assigned"]),
                        reply |-> "Ok"]}) :
          /\ Told(x)
          /\ IF x.reply = "Ok"
               THEN /\ journal' = [journal EXCEPT ![a] = Entry(Leases)]
                    /\ UNCHANGED tick
               ELSE tick' = Idle /\ UNCHANGED journal
    /\ UNCHANGED <<spool, run, shell, world>>

(* The outcome of an attempt that was not started is saved, then reported. *)
preparation_failed(a) ==
    /\ journal' = [journal EXCEPT ![a].phase = "ReportPending", ![a].report = "NotStarted"]
    /\ tick' = [At("Flush") EXCEPT !.todo = {a}, !.then = "Operate"]

(* The pending intent, of this tick or of an earlier one, is started.      *)
Starting(a) ==
    /\ tick.pc = "Admit" /\ tick.seen = {} /\ ~Busy
    /\ Active # {} /\ a = First(Active)

start_rejected(a) ==
    /\ Starting(a)
    /\ faults < MaxFaults /\ faults' = faults + 1
    /\ preparation_failed(a)
    /\ UNCHANGED <<hub, spool, run, shell, world>>

start(a) ==
    /\ Starting(a)
    /\ \E x \in report(a, "Started") :
          /\ Told(x)
          /\ CASE x.reply = "Ok" -> tick' = [At("Status") EXCEPT !.todo = {a}] /\ UNCHANGED journal
               [] x.reply = "Rejected" -> preparation_failed(a)
               [] OTHER -> tick' = Idle /\ UNCHANGED journal
    /\ UNCHANGED <<spool, run, shell, world>>

(* The attempt is read back, and the execution is recorded before anything *)
(* that could have an effect.                                              *)
start_status(a) ==
    /\ Now(a, "Status")
    /\ \/ /\ faults < MaxFaults /\ faults' = faults + 1
          /\ tick' = Idle
          /\ UNCHANGED journal
       \/ /\ IF hub[a].state = "Running" /\ ~hub[a].stop
               THEN /\ journal' = [journal EXCEPT ![a].phase = "Executing"]
                    /\ tick' = [tick EXCEPT !.pc = "Prepare"]
               ELSE preparation_failed(a)
          /\ UNCHANGED faults
    /\ UNCHANGED <<hub, spool, run, shell, world>>

(* resource_for_assignment and the busy test of submit_execution: a lease  *)
(* of the assignment must be live here, any other execution drained.       *)
Compatible(a) ==
    /\ \A b \in journal[a].leases :
          /\ journal[b] # None /\ journal[b].retention_reported
          /\ ~journal[b].service_stopped_ack
          /\ retained_service_live(b)
          /\ run[b] # None /\ ~active(b) /\ ~run[b].processes_drained
    /\ \A b \in Attempt \ ({a} \cup journal[a].leases) : run[b] # None => Drained(b)

prepare_fails(a) ==
    /\ Now(a, "Prepare")
    /\ \/ ~Compatible(a) /\ UNCHANGED faults
       \/ faults < MaxFaults /\ faults' = faults + 1
    /\ preparation_failed(a)
    /\ UNCHANGED <<hub, spool, run, shell, world>>

submit_execution(a) ==
    /\ Now(a, "Prepare")
    /\ Compatible(a)
    /\ run' = [b \in Attempt |-> IF b = a THEN Accepted
                                 ELSE IF run[b] # None THEN Observed(b, run[b]) ELSE None]
    /\ process' = [process EXCEPT ![a] = "Running"]
    /\ shell' = [shell EXCEPT ![a] = "Open"]
    /\ effects' = [effects EXCEPT ![a] = @ + 1]
    /\ \/ journal' = journal /\ UNCHANGED faults
       \/ /\ faults < MaxFaults /\ faults' = faults + 1   \* accepted, receipt unusable
          /\ journal' = [journal EXCEPT ![a].phase = "Uncertain", ![a].report = "Uncertain"]
    /\ tick' = Idle
    /\ UNCHANGED <<hub, spool, earlier, stops>>

(* No worker could be spawned: nothing was accepted.                       *)
submit_refused(a) ==
    /\ Now(a, "Prepare")
    /\ faults < MaxFaults /\ faults' = faults + 1
    /\ journal' = [journal EXCEPT ![a].phase = "ReportPending", ![a].report = "NotStarted"]
    /\ tick' = Idle
    /\ UNCHANGED <<hub, spool, run, shell, world>>

-----------------------------------------------------------------------------
(* Operators, between two ticks.  Without a receipt an operator vouches    *)
(* that the processes of the attempt are gone.                             *)
reconcile_attempt(a) ==
    /\ tick.pc = "Operate" /\ InPhase(a, "Uncertain")
    /\ IF run[a] = None THEN process[a] # "Running" /\ UNCHANGED run
       ELSE run' = [run EXCEPT ![a] = Observed(a, [@ EXCEPT !.process_lifetime = "Cancelled"])]
    /\ IF run[a] # None /\ ~Drained(a) THEN UNCHANGED <<journal, tick>>
       ELSE /\ journal' = [journal EXCEPT ![a].phase = "ReportPending",
                              ![a].fallback = journal[a].report, ![a].report = "Reconciled"]
            /\ tick' = [At("Flush") EXCEPT !.todo = {a}, !.then = "Operate"]
    /\ UNCHANGED <<hub, spool, shell, world, faults>>

reconcile_service(a) ==
    /\ tick.pc = "Operate" /\ a \in retained_services
    /\ ~journal[a].service_reconciliation
    /\ \/ retained_service_state(a) = "Stopped" /\ run[a] # None /\ Drained(a)
       \/ retained_service_state(a) = "Unknown" /\ process[a] # "Running"
    /\ journal' = [journal EXCEPT ![a].service_reconciliation = TRUE]
    /\ run' = IF run[a] = None THEN run
              ELSE [run EXCEPT ![a] = Observed(a, [@ EXCEPT !.process_lifetime = "Cancelled"])]
    /\ UNCHANGED <<hub, spool, shell, world, tick, faults>>

stop_retained_service(a) ==
    /\ tick.pc = "Operate" /\ a \in retained_services
    /\ shell[a] # "None"
    /\ cancel_retained_services({a})
    /\ AskStop
    /\ UNCHANGED <<hub, journal, spool, run, process, effects, earlier, tick, faults>>

(* The process dies and comes back.  recover: what may have been executing *)
(* is uncertain.                                                           *)
crash ==
    /\ tick.pc # "Down"
    /\ faults < MaxFaults /\ faults' = faults + 1
    /\ run' = [a \in Attempt |-> None]
    /\ shell' = [a \in Attempt |-> "None"]
    /\ tick' = At("Down")
    /\ UNCHANGED <<hub, journal, spool, world>>

(* Faulty: an execution that was interrupted is an intent again.           *)
recover_as_intent ==
    /\ tick.pc = "Down"
    /\ journal' = [a \in Attempt |->
          IF InPhase(a, "Executing") THEN [journal[a] EXCEPT !.phase = "Intent"]
          ELSE journal[a]]
    /\ tick' = Idle
    /\ UNCHANGED <<hub, spool, run, shell, world, faults>>

recover ==
    /\ tick.pc = "Down"
    /\ journal' = [a \in Attempt |->
          IF InPhase(a, "Executing")
            THEN [journal[a] EXCEPT !.phase = "Uncertain", !.report = "Uncertain"]
            ELSE journal[a]]
    /\ tick' = Idle
    /\ UNCHANGED <<hub, spool, run, shell, world, faults>>

-----------------------------------------------------------------------------
Loop ==
    \/ poll \/ collect \/ read_services
    \/ admit_nothing \/ recover
    \/ \E a \in Attempt :
          \/ report_service(a) \/ flush_uncertain(a) \/ flush_retain(a) \/ flush_handoff(a)
          \/ flush_persist(a) \/ flush_report(a) \/ flush_rejected(a) \/ flush_fallback(a)
          \/ orphan_intent(a) \/ orphan_executing(a) \/ orphan_uncertain(a)
          \/ claim(a) \/ start_rejected(a) \/ start(a)
          \/ start_status(a) \/ prepare_fails(a) \/ submit_execution(a)
          \/ submit_refused(a)

Around ==
    \/ crash
    \/ \E a \in Attempt :
          \/ hub_request_stop(a) \/ hub_stop_service(a)
          \/ worker_end(a) \/ lifetime_noticed(a) \/ process_exit(a)
          \/ client_status(a) \/ client_stop(a)
          \/ reconcile_attempt(a) \/ reconcile_service(a) \/ stop_retained_service(a)

Next == Loop \/ Around

Spec == Init /\ [][Next]_vars

(* The loop goes on, a stopped worker ends and a process that is told to   *)
(* end does.  Nothing is assumed of operators, of the Hub or of a worker   *)
(* that nobody stopped.                                                    *)
CancelledWorkerEnds(a) == run[a] # None /\ run[a].cancelled /\ worker_end(a)
ToldProcessExits(a) ==
    /\ shell[a] = "Cancelled" \/ (run[a] # None /\ run[a].process_lifetime = "Cancelled")
    /\ process_exit(a)

FairSpec ==
    /\ Spec
    /\ WF_vars(Loop)
    /\ \A a \in Attempt : WF_vars(CancelledWorkerEnds(a)) /\ WF_vars(ToldProcessExits(a))

-----------------------------------------------------------------------------
(* Every attempt that this Runner recorded from the start is executed at   *)
(* most once, over lost calls and crashes ("automatic reexecution is       *)
(* disabled", mod.rs:705).                                                 *)
EffectsOnce == \A a \in Attempt \ earlier : effects[a] <= 1

(* The Hub believes that the resources of an attempt are released only     *)
(* when its worker has ended and its process is gone or under a lease, and *)
(* a lease is given up only with its process ("Called after real drain and *)
(* before reporting release", data.rs:178).                                *)
ReleasedIsDrained ==
    \A a \in Attempt \ earlier :
        /\ hub[a].final # None => ~active(a) /\ (process[a] = "Running" => hub[a].lease = "Held")
        /\ hub[a].lease = "Stopped" => process[a] # "Running"

(* What the Hub accepted as final is what the journal holds, whatever      *)
(* happened to the service, the yield or the acknowledgement in between,   *)
(* and a settled entry was accepted.                                       *)
AcceptedIsRecorded ==
    \A a \in Attempt :
        /\ hub[a].final # None =>
              /\ journal[a] # None
              /\ hub[a].final \in {journal[a].report, journal[a].fallback}
        /\ InPhase(a, "Settled") => hub[a].final # None

(* A stop fence of the Hub ends the execution, even if the turn hangs.     *)
FenceEndsExecution ==
    \A a \in Attempt :
        (hub[a].stop /\ InPhase(a, "Executing")) ~> ~InPhase(a, "Executing")

(* An outcome that is recorded is acknowledged in the end, unless a person *)
(* must first confirm that its service is gone, or the Runner is stuck on  *)
(* a receipt of another run that it retired too early (ReceiptLost).       *)
AwaitsOperator(a) ==
    /\ a \in retained_services /\ ~journal[a].service_reconciliation
    /\ retained_service_state(a) = "Unknown"

ReportSettles ==
    \A a \in Attempt :
        InPhase(a, "ReportPending") ~>
            \/ InPhase(a, "Settled") \/ AwaitsOperator(a)
            \/ \E b \in retained_services : ReceiptLost(b)

(* "No new claim or effect is permitted merely because this process has no *)
(* worker" (mod.rs:913): an attempt of an earlier host is not executed,    *)
(* and released only when an operator confirmed it.                        *)
OrphanLeftAlone ==
    \A a \in earlier : effects[a] = 0 /\ hub[a].final \in {None, "Reconciled"}
=============================================================================
