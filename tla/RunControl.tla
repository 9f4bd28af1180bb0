----------------------------- MODULE RunControl -----------------------------
(***************************************************************************)
(* The terminal classification of a run (src/src/runtime/cancel.rs).       *)
(*                                                                         *)
(* A RunControl is shared by the agent loop, its tools, the user's Stop,   *)
(* the heartbeat and the permission dialogs of one run.  All of them meet  *)
(* in one mutex-protected RunClassification.  The first terminal producer  *)
(* wins; a producer that arrives while a short reservation is held is      *)
(* deferred until the reservation is resolved.  Every operation below is   *)
(* one critical section of that mutex; the wake-up of the cancellation     *)
(* token happens after the mutex is dropped, hence is a step of its own.   *)
(*                                                                         *)
(* Threads stand for every task that may call a control: each holds at     *)
(* most one RAII reservation at a time and is busy while it still has to   *)
(* publish the wake-up of a classification it made.                        *)
(***************************************************************************)
EXTENDS FiniteSets

CONSTANTS
    Control,    \* the RunControl instances (a root scope, a root turn, a child turn)
    Thread,     \* the tasks calling them
    Cause,      \* RunCancellationCause values
    NoCause,    \* Option::None for a cause
    NoControl,  \* nothing left to wake, or no reservation held
    Route       \* the installed terminal router: the control a request acts on

ASSUME ControlAssumption == NoControl \notin Control
ASSUME CauseAssumption == NoCause \notin Cause
ASSUME RouteAssumption == Route \in [Control -> Control]

VARIABLES
    class,      \* class[c]: the RunClassification of c
    wake,       \* wake[c]: c's CancellationToken has been cancelled
    toWake,     \* toWake[t]: the controls t classified and has yet to wake
    token,      \* token[t]: the reservation t holds
    evidence,   \* evidence[c]: the cause a durable commit recorded for c
    ack,        \* ack[c]: acknowledgements given to terminal producers of c
    verdict     \* verdict[c]: causes chosen by the holder of a success commit

vars == <<class, wake, toWake, token, evidence, ack, verdict>>

-----------------------------------------------------------------------------
ToolReservation == {"EffectAdmitting", "EffectCommitting", "ToolSettling"}
Reservation == ToolReservation \cup {"SuccessCommitting"}
Terminal == {"SuccessSealed", "Cancelled"}
Kind == {"Open"} \cup Reservation \cup Terminal

(* RunClassification: `cause` is the pending cause of a reservation or the *)
(* cause of a cancellation.                                                *)
Classification == [kind : Kind, cause : Cause \cup {NoCause}]
Open == [kind |-> "Open", cause |-> NoCause]
Pending(k, cause) == [kind |-> k, cause |-> cause]
Reserved(k) == Pending(k, NoCause)
SuccessSealed == [kind |-> "SuccessSealed", cause |-> NoCause]
Cancelled(cause) == [kind |-> "Cancelled", cause |-> cause]

NoToken == [ctl |-> NoControl, kind |-> "Open"]
Token == [ctl : Control, kind : Reservation]
WakeOnly(c) == [first |-> c, second |-> NoControl]
NothingToWake == WakeOnly(NoControl)
Wakes == [first : Control \cup {NoControl}, second : Control \cup {NoControl}]

(* How a producer's cause was accepted: applied at once, or deferred       *)
(* behind a reservation of the given kind.                                 *)
Ack == [cause : Cause, by : {"Applied"} \cup Reservation]

Idle(t) == toWake[t] = NothingToWake
Free(t) == Idle(t) /\ token[t] = NoToken

-----------------------------------------------------------------------------
Init ==
    /\ class = [c \in Control |-> Open]
    /\ wake = [c \in Control |-> FALSE]
    /\ toWake = [t \in Thread |-> NothingToWake]
    /\ token = [t \in Thread |-> NoToken]
    /\ evidence = [c \in Control |-> NoCause]
    /\ ack = [c \in Control |-> {}]
    /\ verdict = [c \in Control |-> {}]

(* begin_success_commit, begin_tool_effect_admission,                      *)
(* begin_tool_effect_commit and begin_tool_settlement: only an Open run    *)
(* hands out a reservation.                                                *)
begin_reservation(t, c, k) ==
    /\ Free(t)
    /\ class[c] = Open
    /\ class' = [class EXCEPT ![c] = Reserved(k)]
    /\ token' = [token EXCEPT ![t] = [ctl |-> c, kind |-> k]]
    /\ UNCHANGED <<wake, toWake, evidence, ack, verdict>>

(* Faulty: the unreserved seal only checks that the run is not terminal.   *)
seal_success_over_reservation(t, c) ==
    /\ Free(t)
    /\ class[c].kind \notin Terminal
    /\ class' = [class EXCEPT ![c] = SuccessSealed]
    /\ UNCHANGED <<wake, toWake, token, evidence, ack, verdict>>

(* seal_success: the unreserved seal of a run that ends normally.          *)
seal_success(t, c) ==
    /\ Free(t)
    /\ class[c] = Open
    /\ class' = [class EXCEPT ![c] = SuccessSealed]
    /\ UNCHANGED <<wake, toWake, token, evidence, ack, verdict>>

-----------------------------------------------------------------------------
(* Faulty: the last cause replaces the pending one.                        *)
DeferrableLastWins(c, cause) == class[c].kind \in Reservation

(* request_cancel_local.  A pending cause accepts its own repetition; any  *)
(* other later cause, and any cause after a terminal, is Rejected.         *)
Deferrable(c, cause) ==
    class[c].kind \in Reservation /\ class[c].cause \in {NoCause, cause}

request_cancel_local(t, c, cause) ==
    \/ /\ class[c] = Open
       /\ class' = [class EXCEPT ![c] = Cancelled(cause)]
       /\ toWake' = [toWake EXCEPT ![t] = WakeOnly(c)]
       /\ ack' = [ack EXCEPT ![c] = @ \cup {[cause |-> cause, by |-> "Applied"]}]
       /\ UNCHANGED <<wake, token, evidence, verdict>>
    \/ /\ Deferrable(c, cause)
       /\ class' = [class EXCEPT ![c] = Pending(class[c].kind, cause)]
       /\ ack' = [ack EXCEPT ![c] = @ \cup {[cause |-> cause, by |-> class[c].kind]}]
       /\ UNCHANGED <<wake, toWake, token, evidence, verdict>>
    \/ /\ class[c] # Open
       /\ ~Deferrable(c, cause)
       /\ UNCHANGED vars

(* route_terminal: the router redirects a request made on a root scope to  *)
(* the current root turn; every other control is its own target.           *)
route_terminal(c) == Route[c]

request_cancel(t, c, cause) ==
    /\ Idle(t)
    /\ request_cancel_local(t, route_terminal(c), cause)

(* Faulty: the durable commit runs before the classification is tested.    *)
commit_cancel_local_before_test(t, c, cause) ==
    /\ Idle(t)
    /\ evidence' = [evidence EXCEPT ![c] = cause]
    /\ IF class[c] = Open
         THEN /\ class' = [class EXCEPT ![c] = Cancelled(cause)]
              /\ toWake' = [toWake EXCEPT ![t] = WakeOnly(c)]
              /\ ack' = [ack EXCEPT ![c] = @ \cup {[cause |-> cause, by |-> "Applied"]}]
         ELSE UNCHANGED <<class, toWake, ack>>
    /\ UNCHANGED <<wake, token, verdict>>

(* commit_cancel_local: the durable commit runs inside the critical        *)
(* section, only on an Open run; when it fails the run stays Open.         *)
commit_cancel_local(t, c, cause) ==
    /\ Idle(t)
    /\ class[c] = Open
    /\ evidence' = [evidence EXCEPT ![c] = cause]
    /\ class' = [class EXCEPT ![c] = Cancelled(cause)]
    /\ toWake' = [toWake EXCEPT ![t] = WakeOnly(c)]
    /\ ack' = [ack EXCEPT ![c] = @ \cup {[cause |-> cause, by |-> "Applied"]}]
    /\ UNCHANGED <<wake, token, verdict>>

(* cancellation_plan: unlike request_cancel_local a linked request accepts *)
(* no pending cause, not even an equal one.                                *)
cancellation_plan(c) == class[c] = Open \/ (class[c].kind \in Reservation /\ class[c].cause = NoCause)

(* apply_cancellation_plan: the classification and the acknowledgement.    *)
apply_cancellation_plan(c, cause) ==
    IF class[c] = Open THEN Cancelled(cause) ELSE Pending(class[c].kind, cause)

ack_of_plan(c, cause) ==
    [cause |-> cause, by |-> IF class[c] = Open THEN "Applied" ELSE class[c].kind]

wake_of_plan(c) == IF class[c] = Open THEN c ELSE NoControl

(* Faulty: the primary is cancelled before the secondary is asked.         *)
request_linked_cancellation_one_by_one(t, primary, pcause, secondary, scause) ==
    /\ Idle(t)
    /\ primary # secondary
    /\ cancellation_plan(primary)
    /\ ~cancellation_plan(secondary)
    /\ class' = [class EXCEPT ![primary] = apply_cancellation_plan(primary, pcause)]
    /\ toWake' = [toWake EXCEPT ![t] = WakeOnly(wake_of_plan(primary))]
    /\ UNCHANGED <<wake, token, evidence, ack, verdict>>

(* request_linked_cancellation: both classifications are locked and change *)
(* only when both can accept their cause.                                  *)
request_linked_cancellation(t, primary, pcause, secondary, scause) ==
    /\ Idle(t)
    /\ primary = secondary => pcause = scause
    /\ cancellation_plan(primary)
    /\ cancellation_plan(secondary)
    /\ class' = [class EXCEPT ![primary] = apply_cancellation_plan(primary, pcause),
                              ![secondary] = apply_cancellation_plan(secondary, scause)]
    /\ toWake' = [toWake EXCEPT ![t] =
                    [first |-> wake_of_plan(primary),
                     second |-> IF primary = secondary THEN NoControl
                                                       ELSE wake_of_plan(secondary)]]
    /\ ack' = [c \in Control |->
                 ack[c] \cup (IF c = primary THEN {ack_of_plan(c, pcause)} ELSE {})
                        \cup (IF c = secondary THEN {ack_of_plan(c, scause)} ELSE {})]
    /\ UNCHANGED <<wake, token, evidence, verdict>>

-----------------------------------------------------------------------------
(* Resolving a reservation.  Each operation first tests that the           *)
(* classification is still the reservation its guard stands for; the       *)
(* branch for a failed test is unreachable (ReservationOwned) and left out.*)
Spend(t) == token' = [token EXCEPT ![t] = NoToken]

(* Faulty: the released cancellation is classified but never woken.        *)
CancelSilently(t, c, cause) ==
    /\ class' = [class EXCEPT ![c] = Cancelled(cause)]
    /\ UNCHANGED toWake

Cancel(t, c, cause) ==
    /\ class' = [class EXCEPT ![c] = Cancelled(cause)]
    /\ toWake' = [toWake EXCEPT ![t] = WakeOnly(c)]

(* Faulty: dropping the guard reopens the run whatever is pending.         *)
release_discarding_cause(t) ==
    /\ Idle(t)
    /\ token[t] # NoToken
    /\ Spend(t)
    /\ class' = [class EXCEPT ![token[t].ctl] = Open]
    /\ UNCHANGED <<wake, toWake, evidence, ack, verdict>>

(* release_tool_settlement, release_tool_effect_commit,                    *)
(* resolve_tool_effect_admission and release_success_commit_local: a       *)
(* pending cause is published, otherwise the run is Open again.  This is   *)
(* also what dropping an unresolved guard does.                            *)
release(t) ==
    LET c == token[t].ctl
        k == token[t].kind
    IN  /\ Idle(t)
        /\ token[t] # NoToken
        /\ Spend(t)
        /\ \/ /\ class[c].kind = k
              /\ class[c].cause # NoCause
              /\ Cancel(t, c, class[c].cause)
           \/ /\ class[c] = Reserved(k)
              /\ class' = [class EXCEPT ![c] = Open]
              /\ UNCHANGED toWake
        /\ UNCHANGED <<wake, evidence, ack, verdict>>

(* seal_reserved_success: the durable terminal says Completed; a deferred  *)
(* cause is dropped with the reservation.                                  *)
seal(t) ==
    LET c == token[t].ctl
    IN  /\ Idle(t)
        /\ token[t].kind = "SuccessCommitting"
        /\ class[c].kind = "SuccessCommitting"
        /\ Spend(t)
        /\ class' = [class EXCEPT ![c] = SuccessSealed]
        /\ UNCHANGED <<wake, toWake, evidence, ack, verdict>>

(* resolve_success_commit_authoritatively_local: the durable terminal      *)
(* names another cause, which wins over a deferred one.                    *)
resolve_success_commit_authoritatively(t, cause) ==
    LET c == token[t].ctl
    IN  /\ Idle(t)
        /\ token[t].kind = "SuccessCommitting"
        /\ class[c].kind = "SuccessCommitting"
        /\ Spend(t)
        /\ Cancel(t, c, cause)
        /\ verdict' = [verdict EXCEPT ![c] = @ \cup {cause}]
        /\ UNCHANGED <<wake, evidence, ack>>

(* abandon_success_commit_local: no durable terminal; a deferred cause     *)
(* wins over the fallback.                                                 *)
abandon_success_commit(t, fallback) ==
    LET c == token[t].ctl
        cause == IF class[c].cause # NoCause THEN class[c].cause ELSE fallback
    IN  /\ Idle(t)
        /\ token[t].kind = "SuccessCommitting"
        /\ class[c].kind = "SuccessCommitting"
        /\ Spend(t)
        /\ Cancel(t, c, cause)
        /\ verdict' = [verdict EXCEPT ![c] = IF class[c].cause = NoCause THEN @ \cup {fallback} ELSE @]
        /\ UNCHANGED <<wake, evidence, ack>>

(* Faulty: a linked request wakes only its primary.                        *)
publish_wake_of_primary(t) ==
    /\ ~Idle(t)
    /\ wake' = [c \in Control |-> wake[c] \/ c = toWake[t].first]
    /\ toWake' = [toWake EXCEPT ![t] = NothingToWake]
    /\ UNCHANGED <<class, token, evidence, ack, verdict>>

(* wake.cancel(), after the classification mutex is dropped; a linked      *)
(* request wakes its primary first.                                        *)
publish_wake(t) ==
    /\ ~Idle(t)
    /\ LET c == IF toWake[t].first # NoControl THEN toWake[t].first ELSE toWake[t].second
       IN  /\ wake' = [wake EXCEPT ![c] = TRUE]
           /\ toWake' = [toWake EXCEPT ![t] =
                           IF toWake[t].first # NoControl THEN WakeOnly(toWake[t].second)
                                                           ELSE NothingToWake]
    /\ UNCHANGED <<class, token, evidence, ack, verdict>>

Next ==
    \E t \in Thread :
       \/ \E c \in Control :
             \/ \E k \in Reservation : begin_reservation(t, c, k)
             \/ seal_success(t, c)
             \/ \E cause \in Cause : request_cancel(t, c, cause)
             \/ \E cause \in Cause : commit_cancel_local(t, c, cause)
             \/ \E d \in Control, pcause, scause \in Cause :
                   request_linked_cancellation(t, c, pcause, d, scause)
       \/ release(t)
       \/ seal(t)
       \/ \E cause \in Cause : resolve_success_commit_authoritatively(t, cause)
       \/ \E cause \in Cause : abandon_success_commit(t, cause)
       \/ publish_wake(t)

(* A guard is an RAII value: whatever happens to its holder, it is         *)
(* resolved or dropped.  wake.cancel() follows its critical section with   *)
(* nothing in between.                                                     *)
Fairness ==
    /\ \A t \in Thread : WF_vars(release(t))
    /\ \A t \in Thread : WF_vars(publish_wake(t))

Spec == Init /\ [][Next]_vars

FairSpec == Spec /\ Fairness

-----------------------------------------------------------------------------
(* Properties *)

(* Every variable keeps its type; a plain classification carries no cause  *)
(* and a cancellation always carries one (RunClassification).              *)
TypeOK ==
    /\ class \in [Control -> Classification]
    /\ \A c \in Control : /\ class[c].kind \in {"Open", "SuccessSealed"} => class[c].cause = NoCause
                          /\ class[c].kind = "Cancelled" => class[c].cause # NoCause
    /\ wake \in [Control -> BOOLEAN]
    /\ toWake \in [Thread -> Wakes]
    /\ token \in [Thread -> Token \cup {NoToken}]
    /\ evidence \in [Control -> Cause \cup {NoCause}]
    /\ ack \in [Control -> SUBSET Ack]
    /\ verdict \in [Control -> SUBSET Cause]

(* A control is reserved exactly when one guard for it is alive, and that  *)
(* guard is of the reserved kind.  So no release ever finds another        *)
(* classification: the "lost its runtime owner" error of                   *)
(* resolve_tool_effect_admission is unreachable, and no operation can end  *)
(* a reservation it does not own.                                          *)
ReservationOwned ==
    /\ \A c \in Control :
          class[c].kind \in Reservation =>
             \E t \in Thread : token[t] = [ctl |-> c, kind |-> class[c].kind]
    /\ \A t \in Thread :
          token[t] # NoToken => class[token[t].ctl].kind = token[t].kind
    /\ \A t, u \in Thread :
          token[t] # NoToken /\ token[t].ctl = token[u].ctl => t = u

(* What a terminal producer was told stays true, whatever runs after it:   *)
(* an Applied cause is the final classification, a cause deferred behind a *)
(* tool reservation stays pending there until it is the final              *)
(* classification, and one deferred behind a success commit can only lose  *)
(* to the outcome the holder of that commit read from the durable record.  *)
(* In particular the run never returns to Open under an accepted Stop.     *)
AcknowledgedStopKept ==
    \A c \in Control : \A a \in ack[c] :
       \/ class[c] = Cancelled(a.cause)
       \/ a.by \in Reservation /\ class[c] = Pending(a.by, a.cause)
       \/ /\ a.by = "SuccessCommitting"
          /\ \/ class[c] = SuccessSealed
             \/ class[c].kind = "Cancelled" /\ class[c].cause \in verdict[c]

(* A producer that was told Rejected left no trace: every cause found in a *)
(* classification was accepted from a producer or chosen by the holder of  *)
(* a success commit.  A linked request that fails on its second owner must *)
(* not have cancelled the first.                                           *)
NoOrphanCause ==
    \A c \in Control :
       class[c].cause # NoCause =>
          \/ \E a \in ack[c] : a.cause = class[c].cause
          \/ class[c].cause \in verdict[c]

(* The durable evidence written by commit_cancel_local always agrees with  *)
(* the classification every local observer reads.                          *)
EvidenceMatchesClass ==
    \A c \in Control : evidence[c] # NoCause => class[c] = Cancelled(evidence[c])

(* t has still to wake c. *)
Owes(t, c) == c \in {toWake[t].first, toWake[t].second}

(* The cancellation token is cancelled only for a cancelled run, and a     *)
(* cancelled run whose token is not yet cancelled has exactly one thread   *)
(* on its way to do it: no waiter on the token can be stranded, and        *)
(* authorize_external_effect, which reads the token and not the            *)
(* classification, misses a cancellation only inside that window.          *)
WakeOwed ==
    /\ \A c \in Control : wake[c] => class[c].kind = "Cancelled"
    /\ \A c \in Control :
          class[c].kind = "Cancelled" /\ ~wake[c] => \E t \in Thread : Owes(t, c)
    /\ \A t \in Thread : \A c \in Control :
          Owes(t, c) => class[c].kind = "Cancelled" /\ ~wake[c]
    /\ \A t, u \in Thread : \A c \in Control : Owes(t, c) /\ Owes(u, c) => t = u
    /\ \A t \in Thread : toWake[t].first = toWake[t].second => Idle(t)

(* The run as its observers see it: undecided, succeeded or cancelled; a   *)
(* Stop deferred behind a tool reservation is already binding.             *)
outcomeView ==
    [c \in Control |-> IF class[c].kind \in Terminal THEN class[c] ELSE Open]
boundView ==
    [c \in Control |-> IF class[c].kind \in ToolReservation THEN class[c].cause ELSE NoCause]
Verdict == INSTANCE RunVerdict WITH Run <- Control, outcome <- outcomeView,
                                    bound <- boundView, woken <- wake

(* Reservations, deferrals, linked requests and late wake-ups together     *)
(* look like one decision per run, taken once, that a bound Stop dictates. *)
ImplementsVerdict == Verdict!Spec

(* What one step may do to a classification. *)
KeepsDecision(c) ==
    /\ class[c].kind \in Terminal => class'[c] = class[c]
    /\ class[c].kind \in Reservation /\ class[c].cause # NoCause =>
          class'[c] = class[c] \/ class'[c].kind \in Terminal

(* No step changes a terminal classification, and no step replaces the     *)
(* pending cause of a reservation by another pending cause or discards it  *)
(* by reopening the run (the first terminal producer of cancel.rs wins).   *)
FirstTerminalWins == [][\A c \in Control : KeepsDecision(c)]_vars

(* An accepted Stop is never left hanging: it ends in a woken token or in  *)
(* a success that had already begun to commit.                             *)
AcknowledgedStopConcludes ==
    \A c \in Control : (ack[c] # {}) ~> (wake[c] \/ class[c] = SuccessSealed)
=============================================================================
