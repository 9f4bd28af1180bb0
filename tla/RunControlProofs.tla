-------------------------- MODULE RunControlProofs --------------------------
(* Proofs that the properties of RunControl hold for any number of         *)
(* controls, threads and causes and for any router.                        *)
EXTENDS RunControl, TLAPS

-----------------------------------------------------------------------------
(* What a linked request does to any one control: nothing, apply its cause *)
(* to an Open run, or defer it behind a reservation without pending cause. *)
Applies(e, q) ==
    /\ class[e] = Open
    /\ class'[e] = Cancelled(q)
    /\ ack'[e] = ack[e] \cup {[cause |-> q, by |-> "Applied"]}

Defers(e, q) ==
    /\ class[e].kind \in Reservation
    /\ class[e].cause = NoCause
    /\ class'[e] = Pending(class[e].kind, q)
    /\ ack'[e] = ack[e] \cup {[cause |-> q, by |-> class[e].kind]}

(* A linked cancellation either leaves a control alone or applies its       *)
(* cause to an Open run or defers it behind a free reservation.             *)
LEMMA LinkedEffect ==
    ASSUME TypeOK, NEW t \in Thread, NEW c \in Control, NEW d \in Control, NEW pcause \in Cause,
           NEW scause \in Cause, request_linked_cancellation(t, c, pcause, d, scause),
           NEW e \in Control
    PROVE  \/ e \notin {c, d} /\ class'[e] = class[e] /\ ack'[e] = ack[e]
           \/ e \in {c, d} /\ \E q \in Cause : Applies(e, q) \/ Defers(e, q)
<1> USE DEF TypeOK, request_linked_cancellation, cancellation_plan, apply_cancellation_plan,
            ack_of_plan, Applies, Defers
<1>1. CASE e \notin {c, d}
  BY <1>1
<1>2. CASE e = d
  <2>1. class'[e] = apply_cancellation_plan(d, scause)
    BY <1>2
  <2>2. ack'[e] = ack[e] \cup {ack_of_plan(e, scause)}
    BY <1>2
  <2>3. Applies(e, scause) \/ Defers(e, scause)
    BY <1>2, <2>1, <2>2
  <2> QED BY <1>2, <2>3
<1>3. CASE e = c /\ e # d
  <2>1. class'[e] = apply_cancellation_plan(c, pcause)
    BY <1>3
  <2>2. ack'[e] = ack[e] \cup {ack_of_plan(e, pcause)}
    BY <1>3
  <2>3. Applies(e, pcause) \/ Defers(e, pcause)
    BY <1>3, <2>1, <2>2
  <2> QED BY <1>3, <2>3
<1> QED BY <1>1, <1>2, <1>3

(* A new control is well typed.                                             *)
LEMMA TypeInit == Init => TypeOK
BY ControlAssumption, CauseAssumption
   DEF Init, TypeOK, Classification, Kind, Reservation, ToolReservation, Terminal, Open,
       NothingToWake, WakeOnly, Wakes, NoToken, Token

(* Every operation keeps the types: one case per action of Next.            *)
LEMMA TypeNext == TypeOK /\ [Next]_vars => TypeOK'
<1> SUFFICES ASSUME TypeOK, [Next]_vars PROVE TypeOK'
  OBVIOUS
<1> USE ControlAssumption, CauseAssumption, RouteAssumption
<1> USE DEF TypeOK, Classification, Kind, Reservation, ToolReservation, Terminal, Open, WakeOnly, Pending
<1>1. CASE UNCHANGED vars
  BY <1>1 DEF vars
<1>2. ASSUME NEW t \in Thread, NEW c \in Control, NEW k \in Reservation, begin_reservation(t, c, k)
      PROVE TypeOK'
  BY <1>2 DEF begin_reservation, Reserved, Token, NoToken, Free, Idle
<1>3. ASSUME NEW t \in Thread, NEW c \in Control, seal_success(t, c) PROVE TypeOK'
  BY <1>3 DEF seal_success, SuccessSealed
<1>4. ASSUME NEW t \in Thread, NEW c \in Control, NEW cause \in Cause, request_cancel_local(t, c, cause)
      PROVE TypeOK'
  <2>1. CASE class[c] = Open
    <3>1. /\ class' = [class EXCEPT ![c] = Cancelled(cause)]
          /\ toWake' = [toWake EXCEPT ![t] = WakeOnly(c)]
          /\ ack' = [ack EXCEPT ![c] = @ \cup {[cause |-> cause, by |-> "Applied"]}]
          /\ UNCHANGED <<wake, token, evidence, verdict>>
      BY <1>4, <2>1 DEF request_cancel_local, Deferrable
    <3> QED BY <3>1 DEF Cancelled, Wakes, Ack
  <2>2. CASE Deferrable(c, cause)
    <3>1. /\ class' = [class EXCEPT ![c] = Pending(class[c].kind, cause)]
          /\ ack' = [ack EXCEPT ![c] = @ \cup {[cause |-> cause, by |-> class[c].kind]}]
          /\ UNCHANGED <<wake, toWake, token, evidence, verdict>>
      BY <1>4, <2>2 DEF request_cancel_local, Deferrable
    <3>2. class[c].kind \in Reservation
      BY <2>2 DEF Deferrable
    <3> QED BY <3>1, <3>2 DEF Ack
  <2> QED BY <1>4, <2>1, <2>2 DEF request_cancel_local, vars
<1>5. ASSUME NEW t \in Thread, NEW c \in Control, NEW cause \in Cause, commit_cancel_local(t, c, cause)
      PROVE TypeOK'
  BY <1>5 DEF commit_cancel_local, Cancelled, Wakes, Ack
<1>6. ASSUME NEW t \in Thread, NEW c \in Control, NEW d \in Control, NEW pcause \in Cause,
             NEW scause \in Cause, request_linked_cancellation(t, c, pcause, d, scause)
      PROVE TypeOK'
  <2> USE <1>6 DEF request_linked_cancellation
  <2>1. \A e \in Control, q \in Cause : cancellation_plan(e) =>
           /\ apply_cancellation_plan(e, q) \in Classification
           /\ apply_cancellation_plan(e, q).kind \notin {"Open", "SuccessSealed"}
           /\ apply_cancellation_plan(e, q).cause = q
    BY DEF cancellation_plan, apply_cancellation_plan, Cancelled
  <2>2. \A e \in Control, q \in Cause : cancellation_plan(e) => ack_of_plan(e, q) \in Ack
    BY DEF cancellation_plan, ack_of_plan, Ack
  <2>3. ack' \in [Control -> SUBSET Ack]
    BY <2>2
  <2>4. toWake' \in [Thread -> Wakes]
    BY DEF wake_of_plan, Wakes
  <2>5. class' = [class EXCEPT ![c] = apply_cancellation_plan(c, pcause),
                               ![d] = apply_cancellation_plan(d, scause)]
    OBVIOUS
  <2>6. /\ class' \in [Control -> Classification]
        /\ \A e \in Control : /\ class'[e].kind \in {"Open", "SuccessSealed"} => class'[e].cause = NoCause
                              /\ class'[e].kind = "Cancelled" => class'[e].cause # NoCause
    BY <2>1, <2>5
  <2> QED BY <2>3, <2>4, <2>6
<1>7. ASSUME NEW t \in Thread, release(t) PROVE TypeOK'
  <2>1. token[t] \in Token
    BY <1>7 DEF release
  <2>2. CASE class[token[t].ctl].cause # NoCause
    <3>1. Cancel(t, token[t].ctl, class[token[t].ctl].cause)
      BY <1>7, <2>2 DEF release, Reserved
    <3> QED BY <1>7, <2>1, <2>2, <3>1 DEF release, Cancel, Cancelled, Spend, Wakes, Token
  <2>3. CASE class[token[t].ctl].cause = NoCause
    <3>1. class' = [class EXCEPT ![token[t].ctl] = Open] /\ UNCHANGED toWake
      BY <1>7, <2>3 DEF release
    <3> QED BY <1>7, <2>1, <3>1 DEF release, Spend, Token
  <2> QED BY <2>2, <2>3
<1>8. ASSUME NEW t \in Thread, seal(t) PROVE TypeOK'
  <2>1. token[t] \in Token
    BY <1>8 DEF seal, NoToken
  <2> QED BY <1>8, <2>1 DEF seal, SuccessSealed, Spend, Token
<1>9. ASSUME NEW t \in Thread, NEW cause \in Cause, resolve_success_commit_authoritatively(t, cause)
      PROVE TypeOK'
  <2>1. token[t] \in Token
    BY <1>9 DEF resolve_success_commit_authoritatively, NoToken
  <2> QED BY <1>9, <2>1 DEF resolve_success_commit_authoritatively, Cancel, Cancelled, Spend, Wakes, Token
<1>10. ASSUME NEW t \in Thread, NEW cause \in Cause, abandon_success_commit(t, cause) PROVE TypeOK'
  <2>1. token[t] \in Token
    BY <1>10 DEF abandon_success_commit, NoToken
  <2> QED BY <1>10, <2>1 DEF abandon_success_commit, Cancel, Cancelled, Spend, Wakes, Token
<1>11. ASSUME NEW t \in Thread, publish_wake(t) PROVE TypeOK'
  BY <1>11 DEF publish_wake, Idle, NothingToWake, Wakes
<1> QED
  BY <1>1, <1>2, <1>3, <1>4, <1>5, <1>6, <1>7, <1>8, <1>9, <1>10, <1>11 DEF Next, request_cancel, route_terminal


(* Every operation keeps reservations and guards in step.                   *)
LEMMA ReservationOwnedNext == TypeOK /\ ReservationOwned /\ [Next]_vars => ReservationOwned'
<1> SUFFICES ASSUME TypeOK, ReservationOwned, [Next]_vars PROVE ReservationOwned'
  OBVIOUS
<1> USE ControlAssumption, CauseAssumption, RouteAssumption
<1> USE DEF ReservationOwned, TypeOK, Classification, Kind, Reservation, ToolReservation, Terminal, Open, WakeOnly, Pending
<1>1. CASE UNCHANGED vars
  BY <1>1 DEF vars
<1>2. ASSUME NEW t \in Thread, NEW c \in Control, NEW k \in Reservation, begin_reservation(t, c, k)
      PROVE ReservationOwned'
  <2>1. /\ class' = [class EXCEPT ![c] = Reserved(k)]
        /\ token' = [token EXCEPT ![t] = [ctl |-> c, kind |-> k]]
        /\ class[c] = Open
        /\ token[t] = NoToken
    BY <1>2 DEF begin_reservation, Free
  <2>2. ASSUME NEW u \in Thread PROVE token[u].ctl # c
    <3>1. CASE token[u] = NoToken
      BY <3>1 DEF NoToken
    <3>2. CASE token[u] \in Token
      BY <2>1, <3>2 DEF Token, NoToken
    <3> QED BY <3>1, <3>2
  <2>3. token'[t] = [ctl |-> c, kind |-> k] /\ class'[c].kind = k
    BY <2>1 DEF Reserved
  <2>4. \A e \in Control : e # c => class'[e] = class[e]
    BY <2>1
  <2>5. \A u \in Thread : u # t => token'[u] = token[u]
    BY <2>1
  <2>6. \A e \in Control : class'[e].kind \in Reservation =>
           \E u \in Thread : token'[u] = [ctl |-> e, kind |-> class'[e].kind]
    <3>1. SUFFICES ASSUME NEW e \in Control, class'[e].kind \in Reservation, e # c
                   PROVE  \E u \in Thread : token'[u] = [ctl |-> e, kind |-> class'[e].kind]
      BY <2>3
    <3>2. PICK u \in Thread : token[u] = [ctl |-> e, kind |-> class[e].kind]
      BY <2>4, <3>1
    <3>3. u # t
      BY <2>1, <3>2 DEF NoToken
    <3> QED BY <2>4, <2>5, <3>1, <3>2, <3>3
  <2>7. \A u \in Thread : token'[u] # NoToken => class'[token'[u].ctl].kind = token'[u].kind
    BY <2>2, <2>3, <2>4, <2>5 DEF Token, NoToken
  <2>8. \A u, v \in Thread : token'[u] # NoToken /\ token'[u].ctl = token'[v].ctl => u = v
    BY <2>2, <2>3, <2>5
  <2> QED BY <2>6, <2>7, <2>8
<1>3. ASSUME NEW t \in Thread, NEW c \in Control, seal_success(t, c) PROVE ReservationOwned'
  BY <1>3 DEF seal_success, SuccessSealed, Token, NoToken
<1>4. ASSUME NEW t \in Thread, NEW c \in Control, NEW cause \in Cause, Idle(t), request_cancel_local(t, c, cause)
      PROVE ReservationOwned'
  <2>1. CASE class[c] = Open
    <3>1. /\ class' = [class EXCEPT ![c] = Cancelled(cause)]
          /\ toWake' = [toWake EXCEPT ![t] = WakeOnly(c)]
          /\ ack' = [ack EXCEPT ![c] = @ \cup {[cause |-> cause, by |-> "Applied"]}]
          /\ UNCHANGED <<wake, token, evidence, verdict>>
      BY <1>4, <2>1 DEF request_cancel_local, Deferrable
    <3>2. \A u \in Thread : token[u].ctl # c
      BY <2>1 DEF Token, NoToken
    <3>3. \A e \in Control : e # c => class'[e] = class[e]
      BY <3>1
    <3>4. class'[c].kind \notin Reservation
      BY <3>1 DEF Cancelled
    <3> QED BY <3>1, <3>2, <3>3, <3>4 DEF Token, NoToken
  <2>2. CASE Deferrable(c, cause)
    <3>1. /\ class' = [class EXCEPT ![c] = Pending(class[c].kind, cause)]
          /\ ack' = [ack EXCEPT ![c] = @ \cup {[cause |-> cause, by |-> class[c].kind]}]
          /\ UNCHANGED <<wake, toWake, token, evidence, verdict>>
      BY <1>4, <2>2 DEF request_cancel_local, Deferrable
    <3>2. class[c].kind \in Reservation /\ class[c].cause \in {NoCause, cause}
      BY <2>2 DEF Deferrable
    <3> QED BY <3>1, <3>2 DEF Ack, Token, NoToken
  <2>3. CASE UNCHANGED vars
    BY <1>1, <2>3
  <2> QED BY <1>4, <2>1, <2>2, <2>3 DEF request_cancel_local
<1>5. ASSUME NEW t \in Thread, NEW c \in Control, NEW cause \in Cause, commit_cancel_local(t, c, cause)
      PROVE ReservationOwned'
  BY <1>5 DEF commit_cancel_local, Cancelled, Ack, Token, NoToken
<1>6. ASSUME NEW t \in Thread, NEW c \in Control, NEW d \in Control, NEW pcause \in Cause,
             NEW scause \in Cause, request_linked_cancellation(t, c, pcause, d, scause)
      PROVE ReservationOwned'
  <2>1. token' = token
    BY <1>6 DEF request_linked_cancellation
  <2>2. \A e \in Control : \/ class'[e].kind = class[e].kind
                           \/ class[e] = Open /\ class'[e].kind \notin Reservation
    <3> SUFFICES ASSUME NEW e \in Control
                 PROVE  \/ class'[e].kind = class[e].kind
                        \/ class[e] = Open /\ class'[e].kind \notin Reservation
      OBVIOUS
    <3>1. \/ e \notin {c, d} /\ class'[e] = class[e] /\ ack'[e] = ack[e]
          \/ e \in {c, d} /\ \E q \in Cause : Applies(e, q) \/ Defers(e, q)
      BY <1>6, LinkedEffect
    <3>2. ASSUME NEW q \in Cause, Applies(e, q) PROVE class[e] = Open /\ class'[e].kind = "Cancelled"
      BY <3>2 DEF Applies, Cancelled
    <3>3. ASSUME NEW q \in Cause, Defers(e, q)
          PROVE  class[e].kind \in Reservation /\ class'[e].kind = class[e].kind
      BY <3>3 DEF Defers
    <3> QED BY <3>1, <3>2, <3>3
  <2> QED BY <2>1, <2>2 DEF Token, NoToken
<1>7. ASSUME NEW t \in Thread, release(t) PROVE ReservationOwned'
  <2>1. token[t] \in Token
    BY <1>7 DEF release
  <2>2. CASE class[token[t].ctl].cause # NoCause
    <3>1. Cancel(t, token[t].ctl, class[token[t].ctl].cause)
      BY <1>7, <2>2 DEF release, Reserved
    <3> QED BY <1>7, <2>1, <2>2, <3>1 DEF release, Cancel, Cancelled, Spend, Token, NoToken
  <2>3. CASE class[token[t].ctl].cause = NoCause
    <3>1. class' = [class EXCEPT ![token[t].ctl] = Open] /\ UNCHANGED toWake
      BY <1>7, <2>3 DEF release
    <3> QED BY <1>7, <2>1, <2>3, <3>1 DEF release, Reserved, Spend, Token, NoToken
  <2> QED BY <2>2, <2>3
<1>8. ASSUME NEW t \in Thread, seal(t) PROVE ReservationOwned'
  <2>1. token[t] \in Token
    BY <1>8 DEF seal, NoToken
  <2> QED BY <1>8, <2>1 DEF seal, SuccessSealed, Spend, Token, NoToken
<1>9. ASSUME NEW t \in Thread, NEW cause \in Cause, resolve_success_commit_authoritatively(t, cause)
      PROVE ReservationOwned'
  <2>1. token[t] \in Token
    BY <1>9 DEF resolve_success_commit_authoritatively, NoToken
  <2> QED BY <1>9, <2>1 DEF resolve_success_commit_authoritatively, Cancel, Cancelled, Spend, Token, NoToken
<1>10. ASSUME NEW t \in Thread, NEW cause \in Cause, abandon_success_commit(t, cause) PROVE ReservationOwned'
  <2>1. token[t] \in Token
    BY <1>10 DEF abandon_success_commit, NoToken
  <2> QED BY <1>10, <2>1 DEF abandon_success_commit, Cancel, Cancelled, Spend, Token, NoToken
<1>11. ASSUME NEW t \in Thread, publish_wake(t) PROVE ReservationOwned'
  BY <1>11 DEF publish_wake, Idle, NothingToWake, Token, NoToken
<1> QED
  BY <1>1, <1>2, <1>3, <1>4, <1>5, <1>6, <1>7, <1>8, <1>9, <1>10, <1>11 DEF Next, request_cancel, route_terminal

(* Every operation keeps what earlier producers were told.                  *)
LEMMA AcknowledgedStopKeptNext == TypeOK /\ AcknowledgedStopKept /\ [Next]_vars => AcknowledgedStopKept'
<1> SUFFICES ASSUME TypeOK, AcknowledgedStopKept, [Next]_vars PROVE AcknowledgedStopKept'
  OBVIOUS
<1> USE ControlAssumption, CauseAssumption, RouteAssumption
<1> USE DEF AcknowledgedStopKept, TypeOK, Classification, Kind, Reservation, ToolReservation, Terminal, Open, WakeOnly, Pending
<1>1. CASE UNCHANGED vars
  BY <1>1 DEF vars, Ack, Cancelled, SuccessSealed
<1>2. ASSUME NEW t \in Thread, NEW c \in Control, NEW k \in Reservation, begin_reservation(t, c, k)
      PROVE AcknowledgedStopKept'
  BY <1>2 DEF begin_reservation, Reserved, Token, NoToken, Free, Ack, Cancelled, SuccessSealed
<1>3. ASSUME NEW t \in Thread, NEW c \in Control, seal_success(t, c) PROVE AcknowledgedStopKept'
  BY <1>3 DEF seal_success, SuccessSealed, Token, NoToken, Ack, Cancelled, SuccessSealed
<1>4. ASSUME NEW t \in Thread, NEW c \in Control, NEW cause \in Cause, Idle(t), request_cancel_local(t, c, cause)
      PROVE AcknowledgedStopKept'
  <2>1. CASE class[c] = Open
    <3>1. /\ class' = [class EXCEPT ![c] = Cancelled(cause)]
          /\ toWake' = [toWake EXCEPT ![t] = WakeOnly(c)]
          /\ ack' = [ack EXCEPT ![c] = @ \cup {[cause |-> cause, by |-> "Applied"]}]
          /\ UNCHANGED <<wake, token, evidence, verdict>>
      BY <1>4, <2>1 DEF request_cancel_local, Deferrable
    <3> QED BY <1>4, <2>1, <3>1 DEF Cancelled, Ack, Token, NoToken, Ack, Cancelled, SuccessSealed
  <2>2. CASE Deferrable(c, cause)
    <3>1. /\ class' = [class EXCEPT ![c] = Pending(class[c].kind, cause)]
          /\ ack' = [ack EXCEPT ![c] = @ \cup {[cause |-> cause, by |-> class[c].kind]}]
          /\ UNCHANGED <<wake, toWake, token, evidence, verdict>>
      BY <1>4, <2>2 DEF request_cancel_local, Deferrable
    <3>2. class[c].kind \in Reservation /\ class[c].cause \in {NoCause, cause}
      BY <2>2 DEF Deferrable
    <3> QED BY <3>1, <3>2 DEF Ack, Token, NoToken, Ack, Cancelled, SuccessSealed
  <2>3. CASE UNCHANGED vars
    BY <1>1, <2>3
  <2> QED BY <1>4, <2>1, <2>2, <2>3 DEF request_cancel_local
<1>5. ASSUME NEW t \in Thread, NEW c \in Control, NEW cause \in Cause, commit_cancel_local(t, c, cause)
      PROVE AcknowledgedStopKept'
  BY <1>5 DEF commit_cancel_local, Cancelled, Ack, Token, NoToken, Ack, Cancelled, SuccessSealed
<1>6. ASSUME NEW t \in Thread, NEW c \in Control, NEW d \in Control, NEW pcause \in Cause,
             NEW scause \in Cause, request_linked_cancellation(t, c, pcause, d, scause)
      PROVE AcknowledgedStopKept'
  BY <1>6 DEF request_linked_cancellation, cancellation_plan, apply_cancellation_plan, ack_of_plan, wake_of_plan, Cancelled, Ack, Token, NoToken, Ack, Cancelled, SuccessSealed
<1>7. ASSUME NEW t \in Thread, release(t) PROVE AcknowledgedStopKept'
  <2>1. token[t] \in Token
    BY <1>7 DEF release
  <2>2. CASE class[token[t].ctl].cause # NoCause
    <3>1. Cancel(t, token[t].ctl, class[token[t].ctl].cause)
      BY <1>7, <2>2 DEF release, Reserved
    <3> QED BY <1>7, <2>1, <2>2, <3>1 DEF release, Cancel, Cancelled, Spend, Token, NoToken, Ack, Cancelled, SuccessSealed
  <2>3. CASE class[token[t].ctl].cause = NoCause
    <3>1. class' = [class EXCEPT ![token[t].ctl] = Open] /\ UNCHANGED toWake
      BY <1>7, <2>3 DEF release
    <3> QED BY <1>7, <2>1, <2>3, <3>1 DEF release, Reserved, Spend, Token, NoToken, Ack, Cancelled, SuccessSealed
  <2> QED BY <2>2, <2>3
<1>8. ASSUME NEW t \in Thread, seal(t) PROVE AcknowledgedStopKept'
  <2>1. token[t] \in Token
    BY <1>8 DEF seal, NoToken
  <2> QED BY <1>8, <2>1 DEF seal, SuccessSealed, Spend, Token, NoToken, Ack, Cancelled, SuccessSealed
<1>9. ASSUME NEW t \in Thread, NEW cause \in Cause, resolve_success_commit_authoritatively(t, cause)
      PROVE AcknowledgedStopKept'
  <2>1. token[t] \in Token
    BY <1>9 DEF resolve_success_commit_authoritatively, NoToken
  <2> QED BY <1>9, <2>1 DEF resolve_success_commit_authoritatively, Cancel, Cancelled, Spend, Token, NoToken, Ack, Cancelled, SuccessSealed
<1>10. ASSUME NEW t \in Thread, NEW cause \in Cause, abandon_success_commit(t, cause) PROVE AcknowledgedStopKept'
  <2>1. token[t] \in Token
    BY <1>10 DEF abandon_success_commit, NoToken
  <2> QED BY <1>10, <2>1 DEF abandon_success_commit, Cancel, Cancelled, Spend, Token, NoToken, Ack, Cancelled, SuccessSealed
<1>11. ASSUME NEW t \in Thread, publish_wake(t) PROVE AcknowledgedStopKept'
  BY <1>11 DEF publish_wake, Idle, NothingToWake, Token, NoToken, Ack, Cancelled, SuccessSealed
<1> QED
  BY <1>1, <1>2, <1>3, <1>4, <1>5, <1>6, <1>7, <1>8, <1>9, <1>10, <1>11 DEF Next, request_cancel, route_terminal

(* No operation writes a cause that nobody was told was accepted.           *)
LEMMA NoOrphanCauseNext == TypeOK /\ AcknowledgedStopKept /\ NoOrphanCause /\ [Next]_vars => NoOrphanCause'
<1> SUFFICES ASSUME TypeOK, AcknowledgedStopKept, NoOrphanCause, [Next]_vars PROVE NoOrphanCause'
  OBVIOUS
<1> USE ControlAssumption, CauseAssumption, RouteAssumption
<1> USE DEF NoOrphanCause, TypeOK, Classification, Kind, Reservation, ToolReservation, Terminal, Open, WakeOnly, Pending
<1>1. CASE UNCHANGED vars
  BY <1>1 DEF vars, Ack
<1>2. ASSUME NEW t \in Thread, NEW c \in Control, NEW k \in Reservation, begin_reservation(t, c, k)
      PROVE NoOrphanCause'
  BY <1>2 DEF begin_reservation, Reserved, Token, NoToken, Free, Ack
<1>3. ASSUME NEW t \in Thread, NEW c \in Control, seal_success(t, c) PROVE NoOrphanCause'
  BY <1>3 DEF seal_success, SuccessSealed, Token, NoToken, Ack
<1>4. ASSUME NEW t \in Thread, NEW c \in Control, NEW cause \in Cause, Idle(t), request_cancel_local(t, c, cause)
      PROVE NoOrphanCause'
  <2>1. CASE class[c] = Open
    <3>1. /\ class' = [class EXCEPT ![c] = Cancelled(cause)]
          /\ toWake' = [toWake EXCEPT ![t] = WakeOnly(c)]
          /\ ack' = [ack EXCEPT ![c] = @ \cup {[cause |-> cause, by |-> "Applied"]}]
          /\ UNCHANGED <<wake, token, evidence, verdict>>
      BY <1>4, <2>1 DEF request_cancel_local, Deferrable
    <3>2. [cause |-> cause, by |-> "Applied"] \in ack'[c] /\ class'[c].cause = cause
      BY <3>1 DEF Cancelled
    <3>3. \A e \in Control : e # c => class'[e] = class[e] /\ ack'[e] = ack[e]
      BY <3>1
    <3> QED BY <3>1, <3>2, <3>3
  <2>2. CASE Deferrable(c, cause)
    <3>1. /\ class' = [class EXCEPT ![c] = Pending(class[c].kind, cause)]
          /\ ack' = [ack EXCEPT ![c] = @ \cup {[cause |-> cause, by |-> class[c].kind]}]
          /\ UNCHANGED <<wake, toWake, token, evidence, verdict>>
      BY <1>4, <2>2 DEF request_cancel_local, Deferrable
    <3>2. class[c].kind \in Reservation /\ class[c].cause \in {NoCause, cause}
      BY <2>2 DEF Deferrable
    <3>3. [cause |-> cause, by |-> class[c].kind] \in ack'[c] /\ class'[c].cause = cause
      BY <3>1
    <3>4. \A e \in Control : e # c => class'[e] = class[e] /\ ack'[e] = ack[e]
      BY <3>1
    <3> QED BY <3>1, <3>3, <3>4
  <2>3. CASE UNCHANGED vars
    BY <1>1, <2>3
  <2> QED BY <1>4, <2>1, <2>2, <2>3 DEF request_cancel_local
<1>5. ASSUME NEW t \in Thread, NEW c \in Control, NEW cause \in Cause, commit_cancel_local(t, c, cause)
      PROVE NoOrphanCause'
  <2>1. [cause |-> cause, by |-> "Applied"] \in ack'[c] /\ class'[c].cause = cause
    BY <1>5 DEF commit_cancel_local, Cancelled
  <2>2. \A e \in Control : e # c => class'[e] = class[e] /\ ack'[e] = ack[e]
    BY <1>5 DEF commit_cancel_local
  <2> QED BY <1>5, <2>1, <2>2 DEF commit_cancel_local
<1>6. ASSUME NEW t \in Thread, NEW c \in Control, NEW d \in Control, NEW pcause \in Cause,
             NEW scause \in Cause, request_linked_cancellation(t, c, pcause, d, scause)
      PROVE NoOrphanCause'
  <2>1. verdict' = verdict
    BY <1>6 DEF request_linked_cancellation
  <2>2. ASSUME NEW e \in Control, class'[e].cause # NoCause
        PROVE  (\E a \in ack'[e] : a.cause = class'[e].cause) \/ class'[e].cause \in verdict[e]
    <3>1. CASE class'[e] = class[e] /\ ack'[e] = ack[e]
      BY <2>2, <3>1
    <3>2. ASSUME NEW q \in Cause, Applies(e, q) PROVE \E a \in ack'[e] : a.cause = class'[e].cause
      <4>1. [cause |-> q, by |-> "Applied"] \in ack'[e] /\ class'[e].cause = q
        BY <3>2 DEF Applies, Cancelled
      <4> QED BY <4>1
    <3>3. ASSUME NEW q \in Cause, Defers(e, q) PROVE \E a \in ack'[e] : a.cause = class'[e].cause
      <4>1. [cause |-> q, by |-> class[e].kind] \in ack'[e] /\ class'[e].cause = q
        BY <3>3 DEF Defers
      <4> QED BY <4>1
    <3> QED BY <1>6, LinkedEffect, <3>1, <3>2, <3>3
  <2> QED BY <2>1, <2>2
<1>7. ASSUME NEW t \in Thread, release(t) PROVE NoOrphanCause'
  <2>1. token[t] \in Token
    BY <1>7 DEF release
  <2>2. CASE class[token[t].ctl].cause # NoCause
    <3>1. Cancel(t, token[t].ctl, class[token[t].ctl].cause)
      BY <1>7, <2>2 DEF release, Reserved
    <3> QED BY <1>7, <2>1, <2>2, <3>1 DEF release, Cancel, Cancelled, Spend, Token, NoToken, Ack
  <2>3. CASE class[token[t].ctl].cause = NoCause
    <3>1. class' = [class EXCEPT ![token[t].ctl] = Open] /\ UNCHANGED toWake
      BY <1>7, <2>3 DEF release
    <3> QED BY <1>7, <2>1, <2>3, <3>1 DEF release, Reserved, Spend, Token, NoToken, Ack
  <2> QED BY <2>2, <2>3
<1>8. ASSUME NEW t \in Thread, seal(t) PROVE NoOrphanCause'
  <2>1. token[t] \in Token
    BY <1>8 DEF seal, NoToken
  <2> QED BY <1>8, <2>1 DEF seal, SuccessSealed, Spend, Token, NoToken, Ack
<1>9. ASSUME NEW t \in Thread, NEW cause \in Cause, resolve_success_commit_authoritatively(t, cause)
      PROVE NoOrphanCause'
  <2>1. token[t] \in Token
    BY <1>9 DEF resolve_success_commit_authoritatively, NoToken
  <2> QED BY <1>9, <2>1 DEF resolve_success_commit_authoritatively, Cancel, Cancelled, Spend, Token, NoToken, Ack
<1>10. ASSUME NEW t \in Thread, NEW cause \in Cause, abandon_success_commit(t, cause) PROVE NoOrphanCause'
  <2>1. token[t] \in Token
    BY <1>10 DEF abandon_success_commit, NoToken
  <2> QED BY <1>10, <2>1 DEF abandon_success_commit, Cancel, Cancelled, Spend, Token, NoToken, Ack
<1>11. ASSUME NEW t \in Thread, publish_wake(t) PROVE NoOrphanCause'
  BY <1>11 DEF publish_wake, Idle, NothingToWake, Token, NoToken, Ack
<1> QED
  BY <1>1, <1>2, <1>3, <1>4, <1>5, <1>6, <1>7, <1>8, <1>9, <1>10, <1>11 DEF Next, request_cancel, route_terminal

(* Durable evidence is written together with the classification it proves.  *)
LEMMA EvidenceMatchesClassNext == TypeOK /\ EvidenceMatchesClass /\ [Next]_vars => EvidenceMatchesClass'
<1> SUFFICES ASSUME TypeOK, EvidenceMatchesClass, [Next]_vars PROVE EvidenceMatchesClass'
  OBVIOUS
<1> USE ControlAssumption, CauseAssumption, RouteAssumption
<1> USE DEF EvidenceMatchesClass, TypeOK, Classification, Kind, Reservation, ToolReservation, Terminal, Open, WakeOnly, Pending
<1>1. CASE UNCHANGED vars
  BY <1>1 DEF vars, Cancelled
<1>2. ASSUME NEW t \in Thread, NEW c \in Control, NEW k \in Reservation, begin_reservation(t, c, k)
      PROVE EvidenceMatchesClass'
  BY <1>2 DEF begin_reservation, Reserved, Token, NoToken, Free, Cancelled
<1>3. ASSUME NEW t \in Thread, NEW c \in Control, seal_success(t, c) PROVE EvidenceMatchesClass'
  BY <1>3 DEF seal_success, SuccessSealed, Token, NoToken, Cancelled
<1>4. ASSUME NEW t \in Thread, NEW c \in Control, NEW cause \in Cause, Idle(t), request_cancel_local(t, c, cause)
      PROVE EvidenceMatchesClass'
  <2>1. CASE class[c] = Open
    <3>1. /\ class' = [class EXCEPT ![c] = Cancelled(cause)]
          /\ toWake' = [toWake EXCEPT ![t] = WakeOnly(c)]
          /\ ack' = [ack EXCEPT ![c] = @ \cup {[cause |-> cause, by |-> "Applied"]}]
          /\ UNCHANGED <<wake, token, evidence, verdict>>
      BY <1>4, <2>1 DEF request_cancel_local, Deferrable
    <3> QED BY <1>4, <2>1, <3>1 DEF Cancelled, Ack, Token, NoToken, Cancelled
  <2>2. CASE Deferrable(c, cause)
    <3>1. /\ class' = [class EXCEPT ![c] = Pending(class[c].kind, cause)]
          /\ ack' = [ack EXCEPT ![c] = @ \cup {[cause |-> cause, by |-> class[c].kind]}]
          /\ UNCHANGED <<wake, toWake, token, evidence, verdict>>
      BY <1>4, <2>2 DEF request_cancel_local, Deferrable
    <3>2. class[c].kind \in Reservation /\ class[c].cause \in {NoCause, cause}
      BY <2>2 DEF Deferrable
    <3> QED BY <3>1, <3>2 DEF Ack, Token, NoToken, Cancelled
  <2>3. CASE UNCHANGED vars
    BY <1>1, <2>3
  <2> QED BY <1>4, <2>1, <2>2, <2>3 DEF request_cancel_local
<1>5. ASSUME NEW t \in Thread, NEW c \in Control, NEW cause \in Cause, commit_cancel_local(t, c, cause)
      PROVE EvidenceMatchesClass'
  BY <1>5 DEF commit_cancel_local, Cancelled, Ack, Token, NoToken, Cancelled
<1>6. ASSUME NEW t \in Thread, NEW c \in Control, NEW d \in Control, NEW pcause \in Cause,
             NEW scause \in Cause, request_linked_cancellation(t, c, pcause, d, scause)
      PROVE EvidenceMatchesClass'
  BY <1>6 DEF request_linked_cancellation, cancellation_plan, apply_cancellation_plan, ack_of_plan, wake_of_plan, Cancelled, Ack, Token, NoToken, Cancelled
<1>7. ASSUME NEW t \in Thread, release(t) PROVE EvidenceMatchesClass'
  <2>1. token[t] \in Token
    BY <1>7 DEF release
  <2>2. CASE class[token[t].ctl].cause # NoCause
    <3>1. Cancel(t, token[t].ctl, class[token[t].ctl].cause)
      BY <1>7, <2>2 DEF release, Reserved
    <3> QED BY <1>7, <2>1, <2>2, <3>1 DEF release, Cancel, Cancelled, Spend, Token, NoToken, Cancelled
  <2>3. CASE class[token[t].ctl].cause = NoCause
    <3>1. class' = [class EXCEPT ![token[t].ctl] = Open] /\ UNCHANGED toWake
      BY <1>7, <2>3 DEF release
    <3> QED BY <1>7, <2>1, <2>3, <3>1 DEF release, Reserved, Spend, Token, NoToken, Cancelled
  <2> QED BY <2>2, <2>3
<1>8. ASSUME NEW t \in Thread, seal(t) PROVE EvidenceMatchesClass'
  <2>1. token[t] \in Token
    BY <1>8 DEF seal, NoToken
  <2> QED BY <1>8, <2>1 DEF seal, SuccessSealed, Spend, Token, NoToken, Cancelled
<1>9. ASSUME NEW t \in Thread, NEW cause \in Cause, resolve_success_commit_authoritatively(t, cause)
      PROVE EvidenceMatchesClass'
  <2>1. token[t] \in Token
    BY <1>9 DEF resolve_success_commit_authoritatively, NoToken
  <2> QED BY <1>9, <2>1 DEF resolve_success_commit_authoritatively, Cancel, Cancelled, Spend, Token, NoToken, Cancelled
<1>10. ASSUME NEW t \in Thread, NEW cause \in Cause, abandon_success_commit(t, cause) PROVE EvidenceMatchesClass'
  <2>1. token[t] \in Token
    BY <1>10 DEF abandon_success_commit, NoToken
  <2> QED BY <1>10, <2>1 DEF abandon_success_commit, Cancel, Cancelled, Spend, Token, NoToken, Cancelled
<1>11. ASSUME NEW t \in Thread, publish_wake(t) PROVE EvidenceMatchesClass'
  BY <1>11 DEF publish_wake, Idle, NothingToWake, Token, NoToken, Cancelled
<1> QED
  BY <1>1, <1>2, <1>3, <1>4, <1>5, <1>6, <1>7, <1>8, <1>9, <1>10, <1>11 DEF Next, request_cancel, route_terminal

(* Every operation that cancels a run leaves one thread owing the wake-up.  *)
LEMMA WakeOwedNext == TypeOK /\ WakeOwed /\ [Next]_vars => WakeOwed'
<1> SUFFICES ASSUME TypeOK, WakeOwed, [Next]_vars PROVE WakeOwed'
  OBVIOUS
<1> USE ControlAssumption, CauseAssumption, RouteAssumption
<1> USE DEF WakeOwed, TypeOK, Classification, Kind, Reservation, ToolReservation, Terminal, Open, WakeOnly, Pending
<1>1. CASE UNCHANGED vars
  BY <1>1 DEF vars, Owes, Idle, NothingToWake, Wakes
<1>2. ASSUME NEW t \in Thread, NEW c \in Control, NEW k \in Reservation, begin_reservation(t, c, k)
      PROVE WakeOwed'
  BY <1>2 DEF begin_reservation, Reserved, Token, NoToken, Free, Owes, Idle, NothingToWake, Wakes
<1>3. ASSUME NEW t \in Thread, NEW c \in Control, seal_success(t, c) PROVE WakeOwed'
  BY <1>3 DEF seal_success, SuccessSealed, Token, NoToken, Owes, Idle, NothingToWake, Wakes
<1>4. ASSUME NEW t \in Thread, NEW c \in Control, NEW cause \in Cause, Idle(t), request_cancel_local(t, c, cause)
      PROVE WakeOwed'
  <2>1. CASE class[c] = Open
    <3>1. /\ class' = [class EXCEPT ![c] = Cancelled(cause)]
          /\ toWake' = [toWake EXCEPT ![t] = WakeOnly(c)]
          /\ ack' = [ack EXCEPT ![c] = @ \cup {[cause |-> cause, by |-> "Applied"]}]
          /\ UNCHANGED <<wake, token, evidence, verdict>>
      BY <1>4, <2>1 DEF request_cancel_local, Deferrable
    <3> QED BY <1>4, <2>1, <3>1 DEF Cancelled, Ack, Token, NoToken, Owes, Idle, NothingToWake, Wakes
  <2>2. CASE Deferrable(c, cause)
    <3>1. /\ class' = [class EXCEPT ![c] = Pending(class[c].kind, cause)]
          /\ ack' = [ack EXCEPT ![c] = @ \cup {[cause |-> cause, by |-> class[c].kind]}]
          /\ UNCHANGED <<wake, toWake, token, evidence, verdict>>
      BY <1>4, <2>2 DEF request_cancel_local, Deferrable
    <3>2. class[c].kind \in Reservation /\ class[c].cause \in {NoCause, cause}
      BY <2>2 DEF Deferrable
    <3> QED BY <3>1, <3>2 DEF Ack, Token, NoToken, Owes, Idle, NothingToWake, Wakes
  <2>3. CASE UNCHANGED vars
    BY <1>1, <2>3
  <2> QED BY <1>4, <2>1, <2>2, <2>3 DEF request_cancel_local
<1>5. ASSUME NEW t \in Thread, NEW c \in Control, NEW cause \in Cause, commit_cancel_local(t, c, cause)
      PROVE WakeOwed'
  BY <1>5 DEF commit_cancel_local, Cancelled, Ack, Token, NoToken, Owes, Idle, NothingToWake, Wakes
<1>6. ASSUME NEW t \in Thread, NEW c \in Control, NEW d \in Control, NEW pcause \in Cause,
             NEW scause \in Cause, request_linked_cancellation(t, c, pcause, d, scause)
      PROVE WakeOwed'
  <2>1. /\ wake' = wake
        /\ \A u \in Thread : u # t => toWake'[u] = toWake[u]
        /\ toWake[t] = NothingToWake
    BY <1>6 DEF request_linked_cancellation, Idle
  <2>2. /\ toWake'[t].first = wake_of_plan(c)
        /\ toWake'[t].second = IF c = d THEN NoControl ELSE wake_of_plan(d)
    BY <1>6 DEF request_linked_cancellation
  <2>3. \A e \in Control : e \in {toWake'[t].first, toWake'[t].second} <=> e \in {c, d} /\ class[e] = Open
    BY <2>2 DEF wake_of_plan
  <2>4. \A e \in Control : \/ class'[e] = class[e] /\ ~(e \in {c, d} /\ class[e] = Open)
                           \/ e \in {c, d} /\ class[e] = Open /\ class'[e].kind = "Cancelled"
                           \/ class[e].kind \in Reservation /\ class'[e].kind = class[e].kind
    <3> SUFFICES ASSUME NEW e \in Control
                 PROVE  \/ class'[e] = class[e] /\ ~(e \in {c, d} /\ class[e] = Open)
                        \/ e \in {c, d} /\ class[e] = Open /\ class'[e].kind = "Cancelled"
                        \/ class[e].kind \in Reservation /\ class'[e].kind = class[e].kind
      OBVIOUS
    <3>1. \/ e \notin {c, d} /\ class'[e] = class[e] /\ ack'[e] = ack[e]
          \/ e \in {c, d} /\ \E q \in Cause : Applies(e, q) \/ Defers(e, q)
      BY <1>6, LinkedEffect
    <3>2. ASSUME NEW q \in Cause, Applies(e, q) PROVE class[e] = Open /\ class'[e].kind = "Cancelled"
      BY <3>2 DEF Applies, Cancelled
    <3>3. ASSUME NEW q \in Cause, Defers(e, q)
          PROVE  class[e].kind \in Reservation /\ class'[e].kind = class[e].kind
      BY <3>3 DEF Defers
    <3> QED BY <3>1, <3>2, <3>3
  <2>5. toWake'[t].first = toWake'[t].second => toWake'[t] = NothingToWake
    BY <1>6, <2>2 DEF request_linked_cancellation, wake_of_plan, NothingToWake
  <2>6. \A e \in Control : \A u \in Thread :
           (e \in {toWake'[u].first, toWake'[u].second}) <=>
              \/ u # t /\ Owes(u, e)
              \/ u = t /\ e \in {c, d} /\ class[e] = Open
    BY <2>1, <2>3 DEF Owes
  <2>7. \A e \in Control : ~Owes(t, e)
    BY <2>1 DEF Owes, NothingToWake
  <2>8. \A e \in Control : wake'[e] => class'[e].kind = "Cancelled"
    BY <2>1, <2>4
  <2>9. \A e \in Control : class'[e].kind = "Cancelled" /\ ~wake'[e] =>
           \E u \in Thread : e \in {toWake'[u].first, toWake'[u].second}
    BY <2>1, <2>4, <2>6, <2>7
  <2>10. \A u \in Thread : \A e \in Control :
           e \in {toWake'[u].first, toWake'[u].second} => class'[e].kind = "Cancelled" /\ ~wake'[e]
    <3> SUFFICES ASSUME NEW u \in Thread, NEW e \in Control,
                        e \in {toWake'[u].first, toWake'[u].second}
                 PROVE  class'[e].kind = "Cancelled" /\ ~wake'[e]
      OBVIOUS
    <3>1. CASE Owes(u, e)
      <4>1. class[e].kind = "Cancelled" /\ ~wake[e]
        BY <3>1
      <4> QED BY <2>1, <2>4, <4>1
    <3>2. CASE e \in {c, d} /\ class[e] = Open
      <4>1. ~wake[e]
        BY <3>2
      <4> QED BY <2>1, <2>4, <3>2, <4>1
    <3> QED BY <2>6, <3>1, <3>2
  <2>11. \A u, v \in Thread : \A e \in Control :
           e \in {toWake'[u].first, toWake'[u].second} /\ e \in {toWake'[v].first, toWake'[v].second}
              => u = v
    <3>1. \A u \in Thread : \A e \in Control : Owes(u, e) => class[e] # Open
      OBVIOUS
    <3> QED BY <2>6, <3>1
  <2>12. \A u \in Thread : toWake'[u].first = toWake'[u].second => toWake'[u] = NothingToWake
    BY <2>1, <2>5 DEF Idle
  <2> QED BY <2>8, <2>9, <2>10, <2>11, <2>12 DEF Owes, Idle
<1>7. ASSUME NEW t \in Thread, release(t) PROVE WakeOwed'
  <2>1. token[t] \in Token
    BY <1>7 DEF release
  <2>2. CASE class[token[t].ctl].cause # NoCause
    <3>1. Cancel(t, token[t].ctl, class[token[t].ctl].cause)
      BY <1>7, <2>2 DEF release, Reserved
    <3> QED BY <1>7, <2>1, <2>2, <3>1 DEF release, Cancel, Cancelled, Spend, Token, NoToken, Owes, Idle, NothingToWake, Wakes
  <2>3. CASE class[token[t].ctl].cause = NoCause
    <3>1. class' = [class EXCEPT ![token[t].ctl] = Open] /\ UNCHANGED toWake
      BY <1>7, <2>3 DEF release
    <3> QED BY <1>7, <2>1, <2>3, <3>1 DEF release, Reserved, Spend, Token, NoToken, Owes, Idle, NothingToWake, Wakes
  <2> QED BY <2>2, <2>3
<1>8. ASSUME NEW t \in Thread, seal(t) PROVE WakeOwed'
  <2>1. token[t] \in Token
    BY <1>8 DEF seal, NoToken
  <2> QED BY <1>8, <2>1 DEF seal, SuccessSealed, Spend, Token, NoToken, Owes, Idle, NothingToWake, Wakes
<1>9. ASSUME NEW t \in Thread, NEW cause \in Cause, resolve_success_commit_authoritatively(t, cause)
      PROVE WakeOwed'
  <2>1. token[t] \in Token
    BY <1>9 DEF resolve_success_commit_authoritatively, NoToken
  <2> QED BY <1>9, <2>1 DEF resolve_success_commit_authoritatively, Cancel, Cancelled, Spend, Token, NoToken, Owes, Idle, NothingToWake, Wakes
<1>10. ASSUME NEW t \in Thread, NEW cause \in Cause, abandon_success_commit(t, cause) PROVE WakeOwed'
  <2>1. token[t] \in Token
    BY <1>10 DEF abandon_success_commit, NoToken
  <2> QED BY <1>10, <2>1 DEF abandon_success_commit, Cancel, Cancelled, Spend, Token, NoToken, Owes, Idle, NothingToWake, Wakes
<1>11. ASSUME NEW t \in Thread, publish_wake(t) PROVE WakeOwed'
  BY <1>11 DEF publish_wake, Idle, NothingToWake, Token, NoToken, Owes, Idle, NothingToWake, Wakes
<1> QED
  BY <1>1, <1>2, <1>3, <1>4, <1>5, <1>6, <1>7, <1>8, <1>9, <1>10, <1>11 DEF Next, request_cancel, route_terminal

(* One step never undoes a decision.                                       *)
LEMMA DecisionStep == TypeOK /\ [Next]_vars => \A e \in Control : KeepsDecision(e)
<1> SUFFICES ASSUME TypeOK, [Next]_vars, NEW e \in Control PROVE KeepsDecision(e)
  OBVIOUS
<1> USE ControlAssumption, CauseAssumption, RouteAssumption
<1> USE DEF KeepsDecision, TypeOK, Classification, Kind, Reservation, ToolReservation, Terminal, Open,
            Pending
<1>1. CASE UNCHANGED vars
  BY <1>1 DEF vars
<1>2. ASSUME NEW t \in Thread, NEW c \in Control, NEW k \in Reservation, begin_reservation(t, c, k)
      PROVE KeepsDecision(e)
  BY <1>2 DEF begin_reservation
<1>3. ASSUME NEW t \in Thread, NEW c \in Control, seal_success(t, c) PROVE KeepsDecision(e)
  BY <1>3 DEF seal_success
<1>4. ASSUME NEW t \in Thread, NEW c \in Control, NEW cause \in Cause, request_cancel_local(t, c, cause)
      PROVE KeepsDecision(e)
  <2>1. CASE e = c /\ class[c] # Open
    BY <1>4, <2>1 DEF request_cancel_local, Deferrable, vars
  <2>2. CASE e # c \/ class[c] = Open
    BY <1>4, <2>2 DEF request_cancel_local, vars
  <2> QED BY <2>1, <2>2
<1>5. ASSUME NEW t \in Thread, NEW c \in Control, NEW cause \in Cause, commit_cancel_local(t, c, cause)
      PROVE KeepsDecision(e)
  BY <1>5 DEF commit_cancel_local
<1>6. ASSUME NEW t \in Thread, NEW c \in Control, NEW d \in Control, NEW pcause \in Cause,
             NEW scause \in Cause, request_linked_cancellation(t, c, pcause, d, scause)
      PROVE KeepsDecision(e)
  <2>1. \/ class'[e] = class[e]
        \/ \E q \in Cause : Applies(e, q) \/ Defers(e, q)
    BY <1>6, LinkedEffect
  <2>2. ASSUME NEW q \in Cause, Applies(e, q) PROVE KeepsDecision(e)
    BY <2>2 DEF Applies
  <2>3. ASSUME NEW q \in Cause, Defers(e, q) PROVE KeepsDecision(e)
    BY <2>3 DEF Defers
  <2>4. class'[e] = class[e] => KeepsDecision(e)
    OBVIOUS
  <2> QED BY <2>1, <2>2, <2>3, <2>4
<1>7. ASSUME NEW t \in Thread, release(t) PROVE KeepsDecision(e)
  BY <1>7 DEF release, Cancel, Cancelled, Reserved, Token, NoToken
<1>8. ASSUME NEW t \in Thread, seal(t) PROVE KeepsDecision(e)
  BY <1>8 DEF seal, SuccessSealed
<1>9. ASSUME NEW t \in Thread, NEW cause \in Cause, resolve_success_commit_authoritatively(t, cause)
      PROVE KeepsDecision(e)
  BY <1>9 DEF resolve_success_commit_authoritatively, Cancel, Cancelled
<1>10. ASSUME NEW t \in Thread, NEW cause \in Cause, abandon_success_commit(t, cause)
       PROVE KeepsDecision(e)
  BY <1>10 DEF abandon_success_commit, Cancel, Cancelled
<1>11. ASSUME NEW t \in Thread, publish_wake(t) PROVE KeepsDecision(e)
  BY <1>11 DEF publish_wake
<1> QED
  BY <1>1, <1>2, <1>3, <1>4, <1>5, <1>6, <1>7, <1>8, <1>9, <1>10, <1>11 DEF Next, request_cancel, route_terminal

(* Everything holds initially: all controls are Open and no guard, no      *)
(* acknowledgement and no owed wake-up exists.                             *)
LEMMA InvInit ==
    Init => /\ ReservationOwned
            /\ AcknowledgedStopKept
            /\ NoOrphanCause
            /\ EvidenceMatchesClass
            /\ WakeOwed
<1> SUFFICES ASSUME Init
             PROVE  /\ ReservationOwned
                    /\ AcknowledgedStopKept
                    /\ NoOrphanCause
                    /\ EvidenceMatchesClass
                    /\ WakeOwed
  OBVIOUS
<1> USE ControlAssumption DEF Init, Open
<1>1. ReservationOwned
  BY DEF ReservationOwned, Reservation, ToolReservation
<1>2. AcknowledgedStopKept
  BY DEF AcknowledgedStopKept
<1>3. NoOrphanCause /\ EvidenceMatchesClass
  BY DEF NoOrphanCause, EvidenceMatchesClass
<1>4. WakeOwed
  BY DEF WakeOwed, Owes, Idle, NothingToWake, WakeOnly
<1> QED BY <1>1, <1>2, <1>3, <1>4

-----------------------------------------------------------------------------
(* Every reachable state is well typed (RunClassification and its guards). *)
THEOREM TypeCorrect == Spec => []TypeOK
BY TypeInit, TypeNext, PTL DEF Spec

(* Each reservation has exactly one live guard of its own kind, for any    *)
(* number of tasks: the "lost its runtime owner" branch of                 *)
(* resolve_tool_effect_admission cannot be reached.                        *)
THEOREM ReservationsAreOwned == Spec => []ReservationOwned
BY TypeCorrect, InvInit, ReservationOwnedNext, PTL DEF Spec

(* An acknowledged Stop is kept: applied, pending behind its reservation,  *)
(* or beaten by the durable outcome of a success commit.                   *)
THEOREM AcknowledgedStopsAreKept == Spec => []AcknowledgedStopKept
BY TypeCorrect, InvInit, AcknowledgedStopKeptNext, PTL DEF Spec

(* A rejected producer leaves no cause behind, on either owner of a linked *)
(* request.                                                                *)
THEOREM RejectedProducersLeaveNoTrace == Spec => []NoOrphanCause
BY TypeCorrect, AcknowledgedStopsAreKept, InvInit, NoOrphanCauseNext, PTL DEF Spec

(* The durable evidence of commit_cancel_local equals the classification.  *)
THEOREM EvidenceIsClassified == Spec => []EvidenceMatchesClass
BY TypeCorrect, InvInit, EvidenceMatchesClassNext, PTL DEF Spec

(* No cancelled run is left without a wake-up or a thread about to do it.  *)
THEOREM CancelledRunsAreWoken == Spec => []WakeOwed
BY TypeCorrect, InvInit, WakeOwedNext, PTL DEF Spec

(* The first terminal producer wins over every later one.                  *)
THEOREM FirstTerminalProducerWins == Spec => FirstTerminalWins
<1>1. TypeOK /\ [Next]_vars => [\A c \in Control : KeepsDecision(c)]_vars
  BY DecisionStep
<1> QED BY <1>1, TypeCorrect, PTL DEF Spec, FirstTerminalWins

-----------------------------------------------------------------------------
(* The abstract step of one control.                                       *)
VerdictStep(e) == Verdict!Same(e) \/ Verdict!Bind(e) \/ Verdict!Decide(e) \/ Verdict!Wake(e)

(* Every step of RunControl is a step of RunVerdict, control by control.    *)
LEMMA VerdictStepOf == TypeOK /\ TypeOK' /\ WakeOwed /\ [Next]_vars => \A e \in Control : VerdictStep(e)
<1> SUFFICES ASSUME TypeOK, TypeOK', WakeOwed, [Next]_vars, NEW e \in Control PROVE VerdictStep(e)
  OBVIOUS
<1>0. /\ outcomeView[e] = IF class[e].kind \in Terminal THEN class[e] ELSE Open
      /\ outcomeView'[e] = IF class'[e].kind \in Terminal THEN class'[e] ELSE Open
      /\ boundView[e] = IF class[e].kind \in ToolReservation THEN class[e].cause ELSE NoCause
      /\ boundView'[e] = IF class'[e].kind \in ToolReservation THEN class'[e].cause ELSE NoCause
  BY DEF outcomeView, boundView
<1>1. class'[e] = class[e] /\ wake'[e] = wake[e] => VerdictStep(e)
  BY <1>0 DEF VerdictStep, Verdict!Same
<1>2. ASSUME class[e].kind \notin Terminal, class'[e].kind \notin Terminal,
             boundView'[e] = boundView[e], wake'[e] = wake[e]
      PROVE  VerdictStep(e)
  BY <1>0, <1>2 DEF VerdictStep, Verdict!Same
<1>3. ASSUME NEW q \in Cause, class[e].kind \in Reservation, class[e].cause \in {NoCause, q},
             class'[e] = Pending(class[e].kind, q), wake'[e] = wake[e]
      PROVE  VerdictStep(e)
  <2>1. outcomeView[e] = Open /\ outcomeView'[e] = Open
    BY <1>0, <1>3 DEF Reservation, ToolReservation, Terminal, Pending
  <2>2. CASE class[e].kind \in ToolReservation /\ class[e].cause = NoCause
    BY <1>0, <1>3, <2>1, <2>2 DEF Pending, VerdictStep, Verdict!Bind, Verdict!Undecided, Open
  <2>3. CASE class[e].kind \notin ToolReservation \/ class[e].cause = q
    BY <1>0, <1>3, <2>1, <2>3 DEF Pending, VerdictStep, Verdict!Same
  <2> QED BY <1>3, <2>2, <2>3
<1>4. ASSUME NEW q \in Cause, class[e].kind \notin Terminal, class'[e] = Cancelled(q), wake'[e] = wake[e],
             class[e].kind \in ToolReservation => class[e].cause \in {NoCause, q}
      PROVE  VerdictStep(e)
  <2>1. outcomeView[e] = Open /\ outcomeView'[e] = Cancelled(q)
    BY <1>0, <1>4 DEF Terminal, Cancelled
  <2>2. boundView[e] \in {NoCause, q} /\ boundView'[e] = NoCause
    BY <1>0, <1>4 DEF ToolReservation, Cancelled
  <2> QED BY <1>4, <2>1, <2>2
          DEF VerdictStep, Verdict!Decide, Verdict!Undecided, Verdict!Stopped, Open, Cancelled
<1>5. ASSUME class[e].kind \in {"Open", "SuccessCommitting"}, class'[e] = SuccessSealed, wake'[e] = wake[e]
      PROVE  VerdictStep(e)
  <2>1. outcomeView[e] = Open /\ outcomeView'[e] = SuccessSealed
    BY <1>0, <1>5 DEF Terminal, SuccessSealed
  <2>2. boundView[e] = NoCause /\ boundView'[e] = NoCause
    BY <1>0, <1>5 DEF ToolReservation, SuccessSealed
  <2> QED BY <1>5, <2>1, <2>2
          DEF VerdictStep, Verdict!Decide, Verdict!Undecided, Verdict!Success, Open, SuccessSealed
<1> USE ControlAssumption, CauseAssumption, RouteAssumption
<1> USE DEF TypeOK, Classification, Kind, Reservation, ToolReservation, Terminal, Open
<1>6. CASE UNCHANGED vars
  BY <1>1, <1>6 DEF vars
<1>7. ASSUME NEW t \in Thread, NEW c \in Control, NEW k \in Reservation, begin_reservation(t, c, k)
      PROVE VerdictStep(e)
  BY <1>0, <1>1, <1>2, <1>7 DEF begin_reservation, Reserved, Pending
<1>8. ASSUME NEW t \in Thread, NEW c \in Control, seal_success(t, c) PROVE VerdictStep(e)
  BY <1>1, <1>5, <1>8 DEF seal_success
<1>9. ASSUME NEW t \in Thread, NEW c \in Control, NEW cause \in Cause, request_cancel_local(t, c, cause)
      PROVE VerdictStep(e)
  <2>1. CASE e # c
    BY <1>1, <1>9, <2>1 DEF request_cancel_local, vars
  <2>2. CASE e = c /\ class[c] = Open
    BY <1>4, <1>9, <2>2 DEF request_cancel_local, Deferrable
  <2>3. CASE e = c /\ Deferrable(c, cause)
    BY <1>3, <1>9, <2>3 DEF request_cancel_local, Deferrable
  <2>4. CASE UNCHANGED vars
    BY <1>1, <2>4 DEF vars
  <2> QED BY <1>9, <2>1, <2>2, <2>3, <2>4 DEF request_cancel_local
<1>10. ASSUME NEW t \in Thread, NEW c \in Control, NEW cause \in Cause, commit_cancel_local(t, c, cause)
       PROVE VerdictStep(e)
  BY <1>1, <1>4, <1>10 DEF commit_cancel_local
<1>11. ASSUME NEW t \in Thread, NEW c \in Control, NEW d \in Control, NEW pcause \in Cause,
              NEW scause \in Cause, request_linked_cancellation(t, c, pcause, d, scause)
       PROVE VerdictStep(e)
  <2>1. wake' = wake
    BY <1>11 DEF request_linked_cancellation
  <2>2. \/ class'[e] = class[e]
        \/ \E q \in Cause : Applies(e, q) \/ Defers(e, q)
    BY <1>11, LinkedEffect
  <2>3. ASSUME NEW q \in Cause, Applies(e, q) PROVE VerdictStep(e)
    BY <1>4, <2>1, <2>3 DEF Applies
  <2>4. ASSUME NEW q \in Cause, Defers(e, q) PROVE VerdictStep(e)
    BY <1>3, <2>1, <2>4 DEF Defers
  <2> QED BY <1>1, <2>1, <2>2, <2>3, <2>4
<1>12. ASSUME NEW t \in Thread, release(t) PROVE VerdictStep(e)
  <2>1. token[t] \in Token /\ wake' = wake
    BY <1>12 DEF release
  <2>2. CASE e # token[t].ctl
    BY <1>1, <1>12, <2>1, <2>2 DEF release, Cancel, Token
  <2>3. CASE e = token[t].ctl /\ class[e].cause # NoCause
    <3>1. class'[e] = Cancelled(class[e].cause) /\ class[e].kind \in Reservation
      BY <1>12, <2>1, <2>3 DEF release, Cancel, Reserved, Pending, Token
    <3> QED BY <1>4, <2>1, <2>3, <3>1
  <2>4. CASE e = token[t].ctl /\ class[e].cause = NoCause
    <3>1. class'[e] = Open /\ class[e].kind \in Reservation
      BY <1>12, <2>1, <2>4 DEF release, Reserved, Pending, Token
    <3> QED BY <1>0, <1>2, <2>1, <2>4, <3>1
  <2> QED BY <2>2, <2>3, <2>4
<1>13. ASSUME NEW t \in Thread, seal(t) PROVE VerdictStep(e)
  BY <1>1, <1>5, <1>13 DEF seal
<1>14. ASSUME NEW t \in Thread, NEW cause \in Cause, resolve_success_commit_authoritatively(t, cause)
       PROVE VerdictStep(e)
  BY <1>1, <1>4, <1>14 DEF resolve_success_commit_authoritatively, Cancel
<1>15. ASSUME NEW t \in Thread, NEW cause \in Cause, abandon_success_commit(t, cause)
       PROVE VerdictStep(e)
  <2>1. /\ wake' = wake
        /\ class[token[t].ctl].kind = "SuccessCommitting"
        /\ class' = [class EXCEPT ![token[t].ctl] =
                        Cancelled(IF class[token[t].ctl].cause # NoCause
                                    THEN class[token[t].ctl].cause ELSE cause)]
    BY <1>15 DEF abandon_success_commit, Cancel
  <2>2. CASE e # token[t].ctl
    BY <1>1, <2>1, <2>2
  <2>3. CASE e = token[t].ctl /\ class[e].cause # NoCause
    BY <1>4, <2>1, <2>3
  <2>4. CASE e = token[t].ctl /\ class[e].cause = NoCause
    BY <1>4, <2>1, <2>4
  <2> QED BY <2>2, <2>3, <2>4
<1>16. ASSUME NEW t \in Thread, publish_wake(t) PROVE VerdictStep(e)
  <2>1. class' = class
    BY <1>16 DEF publish_wake
  <2>2. CASE wake'[e] = wake[e]
    BY <1>1, <2>1, <2>2
  <2>3. CASE wake'[e] # wake[e]
    <3>1. Owes(t, e) /\ wake'[e]
      BY <1>16, <2>3 DEF publish_wake, Owes
    <3>2. class[e].kind = "Cancelled" /\ ~wake[e]
      BY <3>1 DEF WakeOwed
    <3> QED BY <1>0, <2>1, <3>1, <3>2 DEF VerdictStep, Verdict!Wake
  <2> QED BY <2>2, <2>3
<1> QED
  BY <1>6, <1>7, <1>8, <1>9, <1>10, <1>11, <1>12, <1>13, <1>14, <1>15, <1>16 DEF Next, request_cancel, route_terminal

(* Seen from outside, RunControl is RunVerdict: one decision per run, taken *)
(* once, dictated by a Stop that was deferred behind a tool reservation.    *)
THEOREM RunControlImplementsVerdict == Spec => ImplementsVerdict
<1>1. Init => Verdict!Init
  BY DEF Init, Verdict!Init, outcomeView, boundView, Open, Verdict!Undecided, Terminal, ToolReservation
<1>2. TypeOK /\ TypeOK' /\ WakeOwed /\ [Next]_vars => [Verdict!Next]_(Verdict!avars)
  BY VerdictStepOf DEF VerdictStep, Verdict!Next
<1> QED BY <1>1, <1>2, TypeCorrect, CancelledRunsAreWoken, PTL DEF Spec, ImplementsVerdict, Verdict!Spec
=============================================================================
