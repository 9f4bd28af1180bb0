------------------------------ MODULE StopGate ------------------------------
(***************************************************************************)
(* What the root-admission seal of a RunControl promises: a turn is        *)
(* admitted only through an attempt that began while the gate was open,    *)
(* and the gate closes only when no attempt is in flight.  Once it is      *)
(* closed the newest admitted turn is therefore the newest for ever.       *)
(***************************************************************************)
CONSTANTS Receipt, None

VARIABLES
    gate,       \* "open", "closing" (a Stop is at work) or "closed"
    inflight,   \* an admission attempt is between its plan and its outcome
    newest      \* the newest admitted turn

gvars == <<gate, inflight, newest>>

Init == gate = "open" /\ inflight = FALSE /\ newest = None

Attempt == gate = "open" /\ ~inflight /\ inflight' = TRUE /\ UNCHANGED <<gate, newest>>

Admit ==
    /\ inflight
    /\ inflight' = FALSE
    /\ newest' \in Receipt
    /\ UNCHANGED gate

Abort == inflight /\ inflight' = FALSE /\ UNCHANGED <<gate, newest>>

Seal == gate = "open" /\ gate' = "closing" /\ UNCHANGED <<inflight, newest>>

Release == gate = "closing" /\ gate' = "open" /\ UNCHANGED <<inflight, newest>>

Close == gate = "closing" /\ ~inflight /\ gate' = "closed" /\ UNCHANGED <<inflight, newest>>

Next == Attempt \/ Admit \/ Abort \/ Seal \/ Release \/ Close

Spec == Init /\ [][Next]_gvars
=============================================================================
