----------------------------- MODULE RunVerdict -----------------------------
(***************************************************************************)
(* What a RunControl promises its users, without reservations or threads:  *)
(* every run is decided at most once, a Stop that has become binding is    *)
(* the decision, and only a cancelled run wakes the waiters of its token.  *)
(* One step may move several runs (a linked cancellation).                 *)
(***************************************************************************)
CONSTANTS Run, Cause, NoCause

VARIABLES
    outcome,    \* outcome[r]: undecided, success, or cancelled with a cause
    bound,      \* bound[r]: the Stop that must become the outcome, if any
    woken       \* woken[r]: the waiters of r's token have been woken

avars == <<outcome, bound, woken>>

Undecided == [kind |-> "Open", cause |-> NoCause]
Success == [kind |-> "SuccessSealed", cause |-> NoCause]
Stopped(cause) == [kind |-> "Cancelled", cause |-> cause]

Init ==
    /\ outcome = [r \in Run |-> Undecided]
    /\ bound = [r \in Run |-> NoCause]
    /\ woken = [r \in Run |-> FALSE]

Same(r) == outcome'[r] = outcome[r] /\ bound'[r] = bound[r] /\ woken'[r] = woken[r]

Bind(r) ==
    /\ outcome[r] = Undecided
    /\ bound[r] = NoCause
    /\ bound'[r] \in Cause
    /\ outcome'[r] = outcome[r]
    /\ woken'[r] = woken[r]

Decide(r) ==
    /\ outcome[r] = Undecided
    /\ \/ outcome'[r] = Success /\ bound[r] = NoCause
       \/ \E cause \in Cause : /\ outcome'[r] = Stopped(cause)
                              /\ bound[r] \in {NoCause, cause}
    /\ bound'[r] = NoCause
    /\ woken'[r] = woken[r]

Wake(r) ==
    /\ outcome[r].kind = "Cancelled"
    /\ ~woken[r]
    /\ woken'[r]
    /\ outcome'[r] = outcome[r]
    /\ bound'[r] = bound[r]

Next == \A r \in Run : Same(r) \/ Bind(r) \/ Decide(r) \/ Wake(r)

Spec == Init /\ [][Next]_avars
=============================================================================
