----------------------------- MODULE AgentTree -----------------------------
(***************************************************************************)
(* The tree of sub-agents under one running root turn: the registry of     *)
(* executions and their capacity (src/src/runtime/agent_control.rs), the   *)
(* workers that run them (src/src/app/agent_runtime.rs) and the durable    *)
(* trigger mail that wakes them (src/src/storage/session_repo.rs).         *)
(*                                                                         *)
(* Two threads act on the tree.  The root turn calls the agent tools on    *)
(* its own thread.  Every child worker and every hard-abort monitor is a   *)
(* task of one local executor thread, so between two awaits they do not    *)
(* interleave with each other, only with the root, lock by lock.           *)
(* job[t] is the synchronous section thread t is in.                       *)
(*                                                                         *)
(* An execution of child c is its marker, a number; the lease of that      *)
(* execution is what a launch queue, a worker or a monitor holds.          *)
(***************************************************************************)
EXTENDS Naturals, Sequences, FiniteSets

CONSTANTS
    Children,       \* number of children that may be spawned
    Capacity,       \* max_concurrent_agents - 1
    MaxNotices,     \* MAX_AGENT_MAILBOX_NOTICES
    MaxItem,        \* bound: trigger messages, initial tasks included
    MaxFaults,      \* bound: environment failures
    MaxInterrupts   \* bound: calls of interrupt_agent

Child == 1 .. Children      \* in spawn order
Item == 1 .. MaxItem
Thread == {"Root", "Local"}

ASSUME ChildrenAssumption == Children \in Nat
ASSUME CapacityAssumption == Capacity \in Nat
ASSUME BoundAssumption ==
    /\ MaxNotices \in Nat /\ MaxItem \in Nat
    /\ MaxFaults \in Nat /\ MaxInterrupts \in Nat

VARIABLES
    status,     \* status[c]: live status, "Unborn" before the spawn
    mark,       \* mark[c]: execution_marker, 0 for none
    gen,        \* gen[c]: the last marker made for c
    ctl,        \* ctl[c]: the run control of c's last execution
    box,        \* box[c]: trigger notices, oldest first
    wake,       \* wake[c]: wake_cause of the lease of c's last execution
    reserved,   \* pending_capacity_reservations
    row,        \* row[i]: the durable message i and its claim by a turn
    turn,       \* turn[c]: the durable session of c has a running turn
    work,       \* work[c]: where the newest worker of c, or its monitor, is
    reg,        \* reg[c]: the generation in workers.tasks, 0 for none
    job,        \* job[t]: the synchronous section of thread t
    monitors,   \* captured batches whose grace period runs
    taken,      \* workers taken from the registry and not yet aborted
    faults,     \* environment failures so far
    interrupts  \* calls of interrupt_agent so far

tree == <<status, mark, gen, ctl, box, wake, reserved>>
durable == <<row, turn>>
pool == <<work, reg, monitors, taken>>
vars == <<tree, durable, pool, job, faults, interrupts>>

Idle == [at |-> "Idle"]

Init ==
    /\ status = [c \in Child |-> "Unborn"]
    /\ mark = [c \in Child |-> 0]
    /\ gen = [c \in Child |-> 0]
    /\ ctl = [c \in Child |-> "Open"]
    /\ box = [c \in Child |-> <<>>]
    /\ wake = [c \in Child |-> 0]
    /\ reserved = 0
    /\ row = [i \in Item |-> [to |-> 0, st |-> "Unsent", claimed |-> FALSE, first |-> FALSE]]
    /\ turn = [c \in Child |-> FALSE]
    /\ work = [c \in Child |-> "None"]
    /\ reg = [c \in Child |-> 0]
    /\ job = [t \in Thread |-> Idle]
    /\ monitors = {}
    /\ taken = {}
    /\ faults = 0
    /\ interrupts = 0

-----------------------------------------------------------------------------
(* The registry.                                                           *)

Cancelled(c) == ctl[c] \in {"Interrupted", "Failed"}

Executing(m) == {c \in Child : m[c] # 0}

(* active_agent_count and the bound it is held against.                    *)
ActiveCount(m, r) == r + Cardinality(Executing(m))

(* The section between two state locks of a mail delivery, which holds the *)
(* delivery fence.                                                         *)
DeliveryFree == \A t \in Thread : job[t].at \notin {"MailCommit", "MailEnqueue"}

ReadyNotices(b, c) == {k \in 1 .. Len(b[c]) : b[c][k].ready}

(* pending_execution_wake_cause: the newest ready notice.                  *)
NewestReady(b, c) ==
    LET k == CHOOSE k \in ReadyNotices(b, c) : \A j \in ReadyNotices(b, c) : j <= k
    IN  b[c][k].item

(* Faulty: room is looked for before the execution at hand is counted.     *)
Chosen_one_more(m, b, r) ==
    LET candidates == {c \in Child : m[c] = 0 /\ ReadyNotices(b, c) # {}}
    IN  {c \in candidates :
            ActiveCount(m, r) + Cardinality({d \in candidates : d < c}) <= Capacity}

(* The executions that reserve_pending_triggered_executions_locked makes,  *)
(* in spawn order while there is room.                                     *)
Chosen(m, b, r) ==
    LET candidates == {c \in Child : m[c] = 0 /\ ReadyNotices(b, c) # {}}
    IN  {c \in candidates :
            ActiveCount(m, r) + Cardinality({d \in candidates : d <= c}) <= Capacity}

(* The numbers of S in increasing order: its k-th member is the one that   *)
(* is as large as k of them.                                               *)
InOrder(S) ==
    [k \in 1 .. Cardinality(S) |-> CHOOSE c \in S : Cardinality({d \in S : d <= c}) = k]

(* The registry becomes st, m, k, b, r and each child of S gets a new      *)
(* execution.                                                              *)
ReserveFrom(S, st, m, k, b, r) ==
    /\ status' = [c \in Child |-> IF c \in S THEN "PendingInit" ELSE st[c]]
    /\ mark' = [c \in Child |-> IF c \in S THEN gen[c] + 1 ELSE m[c]]
    /\ gen' = [c \in Child |-> IF c \in S THEN gen[c] + 1 ELSE gen[c]]
    /\ ctl' = [c \in Child |-> IF c \in S THEN "Open" ELSE k[c]]
    /\ wake' = [c \in Child |-> IF c \in S THEN NewestReady(b, c) ELSE wake[c]]
    /\ box' = b
    /\ reserved' = r

(* The notices of items leave the mailbox of c.                            *)
Without(b, c, items) ==
    LET kept == InOrder({k \in 1 .. Len(b[c]) : b[c][k].item \notin items})
    IN  [b EXCEPT ![c] = [k \in 1 .. Len(kept) |-> b[c][kept[k]]]]

(* Faulty: a follow-up that was queued during the turn stays dormant.      *)
Promoted_never(b, c) == b

(* Faulty: the end of an execution empties the mailbox.                    *)
Promoted_emptied(b, c) == [b EXCEPT ![c] = <<>>]

(* The end of an execution makes its queued follow-ups ready.              *)
Promoted(b, c) ==
    [b EXCEPT ![c] = [k \in DOMAIN @ |-> [@[k] EXCEPT !.ready = TRUE]]]

(* RunControl::supersede has no effect on a classified control.            *)
Superseded(c) == [ctl EXCEPT ![c] = IF @ = "Open" THEN "Failed" ELSE @]

(* What thread t does once it has been handed the leases of S: launch them *)
(* and, at the end of the body of worker w, detach it.                     *)
Launching(queue, w, g) ==
    IF queue = <<>> /\ w = 0
    THEN Idle
    ELSE [at |-> "Launch", queue |-> queue, worker |-> w, gen |-> g]

(* complete_execution on the lease of c.                                   *)
complete_execution(c, S) ==
    /\ DeliveryFree
    /\ LET free == [mark EXCEPT ![c] = 0]
           mail == Promoted(box, c)
       IN  /\ S = Chosen(free, mail, reserved)
           /\ ReserveFrom(S, [status EXCEPT ![c] = "Inactive"], free, ctl, mail, reserved)

(* retire_resolved_wake_execution on the lease of c.                       *)
retire_resolved_wake_execution(c, S) ==
    /\ DeliveryFree
    /\ LET free == [mark EXCEPT ![c] = 0]
           mail == Without(box, c, {wake[c]})
       IN  /\ S = Chosen(free, mail, reserved)
           /\ ReserveFrom(S, [status EXCEPT ![c] = "Inactive"], free, Superseded(c), mail, reserved)

-----------------------------------------------------------------------------
(* The agent tools, called by the root or by a child that is sampling.     *)

(* validate_execution_scope_locked.                                        *)
LiveScope(a) == a # 0 => mark[a] # 0 /\ ctl[a] = "Open"

Callers(t) ==
    IF t = "Root" THEN {0} ELSE {a \in Child : work[a] = "Sampling" /\ LiveScope(a)}

(* Message identities that are neither stored nor given to an append that  *)
(* is under way.                                                           *)
Fresh ==
    {i \in Item : /\ row[i].st = "Unsent"
                  /\ \A t \in Thread : job[t].at = "MailCommit" => job[t].item # i}
NextItem == CHOOSE i \in Fresh : \A j \in Fresh : i <= j

NextChild == {c \in Child : status[c] = "Unborn" /\ \A d \in Child : d < c => status[d] # "Unborn"}

Message(c, first) == [to |-> c, st |-> "Pending", claimed |-> FALSE, first |-> first]

(* spawn_agent: commit_spawn, then the launch.                             *)
spawn_agent(t, c) ==
    /\ job[t].at = "Idle"
    /\ Callers(t) # {}
    /\ c \in NextChild
    /\ Fresh # {}
    /\ ActiveCount(mark, reserved) < Capacity
    /\ status' = [status EXCEPT ![c] = "PendingInit"]
    /\ mark' = [mark EXCEPT ![c] = gen[c] + 1]
    /\ gen' = [gen EXCEPT ![c] = @ + 1]
    /\ wake' = [wake EXCEPT ![c] = NextItem]
    /\ row' = [row EXCEPT ![NextItem] = Message(c, TRUE)]
    /\ job' = [job EXCEPT ![t] = Launching(<<c>>, 0, 0)]
    /\ UNCHANGED <<ctl, box, reserved, turn, pool, faults, interrupts>>

(* followup_task, up to the durable append: the delivery fence is taken    *)
(* and, if the recipient has no execution, a slot is set aside.            *)
SendBegin(t, c) ==
    /\ job[t].at = "Idle"
    /\ Callers(t) # {}
    /\ DeliveryFree
    /\ status[c] # "Unborn"
    /\ Fresh # {}
    /\ Len(box[c]) < MaxNotices
    /\ LET newSlot == mark[c] = 0
           granted == ~newSlot \/ ActiveCount(mark, reserved) < Capacity
       IN  /\ reserved' = IF newSlot /\ granted THEN reserved + 1 ELSE reserved
           /\ job' = [job EXCEPT ![t] = [at |-> "MailCommit", to |-> c, item |-> NextItem,
                                         granted |-> granted, slot |-> newSlot /\ granted]]
    /\ UNCHANGED <<status, mark, gen, ctl, box, wake, durable, pool, faults, interrupts>>

GiveBack(t) == IF job[t].slot THEN reserved - 1 ELSE reserved

(* The durable append refuses a message that is ready to run when no slot  *)
(* was granted; storage may also fail.                                     *)
SendRefused(t) ==
    /\ job[t].at = "MailCommit"
    /\ \/ ~turn[job[t].to] /\ ~job[t].granted /\ UNCHANGED faults
       \/ faults < MaxFaults /\ faults' = faults + 1
    /\ reserved' = GiveBack(t)
    /\ job' = [job EXCEPT ![t] = Idle]
    /\ UNCHANGED <<status, mark, gen, ctl, box, wake, durable, pool, interrupts>>

SendCommit(t) ==
    /\ job[t].at = "MailCommit"
    /\ LET c == job[t].to
           ready == ~turn[c]
       IN  /\ ready => job[t].granted
           /\ row' = [row EXCEPT ![job[t].item] = Message(c, FALSE)]
           /\ job' = [job EXCEPT ![t] = [at |-> "MailEnqueue", to |-> c, item |-> @.item,
                                         slot |-> @.slot, ready |-> ready]]
    /\ UNCHANGED <<tree, turn, pool, faults, interrupts>>

(* The notice joins the mailbox and, if it is ready, the scheduler runs.   *)
SendEnqueue(t) ==
    /\ job[t].at = "MailEnqueue"
    /\ LET c == job[t].to
           mail == [box EXCEPT ![c] = Append(@, [item |-> job[t].item, ready |-> job[t].ready])]
           S == IF job[t].ready THEN Chosen(mark, mail, GiveBack(t)) ELSE {}
       IN  /\ ReserveFrom(S, status, mark, ctl, mail, GiveBack(t))
           /\ job' = [job EXCEPT ![t] = Launching(InOrder(S), 0, 0)]
    /\ UNCHANGED <<durable, pool, faults, interrupts>>

(* interrupt_agent: the target is captured, then interrupted if it is      *)
(* still the same execution; then the cancelled workers are captured, the  *)
(* paths under one lock and their generations under another.               *)
capture_interrupt_target(t, c) ==
    /\ job[t].at = "Idle"
    /\ status[c] # "Unborn"
    /\ interrupts < MaxInterrupts
    /\ \E a \in Callers(t) \ {c} :
        job' = [job EXCEPT ![t] = [at |-> "Interrupt", by |-> a, to |-> c, marker |-> mark[c]]]
    /\ interrupts' = interrupts + 1
    /\ UNCHANGED <<tree, durable, pool, faults>>

commit_and_interrupt_captured(t) ==
    /\ job[t].at = "Interrupt"
    /\ LET c == job[t].to
           same == LiveScope(job[t].by) /\ mark[c] = job[t].marker
       IN  \/ /\ same
              /\ mark[c] # 0 => ctl[c] = "Open"
              /\ ctl' = [ctl EXCEPT ![c] = IF mark[c] # 0 THEN "Interrupted" ELSE @]
              /\ job' = [job EXCEPT ![t] = [at |-> "CapturePaths"]]
           \/ /\ ~same \/ (mark[c] # 0 /\ ctl[c] # "Open")
              /\ job' = [job EXCEPT ![t] = Idle]
              /\ UNCHANGED ctl
    /\ UNCHANGED <<status, mark, gen, box, wake, reserved, durable, pool, faults, interrupts>>

cancelled_execution_paths(t) ==
    /\ job[t].at = "CapturePaths"
    /\ job' = [job EXCEPT ![t] = [at |-> "CaptureWorkers",
                                  paths |-> {c \in Child : mark[c] # 0 /\ Cancelled(c)}]]
    /\ UNCHANGED <<tree, durable, pool, faults, interrupts>>

schedule_cancelled_worker_abort(t) ==
    /\ job[t].at = "CaptureWorkers"
    /\ LET captured == {<<c, reg[c]>> : c \in {d \in job[t].paths : reg[d] # 0}}
       IN  monitors' = IF captured = {} THEN monitors ELSE monitors \cup {captured}
    /\ job' = [job EXCEPT ![t] = Idle]
    /\ UNCHANGED <<tree, durable, work, reg, taken, faults, interrupts>>

-----------------------------------------------------------------------------
(* launch_scheduled_turns: the leases are launched one after another; one  *)
(* that cannot be launched is settled as a turn that never ran, and what   *)
(* its end schedules joins the queue.                                      *)

FirstLease(t) == Head(job[t].queue)

Becomes(t, place) ==
    job' = [job EXCEPT ![t] = [@ EXCEPT !.at = place]]

(* The lease at the head is done with; those of S wait behind the rest.    *)
NextLease(t, S) ==
    job' = [job EXCEPT ![t] = Launching(Tail(@.queue) \o InOrder(S), @.worker, @.gen)]

(* launch_agent_turn, from reserve_worker_generation to the start signal.  *)
launch_agent_turn(t) ==
    /\ job[t].at = "Launch"
    /\ job[t].queue # <<>>
    /\ reg[FirstLease(t)] = 0
    /\ reg' = [reg EXCEPT ![FirstLease(t)] = mark[FirstLease(t)]]
    /\ work' = [work EXCEPT ![FirstLease(t)] = "Start"]
    /\ NextLease(t, {})
    /\ UNCHANGED <<tree, durable, monitors, taken, faults, interrupts>>

(* The registry still holds a worker of this path, or the launch fails for *)
(* a reason of its own: pre_admission_terminal reads the run control.      *)
launch_refused(t) ==
    /\ job[t].at = "Launch"
    /\ job[t].queue # <<>>
    /\ \/ reg[FirstLease(t)] # 0 /\ UNCHANGED faults
       \/ faults < MaxFaults /\ faults' = faults + 1
    /\ job' = [job EXCEPT ![t] = [at |-> "Settle", queue |-> @.queue, worker |-> @.worker,
                                  gen |-> @.gen, cause |-> ctl[FirstLease(t)]]]
    /\ UNCHANGED <<tree, durable, pool, interrupts>>

Unclaimed(i) == row[i].st = "Pending" /\ ~row[i].claimed

(* commit_pending_trigger_terminal with                                    *)
(* settle_pending_agent_trigger_in_transaction: a synthetic turn claims    *)
(* the trigger and ends at once.                                           *)
settle_pre_admission(t) ==
    /\ job[t].at = "Settle"
    /\ DeliveryFree
    /\ LET c == FirstLease(t)
           i == wake[c]
       IN  /\ ~turn[c] /\ Unclaimed(i)
           /\ row' = [row EXCEPT ![i].claimed = TRUE,
                                 ![i].st = IF job[t].cause = "Interrupted"
                                           THEN "Discarded" ELSE "Unrun"]
           /\ ctl' = Superseded(c)
           /\ box' = Without(box, c, {i})
    /\ Becomes(t, "Settled")
    /\ UNCHANGED <<status, mark, gen, wake, reserved, turn, pool, faults, interrupts>>

settle_complete(t) ==
    /\ job[t].at = "Settled"
    /\ \E S \in SUBSET Child : complete_execution(FirstLease(t), S) /\ NextLease(t, S)
    /\ UNCHANGED <<durable, pool, faults, interrupts>>

(* The trigger is claimed or resolved already.                             *)
settle_stale(t) ==
    /\ job[t].at = "Settle"
    /\ DeliveryFree
    /\ turn[FirstLease(t)] \/ ~Unclaimed(wake[FirstLease(t)])
    /\ Becomes(t, "Retire")
    /\ UNCHANGED <<tree, durable, pool, faults, interrupts>>

settle_retire(t) ==
    /\ job[t].at = "Retire"
    /\ \E S \in SUBSET Child : retire_resolved_wake_execution(FirstLease(t), S) /\ NextLease(t, S)
    /\ UNCHANGED <<durable, pool, faults, interrupts>>

settle_fails(t) ==
    /\ job[t].at = "Settle"
    /\ DeliveryFree
    /\ faults < MaxFaults
    /\ faults' = faults + 1
    /\ Becomes(t, "Release")
    /\ UNCHANGED <<tree, durable, pool, interrupts>>

(* Faulty: the execution is given up and its marker stays.                 *)
release_keeps_marker(t) ==
    /\ job[t].at = "Release"
    /\ DeliveryFree
    /\ ctl' = Superseded(FirstLease(t))
    /\ status' = [status EXCEPT ![FirstLease(t)] = "PendingInit"]
    /\ NextLease(t, {})
    /\ UNCHANGED <<mark, gen, box, wake, reserved, durable, pool, faults, interrupts>>

release_unsettled_trigger_execution(t) ==
    /\ job[t].at = "Release"
    /\ DeliveryFree
    /\ ctl' = Superseded(FirstLease(t))
    /\ status' = [status EXCEPT ![FirstLease(t)] = "PendingInit"]
    /\ mark' = [mark EXCEPT ![FirstLease(t)] = 0]
    /\ NextLease(t, {})
    /\ UNCHANGED <<gen, box, wake, reserved, durable, pool, faults, interrupts>>

(* The queue is empty; the body of a worker ends and detaches it.          *)
detach_finished_worker(t) ==
    /\ job[t].at = "Launch"
    /\ job[t].queue = <<>>
    /\ LET w == job[t].worker
       IN  /\ reg' = [c \in Child |-> IF c = w /\ reg[c] = job[t].gen THEN 0 ELSE reg[c]]
           /\ work' = [c \in Child |-> IF c = w /\ work[c] = "Done" THEN "None" ELSE work[c]]
    /\ job' = [job EXCEPT ![t] = Idle]
    /\ UNCHANGED <<tree, durable, monitors, taken, faults, interrupts>>

-----------------------------------------------------------------------------
(* The body of a worker, on the local thread.                              *)

LocalIdle == job["Local"].at = "Idle"

At(c, places) == LocalIdle /\ work[c] \in places

Moves(c, place) == work' = [work EXCEPT ![c] = place]

(* The worker gives its lease to settle_pre_admission_execution.           *)
GivesUp(c) ==
    /\ Moves(c, "Done")
    /\ job' = [job EXCEPT !["Local"] = [at |-> "Settle", queue |-> <<c>>, worker |-> c,
                                       gen |-> mark[c], cause |-> ctl[c]]]
    /\ UNCHANGED <<tree, durable, reg, monitors, taken, interrupts>>

Quietly == UNCHANGED <<tree, durable, reg, monitors, taken, job, faults, interrupts>>

(* Faulty: the worker starts without a look at its run control.            *)
activate_unchecked(c) == At(c, {"Start"}) /\ Moves(c, "Preflight") /\ Quietly

(* The worker looks at its run control before it does anything.            *)
activate_child_execution(c) ==
    /\ At(c, {"Start"})
    /\ \/ ctl[c] = "Open" /\ Moves(c, "Preflight") /\ Quietly
       \/ Cancelled(c) /\ GivesUp(c) /\ UNCHANGED faults

(* materialize_context_config_and_sync_session, then the second check.     *)
preflight(c) ==
    /\ At(c, {"Preflight"})
    /\ \/ ctl[c] = "Open" /\ Moves(c, "Admitting") /\ Quietly
       \/ Cancelled(c) /\ GivesUp(c) /\ UNCHANGED faults
       \/ faults < MaxFaults /\ faults' = faults + 1 /\ GivesUp(c)

(* The durable admission of the turn that claims the trigger.              *)
admit(c) ==
    /\ At(c, {"Admitting"})
    /\ ~turn[c] /\ Unclaimed(wake[c])
    /\ row' = [row EXCEPT ![wake[c]].claimed = TRUE]
    /\ turn' = [turn EXCEPT ![c] = TRUE]
    /\ Moves(c, "Admitted")
    /\ UNCHANGED <<tree, reg, monitors, taken, job, faults, interrupts>>

admit_unavailable(c) ==
    /\ At(c, {"Admitting"})
    /\ \/ (turn[c] \/ ~Unclaimed(wake[c]) \/ Cancelled(c)) /\ UNCHANGED faults
       \/ faults < MaxFaults /\ faults' = faults + 1
    /\ GivesUp(c)

mark_execution_admitted(c) ==
    /\ At(c, {"Admitted"})
    /\ DeliveryFree
    /\ ctl[c] = "Open"
    /\ LET S == Chosen(mark, box, reserved)
       IN  /\ ReserveFrom(S, [status EXCEPT ![c] = "Running"], mark, ctl, box, reserved)
           /\ job' = [job EXCEPT !["Local"] = Launching(InOrder(S), 0, 0)]
    /\ Moves(c, "Running")
    /\ UNCHANGED <<durable, reg, monitors, taken, faults, interrupts>>

(* commit_pending_mailbox_delivery at a request boundary: every pending    *)
(* message of c enters this turn.                                          *)
commit_pending_mailbox_delivery(c) ==
    /\ At(c, {"Running", "Sampling"})
    /\ DeliveryFree
    /\ ctl[c] = "Open"
    /\ LET pending == {i \in Item : row[i].to = c /\ row[i].st = "Pending"}
       IN  /\ row' = [i \in Item |-> IF i \in pending THEN [row[i] EXCEPT !.st = "Delivered"]
                                     ELSE row[i]]
           /\ box' = Without(box, c, pending)
    /\ Moves(c, "Sampling")
    /\ UNCHANGED <<status, mark, gen, ctl, wake, reserved, turn, reg, monitors, taken,
                   job, faults, interrupts>>

(* The durable terminal of the turn settles the messages of items that are *)
(* still pending.                                                          *)
Terminal(c, items, settled) ==
    /\ turn' = [turn EXCEPT ![c] = FALSE]
    /\ row' = [i \in Item |-> IF i \in items /\ row[i].st = "Pending"
                              THEN [row[i] EXCEPT !.st = settled] ELSE row[i]]
    /\ Moves(c, "Finishing")
    /\ UNCHANGED <<status, mark, gen, box, wake, reserved, reg, monitors, taken,
                   job, faults, interrupts>>

(* A final answer closes the turn to further mail (NextTurn), so its       *)
(* terminal settles the trigger it claimed and no other message.           *)
turn_completes(c) ==
    /\ At(c, {"Sampling"})
    /\ ctl[c] = "Open"
    /\ ctl' = [ctl EXCEPT ![c] = "Sealed"]
    /\ Terminal(c, {wake[c]}, "Delivered")

(* The terminal of a failed turn takes every pending message of c into the *)
(* history of that turn.  Their notices stay in the mailbox.               *)
turn_fails(c) ==
    /\ At(c, {"Admitted", "Running", "Sampling"})
    /\ ctl[c] = "Open"
    /\ ctl' = [ctl EXCEPT ![c] = "Failed"]
    /\ Terminal(c, {i \in Item : row[i].to = c}, "Delivered")

turn_stops(c) ==
    /\ At(c, {"Admitted", "Running", "Sampling"})
    /\ ctl[c] = "Interrupted"
    /\ Terminal(c, {wake[c]}, "Discarded")
    /\ UNCHANGED ctl

(* The end of the body: complete_execution, then launch_scheduled_turns    *)
(* while the worker is still in the registry.                              *)
finish_turn(c) ==
    /\ At(c, {"Finishing"})
    /\ \E S \in SUBSET Child :
        /\ complete_execution(c, S)
        /\ job' = [job EXCEPT !["Local"] = Launching(InOrder(S), c, mark[c])]
    /\ Moves(c, "Done")
    /\ UNCHANGED <<durable, reg, monitors, taken, faults, interrupts>>

-----------------------------------------------------------------------------
(* The hard-abort monitor, on the local thread.                            *)

InBody(c) == work[c] \in {"Start", "Preflight", "Admitting", "Admitted",
                          "Running", "Sampling", "Finishing"}

(* abort_and_wait: the worker of p is dropped and its lease, unless the    *)
(* worker has used it up, is the monitor's.                                *)
Dropped(p) ==
    work' = IF mark[p[1]] = p[2] /\ InBody(p[1])
            THEN [work EXCEPT ![p[1]] = "Aborted"]
            ELSE work

(* The grace period is over: take_captured_workers.  The first worker that *)
(* is still registered is aborted at once, the others wait their turn.     *)
take_captured_workers(batch) ==
    /\ LocalIdle
    /\ batch \in monitors
    /\ monitors' = monitors \ {batch}
    /\ LET still == {p \in batch : reg[p[1]] = p[2]}
       IN  /\ reg' = [c \in Child |-> IF \E p \in still : p[1] = c THEN 0 ELSE reg[c]]
           /\ \/ still = {} /\ UNCHANGED <<work, taken>>
              \/ \E p \in still : Dropped(p) /\ taken' = taken \cup (still \ {p})
    /\ UNCHANGED <<tree, durable, job, faults, interrupts>>

abort_worker(p) ==
    /\ LocalIdle
    /\ p \in taken
    /\ taken' = taken \ {p}
    /\ Dropped(p)
    /\ UNCHANGED <<tree, durable, reg, monitors, job, faults, interrupts>>

(* Faulty: only a trigger that no turn claimed is settled.                 *)
settle_leaves_turn(c) ==
    /\ At(c, {"Aborted"})
    /\ row' = IF Unclaimed(wake[c])
              THEN [row EXCEPT ![wake[c]].claimed = TRUE, ![wake[c]].st = "Discarded"]
              ELSE row
    /\ Moves(c, "Interrupted")
    /\ UNCHANGED <<tree, turn, reg, monitors, taken, job, faults, interrupts>>

(* settle_agent_execution_wake_with_terminal: a running turn, or a trigger *)
(* that no turn claimed, ends as interrupted.  A failed write is retried.  *)
settle_hard_aborted_worker(c) ==
    /\ At(c, {"Aborted"})
    /\ LET i == wake[c]
           applies == turn[c] \/ Unclaimed(i)
       IN  /\ turn' = [turn EXCEPT ![c] = FALSE]
           /\ row' = IF applies
                     THEN [row EXCEPT ![i].claimed = TRUE,
                                      ![i].st = IF @ = "Pending" THEN "Discarded" ELSE @]
                     ELSE row
           /\ Moves(c, IF applies \/ row[i].claimed THEN "Interrupted" ELSE "Resolved")
    /\ UNCHANGED <<tree, reg, monitors, taken, job, faults, interrupts>>

monitor_finish(c) ==
    /\ At(c, {"Interrupted", "Resolved"})
    /\ \E S \in SUBSET Child :
        /\ IF work[c] = "Interrupted"
           THEN complete_execution(c, S)
           ELSE retire_resolved_wake_execution(c, S)
        /\ job' = [job EXCEPT !["Local"] = Launching(InOrder(S), 0, 0)]
    /\ Moves(c, "None")
    /\ UNCHANGED <<durable, reg, monitors, taken, faults, interrupts>>

-----------------------------------------------------------------------------
(* A step inside a synchronous section.                                    *)
Section(t) ==
    \/ SendRefused(t) \/ SendCommit(t) \/ SendEnqueue(t)
    \/ commit_and_interrupt_captured(t) \/ cancelled_execution_paths(t)
    \/ schedule_cancelled_worker_abort(t)
    \/ launch_agent_turn(t) \/ launch_refused(t)
    \/ settle_pre_admission(t) \/ settle_complete(t)
    \/ settle_stale(t) \/ settle_retire(t)
    \/ settle_fails(t) \/ release_unsettled_trigger_execution(t)
    \/ detach_finished_worker(t)

(* A call of an agent tool.                                                *)
Tool(t, c) == spawn_agent(t, c) \/ SendBegin(t, c) \/ capture_interrupt_target(t, c)

(* A step of a worker.                                                     *)
Worker(c) ==
    \/ activate_child_execution(c) \/ preflight(c)
    \/ admit(c) \/ admit_unavailable(c) \/ mark_execution_admitted(c)
    \/ commit_pending_mailbox_delivery(c)
    \/ turn_completes(c) \/ turn_fails(c) \/ turn_stops(c)
    \/ finish_turn(c)

(* A step of a hard-abort monitor.                                         *)
Monitor ==
    \/ \E batch \in monitors : take_captured_workers(batch)
    \/ \E p \in taken : abort_worker(p)
    \/ \E c \in Child : settle_hard_aborted_worker(c) \/ monitor_finish(c)

Next ==
    \/ \E t \in Thread : Section(t) \/ \E c \in Child : Tool(t, c)
    \/ \E c \in Child : Worker(c)
    \/ Monitor

Spec == Init /\ [][Next]_vars

(* A worker that has been started looks at its run control once.           *)
WorkersStart == \A c \in Child : WF_vars(activate_child_execution(c))

(* Nothing is assumed of an admitted turn: it may hang for ever.  A        *)
(* synchronous section runs on and the timers of monitors fire.  Strong    *)
(* fairness is for the delivery fence: the calls that take it again and    *)
(* again are a model request apart, so whoever waits for it gets it.       *)
HangingSpec ==
    /\ Spec
    /\ WorkersStart
    /\ \A t \in Thread : SF_vars(Section(t))
    /\ SF_vars(Monitor)

(* A worker makes progress outside of its turn too.                        *)
FairSpec ==
    /\ Spec
    /\ WorkersStart
    /\ \A t \in Thread : WF_vars(Section(t))
    /\ WF_vars(Monitor)
    /\ \A c \in Child : WF_vars(~turn[c] /\ Worker(c))

-----------------------------------------------------------------------------
(* Properties.                                                             *)

Queued(t, c) ==
    /\ job[t].at \in {"Launch", "Settle", "Settled", "Retire", "Release"}
    /\ \E k \in 1 .. Len(job[t].queue) : job[t].queue[k] = c

HeldByTask(c) == InBody(c) \/ work[c] \in {"Aborted", "Interrupted", "Resolved"}

NoticeOf(i) == \E k \in 1 .. Len(box[row[i].to]) : box[row[i].to][k].item = i

(* Executions and slots set aside for mail in flight never exceed the      *)
(* capacity, although a spawn does not take the delivery fence and a slot  *)
(* is set aside, turned into an execution and given back under different   *)
(* locks (active_agent_count).                                             *)
CapacityKept == ActiveCount(mark, reserved) <= Capacity

(* A marker is set exactly while one lease of it exists: in one launch     *)
(* queue, or with one worker or monitor.  A lost lease would use up the    *)
(* slot for ever, a second one would run the child twice.                  *)
OneLease ==
    \A c \in Child :
        LET queued == {t \in Thread : Queued(t, c)}
        IN  IF mark[c] = 0 THEN queued = {} /\ ~HeldByTask(c)
            ELSE IF HeldByTask(c) THEN queued = {}
            ELSE Cardinality(queued) = 1

(* A durable follow-up that no turn has claimed has its notice in the live *)
(* mailbox, or is on its way there: the scheduler knows of everything that *)
(* storage still has to run.  The converse does not hold: a failed turn    *)
(* settles messages whose notices stay, and which are scheduled only to be *)
(* retired (settle_stale).                                                 *)
FollowUpKept ==
    \A i \in Item :
        (row[i].st # "Unsent" /\ Unclaimed(i) /\ ~row[i].first) =>
            \/ NoticeOf(i)
            \/ \E t \in Thread : job[t].at = "MailEnqueue" /\ job[t].item = i

(* As long as storage and launches work, a trigger notice never lies in    *)
(* the mailbox of a child that has no execution: whatever ends an          *)
(* execution makes the queued follow-ups ready and schedules them in the   *)
(* slot it frees.                                                          *)
NoIdleFollowUp ==
    faults = 0 => \A c \in Child : mark[c] = 0 => box[c] = <<>>

(* A durable running turn has the task that will end it: the worker of the *)
(* execution that claimed the trigger, or the monitor that aborted it.     *)
TurnOwned ==
    \A c \in Child : turn[c] =>
        /\ mark[c] # 0
        /\ row[wake[c]].claimed
        /\ work[c] \in {"Admitted", "Running", "Sampling", "Aborted"}

(* An interrupted execution comes to an end and frees its slot, even if    *)
(* its turn hangs: by its own check before admission or by the hard abort. *)
InterruptLands ==
    \A c \in Child : \A m \in 1 .. MaxItem :
        (mark[c] = m /\ ctl[c] = "Interrupted") ~> (mark[c] # m)

(* If no turn goes on for ever, every message that is sent is delivered to *)
(* a turn (sampled by it, or taken into its history when it fails),        *)
(* discarded by an interrupt or settled by a turn that never ran, unless   *)
(* storage or a launch failed.                                             *)
FollowUpSettled ==
    (\A c \in Child : []<>~turn[c]) =>
        \A i \in Item : (row[i].st = "Pending") ~> (row[i].st # "Pending" \/ faults > 0)

(* Unless storage or a launch failed, a follow-up is never settled without *)
(* a turn having run.                                                      *)
FollowUpRuns == faults = 0 => \A i \in Item : row[i].st # "Unrun"
=============================================================================
