--------------------------- MODULE DesktopSession ---------------------------
(***************************************************************************)
(* How the Desktop follows the run of the session it shows                 *)
(* (src/src/desktop/app.rs, with state.rs, open_session.rs, async_ops.rs   *)
(* and src/src/tui/state.rs).                                              *)
(*                                                                         *)
(* One UI thread owns the controller's state and drains two queues: the    *)
(* unbounded control queue first, then the bounded runtime mailbox.        *)
(* Everything else runs on threads of its own: the worker of a run the     *)
(* Desktop launched, one listener thread per generation that pages through *)
(* the committed events of one turn, and one thread per refresh or load    *)
(* that reads the session once and sends what it read.                     *)
(*                                                                         *)
(* A session is the sequence of its committed runtime events.  What a read *)
(* of a session returns is the length of the prefix it saw: status, active *)
(* turn and revision are functions of that prefix, and a longer prefix is  *)
(* what the code calls newer.                                              *)
(***************************************************************************)
EXTENDS Integers, Sequences, FiniteSets

CONSTANTS
    Session,            \* sessions of the workspace
    None,               \* Option::None
    MailboxCapacity,    \* DESKTOP_RUNTIME_MAILBOX_CAPACITY
    MaxInput            \* bound: events committed except terminals, sessions opened
                        \* and runs launched

ASSUME MailboxAssumption == MailboxCapacity \in Nat \ {0}
ASSUME NoneAssumption == None \notin Session
ASSUME BoundAssumption == MaxInput \in Nat

VARIABLES
    log,            \* log[s]: the committed runtime events of s
    current,        \* app_state.current_session_id
    open,           \* open_session: a session and the prefix it was read at
    run_status,     \* app_state.run_status
    expectation,    \* app_state.active_turn_expectation
    post_run,       \* the TerminalRunRefresh operation is pending
    navigation,     \* the navigation request in progress
    navigations,    \* navigation requests made so far
    root,           \* run_lifecycle.root
    next_root,      \* next_root_run_generation
    worker,         \* the worker of the latest launched run
    listener,       \* session_runtime_listener
    next_listener,  \* next_session_runtime_listener_generation
    threads,        \* the listener threads that have not returned
    request,        \* session_projection_refresh_requests.latest
    next_request,   \* session_projection_refresh_requests.next_id
    reads,          \* refresh and load threads that have not sent their result
    mailbox,        \* runtime_tx .. runtime_rx
    control         \* control_tx .. control_rx

viewVars == <<current, open, run_status, expectation, post_run>>
navVars == <<navigation, navigations>>
rootVars == <<root, next_root>>
listenerVars == <<listener, next_listener>>
requestVars == <<request, next_request>>
vars == <<log, viewVars, navVars, rootVars, worker, listenerVars, threads,
          requestVars, reads, mailbox, control>>

-----------------------------------------------------------------------------
(* The committed events.  A turn starts with the event of its user turn    *)
(* and ends with its terminal; the durable status is Running in between.   *)

(* A read that has not happened yet, and one that failed.                  *)
Unread == -1
Failed == -2

Prefix(s, n) == SubSeq(log[s], 1, n)

TurnOf(events) == IF events = <<>> THEN 0 ELSE events[Len(events)].turn

IsRunning(events) == events # <<>> /\ events[Len(events)].kind # "Terminal"

Ended(s, t) == \E p \in DOMAIN log[s] : log[s][p] = [turn |-> t, kind |-> "Terminal"]

(* ActiveTurnExpectation, of a read that saw these events: Turn for the    *)
(* active turn, Idle after the latest one.  Every admission takes a new    *)
(* turn, so the turn orders what the code orders by revision.              *)
ExpectationOf(events) == [turn |-> TurnOf(events), active |-> IsRunning(events)]

initial_idle == ExpectationOf(<<>>)

(* The events of a kind committed so far, for the bounds and for turn ids. *)
Committed(k) ==
    {e \in UNION {{s} \X DOMAIN log[s] : s \in Session} : log[e[1]][e[2]].kind = k}

Count(k) == Cardinality(Committed(k))

InputLeft == Count("Stored") + Count("Update") + navigations + next_root - 1 < MaxInput

CanStore(s) == ~IsRunning(log[s]) /\ InputLeft

NextTurn == Count("Stored") + 1

Commit(s, t, k) == log' = [log EXCEPT ![s] = Append(@, [turn |-> t, kind |-> k])]

Init ==
    /\ log = [s \in Session |-> <<>>]
    /\ current = None /\ open = None
    /\ run_status = "Idle"
    /\ expectation = initial_idle
    /\ post_run = FALSE
    /\ navigation = None /\ navigations = 0
    /\ root = None /\ next_root = 1
    /\ worker = None
    /\ listener = None /\ next_listener = 1
    /\ threads = {}
    /\ request = None /\ next_request = 1
    /\ reads = {}
    /\ mailbox = <<>>
    /\ control = <<>>

-----------------------------------------------------------------------------
(* The listener slot.  Replacing it cancels the thread of the listener it  *)
(* held; a listener of the same turn is kept.                              *)
stop_session_runtime_listener ==
    /\ listener' = None
    /\ UNCHANGED <<next_listener, threads>>

reconcile_session_runtime_listener(s, t) ==
    IF listener # None /\ listener.session = s /\ listener.turn = t
      THEN UNCHANGED <<listenerVars, threads>>
      ELSE /\ listener' = [generation |-> next_listener, session |-> s, turn |-> t]
           /\ next_listener' = next_listener + 1
           /\ threads' = threads \cup {[generation |-> next_listener, session |-> s,
                            turn |-> t, at |-> "Boot", cursor |-> 0, held |-> 0]}

(* The target is the active turn of the open session, if it is Running.    *)
reconcile_runtime_listener_with_open_session(view) ==
    LET events == Prefix(view.session, view.prefix)
    IN  IF IsRunning(events)
          THEN reconcile_session_runtime_listener(view.session, TurnOf(events))
          ELSE stop_session_runtime_listener

(* LatestRequestTracker and the thread it is begun for.                    *)
begin_refresh(s, purpose) ==
    /\ request' = [id |-> next_request, session |-> s]
    /\ next_request' = next_request + 1
    /\ reads' = reads \cup {[type |-> purpose, id |-> next_request,
                             session |-> s, prefix |-> Unread]}

is_current(m) == request = [id |-> m.id, session |-> m.session]

invalidate_session_target_requests ==
    /\ stop_session_runtime_listener
    /\ request' = None
    /\ UNCHANGED next_request

(* An older read extends the loaded history and keeps the newer metadata.  *)
Merged(s, n) ==
    IF open # None /\ open.session = s /\ open.prefix > n
      THEN open ELSE [session |-> s, prefix |-> n]

StatusOf(events) ==
    IF events = <<>> THEN "Idle" ELSE IF IsRunning(events) THEN "Running" ELSE "Ended"

-----------------------------------------------------------------------------
(* What the user does.                                                     *)

root_is_finalizing == root # None /\ root.phase = "Finalizing"

(* select_session_and_open and rejoin_session_if_admitted, which differ    *)
(* in the rows they offer and in the message they show.                    *)
select_session(s) ==
    /\ InputLeft
    /\ ~root_is_finalizing
    /\ run_status # "Running"
    /\ navigation = None
    /\ invalidate_session_target_requests
    /\ navigations' = navigations + 1
    /\ navigation' = [id |-> navigations + 1, session |-> s]
    /\ reads' = reads \cup {[type |-> "Loaded", id |-> navigations + 1,
                             session |-> s, prefix |-> Unread]}
    /\ UNCHANGED <<log, viewVars, rootVars, worker, mailbox, control>>

(* Asked of a status that is not Running.                                  *)
current_active_turn_expectation == IF current = None THEN initial_idle ELSE expectation

(* A request of the composer that captured an idle session: one that       *)
(* captured an active turn steers that turn and launches nothing.  Without *)
(* a session on show the run makes one of its own.  Until its turn is      *)
(* stored, the worker holds the latest turn the request expects.           *)
launch_run(s) ==
    /\ InputLeft
    /\ navigation = None
    /\ ~post_run
    /\ root = None
    /\ run_status # "Running"
    /\ ~current_active_turn_expectation.active
    /\ IF current = None THEN log[s] = <<>> ELSE s = current
    /\ next_root' = next_root + 1
    /\ \/ /\ root' = [generation |-> next_root, phase |-> "Running"]
          /\ worker' = [generation |-> next_root, session |-> s,
                        turn |-> current_active_turn_expectation.turn, at |-> "Launched"]
          /\ UNCHANGED run_status
       \/ /\ run_status' = "Ended"       \* no worker could be spawned
          /\ UNCHANGED <<root, worker>>
    /\ UNCHANGED <<log, current, open, expectation, post_run, navVars, listenerVars, threads,
                   requestVars, reads, mailbox, control>>

-----------------------------------------------------------------------------
(* The worker of a launched run: it commits its user turn with the         *)
(* admission, announces the session and then the turn, runs the agent loop *)
(* and reports its end.  Only the announcements and the end travel on the  *)
(* control queue: every other committed event reaches the Desktop through  *)
(* the listener.                                                           *)
worker_store ==
    /\ worker # None /\ worker.at = "Launched"
    /\ CanStore(worker.session)
    /\ TurnOf(log[worker.session]) = worker.turn
    /\ Commit(worker.session, NextTurn, "Stored")
    /\ worker' = [worker EXCEPT !.at = "Stored", !.turn = NextTurn]
    /\ UNCHANGED <<viewVars, navVars, rootVars, listenerVars, threads, requestVars,
                   reads, mailbox, control>>

worker_start ==
    /\ worker # None /\ worker.at = "Stored"
    /\ control' = Append(control, [type |-> "SessionStarted",
                      generation |-> worker.generation, session |-> worker.session])
    /\ worker' = [worker EXCEPT !.at = "Started"]
    /\ UNCHANGED <<log, viewVars, navVars, rootVars, listenerVars, threads, requestVars,
                   reads, mailbox>>

worker_announce ==
    /\ worker # None /\ worker.at = "Started"
    /\ control' = Append(control, [type |-> "UserTurnStored", generation |-> worker.generation,
                      session |-> worker.session, turn |-> worker.turn])
    /\ worker' = [worker EXCEPT !.at = "Working"]
    /\ UNCHANGED <<log, viewVars, navVars, rootVars, listenerVars, threads, requestVars,
                   reads, mailbox>>

worker_update ==
    /\ worker # None /\ worker.at = "Working"
    /\ InputLeft
    /\ Commit(worker.session, worker.turn, "Update")
    /\ UNCHANGED <<viewVars, navVars, rootVars, worker, listenerVars, threads, requestVars,
                   reads, mailbox, control>>

(* The terminal of the agent loop, or the one settle_admitted_run_result   *)
(* commits for a run that failed anywhere after its turn was stored.       *)
worker_terminal ==
    /\ worker # None /\ worker.at \in {"Stored", "Started", "Working"}
    /\ Commit(worker.session, worker.turn, "Terminal")
    /\ worker' = [worker EXCEPT !.at = "Terminated"]
    /\ UNCHANGED <<viewVars, navVars, rootVars, listenerVars, threads, requestVars, reads,
                   mailbox, control>>

(* Faulty: only a run with a summary is reported.                          *)
worker_finish_summary_only ==
    /\ worker # None /\ worker.at = "Terminated"
    /\ control' = Append(control, [type |-> "Finished", generation |-> worker.generation,
                      ok |-> TRUE])
    /\ worker' = None
    /\ UNCHANGED <<log, viewVars, navVars, rootVars, listenerVars, threads, requestVars,
                   reads, mailbox>>

(* publish_desktop_run_finished, with the summary of the terminal or, when *)
(* the run was refused or failed before its turn was stored, an error.     *)
worker_finish ==
    /\ worker # None /\ worker.at \in {"Launched", "Terminated"}
    /\ control' = Append(control, [type |-> "Finished", generation |-> worker.generation,
                      ok |-> worker.at = "Terminated"])
    /\ worker' = None
    /\ UNCHANGED <<log, viewVars, navVars, rootVars, listenerVars, threads, requestVars,
                   reads, mailbox>>

(* The storage refuses the terminal, and the turn is left to whoever       *)
(* recovers it, or it refuses the read that confirms it: the worker        *)
(* reports the error.                                                      *)
worker_unsettled ==
    /\ worker # None /\ worker.at \in {"Stored", "Started", "Working", "Terminated"}
    /\ control' = Append(control, [type |-> "Finished", generation |-> worker.generation,
                      ok |-> FALSE])
    /\ worker' = None
    /\ UNCHANGED <<log, viewVars, navVars, rootVars, listenerVars, threads, requestVars,
                   reads, mailbox>>

-----------------------------------------------------------------------------
(* Runs of other processes on the same sessions.                           *)
Elsewhere(s) ==
    ~(worker # None /\ worker.session = s /\ worker.at # "Launched"
        /\ worker.turn = TurnOf(log[s]))

outside_store(s) ==
    /\ CanStore(s)
    /\ Commit(s, NextTurn, "Stored")
    /\ UNCHANGED <<viewVars, navVars, rootVars, worker, listenerVars, threads, requestVars,
                   reads, mailbox, control>>

outside_update(s) ==
    /\ IsRunning(log[s]) /\ Elsewhere(s)
    /\ InputLeft
    /\ Commit(s, TurnOf(log[s]), "Update")
    /\ UNCHANGED <<viewVars, navVars, rootVars, worker, listenerVars, threads, requestVars,
                   reads, mailbox, control>>

outside_terminal(s) ==
    /\ IsRunning(log[s]) /\ Elsewhere(s)
    /\ Commit(s, TurnOf(log[s]), "Terminal")
    /\ UNCHANGED <<viewVars, navVars, rootVars, worker, listenerVars, threads, requestVars,
                   reads, mailbox, control>>

-----------------------------------------------------------------------------
(* A refresh or load thread: one read of the database, which may fail,     *)
(* then a send that waits for room in the mailbox.  What a thread reads    *)
(* once its request is superseded is never looked at and stands as Failed. *)
Awaited(r) ==
    IF r.type = "Loaded" THEN navigation = [id |-> r.id, session |-> r.session]
                         ELSE is_current(r)

read_session(r) ==
    /\ r.prefix = Unread
    /\ \E n \in {Failed} \cup {k \in {Len(log[r.session])} : Awaited(r)} :
          reads' = (reads \ {r}) \cup {[r EXCEPT !.prefix = n]}
    /\ UNCHANGED <<log, viewVars, navVars, rootVars, worker, listenerVars, threads,
                   requestVars, mailbox, control>>

send_read(r) ==
    /\ r.prefix # Unread
    /\ Len(mailbox) < MailboxCapacity
    /\ mailbox' = Append(mailbox, r)
    /\ reads' = reads \ {r}
    /\ UNCHANGED <<log, viewVars, navVars, rootVars, worker, listenerVars, threads,
                   requestVars, control>>

(* The listener thread.  It first delivers the latest event of its turn,   *)
(* then pages through what is committed after the page it found that event *)
(* in, one event at a time.  The wake-up of the event hub only shortens    *)
(* the 100 ms poll.  Cancellation is noticed while it waits.               *)
Cancelled(l) == ~(listener # None /\ listener.generation = l.generation)

latest_target_event(l) ==
    LET at == {p \in DOMAIN log[l.session] : log[l.session][p].turn = l.turn}
    IN  IF at = {} THEN 0 ELSE CHOOSE p \in at : \A q \in at : q <= p

Becomes(l, new) == threads' = (threads \ {l}) \cup new

listener_boot(l) ==
    /\ l.at = "Boot"
    /\ Becomes(l, {[l EXCEPT !.at = "First", !.cursor = Len(log[l.session]),
                             !.held = latest_target_event(l)]})
    /\ UNCHANGED <<log, viewVars, navVars, rootVars, worker, listenerVars, requestVars,
                   reads, mailbox, control>>

(* deliver_desktop_session_runtime_events for the event at position p: the *)
(* thread goes on as next, or returns once it has delivered a terminal.    *)
deliver_desktop_session_runtime_events(l, p, next) ==
    LET event == log[l.session][p]
    IN  IF event.turn # l.turn
          THEN Becomes(l, {next}) /\ UNCHANGED mailbox
          ELSE /\ Len(mailbox) < MailboxCapacity
               /\ mailbox' = Append(mailbox, [type |-> "Canonical",
                      generation |-> l.generation, session |-> l.session,
                      turn |-> l.turn, kind |-> event.kind])
               /\ Becomes(l, IF event.kind = "Terminal" THEN {} ELSE {next})

listener_first(l) ==
    /\ l.at = "First"
    /\ LET next == [l EXCEPT !.at = "Poll", !.held = 0]
       IN  IF l.held = 0
             THEN Becomes(l, {next}) /\ UNCHANGED mailbox
             ELSE deliver_desktop_session_runtime_events(l, l.held, next)
    /\ UNCHANGED <<log, viewVars, navVars, rootVars, worker, listenerVars, requestVars,
                   reads, control>>

(* Faulty: a page that does not fit in the mailbox is left behind.         *)
listener_poll_past_full(l) ==
    /\ l.at = "Poll"
    /\ l.cursor < Len(log[l.session])
    /\ LET next == [l EXCEPT !.cursor = @ + 1]
       IN  \/ deliver_desktop_session_runtime_events(l, l.cursor + 1, next)
           \/ /\ Len(mailbox) = MailboxCapacity
              /\ Becomes(l, {next})
              /\ UNCHANGED mailbox
    /\ UNCHANGED <<log, viewVars, navVars, rootVars, worker, listenerVars, requestVars,
                   reads, control>>

(* Faulty: an event is read only when another one follows it.              *)
listener_poll_behind(l) ==
    /\ l.at = "Poll"
    /\ l.cursor + 1 < Len(log[l.session])
    /\ deliver_desktop_session_runtime_events(l, l.cursor + 1, [l EXCEPT !.cursor = @ + 1])
    /\ UNCHANGED <<log, viewVars, navVars, rootVars, worker, listenerVars, requestVars,
                   reads, control>>

listener_poll(l) ==
    /\ l.at = "Poll"
    /\ l.cursor < Len(log[l.session])
    /\ deliver_desktop_session_runtime_events(l, l.cursor + 1, [l EXCEPT !.cursor = @ + 1])
    /\ UNCHANGED <<log, viewVars, navVars, rootVars, worker, listenerVars, requestVars,
                   reads, control>>

listener_cancelled(l) ==
    /\ Cancelled(l)
    /\ l.at = "Poll" \/ (l.at = "First" /\ Len(mailbox) = MailboxCapacity)
    /\ Becomes(l, {})
    /\ UNCHANGED <<log, viewVars, navVars, rootVars, worker, listenerVars, requestVars,
                   reads, mailbox, control>>

-----------------------------------------------------------------------------
(* drain_runtime_messages on the control queue.                            *)
owns(m) == root # None /\ root.generation = m.generation

SessionStarted(m) ==
    /\ m.type = "SessionStarted"
    /\ current' = m.session
    /\ run_status' = "Running"
    /\ expectation' = IF current = m.session THEN expectation ELSE initial_idle
    /\ UNCHANGED <<open, post_run, navVars, rootVars, listenerVars, threads, requestVars,
                   reads>>

(* The pending submission is committed, which shows the run as Running;    *)
(* the listener is attached at once, and a live refresh starts.            *)
UserTurnStored(m) ==
    /\ m.type = "UserTurnStored"
    /\ run_status' = "Running"
    /\ IF current = m.session
         THEN /\ reconcile_session_runtime_listener(m.session, m.turn)
              /\ begin_refresh(m.session, "Live")
         ELSE UNCHANGED <<listenerVars, threads, requestVars, reads>>
    /\ UNCHANGED <<current, open, expectation, post_run, navVars, rootVars>>

(* A terminal projects the expectation as Idle, after the same turn.       *)
apply_terminal_outcome_projection == [expectation EXCEPT !.active = FALSE]

settle_root_finished(m) ==
    /\ m.type = "Finished"
    /\ root' = None
    /\ run_status' = "Ended"
    /\ expectation' = IF m.ok THEN apply_terminal_outcome_projection ELSE expectation
    /\ stop_session_runtime_listener
    /\ post_run' = (m.ok \/ current # None)
    /\ IF current = None
         THEN UNCHANGED <<requestVars, reads>>
         ELSE begin_refresh(current, "Current")
    /\ UNCHANGED <<current, open, navVars, next_root>>

drain_control ==
    /\ control # <<>>
    /\ control' = Tail(control)
    /\ LET m == Head(control)
       IN  \/ /\ owns(m)
              /\ SessionStarted(m) \/ UserTurnStored(m) \/ settle_root_finished(m)
           \/ /\ ~owns(m)
              /\ UNCHANGED <<viewVars, navVars, rootVars, listenerVars, threads,
                             requestVars, reads>>
    /\ UNCHANGED <<log, worker, mailbox>>

-----------------------------------------------------------------------------
(* drain_runtime_messages on the runtime mailbox.                          *)
session_load_is_blocked_by_active_run == root # None \/ run_status = "Running"

(* Faulty: any listener of the session on show is listened to.             *)
listener_is_current_by_session(m) == current = m.session

listener_is_current(m) ==
    /\ listener # None
    /\ listener = [generation |-> m.generation, session |-> m.session, turn |-> m.turn]
    /\ current = m.session

CanonicalSessionEvent(m) ==
    /\ m.type = "Canonical" /\ listener_is_current(m)
    /\ IF m.kind = "Terminal"
         THEN /\ root' = IF root = None THEN None ELSE [root EXCEPT !.phase = "Finalizing"]
              /\ run_status' = "Ended"
              /\ expectation' = apply_terminal_outcome_projection
              /\ post_run' = TRUE
              /\ stop_session_runtime_listener
              /\ begin_refresh(current, "Current")
         ELSE /\ IF request = None
                   THEN begin_refresh(m.session, "Live")
                   ELSE UNCHANGED <<requestVars, reads>>
              /\ UNCHANGED <<root, run_status, expectation, post_run, listenerVars, threads>>
    /\ UNCHANGED <<current, open, navVars, next_root>>

(* The live refresh replaces the open session and the listener, and the    *)
(* expectation by that of a later turn; the status of the run is left to   *)
(* the listener.                                                           *)
LiveSessionRefreshed(m) ==
    /\ m.type = "Live" /\ Awaited(m)
    /\ request' = None
    /\ IF m.prefix # Failed /\ current = m.session
         THEN LET view == Merged(m.session, m.prefix)
                  loaded == ExpectationOf(Prefix(view.session, view.prefix))
              IN  /\ open' = view
                  /\ expectation' = IF loaded.turn > expectation.turn THEN loaded ELSE expectation
                  /\ reconcile_runtime_listener_with_open_session(view)
         ELSE UNCHANGED <<open, expectation, listenerVars, threads>>
    /\ UNCHANGED <<current, run_status, post_run, navVars, rootVars, next_request, reads>>

(* load_open_session_preserving_history keeps run_status when the session  *)
(* on show is the one it already has open, and loads it otherwise.         *)
CurrentSessionRefreshed(m) ==
    /\ m.type = "Current" /\ Awaited(m)
    /\ request' = None
    /\ IF current = m.session
         THEN /\ post_run' = FALSE
              /\ IF m.prefix = Failed \/ session_load_is_blocked_by_active_run
                   THEN UNCHANGED <<open, run_status, expectation, listenerVars, threads>>
                   ELSE LET view == Merged(m.session, m.prefix)
                        IN  /\ open' = view
                            /\ run_status' =
                                  IF open # None /\ open.session = m.session
                                    THEN run_status
                                    ELSE StatusOf(Prefix(m.session, m.prefix))
                            /\ expectation' = ExpectationOf(Prefix(view.session, view.prefix))
                            /\ reconcile_runtime_listener_with_open_session(view)
         ELSE UNCHANGED <<open, run_status, expectation, post_run, listenerVars, threads>>
    /\ UNCHANGED <<current, navVars, rootVars, next_request, reads>>

apply_session_loaded_message(m) ==
    /\ m.type = "Loaded" /\ Awaited(m)
    /\ navigation' = None
    /\ IF m.prefix = Failed \/ session_load_is_blocked_by_active_run
         THEN UNCHANGED <<current, open, run_status, expectation, listenerVars, threads>>
         ELSE LET view == [session |-> m.session, prefix |-> m.prefix]
              IN  /\ current' = m.session
                  /\ open' = view
                  /\ run_status' = StatusOf(Prefix(m.session, m.prefix))
                  /\ expectation' = ExpectationOf(Prefix(m.session, m.prefix))
                  /\ reconcile_runtime_listener_with_open_session(view)
    /\ UNCHANGED <<post_run, navigations, rootVars, requestVars, reads>>

Superseded(m) ==
    \/ m.type = "Canonical" /\ ~listener_is_current(m)
    \/ m.type # "Canonical" /\ ~Awaited(m)

drain_runtime ==
    /\ control = <<>>
    /\ mailbox # <<>>
    /\ mailbox' = Tail(mailbox)
    /\ LET m == Head(mailbox)
       IN  \/ CanonicalSessionEvent(m)
           \/ LiveSessionRefreshed(m)
           \/ CurrentSessionRefreshed(m)
           \/ apply_session_loaded_message(m)
           \/ /\ Superseded(m)
              /\ UNCHANGED <<viewVars, navVars, rootVars, listenerVars, threads,
                             requestVars, reads>>
    /\ UNCHANGED <<log, worker, control>>

-----------------------------------------------------------------------------
Next ==
    \/ \E s \in Session :
          \/ select_session(s) \/ launch_run(s)
          \/ outside_store(s) \/ outside_update(s) \/ outside_terminal(s)
    \/ worker_store \/ worker_start \/ worker_announce \/ worker_update
    \/ worker_terminal \/ worker_finish \/ worker_unsettled
    \/ \E r \in reads : read_session(r) \/ send_read(r)
    \/ \E l \in threads : \/ listener_boot(l) \/ listener_first(l)
                          \/ listener_poll(l) \/ listener_cancelled(l)
    \/ drain_control \/ drain_runtime

Spec == Init /\ [][Next]_vars

(* The UI thread drains, every thread goes on, and so does a worker, which *)
(* the runtime polls, outside its agent loop: the loop need not end.       *)
(* Nothing is assumed of the user or of other processes.                   *)
Work == worker_store \/ worker_start \/ worker_announce \/ worker_finish

InAgentLoop == worker # None /\ worker.at = "Working"

ReadStep == \E r \in reads : read_session(r) \/ send_read(r)

ListenerStep ==
    \E l \in threads : /\ ~Cancelled(l)
                       /\ listener_boot(l) \/ listener_first(l) \/ listener_poll(l)

Drain == drain_control \/ drain_runtime

FairSpec ==
    /\ Spec
    /\ WF_vars(Drain)
    /\ WF_vars(Work)
    /\ WF_vars(ReadStep)
    /\ WF_vars(ListenerStep)

-----------------------------------------------------------------------------
(* What the cursor comments at app.rs:20243 promise: as long as a listener *)
(* is in place, the terminal of its turn is still ahead of its thread's    *)
(* cursor, held for delivery, or waiting in the mailbox.                   *)
TerminalNotSkipped ==
    listener # None =>
        \/ \E l \in threads :
              /\ l.generation = listener.generation
              /\ \A p \in 1..l.cursor :
                    log[l.session][p] = [turn |-> l.turn, kind |-> "Terminal"]
                        => l.at = "Boot" \/ l.held = p
        \/ \E p \in DOMAIN mailbox :
              /\ mailbox[p].type = "Canonical" /\ mailbox[p].kind = "Terminal"
              /\ mailbox[p].generation = listener.generation

(* The Desktop reports the end of a run it did not launch only when the    *)
(* turn it shows as active has its terminal: an event of an earlier        *)
(* listener, still in the mailbox, ends nothing.                           *)
EndsOnlyEndedTurn ==
    [][run_status = "Running" /\ run_status' = "Ended" /\ root = None
          => Ended(current, TurnOf(Prefix(open.session, open.prefix)))]_vars

(* Unless its agent loop is open for ever, a run launched from the Desktop *)
(* is settled, wherever it was refused or failed and whatever its listener *)
(* and refreshes did: its worker reports on the control queue.             *)
LaunchedRunSettles ==
    []<>~InAgentLoop => ((root # None) ~> (root = None))

(* A listener whose turn has ended is retired, however often the mailbox   *)
(* was full.                                                               *)
ListensToEnded == listener # None /\ Ended(listener.session, listener.turn)

ListenerRetires == ListensToEnded ~> ~ListensToEnded

(* "Stop request accepted; waiting for the matching terminal event" and    *)
(* the replay of "any terminal that did not fit": once the turn on show    *)
(* has its terminal, the Desktop stops showing it as Running.              *)
RunningEnds ==
    (run_status = "Running" /\ ~IsRunning(log[current])) ~> (run_status # "Running")
=============================================================================
