----------------------------- MODULE LocalTasks -----------------------------
(***************************************************************************)
(* The dedicated thread that runs local futures                            *)
(* (src/src/runtime/local_task_executor.rs) and the ownership of a worker  *)
(* by whoever spawned it (src/src/runtime/task_owner.rs).                  *)
(*                                                                         *)
(* A caller on another thread queues a factory and waits, for a limited    *)
(* time, for the handle of the worker made from it.  The executor thread   *)
(* makes the worker first and hands the handle over afterwards, so the     *)
(* caller may have gone by then.  Dropping an owned handle aborts the      *)
(* worker; dropping a bare handle detaches it.                             *)
(***************************************************************************)
EXTENDS Naturals, Sequences

CONSTANTS
    Call,           \* calls of spawn, each made at most once
    Capacity,       \* LOCAL_TASK_COMMAND_CAPACITY
    NoCall          \* the executor is between two commands

ASSUME CapacityAssumption == Capacity \in Nat
ASSUME NoCallAssumption == NoCall \notin Call

VARIABLES
    call,       \* call[c]: the place of c in spawn, then the fate of its OwnedTaskHandle
    commands,   \* the command queue
    serving,    \* the command whose worker is made and not handed over
    reply,      \* reply[c]: the handle lies in c's response channel
    worker,     \* worker[c]: the worker of c
    shares,     \* shares[c]: the worker of c captured a clone of the executor
    app,        \* the holder of the executor's first clone
    shutdown,   \* the shutdown token is cancelled
    thread      \* the executor thread

vars == <<call, commands, serving, reply, worker, shares, app, shutdown, thread>>

Waiting == {"Queued", "Expired"}

Init ==
    /\ call = [c \in Call |-> "New"]
    /\ commands = <<>>
    /\ serving = NoCall
    /\ reply = [c \in Call |-> FALSE]
    /\ worker = [c \in Call |-> "None"]
    /\ shares = [c \in Call |-> FALSE]
    /\ app = "Live"
    /\ shutdown = FALSE
    /\ thread = "Running"

-----------------------------------------------------------------------------
(* spawn from another thread: try_send, then recv_timeout.                 *)
spawn(c) ==
    /\ app = "Live"
    /\ call[c] = "New"
    /\ \/ /\ Len(commands) < Capacity
          /\ commands' = Append(commands, c)
          /\ call' = [call EXCEPT ![c] = "Queued"]
       \/ /\ Len(commands) >= Capacity
          /\ call' = [call EXCEPT ![c] = "Refused"]
          /\ UNCHANGED commands
    /\ UNCHANGED <<serving, reply, worker, shares, app, shutdown, thread>>

(* The executor thread does one thing at a time: it takes a command, or    *)
(* polls a worker, or stops.                                               *)
AtLoop == thread = "Running" /\ serving = NoCall

MakeWorker(c) ==
    /\ worker' = [worker EXCEPT ![c] = "Running"]
    /\ \E captured \in BOOLEAN : shares' = [shares EXCEPT ![c] = captured]

(* spawn from a worker of this executor that has captured a clone of it:   *)
(* no queue, no wait.                                                      *)
spawn_nested(w, c) ==
    /\ AtLoop
    /\ worker[w] = "Running" /\ shares[w]
    /\ call[c] = "New"
    /\ MakeWorker(c)
    /\ call' = [call EXCEPT ![c] = "Owned"]
    /\ UNCHANGED <<commands, serving, reply, app, shutdown, thread>>

(* The caller takes the handle and becomes the owner of the worker.        *)
accept(c) ==
    /\ call[c] = "Queued"
    /\ reply[c]
    /\ reply' = [reply EXCEPT ![c] = FALSE]
    /\ call' = [call EXCEPT ![c] = "Owned"]
    /\ UNCHANGED <<commands, serving, worker, shares, app, shutdown, thread>>

(* recv_timeout finds the channel empty and the deadline passed; the       *)
(* receiver lives on until spawn returns its error.                        *)
expire(c) ==
    /\ call[c] = "Queued"
    /\ ~reply[c]
    /\ call' = [call EXCEPT ![c] = "Expired"]
    /\ UNCHANGED <<commands, serving, reply, worker, shares, app, shutdown, thread>>

(* A handle that has arrived since is dropped with the channel, which      *)
(* detaches its worker.                                                    *)
drop_receiver(c) ==
    /\ call[c] = "Expired"
    /\ call' = [call EXCEPT ![c] = "Failed"]
    /\ reply' = [reply EXCEPT ![c] = FALSE]
    /\ UNCHANGED <<commands, serving, worker, shares, app, shutdown, thread>>

-----------------------------------------------------------------------------
(* The executor thread: a biased select between shutdown and commands.     *)
receive ==
    /\ AtLoop
    /\ ~shutdown
    /\ commands # <<>>
    /\ serving' = Head(commands)
    /\ commands' = Tail(commands)
    /\ MakeWorker(Head(commands))
    /\ UNCHANGED <<call, reply, app, shutdown, thread>>

(* Aborting a task that has ended does nothing.                            *)
Abort(c) == worker' = [worker EXCEPT ![c] = IF @ = "Running" THEN "Aborted" ELSE @]

(* Faulty: the returned handle is dropped, which detaches the worker.      *)
deliver_or_detach ==
    /\ serving # NoCall
    /\ reply' = [reply EXCEPT ![serving] = call[serving] \in Waiting]
    /\ serving' = NoCall
    /\ UNCHANGED <<call, commands, worker, shares, app, shutdown, thread>>

(* Faulty: the worker is aborted unless the caller has the handle already. *)
deliver_to_owner ==
    /\ serving # NoCall
    /\ reply' = [reply EXCEPT ![serving] = call[serving] \in Waiting]
    /\ Abort(serving)
    /\ serving' = NoCall
    /\ UNCHANGED <<call, commands, shares, app, shutdown, thread>>

(* The send fails exactly when the receiver is gone.                       *)
deliver_spawn_handle ==
    /\ serving # NoCall
    /\ \/ /\ call[serving] \in Waiting
          /\ reply' = [reply EXCEPT ![serving] = TRUE]
          /\ UNCHANGED worker
       \/ /\ call[serving] \notin Waiting
          /\ Abort(serving)
          /\ UNCHANGED reply
    /\ serving' = NoCall
    /\ UNCHANGED <<call, commands, shares, app, shutdown, thread>>

(* Faulty: the thread is joined whoever drops the last clone.              *)
join_always(on_thread) == thread' = IF on_thread THEN "JoiningItself" ELSE thread

(* The executor's own thread is not joined.                                *)
join(on_thread) == UNCHANGED thread

(* A worker ends by itself or is dropped at its next poll after an abort;  *)
(* with the last clone it drops the executor (LocalTaskExecutorInner).     *)
end_worker(c) ==
    /\ AtLoop
    /\ worker[c] \in {"Running", "Aborted"}
    /\ worker' = [worker EXCEPT ![c] = "Ended"]
    /\ shares' = [shares EXCEPT ![c] = FALSE]
    /\ IF shares[c] /\ app = "Gone" /\ \A d \in Call \ {c} : ~shares[d]
         THEN shutdown' = TRUE /\ join(TRUE)
         ELSE UNCHANGED <<shutdown, thread>>
    /\ UNCHANGED <<call, commands, serving, reply, app>>

(* The loop ends; the LocalSet drops every worker and the queue its        *)
(* commands.                                                               *)
stop_thread ==
    /\ AtLoop
    /\ shutdown
    /\ thread' = "Stopped"
    /\ worker' = [c \in Call |-> IF worker[c] = "None" THEN "None" ELSE "Ended"]
    /\ shares' = [c \in Call |-> FALSE]
    /\ commands' = <<>>
    /\ UNCHANGED <<call, serving, reply, app, shutdown>>

-----------------------------------------------------------------------------
(* OwnedTaskHandle: drop, abort and abort_and_wait abort the worker;       *)
(* detach releases one that has finished.                                  *)
drop_owner(c) ==
    /\ call[c] = "Owned"
    /\ call' = [call EXCEPT ![c] = "Dropped"]
    /\ Abort(c)
    /\ UNCHANGED <<commands, serving, reply, shares, app, shutdown, thread>>

detach(c) ==
    /\ call[c] = "Owned"
    /\ worker[c] = "Ended"
    /\ call' = [call EXCEPT ![c] = "Detached"]
    /\ UNCHANGED <<commands, serving, reply, worker, shares, app, shutdown, thread>>

(* The first clone is dropped, not during a spawn that uses it.  The last  *)
(* clone shuts the thread down and waits for it.                           *)
drop_executor ==
    /\ app = "Live"
    /\ \A c \in Call : call[c] \notin Waiting
    /\ \/ /\ \E c \in Call : shares[c]
          /\ app' = "Gone"
          /\ UNCHANGED shutdown
       \/ /\ \A c \in Call : ~shares[c]
          /\ app' = "Joining"
          /\ shutdown' = TRUE
    /\ UNCHANGED <<call, commands, serving, reply, worker, shares, thread>>

joined ==
    /\ app = "Joining"
    /\ thread = "Stopped"
    /\ app' = "Gone"
    /\ UNCHANGED <<call, commands, serving, reply, worker, shares, shutdown, thread>>

CallStep(c) == spawn(c) \/ accept(c) \/ expire(c) \/ drop_receiver(c) \/ drop_owner(c) \/ detach(c)

Next ==
    \/ \E c \in Call : CallStep(c) \/ end_worker(c)
    \/ \E w, c \in Call : spawn_nested(w, c)
    \/ receive \/ deliver_spawn_handle \/ stop_thread
    \/ drop_executor \/ joined

Spec == Init /\ [][Next]_vars

(* The thread runs and polls an aborted worker, a caller past its deadline *)
(* returns.  Nothing makes a worker end that is not aborted.               *)
end_aborted(c) == worker[c] = "Aborted" /\ end_worker(c)

Fairness ==
    /\ WF_vars(receive) /\ WF_vars(deliver_spawn_handle) /\ WF_vars(stop_thread)
    /\ \A c \in Call : WF_vars(end_aborted(c)) /\ WF_vars(accept(c)) /\ WF_vars(drop_receiver(c))
    /\ WF_vars(joined)

FairSpec == Spec /\ Fairness

-----------------------------------------------------------------------------
(* Properties *)

(* The two ends of the handover agree: the executor never aborts a worker  *)
(* whose handle the caller has or will take, and a call that was refused   *)
(* never gets a worker.                                                    *)
HandoverAgrees ==
    \A c \in Call : /\ call[c] = "Owned" => worker[c] \in {"Running", "Ended"}
                    /\ call[c] = "Queued" /\ reply[c] => worker[c] \in {"Running", "Ended"}
                    /\ call[c] = "Refused" => worker[c] = "None"

(* A worker made for a caller that has already given up does not outlive   *)
(* its handover.                                                           *)
LateWorkerEnds ==
    \A c \in Call : (serving = c /\ call[c] = "Failed") ~> worker[c] = "Ended"

(* Dropping the last clone of the executor ends every worker, unowned ones *)
(* too, and lets the dropping thread go on, also when the last clone was   *)
(* captured by a worker.                                                   *)
ShutdownEndsWorkers ==
    shutdown ~> (app = "Gone" /\ \A c \in Call : worker[c] \in {"None", "Ended"})
=============================================================================
