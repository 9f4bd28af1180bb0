-------------------------- MODULE LocalTasksProofs --------------------------
(***************************************************************************)
(* Proofs about LocalTasks: the handover of a worker's handle agrees at    *)
(* both of its ends, for any number of calls and any capacity.             *)
(***************************************************************************)
EXTENDS LocalTasks, TLAPS

(* A call that has sent a command and has no handle yet.                   *)
Sent == {"Queued", "Expired", "Failed"}

(* Every variable has its type.                                            *)
TypeOK ==
    /\ call \in [Call -> {"New", "Refused", "Owned", "Dropped", "Detached"} \cup Sent]
    /\ commands \in Seq(Call)
    /\ serving \in Call \cup {NoCall}
    /\ reply \in [Call -> BOOLEAN]
    /\ worker \in [Call -> {"None", "Running", "Aborted", "Ended"}]
    /\ shares \in [Call -> BOOLEAN]
    /\ app \in {"Live", "Joining", "Gone"}
    /\ shutdown \in BOOLEAN
    /\ thread \in {"Running", "Stopped"}

(* A command in the queue is a sent call without a worker, queued once.    *)
QueuedOnce ==
    /\ \A i \in 1 .. Len(commands) :
          call[commands[i]] \in Sent /\ worker[commands[i]] = "None"
    /\ \A i, j \in 1 .. Len(commands) : commands[i] = commands[j] => i = j

(* The worker that is being handed over runs and its handle is nowhere     *)
(* else.                                                                   *)
ServedOnce ==
    serving # NoCall =>
        call[serving] \in Sent /\ worker[serving] = "Running" /\ ~reply[serving]

(* What the place of a call says of its worker: no worker before it is     *)
(* sent, one whoever holds its handle, and an aborted one only behind a    *)
(* call that has given up or an owner that has let go.                     *)
PlaceAgrees(c) ==
    /\ call[c] \in {"New", "Refused"} => worker[c] = "None"
    /\ call[c] \in {"Owned", "Dropped", "Detached"} \/ reply[c] => worker[c] # "None"
    /\ reply[c] => call[c] \in Waiting
    /\ worker[c] = "Aborted" => call[c] \in {"Failed", "Dropped"}

PlacesAgree == \A c \in Call : PlaceAgrees(c)

IInv == TypeOK /\ QueuedOnce /\ ServedOnce /\ PlacesAgree
-----------------------------------------------------------------------------
LEMMA IInvInit == Init => IInv
<1>. SUFFICES ASSUME Init PROVE IInv
  OBVIOUS
<1>1. commands \in Seq(Call)
  BY DEF Init
<1>2. TypeOK
  BY <1>1 DEF Init, TypeOK, Sent
<1>3. ServedOnce
  BY DEF Init, ServedOnce
<1>4. QueuedOnce
  BY DEF Init, QueuedOnce
<1>5. PlacesAgree
  BY DEF Init, PlacesAgree, PlaceAgrees
<1>. QED
  BY <1>2, <1>3, <1>4, <1>5 DEF IInv

(* What a step that neither queues nor serves has to show.                 *)
LEMMA QuietStep ==
    ASSUME IInv, TypeOK', UNCHANGED <<commands, serving>>,
           \A c \in Call : call[c] \in Sent /\ worker[c] = "None" =>
               call'[c] \in Sent /\ worker'[c] = "None",
           serving # NoCall =>
               call'[serving] \in Sent /\ worker'[serving] = "Running" /\ ~reply'[serving],
           PlacesAgree'
    PROVE  IInv'
<1>1. \A i \in 1 .. Len(commands) : commands[i] \in Call
  BY DEF IInv, TypeOK
<1>2. QueuedOnce'
  BY <1>1 DEF IInv, QueuedOnce
<1>3. ServedOnce'
  BY DEF ServedOnce
<1>. QED
  BY <1>2, <1>3 DEF IInv

LEMMA StepCall ==
    ASSUME IInv, NEW c \in Call, CallStep(c)
    PROVE  IInv'
<1>. USE DEF Sent, Waiting
<1>q. serving \in Call \/ serving = NoCall
  BY DEF IInv, TypeOK
<1>1. CASE spawn(c) /\ UNCHANGED commands
  <2>1. TypeOK'
    BY <1>1 DEF spawn, IInv, TypeOK
  <2>2. PlacesAgree'
    BY <1>1 DEF spawn, IInv, TypeOK, PlacesAgree, PlaceAgrees
  <2>. QED
    BY <1>1, <1>q, NoCallAssumption, <2>1, <2>2, QuietStep DEF spawn, IInv, TypeOK, ServedOnce
<1>2. CASE spawn(c) /\ ~UNCHANGED commands
  <2>1. /\ call[c] = "New"
        /\ commands' = Append(commands, c)
        /\ call' = [call EXCEPT ![c] = "Queued"]
        /\ UNCHANGED <<serving, reply, worker, shares, app, shutdown, thread>>
    BY <1>2 DEF spawn
  <2>2. TypeOK'
    BY <2>1 DEF IInv, TypeOK
  <2>3. PlacesAgree'
    BY <2>1 DEF IInv, TypeOK, PlacesAgree, PlaceAgrees
  <2>4. ServedOnce'
    BY <2>1, <1>q DEF IInv, TypeOK, ServedOnce
  <2>5. worker[c] = "None"
    BY <2>1 DEF IInv, PlacesAgree, PlaceAgrees
  <2>6. \A i \in 1 .. Len(commands) : commands[i] \in Call /\ commands[i] # c
    BY <2>1 DEF IInv, TypeOK, QueuedOnce
  <2>7. /\ Len(commands') = Len(commands) + 1
        /\ \A i \in 1 .. Len(commands) : commands'[i] = commands[i]
        /\ commands'[Len(commands) + 1] = c
        /\ Len(commands) \in Nat
    BY <2>1 DEF IInv, TypeOK
  <2>8. ASSUME NEW i \in 1 .. Len(commands')
        PROVE  call'[commands'[i]] \in Sent /\ worker'[commands'[i]] = "None"
    BY <2>1, <2>5, <2>6, <2>7 DEF IInv, TypeOK, QueuedOnce
  <2>9. ASSUME NEW i \in 1 .. Len(commands'), NEW j \in 1 .. Len(commands'),
               commands'[i] = commands'[j]
        PROVE  i = j
    BY <2>6, <2>7, <2>9 DEF IInv, QueuedOnce
  <2>. QED
    BY <2>2, <2>3, <2>4, <2>8, <2>9 DEF IInv, QueuedOnce
<1>3. CASE accept(c)
  <2>1. TypeOK'
    BY <1>3 DEF accept, IInv, TypeOK
  <2>2. PlacesAgree'
    BY <1>3 DEF accept, IInv, TypeOK, PlacesAgree, PlaceAgrees
  <2>3. serving # c /\ worker[c] # "None"
    BY <1>3, NoCallAssumption DEF accept, IInv, TypeOK, ServedOnce, PlacesAgree, PlaceAgrees
  <2>. QED
    BY <1>3, <1>q, NoCallAssumption, <2>1, <2>2, <2>3, QuietStep DEF accept, IInv, TypeOK, ServedOnce
<1>4. CASE expire(c)
  <2>1. TypeOK'
    BY <1>4 DEF expire, IInv, TypeOK
  <2>2. PlacesAgree'
    BY <1>4 DEF expire, IInv, TypeOK, PlacesAgree, PlaceAgrees
  <2>. QED
    BY <1>4, <1>q, NoCallAssumption, <2>1, <2>2, QuietStep DEF expire, IInv, TypeOK, ServedOnce
<1>5. CASE drop_receiver(c)
  <2>1. TypeOK'
    BY <1>5 DEF drop_receiver, IInv, TypeOK
  <2>2. PlacesAgree'
    BY <1>5 DEF drop_receiver, IInv, TypeOK, PlacesAgree, PlaceAgrees
  <2>. QED
    BY <1>5, <1>q, NoCallAssumption, <2>1, <2>2, QuietStep DEF drop_receiver, IInv, TypeOK, ServedOnce
<1>6. CASE drop_owner(c)
  <2>1. TypeOK'
    BY <1>6 DEF drop_owner, Abort, IInv, TypeOK
  <2>2. PlacesAgree'
    BY <1>6 DEF drop_owner, Abort, IInv, TypeOK, PlacesAgree, PlaceAgrees
  <2>3. serving # c
    BY <1>6, NoCallAssumption DEF drop_owner, IInv, ServedOnce
  <2>. QED
    BY <1>6, <1>q, NoCallAssumption, <2>1, <2>2, <2>3, QuietStep DEF drop_owner, Abort, IInv, TypeOK, ServedOnce
<1>7. CASE detach(c)
  <2>1. TypeOK'
    BY <1>7 DEF detach, IInv, TypeOK
  <2>2. PlacesAgree'
    BY <1>7 DEF detach, IInv, TypeOK, PlacesAgree, PlaceAgrees
  <2>3. serving # c
    BY <1>7, NoCallAssumption DEF detach, IInv, ServedOnce
  <2>. QED
    BY <1>7, <1>q, NoCallAssumption, <2>1, <2>2, <2>3, QuietStep DEF detach, IInv, TypeOK, ServedOnce
<1>. QED
  BY <1>1, <1>2, <1>3, <1>4, <1>5, <1>6, <1>7 DEF CallStep

LEMMA StepNested ==
    ASSUME IInv, NEW w \in Call, NEW c \in Call, spawn_nested(w, c)
    PROVE  IInv'
<1>. USE DEF Sent, Waiting
<1>1. TypeOK'
  BY DEF spawn_nested, MakeWorker, IInv, TypeOK
<1>2. PlacesAgree'
  BY DEF spawn_nested, MakeWorker, IInv, TypeOK, PlacesAgree, PlaceAgrees
<1>. QED
  BY <1>1, <1>2, QuietStep DEF spawn_nested, MakeWorker, AtLoop, IInv, TypeOK

LEMMA StepEnd ==
    ASSUME IInv, NEW c \in Call, end_worker(c)
    PROVE  IInv'
<1>. USE DEF Sent, Waiting
<1>1. TypeOK'
  BY DEF end_worker, join, IInv, TypeOK
<1>2. PlacesAgree'
  BY DEF end_worker, IInv, TypeOK, PlacesAgree, PlaceAgrees
<1>. QED
  BY <1>1, <1>2, QuietStep DEF end_worker, AtLoop, IInv, TypeOK

(* The head of the queue gets its worker; it is not queued a second time.  *)
LEMMA StepReceive ==
    ASSUME IInv, receive
    PROVE  IInv'
<1>. USE DEF Sent, Waiting
<1> DEFINE c == Head(commands)
<1>1. /\ Len(commands) \in Nat \ {0}
      /\ c = commands[1] /\ c \in Call
      /\ Len(commands') = Len(commands) - 1
      /\ \A i \in 1 .. Len(commands') : commands'[i] = commands[i + 1]
      /\ commands' \in Seq(Call)
  BY DEF receive, IInv, TypeOK
<1>2. /\ serving' = c /\ serving = NoCall
      /\ worker' = [worker EXCEPT ![c] = "Running"]
      /\ \E captured \in BOOLEAN : shares' = [shares EXCEPT ![c] = captured]
      /\ UNCHANGED <<call, reply, app, shutdown, thread>>
  BY DEF receive, MakeWorker, AtLoop
<1>3. call[c] \in Sent /\ worker[c] = "None"
  BY <1>1 DEF IInv, QueuedOnce
<1> HIDE DEF c
<1>4. TypeOK'
  BY <1>1, <1>2 DEF IInv, TypeOK
<1>5. ~reply[c]
  BY <1>1, <1>3 DEF IInv, PlacesAgree, PlaceAgrees, TypeOK
<1>6. ServedOnce'
  BY <1>1, <1>2, <1>3, <1>5 DEF ServedOnce, IInv, TypeOK
<1>7. PlacesAgree'
  BY <1>1, <1>2, <1>3, <1>5 DEF IInv, TypeOK, PlacesAgree, PlaceAgrees
<1>8. ASSUME NEW i \in 1 .. Len(commands')
      PROVE  call'[commands'[i]] \in Sent /\ worker'[commands'[i]] = "None"
  <2>1. i + 1 \in 1 .. Len(commands) /\ 1 \in 1 .. Len(commands) /\ i + 1 # 1
    BY <1>1
  <2>2. commands[i + 1] \in Call /\ commands[i + 1] # c
    BY <1>1, <2>1 DEF IInv, TypeOK, QueuedOnce
  <2>. QED
    BY <1>1, <1>2, <2>1, <2>2 DEF IInv, TypeOK, QueuedOnce
<1>9. ASSUME NEW i \in 1 .. Len(commands'), NEW j \in 1 .. Len(commands'),
             commands'[i] = commands'[j]
      PROVE  i = j
  <2>1. i + 1 \in 1 .. Len(commands) /\ j + 1 \in 1 .. Len(commands)
    BY <1>1
  <2>2. i + 1 = j + 1
    BY <1>1, <1>9, <2>1 DEF IInv, QueuedOnce
  <2>. QED
    BY <2>2
<1>. QED
  BY <1>4, <1>6, <1>7, <1>8, <1>9 DEF IInv, QueuedOnce

LEMMA StepDeliver ==
    ASSUME IInv, deliver_spawn_handle
    PROVE  IInv'
<1>. USE DEF Sent, Waiting
<1>1. serving \in Call /\ serving' = NoCall
  BY DEF deliver_spawn_handle, IInv, TypeOK
<1>2. TypeOK'
  BY <1>1 DEF deliver_spawn_handle, Abort, IInv, TypeOK
<1>3. PlacesAgree'
  BY <1>1 DEF deliver_spawn_handle, Abort, IInv, TypeOK, PlacesAgree, PlaceAgrees, ServedOnce
<1>4. ServedOnce'
  BY <1>1 DEF ServedOnce
<1>5. \A i \in 1 .. Len(commands) : commands[i] \in Call /\ commands[i] # serving
  BY <1>1, NoCallAssumption DEF IInv, TypeOK, QueuedOnce, ServedOnce
<1>6. QueuedOnce'
  BY <1>1, <1>5 DEF deliver_spawn_handle, Abort, IInv, TypeOK, QueuedOnce
<1>. QED
  BY <1>2, <1>3, <1>4, <1>6 DEF IInv

LEMMA StepThread ==
    ASSUME IInv, stop_thread \/ drop_executor \/ joined \/ UNCHANGED vars
    PROVE  IInv'
<1>. USE DEF Sent, Waiting
<1>1. CASE stop_thread
  <2>1. TypeOK'
    BY <1>1 DEF stop_thread, IInv, TypeOK
  <2>2. PlacesAgree'
    BY <1>1 DEF stop_thread, IInv, TypeOK, PlacesAgree, PlaceAgrees
  <2>3. QueuedOnce' /\ ServedOnce'
    BY <1>1 DEF stop_thread, AtLoop, QueuedOnce, ServedOnce
  <2>. QED
    BY <2>1, <2>2, <2>3 DEF IInv
<1>2. CASE drop_executor \/ joined \/ UNCHANGED vars
  <2>1. UNCHANGED <<call, commands, serving, reply, worker, shares, thread>>
    BY <1>2 DEF drop_executor, joined, vars
  <2>2. TypeOK'
    BY <1>2 DEF drop_executor, joined, vars, IInv, TypeOK
  <2>. QED
    BY <2>1, <2>2 DEF IInv, QueuedOnce, ServedOnce, PlacesAgree, PlaceAgrees
<1>. QED
  BY <1>1, <1>2

(* The inductive invariant of the local task executor.                     *)
THEOREM Invariant == Spec => []IInv
<1>1. IInv /\ [Next]_vars => IInv'
  <2>. SUFFICES ASSUME IInv, [Next]_vars PROVE IInv'
    OBVIOUS
  <2>. QED
    BY StepCall, StepNested, StepEnd, StepReceive, StepDeliver, StepThread DEF Next
<1>. QED
  BY IInvInit, <1>1, PTL DEF Spec

(* The executor never aborts a worker whose handle its caller has or will  *)
(* take, and a refused call never gets a worker, however deliveries,       *)
(* expiries, drops and the end of the thread interleave.                   *)
THEOREM Handover == Spec => []HandoverAgrees
<1>1. IInv => HandoverAgrees
  BY DEF IInv, TypeOK, PlacesAgree, PlaceAgrees, HandoverAgrees, Sent, Waiting
<1>. QED
  BY <1>1, Invariant, PTL

(* An aborted worker is nobody's: the caller gave up before the handover,  *)
(* or the owner dropped its handle.                                        *)
AbortedIsAbandoned ==
    \A c \in Call : worker[c] = "Aborted" => call[c] \in {"Failed", "Dropped"} /\ ~reply[c]

(* No worker is aborted while a caller still waits for it or holds it.     *)
THEOREM AbortedAbandoned == Spec => []AbortedIsAbandoned
<1>1. IInv => AbortedIsAbandoned
  BY DEF IInv, TypeOK, PlacesAgree, PlaceAgrees, AbortedIsAbandoned, Sent, Waiting
<1>. QED
  BY <1>1, Invariant, PTL
=============================================================================
