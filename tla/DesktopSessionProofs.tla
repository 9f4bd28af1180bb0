------------------------ MODULE DesktopSessionProofs ------------------------
(***************************************************************************)
(* Proofs about DesktopSession for any set of sessions, any capacity of    *)
(* the mailbox and any number of events, launches and navigations: the     *)
(* listener never loses the terminal of its turn, and the Desktop shows    *)
(* the end of a run only when the turn it shows has ended.                 *)
(***************************************************************************)
EXTENDS DesktopSession, FiniteSetTheorems, WellFoundedInduction, TLAPS

-----------------------------------------------------------------------------
(* The committed events.                                                   *)

Event == [turn : Nat, kind : {"Stored", "Update", "Terminal"}]

Positions(s) == 1 .. Len(log[s])

Within(q) == {q[p] : p \in 1 .. Len(q)}

(* Turn ids are used once and nothing is committed to a turn after its     *)
(* terminal.                                                               *)
Logged ==
    /\ log \in [Session -> Seq(Event)]
    /\ IsFiniteSet(Committed("Stored"))
    /\ \A s \in Session : \A p \in Positions(s) : log[s][p].turn <= Count("Stored")
    /\ \A s \in Session : \A p, q \in Positions(s) :
          p < q /\ log[s][p].kind = "Terminal" => log[s][q].turn # log[s][p].turn

-----------------------------------------------------------------------------
(* What travels and what waits.                                            *)

Thread == [generation : Nat, session : Session, turn : Nat, at : {"Boot", "First", "Poll"},
           cursor : Nat, held : Nat]

Canonical == [type : {"Canonical"}, generation : Nat, session : Session, turn : Nat,
              kind : {"Stored", "Update", "Terminal"}]

Read == [type : {"Live", "Current", "Loaded"}, id : Nat, session : Session, prefix : Int]

Announcement ==
    [type : {"SessionStarted"}, generation : Nat, session : Session]
    \cup [type : {"UserTurnStored"}, generation : Nat, session : Session, turn : Nat]
    \cup [type : {"Finished"}, generation : Nat, ok : BOOLEAN]

Expectation == [turn : Nat, active : BOOLEAN]

Working == [generation : Nat, session : Session, turn : Nat,
            at : {"Launched", "Stored", "Started", "Working", "Terminated"}]

Typed ==
    /\ current \in Session \cup {None}
    /\ expectation \in Expectation
    /\ navigations \in Nat /\ next_root \in Nat /\ next_listener \in Nat
    /\ next_request \in Nat
    /\ root # None => root \in [generation : Nat, phase : {"Running", "Finalizing"}]
    /\ worker # None => worker \in Working
    /\ listener # None => listener \in [generation : Nat, session : Session, turn : Nat]
    /\ threads \subseteq Thread
    /\ reads \subseteq Read
    /\ mailbox \in Seq(Canonical \cup Read)
    /\ control \in Seq(Announcement)

-----------------------------------------------------------------------------
(* Reads.                                                                  *)

(* What was read of a session is a prefix of it.                           *)
ReadOK(r) == r.prefix \in {Unread, Failed} \cup (0 .. Len(log[r.session]))

ReadsOK ==
    /\ \A r \in reads : ReadOK(r)
    /\ \A m \in Within(mailbox) : m.type # "Canonical" => ReadOK(m) /\ m.prefix # Unread
    /\ open # None => open.session \in Session /\ open.prefix \in 0 .. Len(log[open.session])

-----------------------------------------------------------------------------
(* The run that the Desktop launched.                                      *)

(* The turn of a worker is the running turn of its session.                *)
WorkerRuns ==
    worker # None /\ worker.at \in {"Stored", "Started", "Working"} =>
        IsRunning(log[worker.session]) /\ TurnOf(log[worker.session]) = worker.turn

(* A run belongs to one session, which is the one on show once it is.      *)
RootAt ==
    /\ worker # None => worker.generation < next_root
    /\ \A m \in Within(control) : m.generation < next_root
    /\ root # None =>
          \E s \in Session :
              /\ current \in {None, s}
              /\ worker # None /\ worker.generation = root.generation => worker.session = s
              /\ \A m \in Within(control) :
                    m.type = "SessionStarted" /\ m.generation = root.generation => m.session = s

-----------------------------------------------------------------------------
(* The listener.                                                           *)

(* A thread of the listener, or an event it delivered, is about the turn   *)
(* that the listener is for.                                               *)
Matches(l) ==
    /\ l.generation < next_listener
    /\ listener # None /\ l.generation = listener.generation =>
          l.session = listener.session /\ l.turn = listener.turn

(* The thread has no terminal of its turn behind it.                       *)
Follows(l) ==
    /\ l.cursor <= Len(log[l.session]) /\ l.held <= Len(log[l.session])
    /\ \A p \in 1 .. l.cursor :
          log[l.session][p] = [turn |-> l.turn, kind |-> "Terminal"]
              => l.at = "Boot" \/ l.held = p

(* The letter is the terminal that the listener waits for.                 *)
Awaits(m) ==
    m.type = "Canonical" /\ m.kind = "Terminal" /\ m.generation = listener.generation

(* The listener has a thread, or its terminal is in the mailbox.           *)
Attended ==
    \/ \E l \in threads : l.generation = listener.generation
    \/ \E m \in Within(mailbox) : Awaits(m)

Listening ==
    /\ listener # None =>
          listener.generation < next_listener /\ current = listener.session
    /\ \A l \in threads : Matches(l) /\ Follows(l)
    /\ \A m \in Within(mailbox) : m.type = "Canonical" =>
          Matches(m) /\ (m.kind = "Terminal" => Ended(m.session, m.turn))
    /\ listener # None => Attended

(* A run that the Desktop did not launch: the listener is for the turn     *)
(* that is shown as active.                                                *)
Shown ==
    run_status = "Running" /\ root = None /\ listener # None =>
        /\ open.session \in Session /\ open.prefix \in 0 .. Len(log[open.session])
        /\ listener.turn = TurnOf(Prefix(open.session, open.prefix))

DInv == Logged /\ Typed /\ ReadsOK /\ WorkerRuns /\ RootAt /\ Listening /\ Shown

-----------------------------------------------------------------------------
(* Sequences.                                                              *)

LEMMA AppendWithin ==
    ASSUME NEW S, NEW q \in Seq(S), NEW x \in S
    PROVE  /\ Append(q, x) \in Seq(S)
           /\ Within(Append(q, x)) = Within(q) \cup {x}
<1>1. /\ Len(q) \in Nat /\ Append(q, x) \in Seq(S) /\ Len(Append(q, x)) = Len(q) + 1
      /\ \A p \in 1 .. Len(q) : Append(q, x)[p] = q[p]
      /\ Append(q, x)[Len(q) + 1] = x
  OBVIOUS
<1>2. 1 .. Len(q) + 1 = (1 .. Len(q)) \cup {Len(q) + 1}
  BY <1>1
<1> QED BY <1>1, <1>2 DEF Within

LEMMA TailWithin ==
    ASSUME NEW S, NEW q \in Seq(S), q # <<>>
    PROVE  /\ Head(q) \in S /\ Tail(q) \in Seq(S)
           /\ Within(q) = {Head(q)} \cup Within(Tail(q))
<1>1. /\ Len(q) \in Nat \ {0} /\ Tail(q) \in Seq(S) /\ Len(Tail(q)) = Len(q) - 1
      /\ Head(q) = q[1] /\ Head(q) \in S
      /\ \A p \in 1 .. Len(q) - 1 : Tail(q)[p] = q[p + 1]
  OBVIOUS
<1>2. \A p \in 1 .. Len(q) : p = 1 \/ (p - 1 \in 1 .. Len(q) - 1 /\ q[p] = Tail(q)[p - 1])
  BY <1>1
<1>3. \A p \in 1 .. Len(q) - 1 : p + 1 \in 1 .. Len(q) /\ Tail(q)[p] = q[p + 1]
  BY <1>1
<1>4. 1 \in 1 .. Len(q)
  BY <1>1
<1>5. Within(q) \subseteq {Head(q)} \cup Within(Tail(q))
  BY <1>1, <1>2 DEF Within
<1>6. Within(Tail(q)) \subseteq Within(q) /\ Head(q) \in Within(q)
  BY <1>1, <1>3, <1>4 DEF Within
<1> QED BY <1>1, <1>5, <1>6

LEMMA WithinTyped ==
    ASSUME NEW S, NEW q \in Seq(S)
    PROVE  \A x \in Within(q) : x \in S
BY DEF Within

-----------------------------------------------------------------------------
(* Committed events.                                                       *)

(* Events stay where they are committed.                                   *)
LogGrows ==
    /\ log' \in [Session -> Seq(Event)]
    /\ \A s \in Session : /\ Len(log[s]) <= Len(log'[s])
                          /\ \A p \in Positions(s) : log'[s][p] = log[s][p]

LEMMA LogTyped ==
    ASSUME Logged, NEW s \in Session
    PROVE  /\ log[s] \in Seq(Event) /\ Len(log[s]) \in Nat
           /\ DOMAIN log[s] = 1 .. Len(log[s])
           /\ \A p \in 1 .. Len(log[s]) : log[s][p] \in Event /\ log[s][p].turn \in Nat
<1>1. log[s] \in Seq(Event)
  BY DEF Logged
<1>2. /\ Len(log[s]) \in Nat /\ DOMAIN log[s] = 1 .. Len(log[s])
      /\ \A p \in 1 .. Len(log[s]) : log[s][p] \in Event
  BY <1>1
<1>3. \A e \in Event : e.turn \in Nat
  BY DEF Event
<1> QED BY <1>1, <1>2, <1>3

LEMMA StillLogGrows ==
    ASSUME Logged, UNCHANGED log
    PROVE  LogGrows
BY LogTyped DEF Logged, LogGrows

(* What a prefix says of the running turn.                                 *)
LEMMA PrefixMeans ==
    ASSUME Logged, NEW s \in Session, NEW n \in 0 .. Len(log[s])
    PROVE  /\ TurnOf(Prefix(s, n)) = IF n = 0 THEN 0 ELSE log[s][n].turn
           /\ TurnOf(Prefix(s, n)) \in Nat
           /\ IsRunning(Prefix(s, n)) <=> n # 0 /\ log[s][n].kind # "Terminal"
<1> DEFINE q == SubSeq(log[s], 1, n)
<1>1. log[s] \in Seq(Event) /\ Len(log[s]) \in Nat /\ n \in Nat
  BY LogTyped
<1>2. q \in Seq(Event) /\ Len(q) = n /\ \A i \in 1 .. n : q[i] = log[s][i]
  <2>1. \A i \in 1 .. n : log[s][i] \in Event
    BY <1>1
  <2> QED BY <1>1, <2>1
<1>3. q = <<>> <=> n = 0
  BY <1>1, <1>2
<1>4. n # 0 => n \in 1 .. n /\ log[s][n].turn \in Nat
  <2>1. n # 0 => n \in 1 .. n /\ n \in 1 .. Len(log[s])
    BY <1>1
  <2> QED BY <2>1, LogTyped
<1>5. Prefix(s, n) = q
  BY DEF Prefix
<1> HIDE DEF q
<1> QED BY <1>2, <1>3, <1>4, <1>5 DEF TurnOf, IsRunning

(* A prefix says the same after more is committed.                         *)
LEMMA PrefixStays ==
    ASSUME Logged, LogGrows, NEW s \in Session, NEW n \in 0 .. Len(log[s])
    PROVE  /\ n \in 0 .. Len(log'[s])
           /\ TurnOf(Prefix(s, n))' = TurnOf(Prefix(s, n))
<1> DEFINE q == SubSeq(log[s], 1, n)
           r == SubSeq(log'[s], 1, n)
<1>1. /\ log[s] \in Seq(Event) /\ Len(log[s]) \in Nat /\ n \in Nat
      /\ log'[s] \in Seq(Event) /\ Len(log'[s]) \in Nat /\ n <= Len(log'[s])
      /\ \A i \in 1 .. n : log'[s][i] = log[s][i] /\ log[s][i] \in Event
  BY LogTyped DEF LogGrows, Positions
<1>2. q \in Seq(Event) /\ Len(q) = n /\ \A i \in 1 .. n : q[i] = log[s][i]
  BY <1>1
<1>3. r \in Seq(Event) /\ Len(r) = n /\ \A i \in 1 .. n : r[i] = log'[s][i]
  BY <1>1
<1>4. Prefix(s, n) = q /\ Prefix(s, n)' = r
  BY DEF Prefix
<1> HIDE DEF q, r
<1>5. (q = <<>> <=> n = 0) /\ (r = <<>> <=> n = 0) /\ (n # 0 => r[n] = q[n])
  BY <1>1, <1>2, <1>3
<1> QED BY <1>1, <1>2, <1>3, <1>4, <1>5 DEF TurnOf

(* The last event tells whether a session runs and which turn.             *)
LEMMA LastMeans ==
    ASSUME Logged, NEW s \in Session
    PROVE  /\ TurnOf(log[s]) = IF Len(log[s]) = 0 THEN 0 ELSE log[s][Len(log[s])].turn
           /\ TurnOf(log[s]) \in Nat
           /\ IsRunning(log[s]) <=> /\ Len(log[s]) # 0
                                    /\ log[s][Len(log[s])].kind # "Terminal"
<1>1. log[s] \in Seq(Event) /\ Len(log[s]) \in Nat /\ (log[s] = <<>> <=> Len(log[s]) = 0)
  BY LogTyped
<1>2. Len(log[s]) # 0 => log[s][Len(log[s])].turn \in Nat
  <2>1. Len(log[s]) # 0 => Len(log[s]) \in 1 .. Len(log[s])
    BY <1>1
  <2> QED BY <2>1, LogTyped
<1> QED BY <1>1, <1>2 DEF TurnOf, IsRunning

Kind == {"Stored", "Update", "Terminal"}

LEMMA Commits ==
    ASSUME Logged, NEW s \in Session, NEW t \in Nat, NEW k \in Kind, Commit(s, t, k)
    PROVE  /\ LogGrows
           /\ \A r \in Session \ {s} : log'[r] = log[r]
           /\ Len(log'[s]) = Len(log[s]) + 1
           /\ log'[s][Len(log[s]) + 1] = [turn |-> t, kind |-> k]
<1> DEFINE e == [turn |-> t, kind |-> k]
           new == Append(log[s], e)
<1>1. e \in Event
  BY DEF Event, Kind
<1>2. log[s] \in Seq(Event) /\ Len(log[s]) \in Nat
  BY LogTyped
<1> HIDE DEF e
<1>3. /\ new \in Seq(Event) /\ Len(new) = Len(log[s]) + 1 /\ new[Len(log[s]) + 1] = e
      /\ \A p \in 1 .. Len(log[s]) : new[p] = log[s][p]
  BY <1>1, <1>2
<1>4. log' = [log EXCEPT ![s] = new]
  BY DEF Commit, e
<1> HIDE DEF new
<1>5. /\ log' \in [Session -> Seq(Event)] /\ log'[s] = new
      /\ \A r \in Session \ {s} : log'[r] = log[r]
  BY <1>3, <1>4 DEF Logged
<1>6. \A r \in Session : Len(log[r]) \in Nat
  BY LogTyped
<1>7. LogGrows
  <2>1. ASSUME NEW r \in Session
        PROVE  /\ Len(log[r]) <= Len(log'[r])
               /\ \A p \in 1 .. Len(log[r]) : log'[r][p] = log[r][p]
    <3>1. CASE r = s
      BY <1>2, <1>3, <1>5, <3>1
    <3>2. CASE r # s
      BY <1>5, <1>6, <3>2
    <3> QED BY <3>1, <3>2
  <2> QED BY <1>5, <2>1 DEF LogGrows, Positions
<1> QED BY <1>3, <1>5, <1>7 DEF e

(* The events of a kind, after one more is committed.                      *)
LEMMA CommittedNext ==
    ASSUME Logged, NEW s \in Session, NEW t \in Nat, NEW k \in Kind, Commit(s, t, k),
           NEW j
    PROVE  /\ j = k => /\ Committed(j)' = Committed(j) \cup {<<s, Len(log[s]) + 1>>}
                       /\ <<s, Len(log[s]) + 1>> \notin Committed(j)
           /\ j # k => Committed(j)' = Committed(j)
<1> DEFINE n == Len(log[s])
<1>1. /\ \A r \in Session \ {s} : log'[r] = log[r]
      /\ Len(log'[s]) = n + 1 /\ log'[s][n + 1] = [turn |-> t, kind |-> k]
      /\ \A p \in 1 .. n : log'[s][p] = log[s][p]
  BY Commits DEF LogGrows, Positions
<1>2. /\ \A r \in Session : /\ DOMAIN log[r] = 1 .. Len(log[r]) /\ Len(log[r]) \in Nat
                            /\ DOMAIN log'[r] = 1 .. Len(log'[r])
  BY LogTyped, Commits DEF LogGrows
<1>3. ASSUME NEW e
      PROVE  e \in Committed(j) <=> \E r \in Session : \E p \in 1 .. Len(log[r]) :
                                       e = <<r, p>> /\ log[r][p].kind = j
  BY <1>2 DEF Committed
<1>4. ASSUME NEW e
      PROVE  e \in Committed(j)' <=> \E r \in Session : \E p \in 1 .. Len(log'[r]) :
                                       e = <<r, p>> /\ log'[r][p].kind = j
  BY <1>2 DEF Committed
<1>5. 1 .. n + 1 = (1 .. n) \cup {n + 1} /\ n + 1 \notin 1 .. n
  BY <1>2
<1> HIDE DEF n
<1>6. ASSUME NEW e
      PROVE  e \in Committed(j)' <=> e \in Committed(j) \/ (j = k /\ e = <<s, n + 1>>)
  <2>1. ASSUME NEW r \in Session, NEW p \in 1 .. Len(log'[r])
        PROVE  \/ p \in 1 .. Len(log[r]) /\ log'[r][p] = log[r][p]
               \/ r = s /\ p = n + 1 /\ log'[r][p].kind = k
    BY <1>1, <1>5 DEF n
  <2>2. ASSUME NEW r \in Session, NEW p \in 1 .. Len(log[r])
        PROVE  p \in 1 .. Len(log'[r]) /\ log'[r][p] = log[r][p]
    BY <1>1, <1>5 DEF n
  <2>3. n + 1 \in 1 .. Len(log'[s]) /\ log'[s][n + 1].kind = k
    BY <1>1, <1>5
  <2>4. ASSUME e \in Committed(j)'
        PROVE  e \in Committed(j) \/ (j = k /\ e = <<s, n + 1>>)
    <3>1. PICK r \in Session : \E p \in 1 .. Len(log'[r]) :
                                   e = <<r, p>> /\ log'[r][p].kind = j
      BY <1>4, <2>4
    <3>2. PICK p \in 1 .. Len(log'[r]) : e = <<r, p>> /\ log'[r][p].kind = j
      BY <3>1
    <3>3. CASE p \in 1 .. Len(log[r]) /\ log'[r][p] = log[r][p]
      BY <1>3, <3>2, <3>3
    <3>4. CASE r = s /\ p = n + 1 /\ log'[r][p].kind = k
      BY <3>2, <3>4
    <3> QED BY <2>1, <3>3, <3>4
  <2>5. ASSUME e \in Committed(j)
        PROVE  e \in Committed(j)'
    <3>1. PICK r \in Session : \E p \in 1 .. Len(log[r]) : e = <<r, p>> /\ log[r][p].kind = j
      BY <1>3, <2>5
    <3>2. PICK p \in 1 .. Len(log[r]) : e = <<r, p>> /\ log[r][p].kind = j
      BY <3>1
    <3> QED BY <1>4, <2>2, <3>2
  <2>6. ASSUME j = k, e = <<s, n + 1>>
        PROVE  e \in Committed(j)'
    BY <1>4, <2>3, <2>6
  <2> QED BY <2>4, <2>5, <2>6
<1>7. <<s, n + 1>> \notin Committed(j)
  BY <1>3, <1>5 DEF n
<1> QED BY <1>6, <1>7 DEF n

(* A turn starts with a new id; what follows belongs to the running turn.  *)
LEMMA CommitKeepsLogged ==
    ASSUME Logged, NEW s \in Session, NEW t \in Nat, NEW k \in Kind, Commit(s, t, k),
           \/ k = "Stored" /\ t = NextTurn
           \/ k # "Stored" /\ IsRunning(log[s]) /\ t = TurnOf(log[s])
    PROVE  Logged'
<1> DEFINE n == Len(log[s])
           C == Committed("Stored")
<1>1. /\ log' \in [Session -> Seq(Event)] /\ \A r \in Session \ {s} : log'[r] = log[r]
      /\ Len(log'[s]) = n + 1 /\ log'[s][n + 1] = [turn |-> t, kind |-> k]
      /\ \A p \in 1 .. n : log'[s][p] = log[s][p]
  BY Commits DEF LogGrows, Positions
<1>2. n \in Nat /\ 1 .. n + 1 = (1 .. n) \cup {n + 1}
  BY LogTyped
<1>3. IsFiniteSet(C) /\ Cardinality(C) \in Nat /\ Count("Stored") = Cardinality(C)
  BY FS_CardinalityType DEF Logged, Count
<1>4. /\ IsFiniteSet(C')
      /\ k = "Stored" => Cardinality(C') = Cardinality(C) + 1
      /\ k # "Stored" => Cardinality(C') = Cardinality(C)
  <2>1. /\ k = "Stored" => C' = C \cup {<<s, n + 1>>} /\ <<s, n + 1>> \notin C
        /\ k # "Stored" => C' = C
    BY CommittedNext
  <2> HIDE DEF C
  <2> QED BY <1>3, <2>1, FS_AddElement
<1>5. Count("Stored")' = Cardinality(C')
  BY DEF Count
<1>6. \A r \in Session : \A p \in 1 .. Len(log[r]) : /\ log[r][p].turn <= Cardinality(C)
                                                     /\ log[r][p].turn \in Nat
  <2>1. \A r \in Session : \A p \in 1 .. Len(log[r]) : log[r][p].turn <= Cardinality(C)
    BY <1>3 DEF Logged, Positions
  <2> QED BY <2>1, LogTyped
<1>7. k # "Stored" => n # 0 /\ t = log[s][n].turn /\ log[s][n].kind # "Terminal"
  BY LastMeans
<1>8. k = "Stored" => t = Cardinality(C) + 1
  BY <1>3 DEF NextTurn
<1> HIDE DEF n, C
<1>9. ASSUME NEW r \in Session, NEW p \in 1 .. Len(log'[r])
      PROVE  log'[r][p].turn <= Count("Stored")'
  <2>1. CASE p \in 1 .. Len(log[r])
    <3>1. log'[r][p] = log[r][p]
      BY <1>1, <2>1 DEF n
    <3>2. Cardinality(C) <= Cardinality(C') /\ Cardinality(C') \in Nat
      BY <1>3, <1>4
    <3>3. log[r][p].turn <= Cardinality(C) /\ log[r][p].turn \in Nat
      BY <1>6, <2>1
    <3> QED BY <1>3, <1>5, <3>1, <3>2, <3>3
  <2>2. CASE r = s /\ p = n + 1
    BY <1>1, <1>2, <1>3, <1>4, <1>5, <1>6, <1>7, <1>8, <2>2 DEF n
  <2> QED BY <1>1, <1>2, <2>1, <2>2 DEF n
<1>10. ASSUME NEW r \in Session, NEW p \in 1 .. Len(log'[r]), NEW q \in 1 .. Len(log'[r]),
              p < q, log'[r][p].kind = "Terminal"
       PROVE  log'[r][q].turn # log'[r][p].turn
  <2>1. Len(log[r]) \in Nat
    BY LogTyped
  <2>2. p \in 1 .. Len(log[r]) /\ log'[r][p] = log[r][p] /\ log[r][p].kind = "Terminal"
    BY <1>1, <1>2, <1>10, <2>1 DEF n
  <2>3. CASE q \in 1 .. Len(log[r])
    BY <1>1, <1>10, <2>2, <2>3 DEF n, Logged, Positions
  <2>4. CASE r = s /\ q = n + 1
    <3>1. CASE k = "Stored"
      BY <1>1, <1>3, <1>6, <1>8, <2>2, <2>4, <3>1
    <3>2. CASE k # "Stored"
      <4>1. n \in 1 .. Len(log[s]) /\ p # n
        BY <1>2, <1>7, <2>2, <2>4, <3>2 DEF n
      <4>2. p < n
        BY <1>2, <2>2, <2>4, <4>1 DEF n
      <4>3. log[s][n].turn # log[s][p].turn
        BY <2>2, <2>4, <4>1, <4>2 DEF Logged, Positions
      <4> QED BY <1>1, <1>7, <2>2, <2>4, <3>2, <4>3
    <3> QED BY <3>1, <3>2
  <2> QED BY <1>1, <1>2, <2>3, <2>4 DEF n
<1> QED BY <1>1, <1>4, <1>9, <1>10 DEF Logged, Positions, C

LEMMA StillLogged ==
    ASSUME Logged, UNCHANGED log
    PROVE  Logged'
BY DEF Logged, Committed, Count, Positions

-----------------------------------------------------------------------------
(* What is committed in a step, and by whom.                               *)

LEMMA CommitLast ==
    ASSUME Logged, NEW s \in Session, NEW t \in Nat, NEW k \in Kind, Commit(s, t, k)
    PROVE  /\ TurnOf(log'[s]) = t
           /\ IsRunning(log'[s]) <=> k # "Terminal"
<1>1. /\ log'[s] \in Seq(Event) /\ Len(log[s]) \in Nat /\ Len(log'[s]) = Len(log[s]) + 1
      /\ log'[s][Len(log[s]) + 1] = [turn |-> t, kind |-> k]
  BY Commits, LogTyped DEF LogGrows
<1>2. log'[s] # <<>>
  BY <1>1
<1> QED BY <1>1, <1>2 DEF TurnOf, IsRunning

(* The worker's turn stays the running one unless the worker ends it.      *)
LEMMA WorkerRunsNext ==
    ASSUME Logged, WorkerRuns, NEW s \in Session, NEW t \in Nat, NEW k \in Kind,
           Commit(s, t, k),
           worker # None => worker \in Working,
           \/ /\ UNCHANGED worker
              /\ worker # None /\ worker.session = s /\ worker.at \in {"Stored", "Started", "Working"} =>
                    t = worker.turn /\ k # "Terminal"
           \/ /\ worker'.at = "Stored" /\ worker'.session = s
              /\ worker'.turn = t /\ k # "Terminal"
    PROVE  WorkerRuns'
<1>1. /\ TurnOf(log'[s]) = t /\ (IsRunning(log'[s]) <=> k # "Terminal")
      /\ \A r \in Session \ {s} : log'[r] = log[r]
  BY Commits, CommitLast
<1>2. worker # None => worker.session \in Session
  BY DEF Working
<1> QED BY <1>1, <1>2 DEF WorkerRuns

LEMMA StillWorkerRuns ==
    ASSUME WorkerRuns, UNCHANGED <<log, worker>>
    PROVE  WorkerRuns'
BY DEF WorkerRuns, IsRunning, TurnOf

LEMMA LogStep ==
    ASSUME DInv, [Next]_vars
    PROVE  Logged' /\ LogGrows /\ WorkerRuns'
<1> USE DEF DInv
<1> DEFINE Done == Logged' /\ LogGrows /\ WorkerRuns'
<1>t. /\ worker # None => /\ worker \in Working /\ worker.session \in Session
                          /\ worker.turn \in Nat
      /\ NextTurn \in Nat
  <2>1. worker # None => worker \in Working
    BY DEF Typed
  <2>2. \A w \in Working : w.session \in Session /\ w.turn \in Nat
    BY DEF Working
  <2>3. NextTurn \in Nat
    BY FS_CardinalityType DEF NextTurn, Count, Logged
  <2> QED BY <2>1, <2>2, <2>3
<1>k. "Stored" \in Kind /\ "Update" \in Kind /\ "Terminal" \in Kind
  BY DEF Kind
<1>0. ASSUME UNCHANGED <<log, worker>>
      PROVE  Done
  BY <1>0, StillLogged, StillLogGrows, StillWorkerRuns
<1>1. ASSUME NEW s \in Session, NEW t \in Nat, NEW k \in Kind, Commit(s, t, k),
             \/ k = "Stored" /\ t = NextTurn
             \/ k # "Stored" /\ IsRunning(log[s]) /\ t = TurnOf(log[s])
      PROVE  Logged' /\ LogGrows
  BY <1>1, Commits, CommitKeepsLogged
<1>2. ASSUME NEW s \in Session, outside_store(s)
      PROVE  Done
  <2>1. Commit(s, NextTurn, "Stored") /\ ~IsRunning(log[s]) /\ UNCHANGED worker
    BY <1>2 DEF outside_store, CanStore
  <2>2. worker # None /\ worker.session = s => ~(worker.at \in {"Stored", "Started", "Working"})
    BY <2>1 DEF WorkerRuns
  <2> QED BY <1>t, <1>k, <1>1, <2>1, <2>2, WorkerRunsNext
<1>3. ASSUME NEW s \in Session, outside_update(s)
      PROVE  Done
  <2>1. Commit(s, TurnOf(log[s]), "Update") /\ IsRunning(log[s]) /\ UNCHANGED worker
    BY <1>3 DEF outside_update
  <2>2. worker # None /\ worker.session = s => ~(worker.at \in {"Stored", "Started", "Working"})
    BY <1>3 DEF WorkerRuns, outside_update, Elsewhere
  <2>3. TurnOf(log[s]) \in Nat
    BY LastMeans
  <2> QED BY <1>t, <1>k, <1>1, <2>1, <2>2, <2>3, WorkerRunsNext
<1>4. ASSUME NEW s \in Session, outside_terminal(s)
      PROVE  Done
  <2>1. Commit(s, TurnOf(log[s]), "Terminal") /\ IsRunning(log[s]) /\ UNCHANGED worker
    BY <1>4 DEF outside_terminal
  <2>2. worker # None /\ worker.session = s => ~(worker.at \in {"Stored", "Started", "Working"})
    BY <1>4 DEF WorkerRuns, outside_terminal, Elsewhere
  <2>3. TurnOf(log[s]) \in Nat
    BY LastMeans
  <2> QED BY <1>t, <1>k, <1>1, <2>1, <2>2, <2>3, WorkerRunsNext
<1>5. CASE worker_store
  <2>1. /\ worker # None /\ Commit(worker.session, NextTurn, "Stored")
        /\ worker' = [worker EXCEPT !.at = "Stored", !.turn = NextTurn]
    BY <1>5 DEF worker_store
  <2>2. \A w \in Working : LET v == [w EXCEPT !.at = "Stored", !.turn = NextTurn]
                           IN  v \in Working /\ v.at = "Stored" /\ v.session = w.session
                               /\ v.turn = NextTurn
    BY <1>t DEF Working
  <2> QED BY <1>t, <1>k, <1>1, <2>1, <2>2, WorkerRunsNext
<1>6. CASE worker_update
  <2>1. /\ worker # None /\ worker.at = "Working" /\ UNCHANGED worker
        /\ Commit(worker.session, worker.turn, "Update")
    BY <1>6 DEF worker_update
  <2>2. IsRunning(log[worker.session]) /\ TurnOf(log[worker.session]) = worker.turn
    BY <2>1 DEF WorkerRuns
  <2> QED BY <1>t, <1>k, <1>1, <2>1, <2>2, WorkerRunsNext
<1>7. CASE worker_terminal
  <2>1. /\ worker # None /\ worker.at \in {"Stored", "Started", "Working"}
        /\ worker' = [worker EXCEPT !.at = "Terminated"]
        /\ Commit(worker.session, worker.turn, "Terminal")
    BY <1>7 DEF worker_terminal
  <2>2. IsRunning(log[worker.session]) /\ TurnOf(log[worker.session]) = worker.turn
    BY <2>1 DEF WorkerRuns
  <2>3. Logged' /\ LogGrows
    BY <1>t, <1>k, <1>1, <2>1, <2>2
  <2>4. \A w \in Working : [w EXCEPT !.at = "Terminated"].at = "Terminated"
    BY DEF Working
  <2> QED BY <1>t, <2>1, <2>3, <2>4 DEF WorkerRuns
<1>8. ASSUME UNCHANGED log, worker' # None => worker'.at \notin {"Stored", "Started", "Working"}
      PROVE  Done
  BY <1>8, StillLogged, StillLogGrows DEF WorkerRuns
<1>9. ASSUME NEW a \in {"Started", "Working"}, UNCHANGED log,
             worker # None, worker.at \in {"Stored", "Started"},
             worker' = [worker EXCEPT !.at = a]
      PROVE  Done
  <2>1. \A w \in Working : LET v == [w EXCEPT !.at = a]
                           IN  v.session = w.session /\ v.turn = w.turn
    BY DEF Working
  <2>2. worker'.session = worker.session /\ worker'.turn = worker.turn
    BY <1>t, <1>9, <2>1
  <2>3. IsRunning(log[worker.session]) /\ TurnOf(log[worker.session]) = worker.turn
    BY <1>9 DEF WorkerRuns
  <2>4. log' = log
    BY <1>9
  <2>5. IsRunning(log'[worker'.session]) /\ TurnOf(log'[worker'.session]) = worker'.turn
    BY <2>2, <2>3, <2>4
  <2> QED BY <1>9, <2>5, StillLogged, StillLogGrows DEF WorkerRuns
<1>10. CASE worker_start \/ worker_announce
  BY <1>9, <1>10 DEF worker_start, worker_announce
<1>11. CASE worker_finish \/ worker_unsettled
  BY <1>8, <1>11 DEF worker_finish, worker_unsettled
<1>12. ASSUME NEW s \in Session, launch_run(s)
       PROVE  Done
  <2>1. UNCHANGED log /\ (UNCHANGED worker \/ worker'.at = "Launched")
    BY <1>12 DEF launch_run
  <2> QED BY <1>0, <1>8, <2>1
<1>13. ASSUME NEW s \in Session, select_session(s)
       PROVE  Done
  BY <1>0, <1>13 DEF select_session
<1>14. CASE \E r \in reads : read_session(r) \/ send_read(r)
  BY <1>0, <1>14 DEF read_session, send_read
<1>15. CASE \E l \in threads : \/ listener_boot(l) \/ listener_first(l)
                               \/ listener_poll(l) \/ listener_cancelled(l)
  BY <1>0, <1>15 DEF listener_boot, listener_first, listener_poll, listener_cancelled
<1>16. CASE drain_control \/ drain_runtime
  BY <1>0, <1>16 DEF drain_control, drain_runtime
<1>17. CASE UNCHANGED vars
  BY <1>0, <1>17 DEF vars
<1> HIDE DEF Done, DInv
<1> QED BY <1>2, <1>3, <1>4, <1>5, <1>6, <1>7, <1>10, <1>11, <1>12, <1>13, <1>14,
           <1>15, <1>16, <1>17 DEF Next, Done

-----------------------------------------------------------------------------
(* What a step may do to the listener and to the reads.                    *)

Begun(s, t) ==
    /\ listener' = [generation |-> next_listener, session |-> s, turn |-> t]
    /\ next_listener' = next_listener + 1
    /\ threads' = threads \cup {[generation |-> next_listener, session |-> s,
                     turn |-> t, at |-> "Boot", cursor |-> 0, held |-> 0]}

ListenerKind ==
    \/ UNCHANGED <<listenerVars, threads>>
    \/ stop_session_runtime_listener
    \/ \E s \in Session, t \in Nat : Begun(s, t)

ReadKind ==
    \/ UNCHANGED <<next_request, reads>>
    \/ /\ next_request' \in Nat
       /\ \E r \in Read : r.prefix = Unread /\ reads' = reads \cup {r}

LEMMA Reconciles ==
    ASSUME Typed, NEW s \in Session, NEW t \in Nat, reconcile_session_runtime_listener(s, t)
    PROVE  /\ ListenerKind
           /\ listener'.session = s /\ listener'.turn = t
<1>1. CASE listener # None /\ listener.session = s /\ listener.turn = t
  <2>1. UNCHANGED <<listenerVars, threads>>
    BY <1>1 DEF reconcile_session_runtime_listener
  <2> QED BY <1>1, <2>1 DEF ListenerKind, listenerVars
<1>2. CASE ~(listener # None /\ listener.session = s /\ listener.turn = t)
  <2>1. Begun(s, t)
    BY <1>2 DEF reconcile_session_runtime_listener, Begun
  <2> QED BY <2>1 DEF ListenerKind, Begun
<1> QED BY <1>1, <1>2

LEMMA ReconcilesView ==
    ASSUME Logged, Typed, NEW view, view.session \in Session,
           view.prefix \in 0 .. Len(log[view.session]),
           reconcile_runtime_listener_with_open_session(view)
    PROVE  /\ ListenerKind
           /\ listener' # None => /\ listener'.session = view.session
                                  /\ listener'.turn = TurnOf(Prefix(view.session, view.prefix))
<1> DEFINE events == Prefix(view.session, view.prefix)
<1>1. TurnOf(events) \in Nat
  BY PrefixMeans
<1>2. \/ reconcile_session_runtime_listener(view.session, TurnOf(events))
      \/ stop_session_runtime_listener
  BY DEF reconcile_runtime_listener_with_open_session
<1> HIDE DEF events
<1>3. CASE reconcile_session_runtime_listener(view.session, TurnOf(events))
  BY <1>1, <1>3, Reconciles DEF events
<1>4. CASE stop_session_runtime_listener
  BY <1>4 DEF ListenerKind, stop_session_runtime_listener
<1> QED BY <1>2, <1>3, <1>4

LEMMA BeginsRead ==
    ASSUME Typed, NEW s \in Session, NEW p \in {"Live", "Current"}, begin_refresh(s, p)
    PROVE  ReadKind
<1> DEFINE r == [type |-> p, id |-> next_request, session |-> s, prefix |-> Unread]
<1>1. r \in Read /\ r.prefix = Unread /\ next_request + 1 \in Nat
  BY DEF Typed, Read, Unread
<1>2. reads' = reads \cup {r} /\ next_request' = next_request + 1
  BY DEF begin_refresh
<1> HIDE DEF r
<1> QED BY <1>1, <1>2 DEF ReadKind

LEMMA ListenerTyped ==
    ASSUME Typed, ListenerKind
    PROVE  /\ next_listener' \in Nat
           /\ listener' # None => listener' \in [generation : Nat, session : Session, turn : Nat]
           /\ threads' \subseteq Thread
<1>1. CASE UNCHANGED <<listenerVars, threads>>
  BY <1>1 DEF Typed, listenerVars
<1>2. CASE stop_session_runtime_listener
  BY <1>2 DEF Typed, stop_session_runtime_listener
<1>3. ASSUME NEW s \in Session, NEW t \in Nat, Begun(s, t)
      PROVE  /\ next_listener' \in Nat
             /\ listener' \in [generation : Nat, session : Session, turn : Nat]
             /\ threads' \subseteq Thread
  <2>1. [generation |-> next_listener, session |-> s, turn |-> t, at |-> "Boot",
         cursor |-> 0, held |-> 0] \in Thread
    BY DEF Typed, Thread
  <2> QED BY <1>3, <2>1 DEF Typed, Begun
<1> QED BY <1>1, <1>2, <1>3 DEF ListenerKind

LEMMA ReadTyped ==
    ASSUME Typed, ReadKind
    PROVE  next_request' \in Nat /\ reads' \subseteq Read
BY DEF Typed, ReadKind

-----------------------------------------------------------------------------
(* What the UI thread does with the head of the control queue.             *)

LEMMA HeadAnnounces ==
    ASSUME Typed, control # <<>>
    PROVE  LET m == Head(control)
           IN  /\ m.type \in {"SessionStarted", "UserTurnStored"} => m.session \in Session
               /\ m.type = "UserTurnStored" => m.turn \in Nat
               /\ m \in Within(control)
<1>1. Head(control) \in Announcement /\ Head(control) \in Within(control)
  BY TailWithin DEF Typed
<1>2. \A m \in Announcement :
         /\ m.type \in {"SessionStarted", "UserTurnStored"} => m.session \in Session
         /\ m.type = "UserTurnStored" => m.turn \in Nat
  BY DEF Announcement
<1> QED BY <1>1, <1>2

LEMMA ControlEffect ==
    ASSUME DInv, drain_control
    PROVE  /\ UNCHANGED <<log, worker, mailbox, open, navVars, next_root>>
           /\ control # <<>> /\ control' = Tail(control)
           /\ ListenerKind /\ ReadKind
           /\ root' = root \/ root' = None
           /\ current' # current =>
                 /\ root # None /\ root' = root
                 /\ Head(control).type = "SessionStarted"
                 /\ Head(control).generation = root.generation
                 /\ current' = Head(control).session /\ current' \in Session
           /\ listener' # None => current' = listener'.session
           /\ \/ UNCHANGED <<listener, run_status, root>>
              \/ root' # None \/ run_status' = "Ended"
<1> DEFINE m == Head(control)
<1>0. /\ Typed /\ Logged /\ RootAt /\ Listening
      /\ UNCHANGED <<log, worker, mailbox>> /\ control # <<>> /\ control' = Tail(control)
  BY DEF drain_control, DInv
<1>1. /\ m.type \in {"SessionStarted", "UserTurnStored"} => m.session \in Session
      /\ m.type = "UserTurnStored" => m.turn \in Nat
      /\ m \in Within(control)
  BY <1>0, HeadAnnounces
<1>2. \/ owns(m) /\ (SessionStarted(m) \/ UserTurnStored(m) \/ settle_root_finished(m))
      \/ UNCHANGED <<viewVars, navVars, rootVars, listenerVars, threads, requestVars, reads>>
  BY DEF drain_control
<1>3. listener # None => current = listener.session /\ listener.session \in Session
  BY <1>0 DEF Listening, Typed
<1> HIDE DEF m
<1>4. CASE UNCHANGED <<viewVars, navVars, rootVars, listenerVars, threads, requestVars, reads>>
  BY <1>0, <1>3, <1>4 DEF viewVars, rootVars, listenerVars, requestVars, ListenerKind, ReadKind
<1>5. CASE owns(m) /\ SessionStarted(m)
  <2>1. /\ m.type = "SessionStarted" /\ current' = m.session /\ run_status' = "Running"
        /\ UNCHANGED <<open, post_run, navVars, rootVars, listenerVars, threads, requestVars,
                       reads>>
        /\ root # None /\ root.generation = m.generation
    BY <1>5 DEF SessionStarted, owns
  <2>2. PICK s \in Session :
              /\ current \in {None, s}
              /\ \A x \in Within(control) :
                    x.type = "SessionStarted" /\ x.generation = root.generation => x.session = s
    BY <1>0, <2>1 DEF RootAt
  <2>3. m.session = s /\ (listener # None => current = s)
    BY <1>1, <1>3, <2>1, <2>2, NoneAssumption
  <2> QED BY <1>0, <1>1, <1>3, <2>1, <2>3
          DEF rootVars, listenerVars, requestVars, ListenerKind, ReadKind, m
<1>6. CASE owns(m) /\ UserTurnStored(m)
  <2>1. /\ m.type = "UserTurnStored" /\ root # None
        /\ UNCHANGED <<current, open, navVars, rootVars>>
        /\ \/ /\ current = m.session
              /\ reconcile_session_runtime_listener(m.session, m.turn)
              /\ begin_refresh(m.session, "Live")
           \/ UNCHANGED <<listenerVars, threads, requestVars, reads>>
    BY <1>6 DEF UserTurnStored, owns
  <2>2. m.session \in Session /\ m.turn \in Nat
    BY <1>1, <2>1
  <2>3. /\ ListenerKind /\ ReadKind
        /\ listener' # None => current' = listener'.session
    BY <1>0, <1>3, <2>1, <2>2, Reconciles, BeginsRead
       DEF ListenerKind, ReadKind, requestVars, listenerVars, viewVars
  <2> QED BY <1>0, <2>1, <2>3 DEF viewVars, rootVars
<1>7. CASE owns(m) /\ settle_root_finished(m)
  <2>1. /\ root' = None /\ run_status' = "Ended" /\ stop_session_runtime_listener
        /\ \/ UNCHANGED <<requestVars, reads>>
           \/ current \in Session /\ begin_refresh(current, "Current")
        /\ UNCHANGED <<current, open, navVars, next_root>>
    BY <1>0, <1>7 DEF settle_root_finished, Typed
  <2>2. ListenerKind /\ ReadKind /\ listener' = None
    BY <1>0, <2>1, BeginsRead
       DEF ListenerKind, ReadKind, requestVars, stop_session_runtime_listener
  <2> QED BY <1>0, <2>1, <2>2
<1> QED BY <1>2, <1>4, <1>5, <1>6, <1>7

-----------------------------------------------------------------------------
(* What the UI thread does with the head of the mailbox.                   *)

LEMMA HeadRead ==
    ASSUME Typed, ReadsOK, mailbox # <<>>
    PROVE  LET m == Head(mailbox)
           IN  /\ m \in Within(mailbox) /\ m.session \in Session
               /\ m.type # "Canonical" /\ m.prefix # Failed =>
                     m.prefix \in 0 .. Len(log[m.session])
<1>1. /\ Head(mailbox) \in Canonical \cup Read /\ Head(mailbox) \in Within(mailbox)
  BY TailWithin DEF Typed
<1>2. \A m \in Canonical \cup Read : m.session \in Session
  BY DEF Canonical, Read
<1>3. Head(mailbox).type # "Canonical" /\ Head(mailbox).prefix # Failed =>
         Head(mailbox).prefix \in 0 .. Len(log[Head(mailbox).session])
  BY <1>1 DEF ReadsOK, ReadOK
<1> QED BY <1>1, <1>2, <1>3

LEMMA MergedView ==
    ASSUME ReadsOK, Logged, NEW s \in Session, NEW n \in 0 .. Len(log[s])
    PROVE  /\ Merged(s, n).session = s
           /\ Merged(s, n).prefix \in 0 .. Len(log[s])
BY DEF Merged, ReadsOK

(* What a view replaced by the head of the mailbox leaves behind.          *)
ViewKind ==
    /\ ListenerKind
    /\ \E view : /\ open' = view
                 /\ view.session \in Session /\ view.prefix \in 0 .. Len(log[view.session])
                 /\ listener' # None =>
                       /\ listener'.session = view.session
                       /\ listener'.turn = TurnOf(Prefix(view.session, view.prefix))

LEMMA ShowsView ==
    ASSUME Logged, Typed, NEW view, view.session \in Session,
           view.prefix \in 0 .. Len(log[view.session]), open' = view,
           reconcile_runtime_listener_with_open_session(view)
    PROVE  ViewKind /\ open'.session = view.session
BY ReconcilesView DEF ViewKind

RuntimeKind(m) ==
    /\ ReadKind
    /\ root' = root \/ (root # None /\ root' = [root EXCEPT !.phase = "Finalizing"])
    /\ current' # current => root = None /\ current' \in Session
    /\ \/ /\ ListenerKind /\ listener' = None
          /\ UNCHANGED open /\ run_status' = "Ended"
       \/ /\ UNCHANGED <<current, open, run_status, root, listenerVars, threads>>
          /\ listener # None => ~Awaits(m)
       \/ /\ ViewKind /\ m.type # "Canonical"
          /\ current' = open'.session /\ UNCHANGED root

LEMMA RuntimeEffect ==
    ASSUME DInv, drain_runtime
    PROVE  /\ UNCHANGED <<log, worker, control, next_root, navigations>>
           /\ mailbox # <<>> /\ mailbox' = Tail(mailbox)
           /\ RuntimeKind(Head(mailbox))
<1> DEFINE m == Head(mailbox)
<1>0. /\ Typed /\ Logged /\ ReadsOK /\ Listening
      /\ UNCHANGED <<log, worker, control>> /\ mailbox # <<>> /\ mailbox' = Tail(mailbox)
  BY DEF drain_runtime, DInv
<1>1. /\ m \in Within(mailbox) /\ m.session \in Session
      /\ m.type # "Canonical" /\ m.prefix # Failed => m.prefix \in 0 .. Len(log[m.session])
  BY <1>0, HeadRead
<1>2. \/ CanonicalSessionEvent(m) \/ LiveSessionRefreshed(m) \/ CurrentSessionRefreshed(m)
      \/ apply_session_loaded_message(m)
      \/ /\ Superseded(m)
         /\ UNCHANGED <<viewVars, navVars, rootVars, listenerVars, threads, requestVars, reads>>
  BY DEF drain_runtime
<1>3. m.type # "Canonical" => ~Awaits(m)
  BY DEF Awaits
<1>4. m.type = "Canonical" => Matches(m)
  BY <1>0, <1>1 DEF Listening
<1> HIDE DEF m
<1> DEFINE Done == UNCHANGED <<next_root, navigations>> /\ RuntimeKind(m)
<1>5. ASSUME CanonicalSessionEvent(m)
      PROVE  Done
  <2>1. CASE m.kind = "Terminal"
    <3>1. /\ root' = IF root = None THEN None ELSE [root EXCEPT !.phase = "Finalizing"]
          /\ run_status' = "Ended" /\ stop_session_runtime_listener
          /\ begin_refresh(current, "Current") /\ current = m.session
          /\ UNCHANGED <<current, open, navVars, next_root>>
      BY <1>5, <2>1 DEF CanonicalSessionEvent, listener_is_current
    <3>2. ReadKind
      BY <1>0, <1>1, <3>1, BeginsRead
    <3>3. ListenerKind /\ listener' = None
      BY <3>1 DEF ListenerKind, stop_session_runtime_listener
    <3> QED BY <3>1, <3>2, <3>3 DEF RuntimeKind, navVars
  <2>2. CASE m.kind # "Terminal"
    <3>1. /\ \/ begin_refresh(m.session, "Live")
             \/ UNCHANGED <<requestVars, reads>>
          /\ UNCHANGED <<root, run_status, post_run, listenerVars, threads>>
          /\ UNCHANGED <<current, open, navVars, next_root>>
      BY <1>5, <2>2 DEF CanonicalSessionEvent
    <3>2. ReadKind
      BY <1>0, <1>1, <3>1, BeginsRead DEF ReadKind, requestVars
    <3> QED BY <2>2, <3>1, <3>2 DEF RuntimeKind, navVars, Awaits
  <2> QED BY <2>1, <2>2
<1>6. ASSUME LiveSessionRefreshed(m)
      PROVE  Done
  <2>1. /\ m.type = "Live"
        /\ UNCHANGED <<current, run_status, post_run, navVars, rootVars, next_request, reads>>
        /\ \/ /\ m.prefix # Failed /\ current = m.session
              /\ open' = Merged(m.session, m.prefix)
              /\ reconcile_runtime_listener_with_open_session(Merged(m.session, m.prefix))
           \/ UNCHANGED <<open, listenerVars, threads>>
    BY <1>6 DEF LiveSessionRefreshed
  <2>2. ReadKind
    BY <2>1 DEF ReadKind
  <2>3. ASSUME m.prefix # Failed, current = m.session, open' = Merged(m.session, m.prefix),
               reconcile_runtime_listener_with_open_session(Merged(m.session, m.prefix))
        PROVE  ViewKind /\ current' = open'.session
    BY <1>0, <1>1, <2>1, <2>3, MergedView, ShowsView
  <2> QED BY <1>3, <2>1, <2>2, <2>3 DEF RuntimeKind, navVars, rootVars
<1>7. ASSUME CurrentSessionRefreshed(m)
      PROVE  Done
  <2>1. /\ m.type = "Current"
        /\ UNCHANGED <<current, navVars, rootVars, next_request, reads>>
        /\ \/ /\ m.prefix # Failed /\ current = m.session
              /\ open' = Merged(m.session, m.prefix)
              /\ reconcile_runtime_listener_with_open_session(Merged(m.session, m.prefix))
           \/ UNCHANGED <<open, run_status, listenerVars, threads>>
    BY <1>7 DEF CurrentSessionRefreshed
  <2>2. ReadKind
    BY <2>1 DEF ReadKind
  <2>3. ASSUME m.prefix # Failed, current = m.session, open' = Merged(m.session, m.prefix),
               reconcile_runtime_listener_with_open_session(Merged(m.session, m.prefix))
        PROVE  ViewKind /\ current' = open'.session
    BY <1>0, <1>1, <2>1, <2>3, MergedView, ShowsView
  <2> QED BY <1>3, <2>1, <2>2, <2>3 DEF RuntimeKind, navVars, rootVars
<1>8. ASSUME apply_session_loaded_message(m)
      PROVE  Done
  <2> DEFINE view == [session |-> m.session, prefix |-> m.prefix]
  <2>1. /\ m.type = "Loaded"
        /\ UNCHANGED <<post_run, navigations, rootVars, requestVars, reads>>
        /\ \/ /\ m.prefix # Failed /\ root = None
              /\ current' = m.session /\ open' = view
              /\ reconcile_runtime_listener_with_open_session(view)
           \/ UNCHANGED <<current, open, run_status, listenerVars, threads>>
    BY <1>8 DEF apply_session_loaded_message, session_load_is_blocked_by_active_run
  <2>2. ReadKind
    BY <2>1 DEF ReadKind, requestVars
  <2>3. view.session = m.session /\ view.prefix = m.prefix
    OBVIOUS
  <2> HIDE DEF view
  <2>4. ASSUME m.prefix # Failed, root = None, current' = m.session, open' = view,
               reconcile_runtime_listener_with_open_session(view)
        PROVE  ViewKind /\ current' = open'.session
    BY <1>0, <1>1, <2>1, <2>3, <2>4, ShowsView
  <2> QED BY <1>1, <1>3, <2>1, <2>2, <2>4 DEF RuntimeKind, rootVars
<1>9. ASSUME Superseded(m),
             UNCHANGED <<viewVars, navVars, rootVars, listenerVars, threads, requestVars, reads>>
      PROVE  Done
  <2>1. ASSUME listener # None, Awaits(m)
        PROVE  FALSE
    <3>1. /\ m.type = "Canonical" /\ m.generation = listener.generation
          /\ m.session = listener.session /\ m.turn = listener.turn
      BY <1>4, <2>1 DEF Awaits, Matches
    <3>2. listener \in [generation : Nat, session : Session, turn : Nat]
      BY <1>0, <2>1 DEF Typed
    <3>3. listener = [generation |-> m.generation, session |-> m.session, turn |-> m.turn]
      BY <3>1, <3>2
    <3>4. current = m.session
      BY <1>0, <2>1, <3>1 DEF Listening
    <3> QED BY <1>9, <2>1, <3>1, <3>3, <3>4 DEF Superseded, listener_is_current
  <2> QED BY <1>9, <2>1 DEF RuntimeKind, ReadKind, viewVars, navVars, rootVars, requestVars
<1>10. Done
  BY <1>2, <1>5, <1>6, <1>7, <1>8, <1>9
<1> QED BY <1>0, <1>10 DEF m

-----------------------------------------------------------------------------
(* What a listener thread does in one step.                                *)

LEMMA Greatest ==
    ASSUME NEW n \in Nat, NEW S \in SUBSET (1 .. n), S # {}
    PROVE  \E p \in S : \A q \in S : q <= p
<1> DEFINE R == {ss \in Nat \X Nat : ss[1] < ss[2]}
           T == {n - p : p \in S}
<1>1. R = OpToRel(<, Nat)
  BY Zenon DEF OpToRel
<1>2. IsWellFoundedOn(R, Nat)
  BY <1>1, NatLessThanWellFounded
<1>3. T \subseteq Nat /\ T # {}
  <2>1. \A p \in S : n - p \in Nat
    OBVIOUS
  <2>2. PICK p \in S : TRUE
    OBVIOUS
  <2>3. n - p \in T
    OBVIOUS
  <2>4. \A x \in T : \E q \in S : x = n - q
    OBVIOUS
  <2> QED BY <2>1, <2>3, <2>4
<1> HIDE DEF R, T
<1>4. PICK x \in T : \A y \in T : ~(<<y, x>> \in R)
  BY <1>2, <1>3, WFMin
<1>5. ASSUME NEW y \in T
      PROVE  x <= y
  <2>1. x \in Nat /\ y \in Nat
    BY <1>3
  <2>2. y < x => <<y, x>> \in R
    BY <2>1 DEF R
  <2> QED BY <1>4, <2>1, <2>2
<1>6. PICK p \in S : x = n - p
  BY DEF T
<1>7. \A q \in S : n - q \in T
  BY DEF T
<1>8. \A q \in S : n - p <= n - q
  BY <1>5, <1>6, <1>7
<1>9. \A q \in S : q \in Nat
  OBVIOUS
<1> QED BY <1>8, <1>9

(* The latest event of a turn; its terminal is nothing but the latest.     *)
LEMMA LatestMeans ==
    ASSUME Logged, NEW l \in Thread
    PROVE  LET h == latest_target_event(l)
           IN  /\ h \in 0 .. Len(log[l.session])
               /\ \A p \in Positions(l.session) :
                     log[l.session][p] = [turn |-> l.turn, kind |-> "Terminal"] => h = p
<1> DEFINE s == l.session
           at == {p \in DOMAIN log[s] : log[s][p].turn = l.turn}
           h == latest_target_event(l)
<1>1. s \in Session
  BY DEF Thread
<1>2. Len(log[s]) \in Nat /\ DOMAIN log[s] = 1 .. Len(log[s])
  BY <1>1, LogTyped
<1>3. at \in SUBSET (1 .. Len(log[s]))
  BY <1>2
<1>4. at = {} => h = 0
  BY DEF latest_target_event
<1>5. at # {} => h \in at /\ \A q \in at : q <= h
  <2>1. at # {} => \E p \in at : \A q \in at : q <= p
    <3> HIDE DEF at
    <3> QED BY <1>2, <1>3, Greatest
  <2>2. at # {} => h = CHOOSE p \in at : \A q \in at : q <= p
    BY DEF latest_target_event
  <2> HIDE DEF at, h
  <2> QED BY <2>1, <2>2
<1>6. h \in 0 .. Len(log[s])
  <2> HIDE DEF at, h, s
  <2>1. CASE at = {}
    BY <1>2, <1>4, <2>1
  <2>2. CASE at # {}
    <3>1. h \in 1 .. Len(log[s])
      BY <1>3, <1>5, <2>2
    <3> QED BY <1>2, <3>1
  <2> QED BY <2>1, <2>2
<1>7. ASSUME NEW p \in Positions(s), log[s][p] = [turn |-> l.turn, kind |-> "Terminal"]
      PROVE  h = p
  <2>1. p \in 1 .. Len(log[s]) /\ p \in at /\ log[s][p].kind = "Terminal" /\ log[s][p].turn = l.turn
    BY <1>2, <1>7 DEF Positions
  <2>2. h \in 1 .. Len(log[s]) /\ log[s][h].turn = l.turn /\ p <= h
    <3>1. \A x \in at : log[s][x].turn = l.turn
      OBVIOUS
    <3> HIDE DEF at, h
    <3> QED BY <1>3, <1>5, <2>1, <3>1
  <2>3. ~(p < h)
    <3> HIDE DEF h
    <3> QED BY <1>1, <2>1, <2>2 DEF Logged, Positions
  <2> HIDE DEF h, at
  <2> QED BY <1>2, <2>1, <2>2, <2>3
<1> QED BY <1>6, <1>7

SameTurn(l, x) ==
    x.generation = l.generation /\ x.session = l.session /\ x.turn = l.turn

(* The thread goes on, having delivered no terminal; or it returns, having *)
(* delivered the terminal of its turn or having been cancelled.            *)
ThreadKind(l) ==
    \/ /\ \E n \in Thread : Becomes(l, {n}) /\ SameTurn(l, n) /\ Follows(n)
       /\ \/ UNCHANGED mailbox
          \/ \E m \in Canonical : /\ mailbox' = Append(mailbox, m) /\ SameTurn(l, m)
                                  /\ m.kind # "Terminal"
    \/ /\ Becomes(l, {})
       /\ \E m \in Canonical : /\ mailbox' = Append(mailbox, m) /\ SameTurn(l, m)
                               /\ m.kind = "Terminal" /\ Ended(m.session, m.turn)
    \/ Becomes(l, {}) /\ UNCHANGED mailbox /\ Cancelled(l)

(* deliver_desktop_session_runtime_events for a position of the log: the   *)
(* thread that goes on must follow if the event is no terminal.            *)
LEMMA DeliverEffect ==
    ASSUME Logged, NEW l \in Thread, NEW p \in Positions(l.session), NEW next \in Thread,
           SameTurn(l, next),
           log[l.session][p] # [turn |-> l.turn, kind |-> "Terminal"] => Follows(next),
           deliver_desktop_session_runtime_events(l, p, next)
    PROVE  ThreadKind(l)
<1> DEFINE e == log[l.session][p]
           m == [type |-> "Canonical", generation |-> l.generation, session |-> l.session,
                 turn |-> l.turn, kind |-> e.kind]
<1>1. l.session \in Session /\ l.turn \in Nat /\ l.generation \in Nat
  BY DEF Thread
<1>2. e \in Event /\ p \in DOMAIN log[l.session]
  BY <1>1, LogTyped DEF Positions
<1>3. e = [turn |-> e.turn, kind |-> e.kind] /\ e.kind \in {"Stored", "Update", "Terminal"}
  BY <1>2 DEF Event
<1>4. m \in Canonical /\ SameTurn(l, m) /\ m.kind = e.kind
  BY <1>1, <1>3 DEF Canonical, SameTurn
<1>5. \/ e.turn # l.turn /\ Becomes(l, {next}) /\ UNCHANGED mailbox
      \/ /\ e.turn = l.turn /\ mailbox' = Append(mailbox, m)
         /\ Becomes(l, IF e.kind = "Terminal" THEN {} ELSE {next})
  BY DEF deliver_desktop_session_runtime_events
<1>6. e = [turn |-> l.turn, kind |-> "Terminal"] => Ended(l.session, l.turn)
  BY <1>2 DEF Ended
<1>7. m.session = l.session /\ m.turn = l.turn
  OBVIOUS
<1> HIDE DEF e, m
<1>8. CASE e.turn # l.turn /\ Becomes(l, {next}) /\ UNCHANGED mailbox
  <2>1. e # [turn |-> l.turn, kind |-> "Terminal"]
    BY <1>8
  <2> QED BY <1>8, <2>1 DEF ThreadKind, e
<1>9. CASE /\ e.turn = l.turn /\ e.kind = "Terminal" /\ mailbox' = Append(mailbox, m)
           /\ Becomes(l, {})
  <2>1. Ended(m.session, m.turn) /\ m.kind = "Terminal"
    BY <1>3, <1>4, <1>6, <1>7, <1>9
  <2> QED BY <1>4, <1>9, <2>1 DEF ThreadKind
<1>10. CASE /\ e.turn = l.turn /\ e.kind # "Terminal" /\ mailbox' = Append(mailbox, m)
            /\ Becomes(l, {next})
  <2>1. e # [turn |-> l.turn, kind |-> "Terminal"]
    BY <1>10
  <2>2. m.kind # "Terminal"
    BY <1>4, <1>10
  <2> QED BY <1>4, <1>10, <2>1, <2>2 DEF ThreadKind, e
<1> QED BY <1>5, <1>8, <1>9, <1>10

LEMMA ThreadEffect ==
    ASSUME DInv, NEW l \in threads,
           listener_boot(l) \/ listener_first(l) \/ listener_poll(l) \/ listener_cancelled(l)
    PROVE  /\ UNCHANGED <<log, viewVars, navVars, rootVars, worker, listenerVars, requestVars,
                          reads, control>>
           /\ ThreadKind(l)
<1>0. l \in Thread /\ Logged /\ Follows(l)
  BY DEF DInv, Typed, Listening
<1>1. /\ l.session \in Session /\ l.turn \in Nat /\ l.cursor \in Nat /\ l.held \in Nat
      /\ l.cursor <= Len(log[l.session]) /\ l.held <= Len(log[l.session])
      /\ Len(log[l.session]) \in Nat
  BY <1>0, LogTyped DEF Thread, Follows
<1>2. UNCHANGED <<log, viewVars, navVars, rootVars, worker, listenerVars, requestVars,
                  reads, control>>
  BY DEF listener_boot, listener_first, listener_poll, listener_cancelled
<1> SUFFICES ThreadKind(l)
  BY <1>2
<1>3. CASE listener_boot(l)
  <2> DEFINE h == latest_target_event(l)
             n == [l EXCEPT !.at = "First", !.cursor = Len(log[l.session]), !.held = h]
  <2>1. /\ h \in 0 .. Len(log[l.session])
        /\ \A p \in Positions(l.session) :
              log[l.session][p] = [turn |-> l.turn, kind |-> "Terminal"] => h = p
    BY <1>0, LatestMeans
  <2>2. Becomes(l, {n}) /\ UNCHANGED mailbox
    BY <1>3 DEF listener_boot
  <2> HIDE DEF h
  <2>3. /\ n \in Thread /\ SameTurn(l, n) /\ n.session = l.session /\ n.turn = l.turn
        /\ n.cursor = Len(log[l.session]) /\ n.held = h
    <3> DEFINE c == Len(log[l.session])
    <3>1. h \in Nat /\ c \in Nat
      BY <1>1, <2>1
    <3>2. n = [l EXCEPT !.at = "First", !.cursor = c, !.held = h]
      OBVIOUS
    <3> HIDE DEF c, n
    <3>3. n \in Thread /\ SameTurn(l, n) /\ n.cursor = c /\ n.held = h
      BY <1>0, <3>1, <3>2 DEF Thread, SameTurn
    <3> QED BY <3>3 DEF SameTurn, c
  <2> HIDE DEF n
  <2>4. Follows(n)
    BY <1>1, <2>1, <2>3 DEF Follows, Positions
  <2> QED BY <2>2, <2>3, <2>4 DEF ThreadKind
<1>4. CASE listener_first(l)
  <2> DEFINE n == [l EXCEPT !.at = "Poll", !.held = 0]
  <2>1. /\ n \in Thread /\ SameTurn(l, n) /\ n.session = l.session /\ n.turn = l.turn
        /\ n.cursor = l.cursor /\ n.held = 0 /\ n.at = "Poll"
    BY <1>0 DEF Thread, SameTurn
  <2>2. /\ l.at = "First"
        /\ \/ l.held = 0 /\ Becomes(l, {n}) /\ UNCHANGED mailbox
           \/ l.held # 0 /\ deliver_desktop_session_runtime_events(l, l.held, n)
    BY <1>4 DEF listener_first
  <2> HIDE DEF n
  <2>3. \A p \in 1 .. l.cursor :
           log[l.session][p] = [turn |-> l.turn, kind |-> "Terminal"] => l.held = p
    BY <1>0, <2>2 DEF Follows
  <2>4. (\A p \in 1 .. l.cursor : log[l.session][p] # [turn |-> l.turn, kind |-> "Terminal"])
           => Follows(n)
    BY <1>1, <2>1 DEF Follows
  <2>5. CASE l.held = 0 /\ Becomes(l, {n}) /\ UNCHANGED mailbox
    <3>1. \A p \in 1 .. l.cursor : l.held # p
      BY <1>1, <2>5
    <3> QED BY <2>1, <2>3, <2>4, <2>5, <3>1 DEF ThreadKind
  <2>6. CASE l.held # 0 /\ deliver_desktop_session_runtime_events(l, l.held, n)
    <3>1. l.held \in Positions(l.session)
      BY <1>1, <2>6 DEF Positions
    <3>2. log[l.session][l.held] # [turn |-> l.turn, kind |-> "Terminal"] => Follows(n)
      BY <2>3, <2>4
    <3> QED BY <1>0, <2>1, <2>6, <3>1, <3>2, DeliverEffect
  <2> QED BY <2>2, <2>5, <2>6
<1>5. CASE listener_poll(l)
  <2> DEFINE n == [l EXCEPT !.cursor = @ + 1]
  <2>1. /\ n \in Thread /\ SameTurn(l, n) /\ n.session = l.session /\ n.turn = l.turn
        /\ n.cursor = l.cursor + 1 /\ n.held = l.held /\ n.at = l.at
    BY <1>0, <1>1 DEF Thread, SameTurn
  <2>2. /\ l.cursor < Len(log[l.session])
        /\ deliver_desktop_session_runtime_events(l, l.cursor + 1, n)
    BY <1>5 DEF listener_poll
  <2> HIDE DEF n
  <2>3. l.cursor + 1 \in Positions(l.session)
    BY <1>1, <2>2 DEF Positions
  <2>4. log[l.session][l.cursor + 1] # [turn |-> l.turn, kind |-> "Terminal"] => Follows(n)
    <3>1. \A p \in 1 .. l.cursor + 1 : p \in 1 .. l.cursor \/ p = l.cursor + 1
      BY <1>1
    <3> QED BY <1>0, <1>1, <2>1, <2>2, <3>1 DEF Follows
  <2> QED BY <1>0, <2>1, <2>2, <2>3, <2>4, DeliverEffect
<1>6. CASE listener_cancelled(l)
  BY <1>6 DEF listener_cancelled, ThreadKind
<1> QED BY <1>2, <1>3, <1>4, <1>5, <1>6

-----------------------------------------------------------------------------
(* Types.                                                                  *)

LEMMA MailboxAppend ==
    ASSUME Typed, NEW m \in Canonical \cup Read, mailbox' = Append(mailbox, m)
    PROVE  /\ mailbox' \in Seq(Canonical \cup Read)
           /\ Within(mailbox') = Within(mailbox) \cup {m}
BY AppendWithin DEF Typed

LEMMA ControlAppend ==
    ASSUME Typed, NEW m \in Announcement, control' = Append(control, m)
    PROVE  /\ control' \in Seq(Announcement)
           /\ Within(control') = Within(control) \cup {m}
BY AppendWithin DEF Typed

LEMMA MailboxTail ==
    ASSUME Typed, mailbox # <<>>, mailbox' = Tail(mailbox)
    PROVE  /\ mailbox' \in Seq(Canonical \cup Read)
           /\ Within(mailbox) = Within(mailbox') \cup {Head(mailbox)}
BY TailWithin DEF Typed

LEMMA ControlTail ==
    ASSUME Typed, control # <<>>, control' = Tail(control)
    PROVE  /\ control' \in Seq(Announcement)
           /\ Within(control) = Within(control') \cup {Head(control)}
BY TailWithin DEF Typed

(* What a worker puts in the control queue.                                *)
LEMMA WorkerAnnounces ==
    ASSUME Typed,
           worker_start \/ worker_announce \/ worker_finish \/ worker_unsettled
    PROVE  \E m \in Announcement :
              /\ control' = Append(control, m) /\ m.generation = worker.generation
              /\ m.type = "SessionStarted" => m.session = worker.session
<1>0. /\ worker # None /\ worker.generation \in Nat /\ worker.session \in Session
      /\ worker.turn \in Nat
  BY DEF Typed, Working, worker_start, worker_announce, worker_finish, worker_unsettled
<1>1. CASE worker_start
  <2> DEFINE m == [type |-> "SessionStarted", generation |-> worker.generation,
                   session |-> worker.session]
  <2>1. /\ m \in Announcement /\ m.generation = worker.generation
        /\ m.session = worker.session
    BY <1>0 DEF Announcement
  <2>2. control' = Append(control, m)
    BY <1>1 DEF worker_start
  <2> HIDE DEF m
  <2> QED BY <2>1, <2>2
<1>2. CASE worker_announce
  <2> DEFINE m == [type |-> "UserTurnStored", generation |-> worker.generation,
                   session |-> worker.session, turn |-> worker.turn]
  <2>1. /\ m \in Announcement /\ m.generation = worker.generation
        /\ m.session = worker.session
    BY <1>0 DEF Announcement
  <2>2. control' = Append(control, m)
    BY <1>2 DEF worker_announce
  <2> HIDE DEF m
  <2> QED BY <2>1, <2>2
<1>3. CASE worker_finish
  <2> DEFINE b == worker.at = "Terminated"
             m == [type |-> "Finished", generation |-> worker.generation, ok |-> b]
  <2>1. control' = Append(control, m)
    BY <1>3 DEF worker_finish
  <2>2. b \in BOOLEAN
    OBVIOUS
  <2> HIDE DEF b
  <2>3. /\ m \in Announcement /\ m.generation = worker.generation
        /\ m.type # "SessionStarted"
    BY <1>0, <2>2 DEF Announcement
  <2> HIDE DEF m
  <2> QED BY <2>1, <2>3
<1>4. CASE worker_unsettled
  <2> DEFINE m == [type |-> "Finished", generation |-> worker.generation, ok |-> FALSE]
  <2>1. control' = Append(control, m)
    BY <1>4 DEF worker_unsettled
  <2>2. /\ m \in Announcement /\ m.generation = worker.generation
        /\ m.type # "SessionStarted"
    BY <1>0 DEF Announcement
  <2> HIDE DEF m
  <2> QED BY <2>1, <2>2
<1> QED BY <1>1, <1>2, <1>3, <1>4

(* What a worker leaves of itself.                                         *)
LEMMA WorkerStays ==
    ASSUME Logged, Typed,
           \/ worker_start \/ worker_store \/ worker_announce \/ worker_update
           \/ worker_terminal \/ worker_finish \/ worker_unsettled
    PROVE  worker' # None => /\ worker # None /\ worker' \in Working
                             /\ worker'.generation = worker.generation
                             /\ worker'.session = worker.session
<1> DEFINE Stays(x, y) == /\ y \in Working /\ y.generation = x.generation
                          /\ y.session = x.session
<1>0. worker # None /\ worker \in Working
  BY DEF Typed, worker_start, worker_store, worker_announce, worker_update, worker_terminal,
         worker_finish, worker_unsettled
<1>1. ASSUME NEW x \in Working, NEW a \in {"Started", "Working", "Terminated"}
      PROVE  Stays(x, [x EXCEPT !.at = a])
  BY DEF Working
<1>2. ASSUME NEW x \in Working, NEW t \in Nat
      PROVE  Stays(x, [x EXCEPT !.at = "Stored", !.turn = t])
  BY DEF Working
<1>3. NextTurn \in Nat
  BY FS_CardinalityType DEF NextTurn, Count, Logged
<1>4. \/ worker' = None \/ worker' = worker
      \/ worker' = [worker EXCEPT !.at = "Started"]
      \/ worker' = [worker EXCEPT !.at = "Working"]
      \/ worker' = [worker EXCEPT !.at = "Terminated"]
      \/ worker' = [worker EXCEPT !.at = "Stored", !.turn = NextTurn]
  BY DEF worker_start, worker_store, worker_announce, worker_update, worker_terminal,
         worker_finish, worker_unsettled
<1>5. Stays(worker, worker)
  BY <1>0
<1>6. Stays(worker, [worker EXCEPT !.at = "Stored", !.turn = NextTurn])
  BY <1>0, <1>2, <1>3
<1>7. /\ Stays(worker, [worker EXCEPT !.at = "Started"])
      /\ Stays(worker, [worker EXCEPT !.at = "Working"])
      /\ Stays(worker, [worker EXCEPT !.at = "Terminated"])
  BY <1>0, <1>1
<1>8. worker' = None \/ Stays(worker, worker')
  <2> HIDE DEF Stays
  <2> QED BY <1>4, <1>5, <1>6, <1>7
<1> QED BY <1>0, <1>8

LEMMA ExpectationTyped ==
    ASSUME Logged
    PROVE  /\ initial_idle \in Expectation
           /\ \A s \in Session : \A n \in 0 .. Len(log[s]) :
                 ExpectationOf(Prefix(s, n)) \in Expectation
<1>1. \A q : IsRunning(q) \in BOOLEAN
  BY DEF IsRunning
<1>2. \A q : TurnOf(q) \in Nat => ExpectationOf(q) \in Expectation
  BY <1>1 DEF ExpectationOf, Expectation
<1>3. TurnOf(<<>>) \in Nat
  BY DEF TurnOf
<1> QED BY <1>2, <1>3, PrefixMeans DEF initial_idle

LEMMA ExpectationStep ==
    ASSUME DInv, [Next]_vars
    PROVE  expectation' \in Expectation
<1>0. expectation \in Expectation /\ Logged /\ Typed /\ ReadsOK
  BY DEF DInv, Typed
<1>1. initial_idle \in Expectation /\ apply_terminal_outcome_projection \in Expectation
  BY <1>0, ExpectationTyped DEF apply_terminal_outcome_projection, Expectation
<1>2. CASE UNCHANGED expectation
  BY <1>0, <1>2
<1>3. CASE drain_control
  <2>1. expectation' \in {expectation, initial_idle, apply_terminal_outcome_projection}
    BY <1>3 DEF drain_control, SessionStarted, UserTurnStored, settle_root_finished, viewVars
  <2> QED BY <1>0, <1>1, <2>1
<1>4. CASE drain_runtime
  <2> DEFINE m == Head(mailbox)
             view == Merged(m.session, m.prefix)
  <2>1. /\ m.session \in Session
        /\ m.type # "Canonical" /\ m.prefix # Failed => m.prefix \in 0 .. Len(log[m.session])
    BY <1>0, <1>4, HeadRead DEF drain_runtime
  <2>2. \/ UNCHANGED expectation
        \/ expectation' = apply_terminal_outcome_projection
        \/ /\ m.type # "Canonical" /\ m.prefix # Failed
           /\ \/ expectation' = ExpectationOf(Prefix(view.session, view.prefix))
              \/ expectation' = ExpectationOf(Prefix(m.session, m.prefix))
    BY <1>4 DEF drain_runtime, CanonicalSessionEvent, LiveSessionRefreshed,
                CurrentSessionRefreshed, apply_session_loaded_message, viewVars
  <2>3. m.type # "Canonical" /\ m.prefix # Failed =>
           view.session = m.session /\ view.prefix \in 0 .. Len(log[m.session])
    BY <1>0, <2>1, MergedView
  <2> HIDE DEF m, view
  <2> QED BY <1>0, <1>1, <2>1, <2>2, <2>3, ExpectationTyped
<1>5. ASSUME ~drain_control, ~drain_runtime
      PROVE  UNCHANGED expectation
  <2>1. ASSUME NEW s \in Session,
               \/ select_session(s) \/ launch_run(s)
               \/ outside_store(s) \/ outside_update(s) \/ outside_terminal(s)
        PROVE  UNCHANGED expectation
    BY <2>1 DEF select_session, launch_run, outside_store, outside_update, outside_terminal,
                viewVars
  <2>2. ASSUME \/ worker_start \/ worker_store \/ worker_announce \/ worker_update
               \/ worker_terminal \/ worker_finish \/ worker_unsettled
        PROVE  UNCHANGED expectation
    BY <2>2 DEF worker_start, worker_store, worker_announce, worker_update, worker_terminal,
                worker_finish, worker_unsettled, viewVars
  <2>3. ASSUME NEW r \in reads, read_session(r) \/ send_read(r)
        PROVE  UNCHANGED expectation
    BY <2>3 DEF read_session, send_read, viewVars
  <2>4. ASSUME NEW l \in threads,
               listener_boot(l) \/ listener_first(l) \/ listener_poll(l) \/ listener_cancelled(l)
        PROVE  UNCHANGED expectation
    BY <2>4 DEF listener_boot, listener_first, listener_poll, listener_cancelled, viewVars
  <2>5. CASE UNCHANGED vars
    BY <2>5 DEF vars, viewVars
  <2> QED BY <1>5, <2>1, <2>2, <2>3, <2>4, <2>5 DEF Next
<1> QED BY <1>2, <1>3, <1>4, <1>5

LEMMA TypedStep ==
    ASSUME DInv, [Next]_vars
    PROVE  Typed'
<1>0. Typed /\ Logged /\ expectation' \in Expectation
  BY ExpectationStep DEF DInv
<1>1. ASSUME NEW s \in Session, select_session(s)
      PROVE  Typed'
  <2>1. [type |-> "Loaded", id |-> navigations + 1, session |-> s, prefix |-> Unread] \in Read
    BY <1>0 DEF Typed, Read, Unread
  <2> QED BY <1>0, <1>1, <2>1
          DEF Typed, select_session, invalidate_session_target_requests,
              stop_session_runtime_listener, viewVars, rootVars
<1>2. ASSUME NEW s \in Session, launch_run(s)
      PROVE  Typed'
  <2> DEFINE t == current_active_turn_expectation.turn
  <2>0. t \in Nat
    BY <1>0, ExpectationTyped DEF current_active_turn_expectation, Typed, Expectation
  <2> HIDE DEF t
  <2>1. /\ [generation |-> next_root, phase |-> "Running"]
              \in [generation : Nat, phase : {"Running", "Finalizing"}]
        /\ [generation |-> next_root, session |-> s, turn |-> t, at |-> "Launched"] \in Working
        /\ next_root + 1 \in Nat
    BY <1>0, <2>0 DEF Typed, Working
  <2>2. /\ UNCHANGED <<current, navVars, listenerVars, threads, requestVars, reads, mailbox,
                       control>>
        /\ next_root' = next_root + 1
        /\ \/ /\ root' = [generation |-> next_root, phase |-> "Running"]
              /\ worker' = [generation |-> next_root, session |-> s, turn |-> t,
                            at |-> "Launched"]
           \/ UNCHANGED <<root, worker>>
    BY <1>2 DEF launch_run, t
  <2> QED BY <1>0, <2>1, <2>2 DEF Typed, navVars, listenerVars, requestVars
<1>3. ASSUME UNCHANGED <<viewVars, navVars, rootVars, worker, listenerVars, threads, requestVars,
                         reads, mailbox, control>>
      PROVE  Typed'
  BY <1>0, <1>3 DEF Typed, viewVars, navVars, rootVars, listenerVars, requestVars
<1>4. ASSUME NEW s \in Session, outside_store(s) \/ outside_update(s) \/ outside_terminal(s)
      PROVE  Typed'
  BY <1>3, <1>4 DEF outside_store, outside_update, outside_terminal
<1>5. ASSUME \/ worker_start \/ worker_store \/ worker_announce \/ worker_update
             \/ worker_terminal \/ worker_finish \/ worker_unsettled
      PROVE  Typed'
  <2>1. worker' # None => worker' \in Working
    BY <1>0, <1>5, WorkerStays
  <2>2. control' \in Seq(Announcement)
    <3>1. CASE worker_start \/ worker_announce \/ worker_finish \/ worker_unsettled
      BY <1>0, <3>1, WorkerAnnounces, ControlAppend
    <3>2. CASE worker_store \/ worker_update \/ worker_terminal
      BY <1>0, <3>2 DEF Typed, worker_store, worker_update, worker_terminal
    <3> QED BY <1>5, <3>1, <3>2
  <2>3. UNCHANGED <<viewVars, navVars, rootVars, listenerVars, threads, requestVars,
                    reads, mailbox>>
    BY <1>5 DEF worker_start, worker_store, worker_announce, worker_update, worker_terminal,
                worker_finish, worker_unsettled
  <2> QED BY <1>0, <2>1, <2>2, <2>3 DEF Typed, viewVars, navVars, rootVars, listenerVars,
                                        requestVars
<1>6. ASSUME NEW r \in reads, read_session(r)
      PROVE  Typed'
  <2>1. r \in Read /\ r.session \in Session
    BY <1>0 DEF Typed, Read
  <2>2. Len(log[r.session]) \in Int /\ Failed \in Int
    BY <1>0, <2>1, LogTyped DEF Failed
  <2>3. PICK n \in Int : reads' = (reads \ {r}) \cup {[r EXCEPT !.prefix = n]}
    BY <1>6, <2>2 DEF read_session
  <2>4. [r EXCEPT !.prefix = n] \in Read
    BY <2>1 DEF Read
  <2>5. UNCHANGED <<viewVars, navVars, rootVars, worker, listenerVars, threads, requestVars,
                    mailbox, control>>
    BY <1>6 DEF read_session
  <2> QED BY <1>0, <2>3, <2>4, <2>5 DEF Typed, viewVars, navVars, rootVars, listenerVars,
                                        requestVars
<1>7. ASSUME NEW r \in reads, send_read(r)
      PROVE  Typed'
  <2>1. r \in Canonical \cup Read /\ mailbox' = Append(mailbox, r) /\ reads' = reads \ {r}
    BY <1>0, <1>7 DEF Typed, send_read
  <2>2. mailbox' \in Seq(Canonical \cup Read)
    BY <1>0, <2>1, MailboxAppend
  <2>3. UNCHANGED <<viewVars, navVars, rootVars, worker, listenerVars, threads, requestVars,
                    control>>
    BY <1>7 DEF send_read
  <2> QED BY <1>0, <2>1, <2>2, <2>3 DEF Typed, viewVars, navVars, rootVars, listenerVars,
                                        requestVars
<1>8. ASSUME NEW l \in threads,
             listener_boot(l) \/ listener_first(l) \/ listener_poll(l) \/ listener_cancelled(l)
      PROVE  Typed'
  <2>1. /\ UNCHANGED <<log, viewVars, navVars, rootVars, worker, listenerVars, requestVars,
                       reads, control>>
        /\ ThreadKind(l)
    BY <1>8, ThreadEffect
  <2>2. threads' \subseteq Thread
    BY <1>0, <2>1 DEF ThreadKind, Becomes, Typed
  <2>3. mailbox' \in Seq(Canonical \cup Read)
    <3>1. \/ mailbox' = mailbox
          \/ \E m \in Canonical : mailbox' = Append(mailbox, m)
      BY <2>1 DEF ThreadKind
    <3>2. ASSUME NEW m \in Canonical, mailbox' = Append(mailbox, m)
          PROVE  mailbox' \in Seq(Canonical \cup Read)
      BY <1>0, <3>2, MailboxAppend
    <3> QED BY <1>0, <3>1, <3>2 DEF Typed
  <2> QED BY <1>0, <2>1, <2>2, <2>3 DEF Typed, viewVars, navVars, rootVars, listenerVars,
                                        requestVars
<1>9. ASSUME drain_control
      PROVE  Typed'
  <2>1. /\ UNCHANGED <<log, worker, mailbox, open, navVars, next_root>>
        /\ control # <<>> /\ control' = Tail(control)
        /\ ListenerKind /\ ReadKind /\ (root' = root \/ root' = None)
        /\ current' # current => current' \in Session
    BY <1>9, ControlEffect
  <2>2. /\ next_listener' \in Nat /\ threads' \subseteq Thread
        /\ listener' # None => listener' \in [generation : Nat, session : Session, turn : Nat]
    BY <1>0, <2>1, ListenerTyped
  <2>3. next_request' \in Nat /\ reads' \subseteq Read
    BY <1>0, <2>1, ReadTyped
  <2>4. control' \in Seq(Announcement)
    BY <1>0, <2>1, ControlTail
  <2> QED BY <1>0, <2>1, <2>2, <2>3, <2>4 DEF Typed, navVars
<1>10. ASSUME drain_runtime
       PROVE  Typed'
  <2>1. /\ UNCHANGED <<log, worker, control, next_root, navigations>>
        /\ mailbox # <<>> /\ mailbox' = Tail(mailbox)
        /\ RuntimeKind(Head(mailbox))
    BY <1>10, RuntimeEffect
  <2>2. /\ ListenerKind /\ ReadKind
        /\ root' = root \/ (root # None /\ root' = [root EXCEPT !.phase = "Finalizing"])
        /\ current' # current => current' \in Session
    BY <2>1 DEF RuntimeKind, ViewKind, ListenerKind
  <2>3. /\ next_listener' \in Nat /\ threads' \subseteq Thread
        /\ listener' # None => listener' \in [generation : Nat, session : Session, turn : Nat]
    BY <1>0, <2>2, ListenerTyped
  <2>4. next_request' \in Nat /\ reads' \subseteq Read
    BY <1>0, <2>2, ReadTyped
  <2>5. mailbox' \in Seq(Canonical \cup Read)
    BY <1>0, <2>1, MailboxTail
  <2>6. \A x \in [generation : Nat, phase : {"Running", "Finalizing"}] :
           [x EXCEPT !.phase = "Finalizing"]
              \in [generation : Nat, phase : {"Running", "Finalizing"}]
    OBVIOUS
  <2> QED BY <1>0, <2>1, <2>2, <2>3, <2>4, <2>5, <2>6 DEF Typed
<1>11. ASSUME UNCHANGED vars
       PROVE  Typed'
  BY <1>3, <1>11 DEF vars
<1> QED BY <1>1, <1>2, <1>4, <1>5, <1>6, <1>7, <1>8, <1>9, <1>10, <1>11 DEF Next

-----------------------------------------------------------------------------
(* What was read of a session stays a prefix of it.                        *)

LEMMA ReadStays ==
    ASSUME Logged, LogGrows, NEW r, r.session \in Session, ReadOK(r)
    PROVE  ReadOK(r)'
<1>1. /\ Len(log[r.session]) \in Nat /\ Len(log'[r.session]) \in Nat
      /\ Len(log[r.session]) <= Len(log'[r.session])
  BY LogTyped DEF LogGrows
<1> QED BY <1>1 DEF ReadOK

LEMMA ReadsFrame ==
    ASSUME Logged, Typed, ReadsOK, LogGrows,
           \A r \in reads' : r \in reads \/ ReadOK(r)',
           \A m \in Within(mailbox') :
              \/ m \in Within(mailbox) \/ m.type = "Canonical"
              \/ ReadOK(m)' /\ m.prefix # Unread,
           \/ UNCHANGED open
           \/ /\ UNCHANGED log
              /\ open'.session \in Session /\ open'.prefix \in 0 .. Len(log[open'.session])
    PROVE  ReadsOK'
<1>1. \A r \in reads : r.session \in Session
  BY DEF Typed, Read
<1>2. \A m \in Within(mailbox) : m.session \in Session
  <2>1. \A m \in Within(mailbox) : m \in Canonical \cup Read
    BY WithinTyped DEF Typed
  <2> QED BY <2>1 DEF Canonical, Read
<1>3. \A r \in reads' : ReadOK(r)'
  BY <1>1, ReadStays DEF ReadsOK
<1>4. \A m \in Within(mailbox') : m.type # "Canonical" => ReadOK(m)' /\ m.prefix # Unread
  BY <1>2, ReadStays DEF ReadsOK
<1>5. open' # None =>
         open'.session \in Session /\ open'.prefix \in 0 .. Len(log'[open'.session])
  <2>1. CASE UNCHANGED open
    BY <2>1, PrefixStays DEF ReadsOK
  <2>2. CASE /\ UNCHANGED log
             /\ open'.session \in Session /\ open'.prefix \in 0 .. Len(log[open'.session])
    BY <2>2
  <2> QED BY <2>1, <2>2
<1> QED BY <1>3, <1>4, <1>5 DEF ReadsOK, Within

LEMMA UnreadIsOK ==
    ASSUME NEW r, r.prefix = Unread
    PROVE  ReadOK(r)'
BY DEF ReadOK

LEMMA ReadKindIsOK ==
    ASSUME ReadKind
    PROVE  \A r \in reads' : r \in reads \/ ReadOK(r)'
BY UnreadIsOK DEF ReadKind

LEMMA ReadsStep ==
    ASSUME DInv, [Next]_vars
    PROVE  ReadsOK'
<1>0. Typed /\ Logged /\ ReadsOK /\ LogGrows
  BY LogStep DEF DInv
<1>1. ASSUME UNCHANGED open, UNCHANGED mailbox, ReadKind
      PROVE  ReadsOK'
  BY <1>0, <1>1, ReadKindIsOK, ReadsFrame
<1>2. ASSUME NEW s \in Session, select_session(s)
      PROVE  ReadsOK'
  <2> DEFINE r == [type |-> "Loaded", id |-> navigations + 1, session |-> s, prefix |-> Unread]
  <2>1. r.prefix = Unread
    OBVIOUS
  <2>2. reads' = reads \cup {r} /\ UNCHANGED <<viewVars, mailbox>>
    BY <1>2 DEF select_session
  <2> HIDE DEF r
  <2> QED BY <1>0, <2>1, <2>2, UnreadIsOK, ReadsFrame DEF viewVars
<1>3. ASSUME UNCHANGED <<open, reads, mailbox>>
      PROVE  ReadsOK'
  BY <1>0, <1>3, ReadsFrame
<1>4. ASSUME NEW s \in Session, \/ launch_run(s) \/ outside_store(s) \/ outside_update(s)
                                \/ outside_terminal(s)
      PROVE  ReadsOK'
  BY <1>3, <1>4 DEF launch_run, outside_store, outside_update, outside_terminal, viewVars
<1>5. ASSUME \/ worker_start \/ worker_store \/ worker_announce \/ worker_update
             \/ worker_terminal \/ worker_finish \/ worker_unsettled
      PROVE  ReadsOK'
  BY <1>3, <1>5 DEF worker_start, worker_store, worker_announce, worker_update,
                    worker_terminal, worker_finish, worker_unsettled, viewVars
<1>6. ASSUME NEW r \in reads, read_session(r)
      PROVE  ReadsOK'
  <2>1. r \in Read /\ r.session \in Session
    BY <1>0 DEF Typed, Read
  <2>2. PICK n \in {Failed} \cup {Len(log[r.session])} :
            reads' = (reads \ {r}) \cup {[r EXCEPT !.prefix = n]}
    BY <1>6 DEF read_session
  <2>3. UNCHANGED <<log, open, mailbox>>
    BY <1>6 DEF read_session, viewVars
  <2>4. Len(log[r.session]) \in Nat
    BY <1>0, <2>1, LogTyped
  <2> DEFINE x == [r EXCEPT !.prefix = n]
  <2>5. x.session = r.session /\ x.prefix = n
    BY <2>1 DEF Read
  <2>6. reads' = (reads \ {r}) \cup {x}
    BY <2>2
  <2> HIDE DEF x
  <2>7. ReadOK(x)'
    BY <2>2, <2>3, <2>4, <2>5 DEF ReadOK
  <2> QED BY <1>0, <2>3, <2>6, <2>7, ReadsFrame
<1>7. ASSUME NEW r \in reads, send_read(r)
      PROVE  ReadsOK'
  <2>1. r \in Canonical \cup Read /\ mailbox' = Append(mailbox, r) /\ reads' = reads \ {r}
    BY <1>0, <1>7 DEF Typed, send_read
  <2>2. Within(mailbox') = Within(mailbox) \cup {r}
    BY <1>0, <2>1, MailboxAppend
  <2>3. r.prefix # Unread /\ UNCHANGED <<log, open>>
    BY <1>7 DEF send_read, viewVars
  <2>4. ReadOK(r)'
    BY <1>0, <2>3 DEF ReadsOK, ReadOK
  <2> QED BY <1>0, <2>1, <2>2, <2>3, <2>4, ReadsFrame
<1>8. ASSUME NEW l \in threads,
             listener_boot(l) \/ listener_first(l) \/ listener_poll(l) \/ listener_cancelled(l)
      PROVE  ReadsOK'
  <2>1. UNCHANGED <<viewVars, reads>> /\ ThreadKind(l)
    BY <1>8, ThreadEffect
  <2>2. \/ mailbox' = mailbox
        \/ \E m \in Canonical : mailbox' = Append(mailbox, m)
    BY <2>1 DEF ThreadKind
  <2>3. ASSUME NEW m \in Canonical, mailbox' = Append(mailbox, m)
        PROVE  ReadsOK'
    <3>1. Within(mailbox') = Within(mailbox) \cup {m} /\ m.type = "Canonical"
      BY <1>0, <2>3, MailboxAppend DEF Canonical
    <3> QED BY <1>0, <2>1, <3>1, ReadsFrame DEF viewVars
  <2> QED BY <1>3, <2>1, <2>2, <2>3 DEF viewVars
<1>9. ASSUME drain_control
      PROVE  ReadsOK'
  BY <1>1, <1>9, ControlEffect
<1>10. ASSUME drain_runtime
       PROVE  ReadsOK'
  <2>1. /\ UNCHANGED log
        /\ mailbox # <<>> /\ mailbox' = Tail(mailbox)
        /\ RuntimeKind(Head(mailbox))
    BY <1>10, RuntimeEffect
  <2>2. Within(mailbox') \subseteq Within(mailbox)
    BY <1>0, <2>1, MailboxTail
  <2>3. /\ ReadKind
        /\ \/ UNCHANGED open
           \/ open'.session \in Session /\ open'.prefix \in 0 .. Len(log[open'.session])
    BY <2>1 DEF RuntimeKind, ViewKind
  <2> QED BY <1>0, <2>1, <2>2, <2>3, ReadKindIsOK, ReadsFrame
<1>11. ASSUME UNCHANGED vars
       PROVE  ReadsOK'
  BY <1>3, <1>11 DEF vars, viewVars
<1> QED BY <1>2, <1>4, <1>5, <1>6, <1>7, <1>8, <1>9, <1>10, <1>11 DEF Next

-----------------------------------------------------------------------------
(* The run that the Desktop launched.                                      *)

(* A step that launches nothing: the run stays or ends, its worker stays   *)
(* or returns, and what is new on the control queue is the worker's.       *)
LEMMA RootFrame ==
    ASSUME RootAt, UNCHANGED next_root,
           worker' # None => /\ worker # None /\ worker'.generation = worker.generation
                             /\ worker'.session = worker.session,
           \A m \in Within(control') :
              \/ m \in Within(control)
              \/ /\ worker # None /\ m.generation = worker.generation
                 /\ m.type = "SessionStarted" => m.session = worker.session,
           root' # None => root # None /\ root'.generation = root.generation,
           \/ UNCHANGED current
           \/ root = None
           \/ \E m \in Within(control) : /\ m.type = "SessionStarted"
                                         /\ m.generation = root.generation
                                         /\ current' = m.session
    PROVE  RootAt'
<1>1. worker' # None => worker'.generation < next_root'
  BY DEF RootAt
<1>2. \A m \in Within(control') : m.generation < next_root'
  BY DEF RootAt
<1>3. ASSUME root' # None
      PROVE  \E s \in Session :
                /\ current' \in {None, s}
                /\ worker' # None /\ worker'.generation = root'.generation => worker'.session = s
                /\ \A m \in Within(control') :
                      m.type = "SessionStarted" /\ m.generation = root'.generation
                          => m.session = s
  <2>1. root # None /\ root'.generation = root.generation
    BY <1>3
  <2>2. PICK s \in Session :
              /\ current \in {None, s}
              /\ worker # None /\ worker.generation = root.generation => worker.session = s
              /\ \A m \in Within(control) :
                    m.type = "SessionStarted" /\ m.generation = root.generation
                        => m.session = s
    BY <2>1 DEF RootAt
  <2>3. current' \in {None, s}
    BY <2>1, <2>2
  <2> QED BY <2>1, <2>2, <2>3
<1> QED BY <1>1, <1>2, <1>3 DEF RootAt, Within

LEMMA RootStep ==
    ASSUME DInv, [Next]_vars
    PROVE  RootAt'
<1>0. Typed /\ Logged /\ RootAt
  BY DEF DInv
<1>1. ASSUME UNCHANGED <<next_root, worker, control, root, current>>
      PROVE  RootAt'
  BY <1>0, <1>1, RootFrame
<1>2. ASSUME NEW s \in Session,
             \/ select_session(s) \/ outside_store(s) \/ outside_update(s) \/ outside_terminal(s)
      PROVE  RootAt'
  BY <1>1, <1>2 DEF select_session, outside_store, outside_update, outside_terminal, viewVars,
                    rootVars
<1>3. ASSUME NEW s \in Session, launch_run(s)
      PROVE  RootAt'
  <2>1. /\ root = None /\ (IF current = None THEN log[s] = <<>> ELSE s = current)
        /\ UNCHANGED <<current, control>> /\ next_root' = next_root + 1
        /\ \/ /\ root' = [generation |-> next_root, phase |-> "Running"]
              /\ worker' = [generation |-> next_root, session |-> s,
                            turn |-> current_active_turn_expectation.turn, at |-> "Launched"]
           \/ UNCHANGED <<root, worker>>
    BY <1>3 DEF launch_run
  <2>2. /\ next_root \in Nat /\ current \in {None, s}
        /\ worker # None => worker.generation \in Nat /\ worker.generation < next_root
        /\ \A m \in Within(control) : m.generation \in Nat /\ m.generation < next_root
    <3>1. \A m \in Announcement : m.generation \in Nat
      BY DEF Announcement
    <3>2. \A m \in Within(control) : m \in Announcement
      BY <1>0, WithinTyped DEF Typed
    <3> QED BY <1>0, <2>1, <3>1, <3>2 DEF Typed, RootAt, Working
  <2>3. Within(control') = Within(control)
    BY <2>1
  <2>4. /\ worker' # None => worker'.generation < next_root'
        /\ \A m \in Within(control') : m.generation < next_root'
    BY <2>1, <2>2, <2>3
  <2>5. ASSUME root' # None
        PROVE  /\ current' \in {None, s}
               /\ worker' # None /\ worker'.generation = root'.generation => worker'.session = s
               /\ \A m \in Within(control') :
                      m.type = "SessionStarted" /\ m.generation = root'.generation
                          => m.session = s
    <3>1. root'.generation = next_root /\ worker'.session = s
      BY <2>1, <2>5
    <3>2. \A m \in Within(control') : m.generation # root'.generation
      BY <2>2, <2>3, <3>1
    <3> QED BY <2>1, <2>2, <3>1, <3>2
  <2> QED BY <2>4, <2>5 DEF RootAt, Within
<1>4. ASSUME \/ worker_start \/ worker_store \/ worker_announce \/ worker_update
             \/ worker_terminal \/ worker_finish \/ worker_unsettled
      PROVE  RootAt'
  <2>1. worker' # None => /\ worker # None /\ worker'.generation = worker.generation
                          /\ worker'.session = worker.session
    BY <1>0, <1>4, WorkerStays
  <2>2. UNCHANGED <<current, rootVars>> /\ worker # None
    BY <1>4 DEF worker_start, worker_store, worker_announce, worker_update, worker_terminal,
                worker_finish, worker_unsettled, viewVars
  <2>3. \A m \in Within(control') :
              \/ m \in Within(control)
              \/ /\ m.generation = worker.generation
                 /\ m.type = "SessionStarted" => m.session = worker.session
    <3>1. CASE worker_start \/ worker_announce \/ worker_finish \/ worker_unsettled
      <4>1. PICK m \in Announcement :
                    /\ control' = Append(control, m) /\ m.generation = worker.generation
                    /\ m.type = "SessionStarted" => m.session = worker.session
        BY <1>0, <3>1, WorkerAnnounces
      <4>2. Within(control') = Within(control) \cup {m}
        BY <1>0, <4>1, ControlAppend
      <4> QED BY <4>1, <4>2
    <3>2. CASE worker_store \/ worker_update \/ worker_terminal
      BY <3>2 DEF worker_store, worker_update, worker_terminal
    <3> QED BY <1>4, <3>1, <3>2
  <2> QED BY <1>0, <2>1, <2>2, <2>3, RootFrame DEF rootVars
<1>5. ASSUME NEW r \in reads, read_session(r) \/ send_read(r)
      PROVE  RootAt'
  BY <1>1, <1>5 DEF read_session, send_read, viewVars, rootVars
<1>6. ASSUME NEW l \in threads,
             listener_boot(l) \/ listener_first(l) \/ listener_poll(l) \/ listener_cancelled(l)
      PROVE  RootAt'
  BY <1>1, <1>6, ThreadEffect DEF viewVars, rootVars
<1>7. ASSUME drain_control
      PROVE  RootAt'
  <2>1. /\ UNCHANGED <<log, worker, mailbox, open, navVars, next_root>>
        /\ control # <<>> /\ control' = Tail(control)
        /\ root' = root \/ root' = None
        /\ current' # current => /\ Head(control).type = "SessionStarted"
                                 /\ Head(control).generation = root.generation
                                 /\ current' = Head(control).session
    BY <1>7, ControlEffect
  <2>2. Within(control) = Within(control') \cup {Head(control)}
    BY <1>0, <2>1, ControlTail
  <2> HIDE DEF Within
  <2> QED BY <1>0, <2>1, <2>2, RootFrame
<1>8. ASSUME drain_runtime
      PROVE  RootAt'
  <2>1. /\ UNCHANGED <<log, worker, control, next_root, navigations>>
        /\ RuntimeKind(Head(mailbox))
    BY <1>8, RuntimeEffect
  <2>2. /\ root' = root \/ (root # None /\ root' = [root EXCEPT !.phase = "Finalizing"])
        /\ current' # current => root = None
    BY <2>1 DEF RuntimeKind
  <2>3. \A x \in [generation : Nat, phase : {"Running", "Finalizing"}] :
           [x EXCEPT !.phase = "Finalizing"].generation = x.generation
    OBVIOUS
  <2>4. root' # None => root # None /\ root'.generation = root.generation
    BY <1>0, <2>2, <2>3 DEF Typed
  <2> QED BY <1>0, <2>1, <2>2, <2>4, RootFrame
<1>9. ASSUME UNCHANGED vars
      PROVE  RootAt'
  BY <1>1, <1>9 DEF vars, viewVars, rootVars
<1> QED BY <1>2, <1>3, <1>4, <1>5, <1>6, <1>7, <1>8, <1>9 DEF Next

-----------------------------------------------------------------------------
(* The listener.                                                           *)

LEMMA EndedStays ==
    ASSUME Logged, LogGrows, NEW s \in Session, NEW t, Ended(s, t)
    PROVE  Ended(s, t)'
<1>1. PICK p \in 1 .. Len(log[s]) : log[s][p] = [turn |-> t, kind |-> "Terminal"]
  BY LogTyped DEF Ended
<1>2. /\ Len(log[s]) \in Nat /\ Len(log'[s]) \in Nat /\ Len(log[s]) <= Len(log'[s])
      /\ DOMAIN log'[s] = 1 .. Len(log'[s])
      /\ log'[s][p] = log[s][p]
  BY LogTyped DEF LogGrows, Positions
<1>3. p \in DOMAIN log'[s] /\ log'[s][p] = [turn |-> t, kind |-> "Terminal"]
  BY <1>1, <1>2
<1> QED BY <1>3 DEF Ended

LEMMA FollowsStays ==
    ASSUME Logged, LogGrows, NEW l \in Thread, Follows(l)
    PROVE  Follows(l)'
<1>1. l.session \in Session /\ l.cursor \in Nat /\ l.held \in Nat
  BY DEF Thread
<1>2. /\ Len(log[l.session]) \in Nat /\ Len(log'[l.session]) \in Nat
      /\ Len(log[l.session]) <= Len(log'[l.session])
      /\ \A p \in 1 .. Len(log[l.session]) : log'[l.session][p] = log[l.session][p]
  BY <1>1, LogTyped DEF LogGrows, Positions
<1>3. \A p \in 1 .. l.cursor : log'[l.session][p] = log[l.session][p]
  BY <1>1, <1>2 DEF Follows
<1> QED BY <1>1, <1>2, <1>3 DEF Follows

LEMMA MatchesStays ==
    ASSUME Typed, ListenerKind, NEW x, x.generation \in Nat, Matches(x)
    PROVE  Matches(x)'
<1>1. CASE UNCHANGED <<listenerVars, threads>>
  BY <1>1 DEF Matches, listenerVars
<1>2. CASE stop_session_runtime_listener
  BY <1>2 DEF Matches, stop_session_runtime_listener
<1>3. ASSUME NEW s \in Session, NEW t \in Nat, Begun(s, t)
      PROVE  Matches(x)'
  <2>1. next_listener \in Nat /\ x.generation < next_listener
    BY DEF Typed, Matches
  <2>2. listener'.generation = next_listener /\ next_listener' = next_listener + 1
    BY <1>3 DEF Begun
  <2> QED BY <2>1, <2>2 DEF Matches
<1> QED BY <1>1, <1>2, <1>3 DEF ListenerKind

LEMMA LetterTyped ==
    ASSUME Typed, NEW m \in Within(mailbox), m.type = "Canonical"
    PROVE  m.generation \in Nat /\ m.session \in Session
<1>1. m \in Canonical \cup Read
  BY WithinTyped DEF Typed
<1> QED BY <1>1 DEF Canonical, Read

(* A step of anyone but a listener thread.                                 *)
LEMMA ListeningFrame ==
    ASSUME Logged, Typed, Listening, LogGrows, ListenerKind,
           listener' # None => current' = listener'.session,
           \A m \in Within(mailbox') : m.type = "Canonical" => m \in Within(mailbox),
           listener # None /\ UNCHANGED listenerVars =>
              \A m \in Within(mailbox) : Awaits(m) => m \in Within(mailbox')
    PROVE  Listening'
<1>1. \A l \in threads : Matches(l)' /\ Follows(l)'
  <2>1. \A l \in threads : l \in Thread /\ l.generation \in Nat /\ Matches(l) /\ Follows(l)
    BY DEF Typed, Thread, Listening
  <2> QED BY <2>1, MatchesStays, FollowsStays
<1>2. ASSUME NEW m \in Within(mailbox'), m.type = "Canonical"
      PROVE  Matches(m)' /\ (m.kind = "Terminal" => Ended(m.session, m.turn)')
  <2>1. m \in Within(mailbox) /\ m.generation \in Nat /\ m.session \in Session
    BY <1>2, LetterTyped
  <2>2. Matches(m) /\ (m.kind = "Terminal" => Ended(m.session, m.turn))
    BY <1>2, <2>1 DEF Listening
  <2> QED BY <2>1, <2>2, MatchesStays, EndedStays
<1>3. /\ listener' # None => listener'.generation < next_listener'
      /\ \A l \in threads' : Matches(l)' /\ Follows(l)'
      /\ listener' # None =>
            \/ \E l \in threads' : l.generation = listener'.generation
            \/ \E m \in Within(mailbox') :
                  /\ m.type = "Canonical" /\ m.kind = "Terminal"
                  /\ m.generation = listener'.generation
  <2>1. CASE UNCHANGED <<listenerVars, threads>>
    <3>1. threads' = threads /\ listener' = listener /\ next_listener' = next_listener
      BY <2>1 DEF listenerVars
    <3>2. listener # None => \A m \in Within(mailbox) : Awaits(m) => m \in Within(mailbox')
      BY <2>1
    <3> QED BY <1>1, <3>1, <3>2 DEF Listening, Attended, Awaits
  <2>2. CASE stop_session_runtime_listener
    BY <1>1, <2>2 DEF stop_session_runtime_listener
  <2>3. ASSUME NEW s \in Session, NEW t \in Nat, Begun(s, t)
        PROVE  /\ listener'.generation < next_listener'
               /\ \A l \in threads' : Matches(l)' /\ Follows(l)'
               /\ \E l \in threads' : l.generation = listener'.generation
    <3>0. PICK n : n = [generation |-> next_listener, session |-> s, turn |-> t, at |-> "Boot",
                        cursor |-> 0, held |-> 0]
      OBVIOUS
    <3>1. /\ listener' = [generation |-> next_listener, session |-> s, turn |-> t]
          /\ next_listener' = next_listener + 1 /\ threads' = threads \cup {n}
      BY <2>3, <3>0 DEF Begun
    <3>2. next_listener \in Nat
      BY DEF Typed
    <3>3. Len(log'[s]) \in Nat
      BY DEF LogGrows
    <3>4. Matches(n)'
      BY <3>0, <3>1, <3>2 DEF Matches
    <3>5. Follows(n)'
      BY <3>0, <3>3 DEF Follows
    <3>6. n.generation = next_listener
      BY <3>0
    <3> QED BY <1>1, <3>1, <3>2, <3>4, <3>5, <3>6
  <2> QED BY <2>1, <2>2, <2>3 DEF ListenerKind
<1> QED BY <1>2, <1>3 DEF Listening, Attended, Awaits, Within

(* A step of a listener thread.                                            *)
LEMMA ListeningThread ==
    ASSUME Logged, Typed, Listening, NEW l \in threads, ThreadKind(l),
           UNCHANGED <<log, current, listener, next_listener>>
    PROVE  Listening'
<1>1. l \in Thread /\ Matches(l)
  BY DEF Typed, Listening
<1>2. \A x : SameTurn(l, x) => Matches(x)'
  BY <1>1 DEF SameTurn, Matches
<1>3. \A x : (Matches(x) => Matches(x)') /\ (Follows(x) => Follows(x)')
  BY DEF Matches, Follows
<1>4. \A s, t : Ended(s, t) => Ended(s, t)'
  BY DEF Ended
<1>5. listener' # None => listener'.generation < next_listener' /\ current' = listener'.session
  BY DEF Listening
<1>6. \A x \in threads' : Matches(x)' /\ Follows(x)'
  BY <1>2, <1>3 DEF ThreadKind, Becomes, Listening
<1>7. \/ Within(mailbox') = Within(mailbox)
      \/ \E m \in Canonical :
            /\ Within(mailbox') = Within(mailbox) \cup {m} /\ SameTurn(l, m)
            /\ m.kind = "Terminal" => Ended(m.session, m.turn)
  <2>1. \/ mailbox' = mailbox
        \/ \E m \in Canonical : /\ mailbox' = Append(mailbox, m) /\ SameTurn(l, m)
                                /\ m.kind = "Terminal" => Ended(m.session, m.turn)
    BY DEF ThreadKind
  <2>2. ASSUME NEW m \in Canonical, mailbox' = Append(mailbox, m)
        PROVE  Within(mailbox') = Within(mailbox) \cup {m}
    BY <2>2, MailboxAppend
  <2> QED BY <2>1, <2>2
<1>8. \A m \in Within(mailbox') : m.type = "Canonical" =>
         Matches(m)' /\ (m.kind = "Terminal" => Ended(m.session, m.turn)')
  BY <1>2, <1>3, <1>4, <1>7 DEF Listening
<1>9. ASSUME listener' # None
      PROVE  \/ \E x \in threads' : x.generation = listener'.generation
             \/ \E m \in Within(mailbox') : /\ m.type = "Canonical" /\ m.kind = "Terminal"
                                            /\ m.generation = listener'.generation
  <2>1. CASE \E m \in Within(mailbox) : Awaits(m)
    BY <1>7, <2>1 DEF Awaits
  <2>2. ASSUME NEW x \in threads, x.generation = listener.generation, x # l
        PROVE  \E y \in threads' : y.generation = listener'.generation
    <3>1. x \in threads'
      BY <2>2 DEF ThreadKind, Becomes
    <3> QED BY <2>2, <3>1
  <2>3. CASE l.generation = listener.generation
    <3>1. CASE \E n \in Thread : Becomes(l, {n}) /\ SameTurn(l, n)
      BY <2>3, <3>1 DEF Becomes, SameTurn
    <3>2. CASE \E m \in Canonical : /\ mailbox' = Append(mailbox, m) /\ SameTurn(l, m)
                                    /\ m.kind = "Terminal"
      <4>1. PICK m \in Canonical : /\ mailbox' = Append(mailbox, m) /\ SameTurn(l, m)
                                   /\ m.kind = "Terminal"
        BY <3>2
      <4>2. m \in Within(mailbox') /\ m.type = "Canonical"
        BY <4>1, MailboxAppend DEF Canonical
      <4> QED BY <2>3, <4>1, <4>2 DEF SameTurn
    <3>3. ~Cancelled(l)
      BY <1>9, <2>3 DEF Cancelled
    <3> QED BY <3>1, <3>2, <3>3 DEF ThreadKind
  <2>4. Attended
    BY <1>9 DEF Listening
  <2> QED BY <2>1, <2>2, <2>3, <2>4 DEF Attended
<1> QED BY <1>5, <1>6, <1>8, <1>9 DEF Listening, Attended, Awaits, Within

LEMMA ListeningStep ==
    ASSUME DInv, [Next]_vars
    PROVE  Listening'
<1>0. Logged /\ Typed /\ Listening /\ LogGrows
  BY LogStep DEF DInv
<1>1. ASSUME UNCHANGED <<current, listenerVars, threads, mailbox>>
      PROVE  Listening'
  <2>1. ListenerKind /\ (listener' # None => current' = listener'.session)
    BY <1>0, <1>1 DEF ListenerKind, Listening, listenerVars
  <2>2. Within(mailbox') = Within(mailbox)
    BY <1>1
  <2> QED BY <1>0, <2>1, <2>2, ListeningFrame
<1>2. ASSUME NEW s \in Session, select_session(s)
      PROVE  Listening'
  <2>1. stop_session_runtime_listener /\ UNCHANGED mailbox
    BY <1>2 DEF select_session, invalidate_session_target_requests
  <2>2. ListenerKind /\ listener' = None
    BY <2>1 DEF ListenerKind, stop_session_runtime_listener
  <2>3. Within(mailbox') = Within(mailbox)
    BY <2>1
  <2> QED BY <1>0, <2>2, <2>3, ListeningFrame
<1>3. ASSUME NEW s \in Session, \/ launch_run(s) \/ outside_store(s) \/ outside_update(s)
                                \/ outside_terminal(s)
      PROVE  Listening'
  BY <1>1, <1>3 DEF launch_run, outside_store, outside_update, outside_terminal, viewVars
<1>4. ASSUME \/ worker_start \/ worker_store \/ worker_announce \/ worker_update
             \/ worker_terminal \/ worker_finish \/ worker_unsettled
      PROVE  Listening'
  BY <1>1, <1>4 DEF worker_start, worker_store, worker_announce, worker_update,
                    worker_terminal, worker_finish, worker_unsettled, viewVars
<1>5. ASSUME NEW r \in reads, read_session(r)
      PROVE  Listening'
  BY <1>1, <1>5 DEF read_session, viewVars
<1>6. ASSUME NEW r \in reads, send_read(r)
      PROVE  Listening'
  <2>1. /\ r \in Read /\ mailbox' = Append(mailbox, r)
        /\ UNCHANGED <<current, listenerVars, threads>>
    BY <1>0, <1>6 DEF Typed, send_read, viewVars
  <2>2. Within(mailbox') = Within(mailbox) \cup {r} /\ r.type # "Canonical"
    BY <1>0, <2>1, MailboxAppend DEF Read
  <2>3. ListenerKind /\ (listener' # None => current' = listener'.session)
    BY <1>0, <2>1 DEF ListenerKind, Listening, listenerVars
  <2> QED BY <1>0, <2>2, <2>3, ListeningFrame
<1>7. ASSUME NEW l \in threads,
             listener_boot(l) \/ listener_first(l) \/ listener_poll(l) \/ listener_cancelled(l)
      PROVE  Listening'
  BY <1>0, <1>7, ThreadEffect, ListeningThread DEF viewVars, listenerVars
<1>8. ASSUME drain_control
      PROVE  Listening'
  <2>1. /\ UNCHANGED mailbox /\ ListenerKind
        /\ listener' # None => current' = listener'.session
    BY <1>8, ControlEffect
  <2>2. Within(mailbox') = Within(mailbox)
    BY <2>1
  <2> QED BY <1>0, <2>1, <2>2, ListeningFrame
<1>9. ASSUME drain_runtime
      PROVE  Listening'
  <2> DEFINE m == Head(mailbox)
  <2>1. /\ mailbox # <<>> /\ mailbox' = Tail(mailbox) /\ RuntimeKind(m)
    BY <1>9, RuntimeEffect
  <2>2. Within(mailbox) = Within(mailbox') \cup {m}
    BY <1>0, <2>1, MailboxTail
  <2> HIDE DEF m
  <2>3. CASE ListenerKind /\ listener' = None
    BY <1>0, <2>2, <2>3, ListeningFrame DEF listenerVars
  <2>4. CASE /\ UNCHANGED <<current, open, run_status, root, listenerVars, threads>>
             /\ listener # None => ~Awaits(m)
    <3>1. ListenerKind /\ (listener' # None => current' = listener'.session)
      BY <1>0, <2>4 DEF ListenerKind, Listening, listenerVars
    <3> QED BY <1>0, <2>2, <2>4, <3>1, ListeningFrame
  <2>5. CASE ViewKind /\ m.type # "Canonical" /\ current' = open'.session
    <3>1. ListenerKind /\ (listener' # None => current' = listener'.session) /\ ~Awaits(m)
      BY <2>5 DEF ViewKind, Awaits
    <3> QED BY <1>0, <2>2, <3>1, ListeningFrame
  <2> QED BY <2>1, <2>3, <2>4, <2>5 DEF RuntimeKind
<1>10. ASSUME UNCHANGED vars
       PROVE  Listening'
  BY <1>1, <1>10 DEF vars, viewVars
<1> QED BY <1>2, <1>3, <1>4, <1>5, <1>6, <1>7, <1>8, <1>9, <1>10 DEF Next

-----------------------------------------------------------------------------
(* The turn that is shown as active.                                       *)

LEMMA ShownStep ==
    ASSUME DInv, [Next]_vars
    PROVE  Shown'
<1>0. Logged /\ Typed /\ ReadsOK /\ LogGrows /\ Shown
  BY LogStep DEF DInv
<1>1. ASSUME UNCHANGED <<run_status, root, listener, open>>
      PROVE  Shown'
  <2> SUFFICES ASSUME run_status = "Running", root = None, listener # None
               PROVE  /\ open.session \in Session /\ open.prefix \in 0 .. Len(log'[open.session])
                      /\ listener.turn = TurnOf(Prefix(open.session, open.prefix)')
    BY <1>1 DEF Shown, Prefix
  <2>1. /\ open.session \in Session /\ open.prefix \in 0 .. Len(log[open.session])
        /\ listener.turn = TurnOf(Prefix(open.session, open.prefix))
    BY <1>0 DEF Shown
  <2>2. PICK s \in Session, n \in 0 .. Len(log[open.session]) : s = open.session /\ n = open.prefix
    BY <2>1
  <2>3. n \in 0 .. Len(log'[s]) /\ TurnOf(Prefix(s, n))' = TurnOf(Prefix(s, n))
    BY <1>0, <2>2, PrefixStays
  <2> QED BY <1>1, <2>1, <2>2, <2>3 DEF Prefix, TurnOf
<1>2. ASSUME listener' = None \/ root' # None \/ run_status' # "Running"
      PROVE  Shown'
  BY <1>2 DEF Shown
<1>3. ASSUME NEW s \in Session, select_session(s)
      PROVE  Shown'
  BY <1>2, <1>3 DEF select_session, invalidate_session_target_requests,
                    stop_session_runtime_listener
<1>4. ASSUME NEW s \in Session, launch_run(s)
      PROVE  Shown'
  <2>1. run_status' # "Running"
    BY <1>4 DEF launch_run
  <2> QED BY <1>2, <2>1
<1>5. ASSUME NEW s \in Session, outside_store(s) \/ outside_update(s) \/ outside_terminal(s)
      PROVE  Shown'
  BY <1>1, <1>5 DEF outside_store, outside_update, outside_terminal, viewVars, rootVars,
                    listenerVars
<1>6. ASSUME \/ worker_start \/ worker_store \/ worker_announce \/ worker_update
             \/ worker_terminal \/ worker_finish \/ worker_unsettled
      PROVE  Shown'
  BY <1>1, <1>6 DEF worker_start, worker_store, worker_announce, worker_update,
                    worker_terminal, worker_finish, worker_unsettled, viewVars, rootVars, listenerVars
<1>7. ASSUME NEW r \in reads, read_session(r) \/ send_read(r)
      PROVE  Shown'
  BY <1>1, <1>7 DEF read_session, send_read, viewVars, rootVars, listenerVars
<1>8. ASSUME NEW l \in threads,
             listener_boot(l) \/ listener_first(l) \/ listener_poll(l) \/ listener_cancelled(l)
      PROVE  Shown'
  BY <1>1, <1>8, ThreadEffect DEF viewVars, rootVars, listenerVars
<1>9. ASSUME drain_control
      PROVE  Shown'
  <2>1. /\ UNCHANGED open
        /\ \/ UNCHANGED <<listener, run_status, root>>
           \/ root' # None \/ run_status' = "Ended"
    BY <1>9, ControlEffect
  <2> QED BY <1>1, <1>2, <2>1
<1>10. ASSUME drain_runtime
       PROVE  Shown'
  <2>1. UNCHANGED log /\ RuntimeKind(Head(mailbox))
    BY <1>10, RuntimeEffect
  <2>2. CASE ViewKind
    <3>1. /\ open'.session \in Session /\ open'.prefix \in 0 .. Len(log[open'.session])
          /\ listener' # None =>
                listener'.turn = TurnOf(Prefix(open'.session, open'.prefix))
      BY <2>2 DEF ViewKind
    <3> QED BY <2>1, <3>1 DEF Shown, Prefix
  <2> QED BY <1>1, <1>2, <2>1, <2>2 DEF RuntimeKind, listenerVars
<1>11. ASSUME UNCHANGED vars
       PROVE  Shown'
  BY <1>1, <1>11 DEF vars, viewVars, rootVars, listenerVars
<1> QED BY <1>3, <1>4, <1>5, <1>6, <1>7, <1>8, <1>9, <1>10, <1>11 DEF Next

-----------------------------------------------------------------------------
(* The results.                                                            *)

LEMMA Initially ==
    ASSUME Init
    PROVE  DInv
<1>1. \A s \in Session : log[s] = <<>>
  BY DEF Init
<1>2. \A s \in Session : Positions(s) = {} /\ DOMAIN log[s] = {}
  BY <1>1 DEF Positions
<1>3. Committed("Stored") = {}
  BY <1>2 DEF Committed
<1>4. log \in [Session -> Seq(Event)]
  BY DEF Init
<1>5. Logged
  BY <1>2, <1>3, <1>4, FS_EmptySet DEF Logged
<1>6. Within(mailbox) = {} /\ Within(control) = {}
  BY DEF Init, Within
<1>7. Typed
  BY <1>5, ExpectationTyped DEF Init, Typed
<1>8. ReadsOK /\ WorkerRuns /\ RootAt /\ Listening /\ Shown
  BY <1>6 DEF Init, ReadsOK, WorkerRuns, RootAt, Listening, Shown
<1> QED BY <1>5, <1>7, <1>8 DEF DInv

(* The inductive invariant: turn ids of the committed events, messages and *)
(* reads about real sessions and prefixes, the run of the worker, and a    *)
(* listener whose thread or terminal letter is about the listener's turn.  *)
THEOREM Invariant == Spec => []DInv
<1>1. DInv /\ [Next]_vars => DInv'
  BY LogStep, TypedStep, ReadsStep, RootStep, ListeningStep, ShownStep DEF DInv
<1> QED BY <1>1, Initially, PTL DEF Spec

LEMMA ListeningMeans ==
    ASSUME DInv
    PROVE  TerminalNotSkipped
<1> SUFFICES ASSUME listener # None
             PROVE  \/ \E l \in threads :
                          /\ l.generation = listener.generation
                          /\ \A p \in 1 .. l.cursor :
                                log[l.session][p] = [turn |-> l.turn, kind |-> "Terminal"]
                                    => l.at = "Boot" \/ l.held = p
                    \/ \E p \in DOMAIN mailbox :
                          /\ mailbox[p].type = "Canonical" /\ mailbox[p].kind = "Terminal"
                          /\ mailbox[p].generation = listener.generation
  BY DEF TerminalNotSkipped
<1>1. Attended /\ \A l \in threads : Follows(l)
  BY DEF DInv, Listening
<1>2. CASE \E l \in threads : l.generation = listener.generation
  BY <1>1, <1>2 DEF Follows
<1>3. CASE \E m \in Within(mailbox) : Awaits(m)
  <2>1. PICK p \in 1 .. Len(mailbox) : Awaits(mailbox[p])
    BY <1>3 DEF Within
  <2>2. mailbox \in Seq(Canonical \cup Read)
    BY DEF DInv, Typed
  <2>3. DOMAIN mailbox = 1 .. Len(mailbox)
    BY <2>2
  <2> QED BY <2>1, <2>3 DEF Awaits
<1> QED BY <1>1, <1>2, <1>3 DEF Attended

(* As long as a listener is in place, the terminal of its turn is ahead of *)
(* its thread, held for delivery or in the mailbox: booting from the       *)
(* latest event, a full mailbox and the replacement of listeners skip none.*)
THEOREM ListenerMissesNoTerminal == Spec => []TerminalNotSkipped
<1>1. DInv => TerminalNotSkipped
  BY ListeningMeans
<1> QED BY <1>1, Invariant, PTL

(* While the Desktop shows a run it did not launch as Running, only the    *)
(* terminal that its listener delivered ends it.                           *)
LEMMA EndsByItsTerminal ==
    ASSUME DInv, [Next]_vars, run_status = "Running", run_status' = "Ended", root = None
    PROVE  Ended(current, TurnOf(Prefix(open.session, open.prefix)))
<1>0. run_status' # run_status
  OBVIOUS
<1>1. ASSUME NEW s \in Session, \/ select_session(s) \/ launch_run(s) \/ outside_store(s)
                                \/ outside_update(s) \/ outside_terminal(s)
      PROVE  FALSE
  BY <1>0, <1>1 DEF select_session, launch_run, outside_store, outside_update, outside_terminal,
                    viewVars
<1>2. ASSUME \/ worker_start \/ worker_store \/ worker_announce \/ worker_update
             \/ worker_terminal \/ worker_finish \/ worker_unsettled
      PROVE  FALSE
  BY <1>0, <1>2 DEF worker_start, worker_store, worker_announce, worker_update,
                    worker_terminal, worker_finish, worker_unsettled, viewVars
<1>3. ASSUME NEW r \in reads, read_session(r) \/ send_read(r)
      PROVE  FALSE
  BY <1>0, <1>3 DEF read_session, send_read, viewVars
<1>4. ASSUME NEW l \in threads,
             listener_boot(l) \/ listener_first(l) \/ listener_poll(l) \/ listener_cancelled(l)
      PROVE  FALSE
  BY <1>0, <1>4, ThreadEffect DEF viewVars
<1>5. ASSUME drain_control
      PROVE  FALSE
  BY <1>0, <1>5 DEF drain_control, owns, viewVars
<1>6. drain_runtime
  BY <1>0, <1>1, <1>2, <1>3, <1>4, <1>5 DEF Next, vars, viewVars
<1> DEFINE m == Head(mailbox)
<1>7. CanonicalSessionEvent(m) /\ m.kind = "Terminal"
  <2>1. \/ CanonicalSessionEvent(m) \/ LiveSessionRefreshed(m) \/ CurrentSessionRefreshed(m)
        \/ apply_session_loaded_message(m) \/ UNCHANGED viewVars
    BY <1>6 DEF drain_runtime
  <2>2. ~LiveSessionRefreshed(m) /\ ~UNCHANGED viewVars
    BY <1>0 DEF LiveSessionRefreshed, viewVars
  <2>3. ~CurrentSessionRefreshed(m) /\ ~apply_session_loaded_message(m)
    BY <1>0 DEF CurrentSessionRefreshed, apply_session_loaded_message,
                session_load_is_blocked_by_active_run
  <2>4. CanonicalSessionEvent(m) => m.kind = "Terminal"
    BY <1>0 DEF CanonicalSessionEvent
  <2> QED BY <2>1, <2>2, <2>3, <2>4
<1>8. /\ m.type = "Canonical" /\ listener # None /\ current = m.session
      /\ listener = [generation |-> m.generation, session |-> m.session, turn |-> m.turn]
  BY <1>7 DEF CanonicalSessionEvent, listener_is_current
<1>9. m \in Within(mailbox)
  BY <1>6, HeadRead DEF drain_runtime, DInv
<1> HIDE DEF m
<1>10. Ended(m.session, m.turn)
  BY <1>7, <1>8, <1>9 DEF DInv, Listening
<1>11. m.turn = TurnOf(Prefix(open.session, open.prefix))
  BY <1>8 DEF DInv, Shown
<1> QED BY <1>8, <1>10, <1>11

(* The Desktop reports the end of a run it did not launch only when the    *)
(* turn it shows as active has its terminal, whatever letters of earlier   *)
(* listeners and reads are still on their way.                             *)
THEOREM OnlyEndedTurnsEnd == Spec => EndsOnlyEndedTurn
<1>1. DInv /\ [Next]_vars =>
         [run_status = "Running" /\ run_status' = "Ended" /\ root = None
             => Ended(current, TurnOf(Prefix(open.session, open.prefix)))]_vars
  BY EndsByItsTerminal
<1> QED BY <1>1, Invariant, PTL DEF Spec, EndsOnlyEndedTurn
=============================================================================
