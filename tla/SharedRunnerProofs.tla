------------------------- MODULE SharedRunnerProofs -------------------------
(***************************************************************************)
(* EffectsOnce of SharedRunner, for any number of attempts, faults and     *)
(* stops.  An execution begins only from an intent, it is recorded before  *)
(* it begins, and no entry becomes an intent again.                        *)
(***************************************************************************)
EXTENDS SharedRunner, TLAPS, WellFoundedInduction

HubRow ==
    [state : {"Queued", "Assigned", "Running", "Uncertain", "Over"}, stop : BOOLEAN,
     final : Outcome \cup {None}, lease : {"None", "Held", "Stopped"},
     lease_stop : BOOLEAN]

Position ==
    [pc : {"Operate", "Collect", "Services", "Service", "Flush", "Persist", "Report",
           "Rejected", "Fallback", "Admit", "OrphanIntent", "OrphanExecuting", "Status",
           "Prepare", "Down"},
     todo : SUBSET Attempt, then : {None, "Services", "Operate", "Admit"},
     seen : SUBSET Attempt]

(* The types of the variables that the argument reads.                     *)
TypeOK ==
    /\ hub \in [Attempt -> HubRow]
    /\ journal \in [Attempt -> JournalEntry \cup {None}]
    /\ effects \in [Attempt -> Nat]
    /\ tick \in Position

-----------------------------------------------------------------------------
(* The inductive invariant.                                                *)
AtMostOne == \A a \in Attempt : effects[a] <= 1

BegunIsRecorded ==
    \A a \in Attempt : effects[a] # 0 => journal[a] # None /\ journal[a].phase # "Intent"

RecordedIsAssigned == \A a \in Attempt : journal[a] # None => hub[a].state # "Queued"

(* Where the loop visits the entries it has left to do one by one.         *)
Visiting == {"Service", "Flush", "Persist", "Report", "Rejected", "Fallback"}

TodoIsRecorded ==
    /\ \A a \in tick.todo : journal[a] # None
    /\ tick.pc \in Visiting => tick.todo # {}

(* What the loop has seen at the Hub and not in its journal stays unknown  *)
(* to the journal until it is adopted.                                     *)
Adopting == tick.pc \in {"OrphanIntent", "OrphanExecuting"}

SeenIsUnrecorded ==
    /\ \A a \in tick.seen : hub[a].state # "Queued"
    /\ ~Adopting => \A a \in tick.seen : journal[a] = None
    /\ Adopting => tick.seen # {} /\ journal[First(tick.seen)] # None

StartIsFresh ==
    tick.pc \in {"Status", "Prepare"} =>
        /\ tick.seen = {}
        /\ \E a \in Attempt :
              /\ tick.todo = {a} /\ effects[a] = 0
              /\ tick.pc = "Prepare" => journal[a].phase # "Intent"

IInv ==
    /\ TypeOK /\ AtMostOne /\ BegunIsRecorded /\ RecordedIsAssigned
    /\ TodoIsRecorded /\ SeenIsUnrecorded /\ StartIsFresh

-----------------------------------------------------------------------------
(* A set of attempts has a first one.                                      *)
LEMMA FirstIsMember ==
    ASSUME NEW S \in SUBSET Attempt, S # {}
    PROVE  First(S) \in S
<1> DEFINE R == {ss \in Nat \X Nat : ss[1] < ss[2]}
<1>1. S \subseteq Nat
  BY BoundAssumption DEF Attempt
<1>2. R = OpToRel(<, Nat)
  BY Zenon DEF OpToRel
<1>3. IsWellFoundedOn(R, Nat)
  BY <1>2, NatLessThanWellFounded
<1>4. PICK x \in S : \A y \in S : ~(<<y, x>> \in R)
  <2> HIDE DEF R
  <2> QED BY <1>1, <1>3, WFMin
<1>5. ASSUME NEW y \in S PROVE x <= y
  <2>1. x \in Nat /\ y \in Nat
    BY <1>1
  <2>2. y < x => <<y, x>> \in R
    BY <2>1
  <2> QED
    BY <1>4, <2>1, <2>2
<1> QED
  BY <1>5 DEF First

LEMMA FirstOfOne ==
    ASSUME NEW a \in Attempt
    PROVE  First({a}) = a
BY FirstIsMember

-----------------------------------------------------------------------------
(* What a step may do to hub and journal without adding an execution.      *)
HubAdvances(h) ==
    /\ h \in [Attempt -> HubRow]
    /\ \A a \in Attempt : h[a].state = "Queued" => hub[a].state = "Queued"

JournalAdvances(j) ==
    /\ j \in [Attempt -> JournalEntry \cup {None}]
    /\ \A a \in Attempt :
          /\ j[a] = None <=> journal[a] = None
          /\ j[a] # None /\ j[a].phase = "Intent" => journal[a].phase = "Intent"

(* Where the loop goes from there.                                         *)
Proceeds(t, j, h) ==
    \/ t = tick
    \/ /\ t \in Position
       /\ t.pc \notin {"Status", "Prepare", "OrphanIntent", "OrphanExecuting"}
       /\ \A a \in t.todo : j[a] # None
       /\ t.pc \in Visiting => t.todo # {}
       /\ \A a \in t.seen : j[a] = None /\ h[a].state # "Queued"

Quiet ==
    /\ effects' = effects
    /\ HubAdvances(hub')
    /\ JournalAdvances(journal')
    /\ Proceeds(tick', journal', hub')

LEMMA QuietKeeps ==
    ASSUME IInv, Quiet
    PROVE  IInv'
<1>1. TypeOK'
  BY DEF IInv, TypeOK, Quiet, HubAdvances, JournalAdvances, Proceeds
<1>2. AtMostOne' /\ BegunIsRecorded'
  BY DEF IInv, TypeOK, AtMostOne, BegunIsRecorded, Quiet, JournalAdvances
<1>3. RecordedIsAssigned'
  BY DEF IInv, RecordedIsAssigned, Quiet, JournalAdvances, HubAdvances
<1>4. CASE tick' = tick
  <2>1. tick.todo \subseteq Attempt /\ tick.seen \subseteq Attempt
    BY DEF IInv, TypeOK, Position
  <2>2. TodoIsRecorded'
    BY <1>4, <2>1 DEF IInv, TodoIsRecorded, Quiet, JournalAdvances
  <2>3. tick.seen # {} => First(tick.seen) \in Attempt
    BY <2>1, FirstIsMember
  <2>4. Adopting => tick.seen # {}
    BY DEF IInv, SeenIsUnrecorded
  <2>5. SeenIsUnrecorded'
    BY <1>4, <2>1, <2>3, <2>4
    DEF IInv, SeenIsUnrecorded, Adopting, Quiet, JournalAdvances, HubAdvances
  <2>6. StartIsFresh'
    BY <1>4, <2>2 DEF IInv, StartIsFresh, TodoIsRecorded, Quiet, JournalAdvances
  <2> QED
    BY <1>1, <1>2, <1>3, <2>2, <2>5, <2>6 DEF IInv
<1>5. CASE tick' # tick
  <2>1. TodoIsRecorded' /\ SeenIsUnrecorded' /\ StartIsFresh'
    BY <1>5 DEF Quiet, Proceeds, TodoIsRecorded, SeenIsUnrecorded, Adopting, StartIsFresh
  <2> QED
    BY <1>1, <1>2, <1>3, <2>1 DEF IInv
<1> QED
  BY <1>4, <1>5

-----------------------------------------------------------------------------
(* The Hub never takes an assignment back.                                 *)
Reportable ==
    Outcome \cup {None, "Started", "RetainService", "ServiceStopped", "ServiceUncertain"}

LEMMA AnswerAdvances ==
    ASSUME TypeOK, NEW a \in Attempt, NEW r \in Reportable, NEW x \in Answer(a, r)
    PROVE  HubAdvances(x.hub)
<1>1. hub[a] \in HubRow
  BY DEF TypeOK
<1>2. \A s \in HubRow : (s.state = "Queued" => hub[a].state = "Queued")
          => HubAdvances(Put(a, s))
  BY DEF TypeOK, HubAdvances, Put
<1>3. HubAdvances(hub)
  BY DEF TypeOK, HubAdvances
<1>4. \/ x.hub = hub
      \/ \E s \in HubRow : /\ x.hub = Put(a, s)
                           /\ s.state = "Queued" => hub[a].state = "Queued"
  <2> DEFINE h == hub[a]
             New == {[h EXCEPT !.state = "Running"], [h EXCEPT !.lease = "Held"], h,
                     [h EXCEPT !.lease = "Stopped"], [h EXCEPT !.state = "Uncertain"]}
                    \cup (IF r \in Outcome \cup {None}
                            THEN {[h EXCEPT !.state = "Over", !.final = r]} ELSE {})
  <2>1. \A s \in New : s \in HubRow /\ (s.state = "Queued" => h.state = "Queued")
    BY <1>1 DEF HubRow
  <2>2. CASE r = "Started"
    <3>1. x.hub \in {hub, Put(a, [h EXCEPT !.state = "Running"])}
      BY <2>2 DEF Answer
    <3> QED
      BY <2>1, <3>1
  <2>3. CASE r = "RetainService"
    <3>1. x.hub \in {hub, Put(a, [h EXCEPT !.lease = "Held"]), Put(a, [h EXCEPT !.lease = h.lease])}
      BY <2>3 DEF Answer
    <3>2. [h EXCEPT !.lease = h.lease] = h
      BY <1>1 DEF HubRow
    <3> QED
      BY <2>1, <3>1, <3>2
  <2>4. CASE r = "ServiceStopped"
    <3>1. x.hub = Put(a, [h EXCEPT !.lease = "Stopped"])
      BY <2>4 DEF Answer
    <3> QED
      BY <2>1, <3>1
  <2>5. CASE r = "ServiceUncertain"
    <3>1. x.hub = Put(a, h)
      BY <2>5 DEF Answer
    <3> QED
      BY <2>1, <3>1
  <2>6. CASE r = "Uncertain"
    <3>1. x.hub \in {hub, Put(a, [h EXCEPT !.state = "Uncertain"])}
      BY <2>6 DEF Answer
    <3> QED
      BY <2>1, <3>1
  <2>7. CASE r \notin {"Started", "RetainService", "ServiceStopped", "ServiceUncertain",
                      "Uncertain"}
    <3>1. r \in Outcome \cup {None}
      BY <2>7 DEF Reportable
    <3>2. x.hub \in {hub, Put(a, h), Put(a, [h EXCEPT !.state = "Over", !.final = r])}
      BY <2>7 DEF Answer
    <3> QED
      BY <2>1, <3>1, <3>2
  <2> QED
    BY <2>2, <2>3, <2>4, <2>5, <2>6, <2>7
<1>5. CASE x.hub = hub
  BY <1>3, <1>5 DEF HubAdvances
<1>6. CASE x.hub # hub
  <2>1. PICK s \in HubRow : x.hub = Put(a, s) /\ (s.state = "Queued" => hub[a].state = "Queued")
    BY <1>4, <1>6
  <2>2. HubAdvances(Put(a, s))
    BY <1>2, <2>1
  <2> QED
    BY <2>1, <2>2 DEF HubAdvances
<1> QED
  BY <1>5, <1>6

LEMMA ReportAdvances ==
    ASSUME TypeOK, NEW a \in Attempt, NEW r \in Reportable, NEW x \in report(a, r),
           Told(x)
    PROVE  HubAdvances(hub')
<1>1. HubAdvances(hub)
  BY DEF TypeOK, HubAdvances
<1>2. \A y \in Answer(a, r) : HubAdvances(y.hub)
  BY AnswerAdvances
<1>3. HubAdvances(x.hub)
  BY <1>1, <1>2 DEF report, Lossy
<1> QED
  BY <1>3 DEF Told

LEMMA SameHub ==
    ASSUME TypeOK, hub' = hub
    PROVE  HubAdvances(hub')
BY DEF TypeOK, HubAdvances

LEMMA SameJournal ==
    ASSUME TypeOK, journal' = journal
    PROVE  JournalAdvances(journal')
BY DEF TypeOK, JournalAdvances

(* An entry is rewritten, and does not become an intent.                   *)
LEMMA RewrittenEntry ==
    ASSUME TypeOK, NEW a \in Attempt, journal[a] # None,
           NEW e \in JournalEntry, e.phase \in {journal[a].phase} \cup
               {"Executing", "ReportPending", "Uncertain", "Settled"},
           journal' = [journal EXCEPT ![a] = e]
    PROVE  JournalAdvances(journal')
BY NoneAssumption DEF TypeOK, JournalAdvances

-----------------------------------------------------------------------------
(* Positions that the loop reaches between its calls.                      *)
Between(t) ==
    /\ t \in Position
    /\ t.pc \notin {"Status", "Prepare", "OrphanIntent", "OrphanExecuting"}
    /\ \A a \in t.todo : journal[a] # None
    /\ t.pc \in Visiting => t.todo # {}
    /\ t.seen \subseteq tick.seen

LEMMA IdleIsBetween == Between(Idle)
<1>1. Idle \in Position
  BY DEF Position, Idle, At
<1>2. Idle.pc = "Operate" /\ Idle.todo = {} /\ Idle.seen = {}
  BY DEF Idle, At
<1> QED
  BY <1>1, <1>2 DEF Between, Visiting

LEMMA FlushingIsBetween ==
    ASSUME TypeOK, NEW todo \in SUBSET Attempt, \A a \in todo : journal[a] # None,
           NEW then \in {None, "Services", "Operate", "Admit"}
    PROVE  Between(Flushing(todo, then))
BY DEF Flushing, Between, Visiting, TypeOK, Position, Idle, At

LEMMA FlushNextIsBetween ==
    ASSUME TypeOK, TodoIsRecorded
    PROVE  Between(FlushNext)
<1>1. tick.todo \ {First(tick.todo)} \in SUBSET Attempt
  BY DEF TypeOK, Position
<1>2. tick.then \in {None, "Services", "Operate", "Admit"}
  BY DEF TypeOK, Position
<1> QED
  BY <1>1, <1>2, FlushingIsBetween DEF FlushNext, TodoIsRecorded

LEMMA ServingIsBetween ==
    ASSUME TypeOK, NEW todo \in SUBSET Attempt, \A a \in todo : journal[a] # None
    PROVE  Between(Serving(todo))
<1>1. Between(Flushing(Undelivered, "Admit"))
  BY FlushingIsBetween DEF Undelivered, Active
<1> QED
  BY <1>1 DEF Serving, Between, Visiting, TypeOK, Position

(* From such a position, or from the same one, a step that advances hub    *)
(* and journal is quiet.                                                   *)
LEMMA BetweenIsQuiet ==
    ASSUME IInv, \/ tick' = tick
                 \/ Between(tick') /\ (Adopting => tick'.seen = {}),
           effects' = effects, HubAdvances(hub'), JournalAdvances(journal')
    PROVE  Quiet
<1>1. CASE tick' = tick
  BY <1>1 DEF Quiet, Proceeds
<1>2. CASE Between(tick') /\ (Adopting => tick'.seen = {})
  <2>1. tick' \in Position /\ tick'.todo \subseteq Attempt /\ tick'.seen \subseteq Attempt
    BY <1>2 DEF Between, Position
  <2>2. \A a \in tick'.seen : journal[a] = None /\ hub[a].state # "Queued"
    BY <1>2 DEF Between, IInv, SeenIsUnrecorded
  <2>3. Proceeds(tick', journal', hub')
    BY <1>2, <2>1, <2>2 DEF Proceeds, Between, JournalAdvances, HubAdvances
  <2> QED
    BY <2>3 DEF Quiet
<1> QED
  BY <1>1, <1>2

LEMMA SamePlaceIsQuiet ==
    ASSUME IInv, UNCHANGED <<tick, effects, journal>>, HubAdvances(hub')
    PROVE  Quiet
BY BetweenIsQuiet, SameJournal DEF IInv

(* The loop flushes one entry next.                                        *)
LEMMA FlushOneIsBetween ==
    ASSUME NEW a \in Attempt, journal[a] # None
    PROVE  /\ Between([At("Flush") EXCEPT !.todo = {a}, !.then = "Operate"])
           /\ [At("Flush") EXCEPT !.todo = {a}, !.then = "Operate"].seen = {}
BY DEF Between, Visiting, Position, At

-----------------------------------------------------------------------------
(* One case per action.  What happens around the loop.                     *)
LEMMA AroundIsQuiet ==
    ASSUME IInv, Around
    PROVE  Quiet
<1> USE DEF IInv
<1>1. CASE crash
  <2>1. tick' = At("Down") /\ Between(tick') /\ tick'.seen = {}
    BY <1>1 DEF crash, At, Between, Visiting, Position
  <2> QED
    BY <1>1, <2>1, BetweenIsQuiet, SameJournal, SameHub DEF crash, world
<1>2. ASSUME NEW a \in Attempt, hub_request_stop(a) PROVE Quiet
  <2>1. HubAdvances(hub')
    BY <1>2 DEF hub_request_stop, TypeOK, HubAdvances, HubRow
  <2> QED
    BY <1>2, <2>1, SamePlaceIsQuiet DEF hub_request_stop
<1>3. ASSUME NEW a \in Attempt, hub_stop_service(a) PROVE Quiet
  <2>1. HubAdvances(hub')
    BY <1>3 DEF hub_stop_service, TypeOK, HubAdvances, HubRow
  <2> QED
    BY <1>3, <2>1, SamePlaceIsQuiet DEF hub_stop_service
<1>4. ASSUME NEW a \in Attempt,
             worker_end(a) \/ lifetime_noticed(a) \/ process_exit(a) \/ client_status(a)
               \/ client_stop(a) \/ stop_retained_service(a)
      PROVE  Quiet
  BY <1>4, SamePlaceIsQuiet, SameHub
  DEF worker_end, lifetime_noticed, process_exit, client_status, client_stop,
      stop_retained_service, world
<1>5. ASSUME NEW a \in Attempt, reconcile_attempt(a) PROVE Quiet
  <2>1. journal[a] # None /\ effects' = effects /\ hub' = hub /\ ~Adopting
    BY <1>5 DEF reconcile_attempt, InPhase, world, Adopting
  <2>2. CASE UNCHANGED <<journal, tick>>
    BY <2>1, <2>2, SamePlaceIsQuiet, SameHub
  <2>3. CASE ~UNCHANGED <<journal, tick>>
    <3>1. /\ journal' = [journal EXCEPT ![a].phase = "ReportPending",
                            ![a].fallback = journal[a].report, ![a].report = "Reconciled"]
          /\ tick' = [At("Flush") EXCEPT !.todo = {a}, !.then = "Operate"]
      BY <1>5, <2>3 DEF reconcile_attempt
    <3>2. journal[a] \in JournalEntry
      BY <2>1 DEF TypeOK
    <3> DEFINE e == [journal[a] EXCEPT !.phase = "ReportPending",
                        !.fallback = journal[a].report, !.report = "Reconciled"]
    <3>3. e \in JournalEntry /\ e.phase = "ReportPending"
      BY <3>2 DEF JournalEntry, Outcome
    <3>4. journal' = [journal EXCEPT ![a] = e]
      BY <3>1, <3>2 DEF TypeOK, JournalEntry
    <3>5. JournalAdvances(journal')
      <4> HIDE DEF e
      <4> QED BY <2>1, <3>3, <3>4, RewrittenEntry
    <3> QED
      BY <2>1, <3>1, <3>5, FlushOneIsBetween, BetweenIsQuiet, SameHub
  <2> QED
    BY <2>2, <2>3
<1>6. ASSUME NEW a \in Attempt, reconcile_service(a) PROVE Quiet
  <2>1. journal[a] # None /\ journal[a] \in JournalEntry
    BY <1>6 DEF reconcile_service, retained_services, TypeOK
  <2> DEFINE e == [journal[a] EXCEPT !.service_reconciliation = TRUE]
  <2>2. e \in JournalEntry /\ e.phase = journal[a].phase
    BY <2>1 DEF JournalEntry
  <2>3. journal' = [journal EXCEPT ![a] = e]
    BY <1>6 DEF reconcile_service
  <2>4. JournalAdvances(journal')
    <3> HIDE DEF e
    <3> QED BY <2>1, <2>2, <2>3, RewrittenEntry
  <2> QED
    BY <1>6, <2>4, BetweenIsQuiet, SameHub DEF reconcile_service, world
<1> QED
  BY <1>1, <1>2, <1>3, <1>4, <1>5, <1>6 DEF Around

-----------------------------------------------------------------------------
(* What the steps of the loop write to an entry.                           *)
LEMMA WrittenEntry ==
    ASSUME TypeOK, NEW a \in Attempt, journal[a] # None,
           \/ journal' = [journal EXCEPT ![a].service_stopped_ack = TRUE]
           \/ journal' = [journal EXCEPT ![a].service_uncertain_ack = TRUE]
           \/ journal' = [journal EXCEPT ![a].retention_reported = TRUE]
           \/ journal' = [journal EXCEPT ![a].report = "HandoffFailed"]
           \/ journal' = [journal EXCEPT ![a].fallback = "YieldRejected"]
           \/ journal' = [journal EXCEPT ![a].phase = "Settled"]
           \/ journal' = [journal EXCEPT ![a].phase = "Executing"]
           \/ journal' = [journal EXCEPT ![a].phase = "Uncertain", ![a].report = "Uncertain"]
           \/ journal' = [journal EXCEPT ![a].phase = "ReportPending", ![a].report = "NotStarted"]
    PROVE  JournalAdvances(journal')
<1>1. journal[a] \in JournalEntry
  BY DEF TypeOK
<1>2. journal' = [journal EXCEPT ![a] = journal'[a]]
  BY DEF TypeOK
<1> DEFINE e == journal[a]
           New == {[e EXCEPT !.service_stopped_ack = TRUE],
                   [e EXCEPT !.service_uncertain_ack = TRUE],
                   [e EXCEPT !.retention_reported = TRUE],
                   [e EXCEPT !.report = "HandoffFailed"],
                   [e EXCEPT !.fallback = "YieldRejected"],
                   [e EXCEPT !.phase = "Settled"],
                   [e EXCEPT !.phase = "Executing"],
                   [e EXCEPT !.phase = "Uncertain", !.report = "Uncertain"],
                   [e EXCEPT !.phase = "ReportPending", !.report = "NotStarted"]}
<1>3. journal'[a] \in New
  BY <1>1 DEF TypeOK
<1>4. \A n \in New : n \in JournalEntry /\ n.phase \in {e.phase} \cup
          {"Executing", "ReportPending", "Uncertain", "Settled"}
  BY <1>1 DEF JournalEntry, Outcome
<1> QED
  BY <1>2, <1>3, <1>4, RewrittenEntry

LEMMA VisitedIsRecorded ==
    ASSUME IInv, NEW a, a = First(tick.todo), tick.pc \in Visiting
    PROVE  a \in tick.todo /\ journal[a] # None /\ ~Adopting
BY FirstIsMember DEF IInv, TypeOK, Position, TodoIsRecorded, Visiting, Adopting

LEMMA MovedIsBetween ==
    ASSUME IInv, tick.pc \in Visiting,
           NEW pc \in {"Persist", "Report", "Rejected", "Fallback"}
    PROVE  Between([tick EXCEPT !.pc = pc])
BY DEF IInv, TypeOK, TodoIsRecorded, Between, Visiting, Position

(* The first half of a tick: poll, collect, reconcile the services.        *)
LEMMA PollIsQuiet ==
    ASSUME IInv, poll
    PROVE  Quiet
<1> USE DEF IInv
<1>1. HubAdvances(hub') /\ JournalAdvances(journal') /\ effects' = effects
  BY SameHub, SameJournal DEF poll, world
<1>2. hub' = hub /\ journal' = journal
  BY DEF poll
<1>3. \A a \in Orphans(Assignments) :
          a \in Attempt /\ journal[a] = None /\ hub[a].state # "Queued"
  BY DEF Orphans, Assignments, Assigned
<1>4. CASE tick' = [At("Collect") EXCEPT !.seen = Orphans(Assignments), !.then = "Services"]
  <2>1. Proceeds(tick', journal', hub')
    BY <1>2, <1>3, <1>4 DEF Proceeds, Position, At, Visiting
  <2> QED
    BY <1>1, <2>1 DEF Quiet
<1>5. CASE tick' = [At("Collect") EXCEPT !.then = "Operate"]
  <2>1. Proceeds(tick', journal', hub')
    BY <1>5 DEF Proceeds, Position, At, Visiting
  <2> QED
    BY <1>1, <2>1 DEF Quiet
<1> QED
  BY <1>4, <1>5 DEF poll

LEMMA CollectIsQuiet ==
    ASSUME IInv, collect
    PROVE  Quiet
<1> USE DEF IInv
<1>1. JournalAdvances(journal')
  <2>1. CASE UNCHANGED journal
    BY <2>1, SameJournal
  <2>2. CASE ~UNCHANGED journal
    <3>1. PICK a \in Executing : collect_outcome(a)
      BY <2>2 DEF collect
    <3>2. a \in Attempt /\ journal[a] # None /\ journal[a] \in JournalEntry
      BY DEF Executing, InPhase, TypeOK
    <3>3. \E r : \E keeps \in BOOLEAN :
              journal' = [journal EXCEPT ![a] = Collected(a, r, keeps)]
      BY <2>2, <3>1 DEF collect_outcome
    <3>4. ASSUME NEW r, NEW keeps \in BOOLEAN
          PROVE  /\ Collected(a, r, keeps) \in JournalEntry
                 /\ Collected(a, r, keeps).phase \in {"Uncertain", "ReportPending"}
      BY <3>2 DEF Collected, JournalEntry, Outcome, Handoff
    <3> QED
      BY <3>2, <3>3, <3>4, RewrittenEntry
  <2> QED
    BY <2>1, <2>2
<1>2. Between(tick') /\ ~Adopting
  <2>1. tick' = Idle \/ tick' = [tick EXCEPT !.pc = "Services", !.then = None]
    BY DEF collect
  <2>2. Between([tick EXCEPT !.pc = "Services", !.then = None])
    BY DEF TypeOK, TodoIsRecorded, Between, Visiting, Position
  <2> QED
    BY <2>1, <2>2, IdleIsBetween DEF collect, Adopting, Between
<1> QED
  BY <1>1, <1>2, BetweenIsQuiet, SameHub DEF collect, world

LEMMA ServicesAreQuiet ==
    ASSUME IInv, read_services \/ \E a \in Attempt : report_service(a)
    PROVE  Quiet
<1> USE DEF IInv
<1>1. CASE read_services
  <2> DEFINE leased == {a \in retained_services : journal[a].retention_reported}
  <2>1. Between(Serving({})) /\ Between(Serving(leased)) /\ Between(Idle)
    <3>1. leased \in SUBSET Attempt /\ \A a \in leased : journal[a] # None
      BY DEF retained_services
    <3> HIDE DEF leased
    <3> QED BY <3>1, ServingIsBetween, IdleIsBetween
  <2>2. tick' \in {Serving({}), Serving(leased), Idle}
    BY <1>1 DEF read_services
  <2>3. Between(tick') /\ ~Adopting
    BY <1>1, <2>1, <2>2 DEF read_services, Adopting, Between
  <2> QED
    BY <1>1, <2>3, BetweenIsQuiet, SameHub, SameJournal DEF read_services, world
<1>2. ASSUME NEW a \in Attempt, report_service(a) PROVE Quiet
  <2>1. a \in tick.todo /\ journal[a] # None /\ ~Adopting
    BY <1>2, VisitedIsRecorded DEF report_service, Visiting
  <2>2. Between(Serving(tick.todo \ {a})) /\ Between(Idle)
    <3>1. tick.todo \ {a} \in SUBSET Attempt
      BY DEF TypeOK, Position
    <3> QED
      BY <3>1, ServingIsBetween, IdleIsBetween DEF TodoIsRecorded
  <2>3. tick' \in {Serving(tick.todo \ {a}), Idle}
    BY <1>2 DEF report_service, ServiceReceipt
  <2>4. Between(tick')
    BY <2>2, <2>3 DEF Between
  <2>5. CASE UNCHANGED <<hub, journal>>
    BY <1>2, <2>1, <2>4, <2>5, BetweenIsQuiet, SameHub, SameJournal DEF report_service, world
  <2>6. ASSUME NEW r \in {"ServiceStopped", "ServiceUncertain"},
               NEW f \in {"stopped", "uncertain"}, ServiceReceipt(a, r, f)
        PROVE  Quiet
    <3>1. HubAdvances(hub')
      BY <2>6, ReportAdvances DEF ServiceReceipt, Reportable
    <3>2. JournalAdvances(journal')
      BY <2>1, <2>6, WrittenEntry, SameJournal DEF ServiceReceipt
    <3> QED
      BY <1>2, <2>1, <2>4, <3>1, <3>2, BetweenIsQuiet DEF report_service, world
  <2> QED
    BY <1>2, <2>5, <2>6 DEF report_service
<1> QED
  BY <1>1, <1>2

-----------------------------------------------------------------------------
(* The second half: the reports.                                           *)
LEMMA FlushIsQuiet ==
    ASSUME IInv, NEW a \in Attempt,
           \/ flush_uncertain(a) \/ flush_retain(a) \/ flush_handoff(a) \/ flush_persist(a)
           \/ flush_report(a) \/ flush_rejected(a) \/ flush_fallback(a)
    PROVE  Quiet
<1> USE DEF IInv
<1>1. tick.pc \in Visiting /\ a = First(tick.todo) /\ effects' = effects
  BY DEF flush_uncertain, flush_retain, flush_handoff, flush_persist, flush_report,
         flush_rejected, flush_fallback, Now, Visiting, world
<1>2. journal[a] # None /\ ~Adopting
  BY <1>1, VisitedIsRecorded
<1>3. /\ Between(Idle) /\ Between(FlushNext) /\ Between([tick EXCEPT !.pc = "Persist"])
      /\ Between([tick EXCEPT !.pc = "Report"]) /\ Between([tick EXCEPT !.pc = "Rejected"])
      /\ Between([tick EXCEPT !.pc = "Fallback"])
  BY <1>1, IdleIsBetween, FlushNextIsBetween, MovedIsBetween
<1>4. tick' \in {tick, Idle, FlushNext, [tick EXCEPT !.pc = "Persist"],
                [tick EXCEPT !.pc = "Report"], [tick EXCEPT !.pc = "Rejected"],
                [tick EXCEPT !.pc = "Fallback"]}
  <2>1. CASE flush_uncertain(a) \/ flush_retain(a) \/ flush_persist(a)
    BY <2>1 DEF flush_uncertain, flush_retain, flush_persist
  <2>2. CASE flush_handoff(a)
    BY <2>2 DEF flush_handoff
  <2>3. CASE flush_report(a) \/ flush_rejected(a) \/ flush_fallback(a)
    BY <2>3 DEF flush_report, flush_rejected, flush_fallback, Settle
  <2> QED
    BY <2>1, <2>2, <2>3
<1>5. tick' = tick \/ Between(tick')
  BY <1>3, <1>4 DEF Between
<1>6. journal[a] \in JournalEntry
  BY <1>2 DEF TypeOK
<1>7. /\ journal[a].report \in Reportable /\ journal[a].fallback \in Reportable
      /\ "Uncertain" \in Reportable /\ "RetainService" \in Reportable
  BY <1>6 DEF JournalEntry, Reportable, Outcome
<1>8. HubAdvances(hub')
  <2>1. CASE flush_uncertain(a)
    BY <1>7, <2>1, ReportAdvances DEF flush_uncertain
  <2>2. CASE flush_retain(a)
    BY <1>7, <2>2, ReportAdvances DEF flush_retain
  <2>3. CASE flush_report(a)
    BY <1>7, <2>3, ReportAdvances DEF flush_report
  <2>4. CASE flush_fallback(a)
    BY <1>7, <2>4, ReportAdvances DEF flush_fallback
  <2>5. CASE flush_handoff(a) \/ flush_persist(a) \/ flush_rejected(a)
    BY <2>5, SameHub DEF flush_handoff, flush_persist, flush_rejected
  <2> QED
    BY <2>1, <2>2, <2>3, <2>4, <2>5
<1>9. JournalAdvances(journal')
  <2>1. CASE flush_uncertain(a) \/ flush_persist(a)
    BY <2>1, SameJournal DEF flush_uncertain, flush_persist
  <2>2. CASE flush_retain(a)
    <3>1. \/ journal' = journal
          \/ journal' = [journal EXCEPT ![a].retention_reported = TRUE]
          \/ journal' = [journal EXCEPT ![a].report = "HandoffFailed"]
      BY <2>2 DEF flush_retain, FailHandoff
    <3> QED
      BY <1>2, <3>1, SameJournal, WrittenEntry
  <2>3. CASE flush_handoff(a)
    <3>1. \/ journal' = journal
          \/ journal' = [journal EXCEPT ![a].service_stopped_ack = TRUE]
          \/ journal' = [journal EXCEPT ![a].report = "HandoffFailed"]
      BY <2>3 DEF flush_handoff, FailHandoff
    <3> QED
      BY <1>2, <3>1, SameJournal, WrittenEntry
  <2>4. CASE flush_report(a) \/ flush_rejected(a) \/ flush_fallback(a)
    <3>1. \/ journal' = journal
          \/ journal' = [journal EXCEPT ![a].phase = "Settled"]
          \/ journal' = [journal EXCEPT ![a].fallback = "YieldRejected"]
      BY <2>4 DEF flush_report, flush_rejected, flush_fallback, Settle
    <3> QED
      BY <1>2, <3>1, SameJournal, WrittenEntry
  <2> QED
    BY <2>1, <2>2, <2>3, <2>4
<1> QED
  BY <1>1, <1>2, <1>5, <1>8, <1>9, BetweenIsQuiet

(* A new entry is an intent.                                               *)
LEMMA NewEntry ==
    ASSUME NEW leases \in SUBSET Attempt
    PROVE  Entry(leases) \in JournalEntry /\ Entry(leases) # None
<1>1. Entry(leases) \in JournalEntry
  BY DEF Entry, JournalEntry
<1> QED
  BY <1>1, NoneAssumption

(* Adoption of an attempt that the journal does not know.                  *)
LEMMA AdoptionKeeps ==
    ASSUME IInv, NEW a \in Attempt,
           orphan_intent(a) \/ orphan_executing(a) \/ orphan_uncertain(a)
    PROVE  IInv'
<1> USE DEF IInv
<1>1. tick.seen # {} /\ tick.seen \in SUBSET Attempt /\ a = First(tick.seen) /\ a \in tick.seen
  <2>1. tick.seen # {} /\ tick.seen \in SUBSET Attempt /\ a = First(tick.seen)
    BY DEF orphan_intent, orphan_executing, orphan_uncertain, SeenIsUnrecorded, Adopting,
           TypeOK, Position
  <2> QED
    BY <2>1, FirstIsMember
<1>2. hub' = hub /\ effects' = effects
  BY DEF orphan_intent, orphan_executing, orphan_uncertain, world
<1>3. CASE orphan_intent(a)
  <2>1. journal[a] = None /\ effects[a] = 0 /\ hub[a].state # "Queued"
    BY <1>1, <1>3 DEF orphan_intent, SeenIsUnrecorded, Adopting, BegunIsRecorded
  <2>2. Entry({}) \in JournalEntry /\ Entry({}) # None
    BY NewEntry
  <2>3. journal' = [journal EXCEPT ![a] = Entry({})] /\ tick' = [tick EXCEPT !.pc = "OrphanIntent"]
    BY <1>3 DEF orphan_intent
  <2>4. TypeOK'
    BY <1>2, <2>2, <2>3 DEF TypeOK, Position
  <2>5. AtMostOne' /\ BegunIsRecorded' /\ RecordedIsAssigned'
    BY <1>2, <2>1, <2>2, <2>3 DEF TypeOK, AtMostOne, BegunIsRecorded, RecordedIsAssigned
  <2>6. tick' \in Position /\ tick'.pc = "OrphanIntent" /\ tick'.seen = tick.seen
          /\ tick'.todo = tick.todo
    BY <2>3 DEF TypeOK, Position
  <2>7. TodoIsRecorded' /\ SeenIsUnrecorded' /\ StartIsFresh'
    BY <1>1, <1>2, <2>1, <2>2, <2>3, <2>6
    DEF TypeOK, TodoIsRecorded, SeenIsUnrecorded, StartIsFresh, Adopting, Visiting
  <2> QED
    BY <2>4, <2>5, <2>7
<1>4. CASE orphan_executing(a)
  <2>1. journal[a] # None
    BY <1>1, <1>4 DEF orphan_executing, SeenIsUnrecorded, Adopting
  <2>2. JournalAdvances(journal')
    BY <1>4, <2>1, WrittenEntry DEF orphan_executing
  <2>3. /\ tick' \in Position /\ tick'.pc = "OrphanExecuting" /\ tick'.seen = tick.seen
        /\ tick'.todo = tick.todo
    BY <1>4 DEF orphan_executing, TypeOK, Position
  <2>4. TypeOK'
    BY <1>2, <2>2, <2>3 DEF TypeOK, JournalAdvances
  <2>5. AtMostOne' /\ BegunIsRecorded' /\ RecordedIsAssigned'
    BY <1>2, <2>2 DEF TypeOK, AtMostOne, BegunIsRecorded, RecordedIsAssigned, JournalAdvances
  <2>6. TodoIsRecorded' /\ SeenIsUnrecorded' /\ StartIsFresh'
    BY <1>1, <1>2, <2>1, <2>2, <2>3
    DEF TypeOK, Position, TodoIsRecorded, SeenIsUnrecorded, StartIsFresh, Adopting, Visiting,
        JournalAdvances
  <2> QED
    BY <2>4, <2>5, <2>6
<1>5. CASE orphan_uncertain(a)
  <2>1. journal[a] # None
    BY <1>1, <1>5 DEF orphan_uncertain, SeenIsUnrecorded, Adopting
  <2>2. JournalAdvances(journal')
    BY <1>5, <2>1, WrittenEntry DEF orphan_uncertain
  <2>3. Between(tick') /\ tick'.seen = {}
    BY <1>5, IdleIsBetween DEF orphan_uncertain, Between, Idle, At
  <2>4. Quiet
    BY <1>2, <2>2, <2>3, BetweenIsQuiet, SameHub
  <2> QED
    BY <2>4, QuietKeeps
<1> QED
  BY <1>3, <1>4, <1>5

-----------------------------------------------------------------------------
(* Claim and start.                                                        *)
LEMMA ClaimKeeps ==
    ASSUME IInv, NEW a \in Attempt, claim(a)
    PROVE  IInv'
<1> USE DEF IInv
<1>1. PICK x \in Lossy({[hub |-> Put(a, [hub[a] EXCEPT !.state = "Assigned"]), reply |-> "Ok"]}) :
        /\ Told(x)
        /\ IF x.reply = "Ok"
             THEN journal' = [journal EXCEPT ![a] = Entry(Leases)] /\ tick' = tick
             ELSE tick' = Idle /\ journal' = journal
  BY DEF claim
<1>2. tick.pc = "Admit" /\ tick.seen = {} /\ ~Adopting /\ effects' = effects
  BY DEF claim, Adopting, world
<1>3. HubAdvances(hub')
  <2>1. HubAdvances(hub) /\ HubAdvances(Put(a, [hub[a] EXCEPT !.state = "Assigned"]))
    BY DEF TypeOK, HubAdvances, HubRow, Put
  <2>2. x.hub \in {hub, Put(a, [hub[a] EXCEPT !.state = "Assigned"])}
    BY DEF Lossy
  <2> QED
    BY <1>1, <2>1, <2>2 DEF Told, HubAdvances
<1>4. CASE x.reply # "Ok"
  <2>1. Quiet
    BY <1>1, <1>2, <1>3, <1>4, BetweenIsQuiet, IdleIsBetween, SameJournal DEF Between
  <2> QED
    BY <2>1, QuietKeeps
<1>5. CASE x.reply = "Ok"
  <2>1. journal[a] = None /\ effects[a] = 0
    <3>1. CASE {y \in Attempt : hub[y].state = "Assigned" /\ journal[y] = None} # {}
      <4> DEFINE again == {y \in Attempt : hub[y].state = "Assigned" /\ journal[y] = None}
      <4>1. a = First(again)
        BY <3>1 DEF claim, Claimable
      <4>2. First(again) \in again
        BY <3>1, FirstIsMember
      <4> QED
        BY <4>1, <4>2 DEF BegunIsRecorded
    <3>2. CASE {y \in Attempt : hub[y].state = "Assigned" /\ journal[y] = None} = {}
      <4> DEFINE queued == {y \in Attempt : hub[y].state = "Queued"}
      <4>1. queued # {} /\ a = First(queued)
        BY <3>2 DEF claim, Claimable
      <4>2. First(queued) \in queued
        BY <4>1, FirstIsMember
      <4> QED
        BY <4>1, <4>2 DEF BegunIsRecorded, RecordedIsAssigned
    <3> QED
      BY <3>1, <3>2
  <2>2. Entry(Leases) \in JournalEntry /\ Entry(Leases) # None
    BY NewEntry DEF Leases
  <2>3. journal' = [journal EXCEPT ![a] = Entry(Leases)] /\ tick' = tick
    BY <1>1, <1>5
  <2>4. hub'[a].state = "Assigned"
    <3>1. x.hub = Put(a, [hub[a] EXCEPT !.state = "Assigned"])
      BY <1>5 DEF Lossy
    <3> QED
      BY <1>1, <3>1 DEF Told, Put, TypeOK, HubRow
  <2>5. TypeOK'
    BY <1>2, <1>3, <2>2, <2>3 DEF TypeOK, HubAdvances
  <2>6. AtMostOne' /\ BegunIsRecorded' /\ RecordedIsAssigned'
    BY <1>2, <1>3, <2>1, <2>2, <2>3, <2>4
    DEF TypeOK, AtMostOne, BegunIsRecorded, RecordedIsAssigned, HubAdvances
  <2>7. TodoIsRecorded' /\ SeenIsUnrecorded' /\ StartIsFresh'
    BY <1>2, <2>2, <2>3
    DEF TypeOK, Position, TodoIsRecorded, SeenIsUnrecorded, StartIsFresh, Adopting
  <2> QED
    BY <2>5, <2>6, <2>7
<1> QED
  BY <1>4, <1>5

(* The attempt that is started has an entry and no execution.              *)
LEMMA StartingIsFresh ==
    ASSUME IInv, NEW a \in Attempt, Starting(a)
    PROVE  journal[a] # None /\ effects[a] = 0 /\ ~Adopting /\ tick.seen = {}
<1>1. a \in Active
  BY FirstIsMember DEF Starting, Active
<1>2. journal[a].phase = "Intent"
  BY <1>1 DEF Starting, Busy
<1> QED
  BY <1>1, <1>2 DEF IInv, BegunIsRecorded, Active, Starting, Adopting

LEMMA FailedPreparationIsQuiet ==
    ASSUME IInv, NEW a \in Attempt, journal[a] # None, preparation_failed(a), ~Adopting,
           effects' = effects, HubAdvances(hub')
    PROVE  Quiet
<1>1. JournalAdvances(journal')
  BY WrittenEntry DEF preparation_failed, IInv
<1>2. Between(tick')
  <2>1. tick' = [At("Flush") EXCEPT !.todo = {a}, !.then = "Operate"]
    BY DEF preparation_failed
  <2> QED
    BY <2>1, FlushOneIsBetween DEF Between
<1> QED
  BY <1>1, <1>2, BetweenIsQuiet

LEMMA StartKeeps ==
    ASSUME IInv, NEW a \in Attempt, start_rejected(a) \/ start(a)
    PROVE  IInv'
<1> USE DEF IInv
<1>1. journal[a] # None /\ effects[a] = 0 /\ ~Adopting /\ tick.seen = {} /\ effects' = effects
  BY StartingIsFresh DEF start_rejected, start, world
<1>2. CASE start_rejected(a)
  <2>1. Quiet
    BY <1>1, <1>2, FailedPreparationIsQuiet, SameHub DEF start_rejected
  <2> QED
    BY <2>1, QuietKeeps
<1>3. CASE start(a)
  <2>1. HubAdvances(hub')
    BY <1>3, ReportAdvances DEF start, Reportable
  <2>2. CASE preparation_failed(a)
    <3>1. Quiet
      BY <1>1, <2>1, <2>2, FailedPreparationIsQuiet
    <3> QED
      BY <3>1, QuietKeeps
  <2>3. CASE tick' = Idle /\ journal' = journal
    <3>1. Quiet
      BY <1>1, <2>1, <2>3, BetweenIsQuiet, IdleIsBetween, SameJournal DEF Between
    <3> QED
      BY <3>1, QuietKeeps
  <2>4. CASE tick' = [At("Status") EXCEPT !.todo = {a}] /\ journal' = journal
    <3>1. tick' \in Position /\ tick'.pc = "Status" /\ tick'.todo = {a} /\ tick'.seen = {}
      BY <2>4 DEF At, Position
    <3>2. TypeOK'
      BY <1>1, <2>1, <2>4, <3>1 DEF TypeOK, HubAdvances
    <3>3. AtMostOne' /\ BegunIsRecorded' /\ RecordedIsAssigned'
      BY <1>1, <2>1, <2>4 DEF AtMostOne, BegunIsRecorded, RecordedIsAssigned, HubAdvances
    <3>4. TodoIsRecorded' /\ SeenIsUnrecorded' /\ StartIsFresh'
      BY <1>1, <2>4, <3>1
      DEF TodoIsRecorded, SeenIsUnrecorded, StartIsFresh, Adopting, Visiting
    <3> QED
      BY <3>2, <3>3, <3>4
  <2> QED
    BY <1>3, <2>2, <2>3, <2>4 DEF start
<1> QED
  BY <1>2, <1>3

(* Between the start and the submission nothing else is started.           *)
LEMMA StartedIsFresh ==
    ASSUME IInv, NEW a \in Attempt, Now(a, "Status") \/ Now(a, "Prepare")
    PROVE  /\ journal[a] # None /\ effects[a] = 0 /\ ~Adopting
           /\ tick.seen = {} /\ tick.todo = {a}
<1>1. PICK b \in Attempt : tick.todo = {b} /\ effects[b] = 0
  BY DEF IInv, StartIsFresh, Now
<1>2. a = b
  BY <1>1, FirstOfOne DEF Now
<1> QED
  BY <1>1, <1>2 DEF IInv, StartIsFresh, TodoIsRecorded, Adopting, Now

LEMMA StatusKeeps ==
    ASSUME IInv, NEW a \in Attempt, start_status(a)
    PROVE  IInv'
<1> USE DEF IInv
<1>1. /\ journal[a] # None /\ effects[a] = 0 /\ ~Adopting /\ tick.seen = {}
      /\ tick.todo = {a}
  BY StartedIsFresh DEF start_status
<1>2. hub' = hub /\ effects' = effects
  BY DEF start_status, world
<1>3. CASE tick' = Idle /\ journal' = journal
  <2>1. Quiet
    BY <1>1, <1>2, <1>3, BetweenIsQuiet, IdleIsBetween, SameHub, SameJournal DEF Between
  <2> QED
    BY <2>1, QuietKeeps
<1>4. CASE preparation_failed(a)
  <2>1. Quiet
    BY <1>1, <1>2, <1>4, FailedPreparationIsQuiet, SameHub
  <2> QED
    BY <2>1, QuietKeeps
<1>5. CASE /\ journal' = [journal EXCEPT ![a].phase = "Executing"]
           /\ tick' = [tick EXCEPT !.pc = "Prepare"]
  <2>1. JournalAdvances(journal')
    BY <1>1, <1>5, WrittenEntry
  <2>2. tick' \in Position /\ tick'.pc = "Prepare" /\ tick'.todo = {a} /\ tick'.seen = {}
    BY <1>1, <1>5 DEF TypeOK, Position
  <2>3. TypeOK'
    BY <1>2, <2>1, <2>2 DEF TypeOK, JournalAdvances
  <2>4. AtMostOne' /\ BegunIsRecorded' /\ RecordedIsAssigned'
    BY <1>2, <2>1 DEF TypeOK, AtMostOne, BegunIsRecorded, RecordedIsAssigned, JournalAdvances
  <2>5. journal'[a].phase = "Executing"
    BY <1>1, <1>5 DEF TypeOK, JournalEntry
  <2>6. TodoIsRecorded' /\ SeenIsUnrecorded' /\ StartIsFresh'
    BY <1>1, <1>2, <2>1, <2>2, <2>5
    DEF TodoIsRecorded, SeenIsUnrecorded, StartIsFresh, Adopting, Visiting, JournalAdvances
  <2> QED
    BY <2>3, <2>4, <2>6
<1> QED
  BY <1>3, <1>4, <1>5 DEF start_status

(* The one step that adds an execution: its entry is recorded, and none    *)
(* was begun before.                                                       *)
LEMMA SubmitKeeps ==
    ASSUME IInv, NEW a \in Attempt,
           prepare_fails(a) \/ submit_execution(a) \/ submit_refused(a)
    PROVE  IInv'
<1> USE DEF IInv
<1>1. /\ journal[a] # None /\ effects[a] = 0 /\ ~Adopting /\ tick.seen = {}
      /\ tick.todo = {a} /\ hub' = hub
  BY StartedIsFresh DEF prepare_fails, submit_execution, submit_refused
<1>2. CASE prepare_fails(a)
  <2>1. Quiet
    BY <1>1, <1>2, FailedPreparationIsQuiet, SameHub DEF prepare_fails, world
  <2> QED
    BY <2>1, QuietKeeps
<1>3. CASE submit_refused(a)
  <2>1. JournalAdvances(journal')
    BY <1>1, <1>3, WrittenEntry DEF submit_refused
  <2>2. Quiet
    BY <1>1, <1>3, <2>1, BetweenIsQuiet, IdleIsBetween, SameHub
    DEF submit_refused, world, Between
  <2> QED
    BY <2>2, QuietKeeps
<1>4. CASE submit_execution(a)
  <2>1. JournalAdvances(journal')
    BY <1>1, <1>4, WrittenEntry, SameJournal DEF submit_execution
  <2>2. tick' \in Position /\ tick'.pc = "Operate" /\ tick'.todo = {} /\ tick'.seen = {}
    BY <1>4 DEF submit_execution, Idle, At, Position
  <2>3. effects' = [effects EXCEPT ![a] = 1]
    BY <1>1, <1>4 DEF submit_execution, TypeOK
  <2>4. TypeOK'
    BY <1>1, <2>1, <2>2, <2>3 DEF TypeOK, JournalAdvances
  <2>5. journal[a].phase # "Intent"
    <3>1. tick.pc = "Prepare"
      BY <1>4 DEF submit_execution, Now
    <3>2. PICK b \in Attempt : tick.todo = {b} /\ journal[b].phase # "Intent"
      BY <3>1 DEF StartIsFresh
    <3> QED
      BY <1>1, <3>2
  <2>6. AtMostOne' /\ BegunIsRecorded' /\ RecordedIsAssigned'
    BY <1>1, <2>1, <2>3, <2>5
    DEF TypeOK, AtMostOne, BegunIsRecorded, RecordedIsAssigned, JournalAdvances
  <2>7. TodoIsRecorded' /\ SeenIsUnrecorded' /\ StartIsFresh'
    BY <2>2 DEF TodoIsRecorded, SeenIsUnrecorded, StartIsFresh, Adopting, Visiting
  <2> QED
    BY <2>4, <2>6, <2>7
<1> QED
  BY <1>2, <1>3, <1>4

LEMMA RecoverIsQuiet ==
    ASSUME IInv, recover
    PROVE  Quiet
<1> USE DEF IInv
<1>1. JournalAdvances(journal')
  <2>1. ASSUME NEW a \in Attempt, InPhase(a, "Executing")
        PROVE  /\ [journal[a] EXCEPT !.phase = "Uncertain", !.report = "Uncertain"]
                     \in JournalEntry
               /\ [journal[a] EXCEPT !.phase = "Uncertain", !.report = "Uncertain"].phase
                     = "Uncertain"
    BY <2>1 DEF InPhase, TypeOK, JournalEntry, Outcome
  <2> QED
    BY <2>1, NoneAssumption DEF recover, InPhase, TypeOK, JournalAdvances
<1>2. tick' = Idle /\ ~Adopting /\ effects' = effects /\ hub' = hub
  BY DEF recover, Adopting, world
<1> QED
  BY <1>1, <1>2, BetweenIsQuiet, IdleIsBetween, SameHub DEF Between

-----------------------------------------------------------------------------
LEMMA InitIsFresh == Init => IInv
<1> SUFFICES ASSUME Init PROVE IInv
  OBVIOUS
<1>1. TypeOK
  BY DEF Init, TypeOK, HubRow, Position, Idle, At
<1>2. AtMostOne /\ BegunIsRecorded /\ RecordedIsAssigned
  BY DEF Init, AtMostOne, BegunIsRecorded, RecordedIsAssigned
<1>3. TodoIsRecorded /\ SeenIsUnrecorded /\ StartIsFresh
  BY DEF Init, Idle, At, TodoIsRecorded, SeenIsUnrecorded, StartIsFresh, Adopting, Visiting
<1> QED
  BY <1>1, <1>2, <1>3 DEF IInv

LEMMA StepKeeps == IInv /\ [Next]_vars => IInv'
<1> SUFFICES ASSUME IInv, [Next]_vars PROVE IInv'
  OBVIOUS
<1>1. CASE UNCHANGED vars
  BY <1>1, SamePlaceIsQuiet, SameHub, QuietKeeps DEF vars, IInv
<1>2. CASE Around
  BY <1>2, AroundIsQuiet, QuietKeeps
<1>3. CASE poll \/ collect \/ recover
  BY <1>3, PollIsQuiet, CollectIsQuiet, RecoverIsQuiet, QuietKeeps
<1>4. CASE read_services \/ \E a \in Attempt : report_service(a)
  BY <1>4, ServicesAreQuiet, QuietKeeps
<1>5. CASE admit_nothing
  <2>1. tick' = Idle /\ ~Adopting /\ UNCHANGED <<effects, hub, journal>>
    BY <1>5 DEF admit_nothing, Adopting, world
  <2>2. Quiet
    BY <2>1, BetweenIsQuiet, IdleIsBetween, SameHub, SameJournal DEF Between, IInv
  <2> QED
    BY <2>2, QuietKeeps
<1>6. ASSUME NEW a \in Attempt,
             \/ flush_uncertain(a) \/ flush_retain(a) \/ flush_handoff(a) \/ flush_persist(a)
             \/ flush_report(a) \/ flush_rejected(a) \/ flush_fallback(a)
      PROVE  IInv'
  BY <1>6, FlushIsQuiet, QuietKeeps
<1>7. ASSUME NEW a \in Attempt, orphan_intent(a) \/ orphan_executing(a) \/ orphan_uncertain(a)
      PROVE  IInv'
  BY <1>7, AdoptionKeeps
<1>8. ASSUME NEW a \in Attempt, claim(a) \/ start_rejected(a) \/ start(a) \/ start_status(a)
      PROVE  IInv'
  BY <1>8, ClaimKeeps, StartKeeps, StatusKeeps
<1>9. ASSUME NEW a \in Attempt, prepare_fails(a) \/ submit_execution(a) \/ submit_refused(a)
      PROVE  IInv'
  BY <1>9, SubmitKeeps
<1> QED
  BY <1>1, <1>2, <1>3, <1>4, <1>5, <1>6, <1>7, <1>8, <1>9 DEF Next, Loop

(* Hub rows, journal entries and the position of the loop have their       *)
(* types.                                                                  *)
THEOREM TypeCorrect == Spec => []TypeOK
<1>1. IInv => TypeOK
  BY DEF IInv
<1> QED
  BY InitIsFresh, StepKeeps, <1>1, PTL DEF Spec

(* No attempt is executed twice by this Runner, however often it crashes   *)
(* and whichever calls of the Hub are lost: execution is recorded before   *)
(* it begins, and a recorded execution never becomes an intent again.      *)
THEOREM ExecutedOnce == Spec => []EffectsOnce
<1>1. IInv => EffectsOnce
  BY DEF IInv, AtMostOne, EffectsOnce
<1> QED
  BY InitIsFresh, StepKeeps, <1>1, PTL DEF Spec
=============================================================================
