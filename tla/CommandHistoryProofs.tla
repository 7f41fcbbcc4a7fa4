------------------------ MODULE CommandHistoryProofs ------------------------
(***************************************************************************)
(* Theorems about CommandHistory, for any projects, threads, turns,        *)
(* messages, kinds of client commands and bounds.                          *)
(*                                                                         *)
(* An accepted command is a sequence of events, each projected onto the    *)
(* read model and onto the tables.  What holds between two commands is     *)
(* shown event by event: what an event needs of the state it is projected  *)
(* onto (Fits) is what the decider's guards and the other events of its    *)
(* command give it.                                                        *)
(***************************************************************************)
EXTENDS CommandHistory, FiniteSetTheorems, SequenceTheorems, WellFoundedInduction, TLAPS

-----------------------------------------------------------------------------
(* The events of a command, one after the other *)

\* A non-empty set of numbers has a least one.
LEMMA LeastOf ==
    ASSUME NEW S, S \subseteq Nat, S # {}
    PROVE  \E x \in S : \A y \in S : x <= y
<1> DEFINE Less == OpToRel(<, Nat)
<1>1. PICK x \in S : \A y \in S : <<y, x>> \notin Less
  BY NatLessThanWellFounded, WFMin, Zenon
<1>2. \A y \in S : ~(y < x)
  BY <1>1, Zenon DEF OpToRel
<1> QED BY <1>2

\* What there is after each of the first k events.
AreReadModels(ms, m, events, k) ==
    ms = [n \in 0..k |-> IF n = 0 THEN m ELSE ProjectEvent(ms[n - 1], events[n])]
AreTables(ts, tb, events, k) ==
    ts = [n \in 0..k |-> IF n = 0 THEN tb ELSE ApplyAllProjections(ts[n - 1], events[n])]

\* Each event is projected onto what there is after the ones before it.
LEMMA EventsOneByOne ==
    ASSUME NEW m, NEW tb, NEW k \in Nat, NEW events
    PROVE  \E ms, ts : AreReadModels(ms, m, events, k) /\ AreTables(ts, tb, events, k)
<1> DEFINE Bad == {j \in Nat : ~\E ms, ts : /\ AreReadModels(ms, m, events, j)
                                             /\ AreTables(ts, tb, events, j)}
<1>1. SUFFICES ASSUME Bad # {} PROVE FALSE
  OBVIOUS
<1>2. PICK j \in Nat : j \in Bad /\ \A i \in Nat : i \in Bad => j <= i
  <2>1. \E j \in Bad : \A i \in Bad : j <= i
    BY <1>1, LeastOf
  <2> QED BY <2>1
<1>3. j # 0
  <2>1. 0..0 = {0}
    OBVIOUS
  <2>2. AreReadModels([n \in {0} |-> m], m, events, 0)
    BY <2>1 DEF AreReadModels
  <2>3. AreTables([n \in {0} |-> tb], tb, events, 0)
    BY <2>1 DEF AreTables
  <2> QED BY <1>2, <2>2, <2>3
<1>4. j - 1 \in Nat /\ j - 1 \notin Bad
  BY <1>2, <1>3
<1>5. PICK ms, ts : AreReadModels(ms, m, events, j - 1) /\ AreTables(ts, tb, events, j - 1)
  BY <1>4
<1> DEFINE ms2 == [n \in 0..j |-> IF n < j THEN ms[n] ELSE ProjectEvent(ms[j - 1], events[j])]
           ts2 == [n \in 0..j |-> IF n < j THEN ts[n] ELSE ApplyAllProjections(ts[j - 1], events[j])]
<1>6. /\ \A n \in 0..(j - 1) :
            ms[n] = IF n = 0 THEN m ELSE ProjectEvent(ms[n - 1], events[n])
      /\ \A n \in 0..(j - 1) :
            ts[n] = IF n = 0 THEN tb ELSE ApplyAllProjections(ts[n - 1], events[n])
  BY <1>5 DEF AreReadModels, AreTables
<1>7. \A n \in 0..j : ms2[n] = IF n = 0 THEN m ELSE ProjectEvent(ms2[n - 1], events[n])
  BY <1>3, <1>4, <1>6
<1>8. \A n \in 0..j : ts2[n] = IF n = 0 THEN tb ELSE ApplyAllProjections(ts2[n - 1], events[n])
  BY <1>3, <1>4, <1>6
<1>9. AreReadModels(ms2, m, events, j)
  <2>1. ms2 = [n \in 0..j |-> ms2[n]]
    OBVIOUS
  <2> HIDE DEF ms2
  <2> QED BY <1>7, <2>1 DEF AreReadModels
<1>10. AreTables(ts2, tb, events, j)
  <2>1. ts2 = [n \in 0..j |-> ts2[n]]
    OBVIOUS
  <2> HIDE DEF ts2
  <2> QED BY <1>8, <2>1 DEF AreTables
<1> QED BY <1>2, <1>9, <1>10

\* What a command leaves is what there is after its last event.
LEMMA CommandStepByStep ==
    ASSUME NEW m, NEW tb, NEW S, NEW events \in Seq(S)
    PROVE  \E ms, ts :
              /\ ms[0] = m /\ ts[0] = tb
              /\ \A n \in 1..Len(events) : /\ ms[n] = ProjectEvent(ms[n - 1], events[n])
                                           /\ ts[n] = ApplyAllProjections(ts[n - 1], events[n])
              /\ ms[Len(events)] = ProjectEvents(m, events)
              /\ ts[Len(events)] = ApplyEvents(tb, events)
<1> DEFINE k == Len(events)
           ms == CHOOSE f : AreReadModels(f, m, events, k)
           ts == CHOOSE f : AreTables(f, tb, events, k)
<1>1. k \in Nat
  OBVIOUS
<1>2. AreReadModels(ms, m, events, k) /\ AreTables(ts, tb, events, k)
  BY <1>1, EventsOneByOne, Zenon
<1>3. /\ ProjectEvents(m, events) = ms[k]
      /\ ApplyEvents(tb, events) = ts[k]
  BY Zenon DEF ProjectEvents, ApplyEvents, AreReadModels, AreTables
<1> HIDE DEF ms, ts, k
<1>4. /\ \A n \in 0..k : ms[n] = IF n = 0 THEN m ELSE ProjectEvent(ms[n - 1], events[n])
      /\ \A n \in 0..k : ts[n] = IF n = 0 THEN tb ELSE ApplyAllProjections(ts[n - 1], events[n])
  BY <1>2 DEF AreReadModels, AreTables
<1>5. /\ ms[0] = m /\ ts[0] = tb
      /\ \A n \in 1..k : /\ ms[n] = ProjectEvent(ms[n - 1], events[n])
                         /\ ts[n] = ApplyAllProjections(ts[n - 1], events[n])
  BY <1>1, <1>4
<1> QED BY <1>3, <1>5 DEF k

-----------------------------------------------------------------------------
(* What an event does to a thread *)

MaybeTurn == TurnId \cup {None}
QueueType == UNION {[D -> [held : BOOLEAN, steering : MaybeTurn]] : D \in SUBSET MessageId}
StatusType == {"none", "starting", "running", "ready", "error", "stopped", "interrupted"}
SessionType == [status : StatusType, activeTurnId : MaybeTurn]
TurnStateType == {"none", "running", "completed", "error", "interrupted"}
OverrideType == {"none", "settled", "active"}
ThreadType ==
    [project : ProjectId \cup {None}, deleted : BOOLEAN, archived : BOOLEAN,
     settledOverride : OverrideType, snoozed : BOOLEAN, pinned : BOOLEAN,
     session : SessionType, latestTurn : [turnId : MaybeTurn, state : TurnStateType],
     seenCompletionTurnId : MaybeTurn, queuedTurns : QueueType,
     userMessages : SUBSET MessageId, openRequests : SUBSET (RequestId \cup {None}),
     unstarted : BOOLEAN]
RowType ==
    [project : ProjectId \cup {None}, deleted : BOOLEAN, archived : BOOLEAN,
     settledOverride : OverrideType, snoozed : BOOLEAN, pinned : BOOLEAN,
     latestTurnId : MaybeTurn, seenCompletionTurnId : MaybeTurn]
TurnStates == UNION {[D -> TurnStateType] : D \in SUBSET TurnId}

\* The rows of a thread in the tables.
RowsOf(tb, t) ==
    [row |-> tb["threads"][t], session |-> tb["threadSessions"][t],
     queue |-> tb["threadQueuedTurns"][t], turns |-> tb["threadTurns"][t].turns,
     pending |-> tb["threadTurns"][t].pending, requests |-> tb["threadActivities"][t]]

ReadModelShape(m) ==
    /\ m = [projects |-> m.projects, threads |-> m.threads]
    /\ m.projects = [p \in ProjectId |-> m.projects[p]]
    /\ m.threads \in [ThreadId -> ThreadType]

TablesShape(tb) ==
    /\ DOMAIN tb = ToSet(AllProjectors)
    /\ tb["projects"] = [p \in ProjectId |-> tb["projects"][p]]
    /\ tb["threads"] \in [ThreadId -> RowType]
    /\ tb["threadSessions"] \in [ThreadId -> SessionType]
    /\ tb["threadQueuedTurns"] \in [ThreadId -> QueueType]
    /\ tb["threadActivities"] = [t \in ThreadId |-> tb["threadActivities"][t]]
    /\ tb["threadTurns"] = [t \in ThreadId |->
           [turns |-> tb["threadTurns"][t].turns, pending |-> tb["threadTurns"][t].pending]]
    /\ \A t \in ThreadId : /\ tb["threadTurns"][t].turns \in TurnStates
                            /\ tb["threadTurns"][t].pending \in Seq(MessageId)

\* Each table is projected on its own.
LEMMA TableByTable ==
    ASSUME NEW tb, DOMAIN tb = ToSet(AllProjectors), NEW e
    PROVE  /\ DOMAIN ApplyAllProjections(tb, e) = ToSet(AllProjectors)
           /\ ApplyAllProjections(tb, e)["projects"] = ApplyProjects(tb["projects"], e)
           /\ ApplyAllProjections(tb, e)["threads"] = ApplyThreads(tb["threads"], e)
           /\ ApplyAllProjections(tb, e)["threadSessions"] =
                  ApplyThreadSessions(tb["threadSessions"], e)
           /\ ApplyAllProjections(tb, e)["threadQueuedTurns"] =
                  ApplyThreadQueuedTurns(tb["threadQueuedTurns"], e)
           /\ ApplyAllProjections(tb, e)["threadTurns"] = ApplyThreadTurns(tb["threadTurns"], e)
           /\ ApplyAllProjections(tb, e)["threadActivities"] =
                  IF e.type = "thread.activity-appended"
                  THEN [tb["threadActivities"] EXCEPT ![e.thread] = AfterActivity(@, e)]
                  ELSE tb["threadActivities"]
<1>1. ToSet(AllProjectors) =
          {"projects", "threadMessages", "threadQueuedTurns", "threadActivities",
           "threadSessions", "threadTurns", "threads"}
  BY DEF ToSet, AllProjectors
<1> QED BY <1>1 DEF ApplyAllProjections, ApplyProjection

\* The events that change neither the queue of their thread, nor its session,
\* nor whether it is settled; but archiving and deletion empty its queue in
\* the tables.
Emptying == {"thread.deleted", "thread.archived"}
PlainTypes == Emptying \cup
    {"thread.unarchived", "thread.snoozed", "thread.unsnoozed", "thread.pinned",
     "thread.unpinned", "thread.completion-acknowledged", "thread.completion-marked-unread",
     "thread.message-sent", "thread.turn-start-requested", "thread.queued-turn-updated",
     "thread.session-stop-requested"}
LeavingTypes ==
    {"thread.queued-turn-cancelled", "thread.queued-turn-dispatched",
     "thread.queued-turn-steered"}
SteeringTypes == {"thread.queued-turn-steer-requested", "thread.queued-turn-steer-failed"}
OtherTypes ==
    {"thread.settled", "thread.unsettled", "thread.session-set", "thread.activity-appended",
     "thread.turn-interrupt-requested", "thread.turn-queued"}
EventTypes == PlainTypes \cup LeavingTypes \cup SteeringTypes \cup OtherTypes

\* An event on a thread that exists carries what its type says.
ThreadEvent(e) ==
    /\ e.thread \in ThreadId
    /\ e.type \in EventTypes
    /\ e.type \in {"thread.message-sent", "thread.turn-start-requested", "thread.turn-queued",
                   "thread.queued-turn-updated"} \cup LeavingTypes \cup SteeringTypes =>
          e.message \in MessageId
    /\ e.type \in {"thread.completion-acknowledged", "thread.session-set",
                   "thread.turn-interrupt-requested"} \cup SteeringTypes =>
          e.turn \in MaybeTurn
    /\ e.type = "thread.turn-queued" => e.held \in BOOLEAN
    /\ e.type = "thread.session-set" => e.status \in StatusType
    /\ e.type = "thread.activity-appended" => e.request \in RequestId \cup {None}

QueueEntry == [held : BOOLEAN, steering : MaybeTurn]

LEMMA QueueShape ==
    ASSUME NEW q \in QueueType
    PROVE  /\ DOMAIN q \in SUBSET MessageId
           /\ \A k \in DOMAIN q : q[k] \in QueueEntry
           /\ q \in [DOMAIN q -> QueueEntry]
BY DEF QueueType, QueueEntry

\* A queue without a message,
LEMMA MessageLeaves ==
    ASSUME NEW q \in QueueType, NEW msg
    PROVE  /\ Without(q, msg) \in QueueType
           /\ DOMAIN Without(q, msg) = DOMAIN q \ {msg}
           /\ \A k \in DOMAIN q \ {msg} : Without(q, msg)[k] = q[k]
<1> DEFINE D == DOMAIN q \ {msg}
<1>1. D \in SUBSET MessageId /\ \A k \in D : q[k] \in QueueEntry
  BY QueueShape
<1>2. Without(q, msg) = [k \in D |-> q[k]]
  BY DEF Without
<1>3. Without(q, msg) \in [D -> QueueEntry]
  BY <1>1, <1>2
<1>4. Without(q, msg) \in QueueType
  BY <1>1, <1>3 DEF QueueType, QueueEntry
<1> QED BY <1>2, <1>4

\* with it,
LEMMA MessageEnters ==
    ASSUME NEW q \in QueueType, NEW msg \in MessageId, NEW entry \in QueueEntry
    PROVE  /\ With(q, msg, entry) \in QueueType
           /\ DOMAIN With(q, msg, entry) = DOMAIN q \cup {msg}
           /\ With(q, msg, entry)[msg] = entry
           /\ \A k \in DOMAIN q \ {msg} : With(q, msg, entry)[k] = q[k]
<1> DEFINE D == DOMAIN q \cup {msg}
<1>1. D \in SUBSET MessageId /\ \A k \in DOMAIN q : q[k] \in QueueEntry
  BY QueueShape
<1>2. With(q, msg, entry) = [k \in D |-> IF k = msg THEN entry ELSE q[k]]
  BY DEF With
<1>3. With(q, msg, entry) \in [D -> QueueEntry]
  BY <1>1, <1>2
<1>4. With(q, msg, entry) \in QueueType
  BY <1>1, <1>3 DEF QueueType, QueueEntry
<1> QED BY <1>2, <1>4

\* and with it steered.
LEMMA MessageSteered ==
    ASSUME NEW q \in QueueType, NEW msg, NEW u \in MaybeTurn
    PROVE  /\ WithSteering(q, msg, u) \in QueueType
           /\ DOMAIN WithSteering(q, msg, u) = DOMAIN q
           /\ \A k \in DOMAIN q :
                 /\ WithSteering(q, msg, u)[k].held = q[k].held
                 /\ WithSteering(q, msg, u)[k].steering = IF k = msg THEN u ELSE q[k].steering
<1> DEFINE D == DOMAIN q
           entry == [q[msg] EXCEPT !.steering = u]
<1>1. D \in SUBSET MessageId /\ \A k \in D : q[k] \in QueueEntry
  BY QueueShape
<1>2. q = [k \in D |-> q[k]]
  BY QueueShape
<1>3. CASE msg \in D
  <2>1. entry \in QueueEntry /\ entry.held = q[msg].held /\ entry.steering = u
    BY <1>1, <1>3 DEF QueueEntry
  <2>2. WithSteering(q, msg, u) = [k \in D |-> IF k = msg THEN entry ELSE q[k]]
    BY <1>2, <1>3 DEF WithSteering
  <2> HIDE DEF entry
  <2>3. WithSteering(q, msg, u) \in [D -> QueueEntry]
    BY <1>1, <2>1, <2>2
  <2>4. WithSteering(q, msg, u) \in QueueType
    BY <1>1, <2>3 DEF QueueType, QueueEntry
  <2> QED BY <2>1, <2>2, <2>4
<1>4. CASE msg \notin D
  BY <1>4 DEF WithSteering
<1> QED BY <1>3, <1>4

LEMMA SettledStates ==
    ASSUME NEW status
    PROVE  SettledTurnState(status) \in {"completed", "error", "interrupted", "none"}
BY DEF SettledTurnState

\* A thread after an event of its own: what the event leaves alone, and what
\* it changes.
LEMMA ThreadAfterEvent ==
    ASSUME NEW th \in ThreadType, NEW e, ThreadEvent(e)
    PROVE  /\ ThreadAfter(th, e) \in ThreadType
           /\ ThreadAfter(th, e).project = th.project
           /\ e.type \notin {"thread.settled", "thread.unsettled"} =>
                 ThreadAfter(th, e).settledOverride = th.settledOverride
           /\ e.type = "thread.settled" => ThreadAfter(th, e).settledOverride = "settled"
           /\ e.type = "thread.unsettled" =>
                 ThreadAfter(th, e).settledOverride =
                     IF e.reason = "user" THEN "active" ELSE "none"
           /\ ThreadAfter(th, e).session =
                  IF e.type = "thread.session-set"
                  THEN [status |-> e.status, activeTurnId |-> e.turn] ELSE th.session
           /\ ThreadAfter(th, e).openRequests =
                  IF e.type = "thread.activity-appended"
                  THEN AfterActivity(th.openRequests, e) ELSE th.openRequests
           /\ ThreadAfter(th, e).queuedTurns =
                  CASE e.type = "thread.turn-queued" ->
                           With(th.queuedTurns, e.message, [held |-> e.held, steering |-> None])
                    [] e.type \in LeavingTypes -> Without(th.queuedTurns, e.message)
                    [] e.type = "thread.queued-turn-steer-requested" ->
                           WithSteering(th.queuedTurns, e.message, e.turn)
                    [] e.type = "thread.queued-turn-steer-failed" ->
                           WithSteering(th.queuedTurns, e.message, None)
                    [] OTHER -> th.queuedTurns
<1> USE DEF ThreadEvent, EventTypes, PlainTypes, Emptying, LeavingTypes, SteeringTypes, OtherTypes
<1>1. CASE e.type \in PlainTypes
  <2>1. \/ \E b \in BOOLEAN : \/ ThreadAfter(th, e) = [th EXCEPT !.deleted = b]
                            \/ ThreadAfter(th, e) = [th EXCEPT !.archived = b]
                            \/ ThreadAfter(th, e) = [th EXCEPT !.snoozed = b]
                            \/ ThreadAfter(th, e) = [th EXCEPT !.pinned = b]
        \/ \E u \in MaybeTurn : ThreadAfter(th, e) = [th EXCEPT !.seenCompletionTurnId = u]
        \/ \E b \in BOOLEAN, msgs \in SUBSET MessageId :
              ThreadAfter(th, e) = [th EXCEPT !.userMessages = msgs, !.unstarted = b]
        \/ ThreadAfter(th, e) = th
    <3>1. CASE e.type = "thread.message-sent"
      <4>1. /\ th.userMessages \cup {e.message} \in SUBSET MessageId
            /\ (th.unstarted \/ e.message \notin th.userMessages) \in BOOLEAN
        BY <3>1 DEF ThreadType
      <4>2. ThreadAfter(th, e) =
               [th EXCEPT !.userMessages = th.userMessages \cup {e.message},
                          !.unstarted = th.unstarted \/ e.message \notin th.userMessages]
        BY <3>1, Zenon DEF ThreadAfter
      <4> QED BY <4>1, <4>2, Zenon
    <3>2. CASE e.type = "thread.completion-acknowledged"
      BY <3>2 DEF ThreadAfter
    <3>3. CASE e.type = "thread.completion-marked-unread"
      BY <3>3 DEF ThreadAfter, MaybeTurn
    <3>4. CASE e.type \in {"thread.turn-start-requested", "thread.queued-turn-updated",
                          "thread.session-stop-requested"}
      BY <3>4 DEF ThreadAfter
    <3>5. CASE e.type \in {"thread.deleted", "thread.archived", "thread.unarchived"}
      BY <3>5 DEF ThreadAfter
    <3>6. CASE e.type \in {"thread.snoozed", "thread.unsnoozed", "thread.pinned",
                          "thread.unpinned"}
      BY <3>6 DEF ThreadAfter
    <3> QED BY <1>1, <3>1, <3>2, <3>3, <3>4, <3>5, <3>6
  <2>2. /\ ThreadAfter(th, e) \in ThreadType
        /\ ThreadAfter(th, e).project = th.project
        /\ ThreadAfter(th, e).settledOverride = th.settledOverride
        /\ ThreadAfter(th, e).session = th.session
        /\ ThreadAfter(th, e).queuedTurns = th.queuedTurns
        /\ ThreadAfter(th, e).openRequests = th.openRequests
    <3>1. CASE \E b \in BOOLEAN, msgs \in SUBSET MessageId :
                 ThreadAfter(th, e) = [th EXCEPT !.userMessages = msgs, !.unstarted = b]
      BY <3>1 DEF ThreadType
    <3>2. CASE \E b \in BOOLEAN : \/ ThreadAfter(th, e) = [th EXCEPT !.deleted = b]
                                 \/ ThreadAfter(th, e) = [th EXCEPT !.archived = b]
      BY <3>2 DEF ThreadType
    <3>3. CASE \E b \in BOOLEAN : \/ ThreadAfter(th, e) = [th EXCEPT !.snoozed = b]
                                 \/ ThreadAfter(th, e) = [th EXCEPT !.pinned = b]
      BY <3>3 DEF ThreadType
    <3>4. CASE \/ \E u \in MaybeTurn : ThreadAfter(th, e) = [th EXCEPT !.seenCompletionTurnId = u]
               \/ ThreadAfter(th, e) = th
      BY <3>4 DEF ThreadType
    <3> QED BY <2>1, <3>1, <3>2, <3>3, <3>4
  <2> QED BY <1>1, <2>2
<1>3. CASE e.type \in {"thread.settled", "thread.unsettled", "thread.turn-interrupt-requested"}
  <2>1. CASE e.type = "thread.turn-interrupt-requested"
    <3>1. ThreadAfter(th, e) = th
      BY <2>1 DEF ThreadAfter
    <3> QED BY <2>1, <3>1
  <2>2. CASE e.type \in {"thread.settled", "thread.unsettled"}
    <3> DEFINE override == IF e.type = "thread.settled" THEN "settled"
                           ELSE IF e.reason = "user" THEN "active" ELSE "none"
    <3>1. ThreadAfter(th, e) = [th EXCEPT !.settledOverride = override]
      BY <2>2 DEF ThreadAfter
    <3>2. override \in OverrideType
      BY DEF OverrideType
    <3> HIDE DEF override
    <3>3. /\ ThreadAfter(th, e) \in ThreadType
          /\ ThreadAfter(th, e).project = th.project
          /\ ThreadAfter(th, e).settledOverride = override
          /\ ThreadAfter(th, e).session = th.session
          /\ ThreadAfter(th, e).queuedTurns = th.queuedTurns
          /\ ThreadAfter(th, e).openRequests = th.openRequests
      BY <3>1, <3>2 DEF ThreadType
    <3> QED BY <2>2, <3>3 DEF override
  <2> QED BY <1>3, <2>1, <2>2
<1>4. CASE e.type \in LeavingTypes \cup SteeringTypes \cup {"thread.turn-queued"}
  <2>1. th.queuedTurns \in QueueType
    BY DEF ThreadType
  <2>2. ThreadAfter(th, e).queuedTurns \in QueueType
        /\ ThreadAfter(th, e) = [th EXCEPT !.queuedTurns = ThreadAfter(th, e).queuedTurns]
    <3>1. CASE e.type \in LeavingTypes
      BY <2>1, <3>1, MessageLeaves DEF ThreadAfter, ThreadType
    <3>2. CASE e.type \in SteeringTypes
      BY <2>1, <3>2, MessageSteered DEF ThreadAfter, ThreadType, MaybeTurn
    <3>3. CASE e.type = "thread.turn-queued"
      <4> DEFINE entry == [held |-> e.held, steering |-> None]
      <4>1. entry \in QueueEntry /\ e.message \in MessageId
        BY <3>3 DEF MaybeTurn, QueueEntry
      <4> DEFINE queue == With(th.queuedTurns, e.message, entry)
      <4>2. ThreadAfter(th, e) = [th EXCEPT !.queuedTurns = queue]
        BY <3>3 DEF ThreadAfter
      <4> HIDE DEF entry
      <4>3. queue \in QueueType
        BY <2>1, <4>1, MessageEnters
      <4> HIDE DEF queue
      <4>4. ThreadAfter(th, e).queuedTurns = queue
        BY <4>2 DEF ThreadType
      <4> QED BY <4>2, <4>3, <4>4
    <3> QED BY <1>4, <3>1, <3>2, <3>3
  <2>3. ThreadAfter(th, e) \in ThreadType
    BY <2>2 DEF ThreadType
  <2> QED BY <1>4, <2>3 DEF ThreadAfter, ThreadType
<1>5. CASE e.type = "thread.activity-appended"
  <2>1. AfterActivity(th.openRequests, e) \in SUBSET (RequestId \cup {None})
    BY <1>5 DEF ThreadType, AfterActivity
  <2> QED BY <1>5, <2>1 DEF ThreadAfter, ThreadType
<1>6. CASE e.type = "thread.session-set"
  <2>1. ThreadAfter(th, e) = SessionSetOn(th, e)
    BY <1>6 DEF ThreadAfter
  <2>2. [status |-> e.status, activeTurnId |-> e.turn] \in SessionType
    BY <1>6 DEF SessionType
  <2>3. /\ SessionSetOn(th, e) \in ThreadType
        /\ SessionSetOn(th, e).session = [status |-> e.status, activeTurnId |-> e.turn]
        /\ SessionSetOn(th, e).project = th.project
        /\ SessionSetOn(th, e).settledOverride = th.settledOverride
        /\ SessionSetOn(th, e).queuedTurns = th.queuedTurns
        /\ SessionSetOn(th, e).openRequests = th.openRequests
    <3>1. SettledTurnState(e.status) \in TurnStateType
      BY SettledStates DEF TurnStateType
    <3>2. PICK latest \in [turnId : MaybeTurn, state : TurnStateType], b \in BOOLEAN :
             SessionSetOn(th, e) =
                 [th EXCEPT !.session = [status |-> e.status, activeTurnId |-> e.turn],
                            !.latestTurn = latest, !.unstarted = b]
      BY <1>6, <3>1 DEF SessionSetOn, ThreadType, TurnStateType
    <3> DEFINE s == [status |-> e.status, activeTurnId |-> e.turn]
    <3>3. s \in SessionType /\ SessionSetOn(th, e) =
                 [th EXCEPT !.session = s, !.latestTurn = latest, !.unstarted = b]
      BY <2>2, <3>2
    <3> HIDE DEF s
    <3>4. SessionSetOn(th, e) \in ThreadType
      BY <3>3 DEF ThreadType
    <3>5. /\ SessionSetOn(th, e).session = s
          /\ SessionSetOn(th, e).project = th.project
          /\ SessionSetOn(th, e).settledOverride = th.settledOverride
          /\ SessionSetOn(th, e).queuedTurns = th.queuedTurns
          /\ SessionSetOn(th, e).openRequests = th.openRequests
      BY <3>3 DEF ThreadType
    <3> QED BY <3>4, <3>5 DEF s
  <2> QED BY <1>6, <2>1, <2>3
<1> QED BY <1>1, <1>3, <1>4, <1>5, <1>6

\* The rows of threads after an event on a thread.
LEMMA ThreadRows ==
    ASSUME NEW tab \in [ThreadId -> RowType], NEW e, ThreadEvent(e)
    PROVE  /\ ApplyThreads(tab, e) \in [ThreadId -> RowType]
           /\ \A t \in ThreadId : ApplyThreads(tab, e)[t].project = tab[t].project
           /\ \A t \in ThreadId \ {e.thread} : ApplyThreads(tab, e)[t] = tab[t]
           /\ tab[e.thread].project # None =>
                 ApplyThreads(tab, e)[e.thread].settledOverride =
                    CASE e.type = "thread.settled" -> "settled"
                      [] e.type = "thread.unsettled" ->
                             IF e.reason = "user" THEN "active" ELSE "none"
                      [] OTHER -> tab[e.thread].settledOverride
<1> DEFINE row == tab[e.thread]
           next == IF row.project = None THEN row ELSE ThreadRowAfter(row, e)
<1> USE DEF ThreadEvent, EventTypes, PlainTypes, Emptying, LeavingTypes, SteeringTypes, OtherTypes
<1>1. e.thread \in ThreadId /\ row \in RowType
  OBVIOUS
<1>2. ApplyThreads(tab, e) = [tab EXCEPT ![e.thread] = next]
  BY DEF ApplyThreads, IsProjectEvent
<1>3. /\ ThreadRowAfter(row, e) \in RowType
      /\ ThreadRowAfter(row, e).project = row.project
      /\ ThreadRowAfter(row, e).settledOverride =
            CASE e.type = "thread.settled" -> "settled"
              [] e.type = "thread.unsettled" ->
                     IF e.reason = "user" THEN "active" ELSE "none"
              [] OTHER -> row.settledOverride
  <2> HIDE DEF row
  <2>1. CASE e.type \in {"thread.deleted", "thread.archived", "thread.unarchived"}
    BY <1>1, <2>1 DEF ThreadRowAfter, RowType
  <2>2. CASE e.type \in {"thread.snoozed", "thread.unsnoozed", "thread.pinned",
                         "thread.unpinned"}
    BY <1>1, <2>2 DEF ThreadRowAfter, RowType
  <2>3. CASE e.type \in {"thread.settled", "thread.unsettled"}
    BY <1>1, <2>3 DEF ThreadRowAfter, RowType, OverrideType
  <2>4. CASE e.type = "thread.session-set"
    BY <1>1, <2>4 DEF ThreadRowAfter, RowType
  <2>5. CASE e.type \in {"thread.completion-acknowledged", "thread.completion-marked-unread"}
    BY <1>1, <2>5 DEF ThreadRowAfter, RowType, MaybeTurn
  <2>6. CASE e.type \in {"thread.message-sent", "thread.turn-start-requested",
                         "thread.queued-turn-updated", "thread.session-stop-requested",
                         "thread.activity-appended", "thread.turn-interrupt-requested",
                         "thread.turn-queued"} \cup LeavingTypes \cup SteeringTypes
    BY <1>1, <2>6 DEF ThreadRowAfter, RowType
  <2> QED BY <2>1, <2>2, <2>3, <2>4, <2>5, <2>6
<1> HIDE DEF next
<1>4. next \in RowType /\ next.project = row.project
  BY <1>1, <1>3 DEF next
<1> QED BY <1>1, <1>2, <1>3, <1>4 DEF next

\* The sessions.
LEMMA SessionRows ==
    ASSUME NEW tab \in [ThreadId -> SessionType], NEW e, ThreadEvent(e)
    PROVE  /\ ApplyThreadSessions(tab, e) \in [ThreadId -> SessionType]
           /\ \A t \in ThreadId \ {e.thread} : ApplyThreadSessions(tab, e)[t] = tab[t]
           /\ ApplyThreadSessions(tab, e)[e.thread] =
                 IF e.type = "thread.session-set"
                 THEN [status |-> e.status, activeTurnId |-> e.turn] ELSE tab[e.thread]
<1>1. e.type = "thread.session-set" =>
         [status |-> e.status, activeTurnId |-> e.turn] \in SessionType
  BY DEF SessionType, ThreadEvent
<1>2. e.thread \in ThreadId
  BY DEF ThreadEvent
<1> QED BY <1>1, <1>2 DEF ApplyThreadSessions

\* The queue of a thread in the tables after an event.
QueueRowAfter(q, e) ==
    CASE e.type = "thread.turn-queued" -> With(q, e.message, [held |-> e.held, steering |-> None])
      [] e.type \in LeavingTypes -> Without(q, e.message)
      [] e.type = "thread.queued-turn-steer-requested" -> WithSteering(q, e.message, e.turn)
      [] e.type = "thread.queued-turn-steer-failed" -> WithSteering(q, e.message, None)
      [] e.type \in Emptying -> <<>>
      [] OTHER -> q

LEMMA EmptyQueue == <<>> \in QueueType /\ DOMAIN <<>> = {}
<1>1. <<>> \in [{} -> [held : BOOLEAN, steering : MaybeTurn]]
  BY DEF MaybeTurn
<1>2. {} \in SUBSET MessageId
  OBVIOUS
<1> QED BY <1>1, <1>2 DEF QueueType

LEMMA QueueRowType ==
    ASSUME NEW q \in QueueType, NEW e, ThreadEvent(e)
    PROVE  QueueRowAfter(q, e) \in QueueType
<1> USE DEF LeavingTypes, SteeringTypes, Emptying
<1>1. CASE e.type = "thread.turn-queued"
  <2> DEFINE entry == [held |-> e.held, steering |-> None]
  <2>1. entry \in QueueEntry /\ e.message \in MessageId
    BY <1>1 DEF MaybeTurn, ThreadEvent, QueueEntry
  <2>2. QueueRowAfter(q, e) = With(q, e.message, entry)
    BY <1>1 DEF QueueRowAfter
  <2> HIDE DEF entry
  <2>3. With(q, e.message, entry) \in QueueType
    BY <2>1, MessageEnters
  <2> QED BY <2>2, <2>3
<1>2. CASE e.type \in LeavingTypes
  <2>1. e.message \in MessageId /\ QueueRowAfter(q, e) = Without(q, e.message)
    BY <1>2 DEF ThreadEvent, QueueRowAfter, LeavingTypes
  <2> QED BY <2>1, MessageLeaves
<1>3. CASE e.type \in SteeringTypes
  <2>1. /\ e.message \in MessageId
        /\ \E u \in MaybeTurn : QueueRowAfter(q, e) = WithSteering(q, e.message, u)
    BY <1>3 DEF ThreadEvent, QueueRowAfter, LeavingTypes, SteeringTypes, MaybeTurn
  <2> QED BY <2>1, MessageSteered
<1>4. CASE e.type \notin LeavingTypes \cup SteeringTypes \cup {"thread.turn-queued"}
  BY <1>4, EmptyQueue DEF QueueRowAfter, SteeringTypes
<1> QED BY <1>1, <1>2, <1>3, <1>4

\* The queues.
LEMMA QueueRows ==
    ASSUME NEW tab \in [ThreadId -> QueueType], NEW e, ThreadEvent(e)
    PROVE  /\ ApplyThreadQueuedTurns(tab, e) \in [ThreadId -> QueueType]
           /\ \A t \in ThreadId \ {e.thread} : ApplyThreadQueuedTurns(tab, e)[t] = tab[t]
           /\ ApplyThreadQueuedTurns(tab, e)[e.thread] = QueueRowAfter(tab[e.thread], e)
<1> USE DEF ThreadEvent, EventTypes, PlainTypes, Emptying, LeavingTypes, SteeringTypes, OtherTypes
<1>1. e.thread \in ThreadId /\ tab[e.thread] \in QueueType
  OBVIOUS
<1>2. QueueRowAfter(tab[e.thread], e) \in QueueType
  BY <1>1, QueueRowType
<1>3. ApplyThreadQueuedTurns(tab, e) = [tab EXCEPT ![e.thread] = QueueRowAfter(@, e)]
  BY DEF ApplyThreadQueuedTurns, QueueRowAfter
<1> QED BY <1>1, <1>2, <1>3

\* The turns of a thread in the tables after an event.
TurnRowAfter(turns, e) ==
    CASE e.type = "thread.session-set" /\ StartsTurn(e) ->
             With(Settle(turns, "completed", e.turn), e.turn,
                  IF e.turn \in DOMAIN turns /\ turns[e.turn] \in {"completed", "error"}
                  THEN turns[e.turn] ELSE "running")
      [] e.type = "thread.session-set" /\ ~StartsTurn(e)
         /\ SettledTurnState(e.status) # "none" ->
             Settle(turns, SettledTurnState(e.status), None)
      [] e.type = "thread.turn-interrupt-requested" /\ e.turn # None ->
             With(turns, e.turn, "interrupted")
      [] OTHER -> turns

LEMMA TurnStatesType ==
    ASSUME NEW turns \in TurnStates
    PROVE  /\ DOMAIN turns \in SUBSET TurnId
           /\ \A u \in DOMAIN turns : turns[u] \in TurnStateType
           /\ turns \in [DOMAIN turns -> TurnStateType]
BY DEF TurnStates

\* One more turn, or another state of one.
LEMMA TurnAdded ==
    ASSUME NEW turns \in TurnStates, NEW u \in TurnId, NEW state \in TurnStateType
    PROVE  /\ With(turns, u, state) \in TurnStates
           /\ DOMAIN With(turns, u, state) = DOMAIN turns \cup {u}
           /\ \A v \in DOMAIN turns \cup {u} :
                 With(turns, u, state)[v] = IF v = u THEN state ELSE turns[v]
<1> DEFINE D == DOMAIN turns \cup {u}
<1>1. D \in SUBSET TurnId /\ \A v \in DOMAIN turns : turns[v] \in TurnStateType
  BY TurnStatesType
<1>2. With(turns, u, state) = [v \in D |-> IF v = u THEN state ELSE turns[v]]
  BY DEF With
<1>3. With(turns, u, state) \in [D -> TurnStateType]
  BY <1>1, <1>2
<1>4. With(turns, u, state) \in TurnStates
  BY <1>1, <1>3 DEF TurnStates
<1> QED BY <1>2, <1>4

\* Turns that run are settled.
LEMMA TurnsSettled ==
    ASSUME NEW turns \in TurnStates, NEW state \in TurnStateType, NEW but
    PROVE  /\ Settle(turns, state, but) \in TurnStates
           /\ DOMAIN Settle(turns, state, but) = DOMAIN turns
           /\ \A u \in DOMAIN turns : Settle(turns, state, but)[u] =
                 IF turns[u] = "running" /\ u # but THEN state ELSE turns[u]
<1> DEFINE D == DOMAIN turns
<1>1. D \in SUBSET TurnId /\ \A v \in D : turns[v] \in TurnStateType
  BY TurnStatesType
<1>2. Settle(turns, state, but) =
          [u \in D |-> IF turns[u] = "running" /\ u # but THEN state ELSE turns[u]]
  BY DEF Settle
<1>3. Settle(turns, state, but) \in [D -> TurnStateType]
  BY <1>1, <1>2
<1>4. Settle(turns, state, but) \in TurnStates
  BY <1>1, <1>3 DEF TurnStates
<1> QED BY <1>2, <1>4

LEMMA TurnRowsType ==
    ASSUME NEW turns \in TurnStates, NEW e, ThreadEvent(e)
    PROVE  TurnRowAfter(turns, e) \in TurnStates
<1>1. ASSUME e.type = "thread.session-set" /\ StartsTurn(e) PROVE TurnRowAfter(turns, e) \in TurnStates
  <2>1. e.turn \in TurnId
    BY <1>1 DEF StartsTurn, ThreadEvent, MaybeTurn
  <2> DEFINE settled == Settle(turns, "completed", e.turn)
             state == IF e.turn \in DOMAIN turns /\ turns[e.turn] \in {"completed", "error"}
                      THEN turns[e.turn] ELSE "running"
  <2>0. "completed" \in TurnStateType /\ "running" \in TurnStateType
    BY DEF TurnStateType
  <2>2. settled \in TurnStates /\ state \in TurnStateType
    BY <2>0, TurnStatesType, TurnsSettled
  <2>3. TurnRowAfter(turns, e) = With(settled, e.turn, state)
    BY <1>1 DEF TurnRowAfter
  <2> HIDE DEF settled, state
  <2>4. With(settled, e.turn, state) \in TurnStates
    BY <2>1, <2>2, TurnAdded
  <2> QED BY <2>3, <2>4
<1>2. ASSUME e.type = "thread.session-set", ~StartsTurn(e) PROVE TurnRowAfter(turns, e) \in TurnStates
  <2>1. SettledTurnState(e.status) \in TurnStateType
    BY SettledStates DEF TurnStateType
  <2> QED BY <1>2, <2>1, TurnsSettled DEF TurnRowAfter
<1>3. ASSUME e.type = "thread.turn-interrupt-requested" PROVE TurnRowAfter(turns, e) \in TurnStates
  <2>1. e.turn \in MaybeTurn /\ "interrupted" \in TurnStateType
    BY <1>3 DEF ThreadEvent, TurnStateType
  <2> QED BY <1>3, <2>1, TurnAdded DEF TurnRowAfter, MaybeTurn
<1>4. ASSUME e.type \notin {"thread.session-set", "thread.turn-interrupt-requested"}
      PROVE  TurnRowAfter(turns, e) \in TurnStates
  BY <1>4 DEF TurnRowAfter
<1> QED BY <1>1, <1>2, <1>3, <1>4

\* What is left of the pending turn starts after each of the first k.
AreLeft(f, pending, msg, k) ==
    f = [n \in 0..k |->
            IF n = 0 THEN <<>>
            ELSE IF pending[n] = msg THEN f[n - 1] ELSE Append(f[n - 1], pending[n])]

LEMMA LeftOneByOne ==
    ASSUME NEW k \in Nat, NEW pending, NEW msg
    PROVE  \E f : AreLeft(f, pending, msg, k)
<1> DEFINE Bad == {j \in Nat : ~\E f : AreLeft(f, pending, msg, j)}
<1>1. SUFFICES ASSUME Bad # {} PROVE FALSE
  OBVIOUS
<1>2. PICK j \in Nat : j \in Bad /\ \A i \in Nat : i \in Bad => j <= i
  <2>1. \E j \in Bad : \A i \in Bad : j <= i
    BY <1>1, LeastOf
  <2> QED BY <2>1
<1>3. j # 0
  <2>1. 0..0 = {0}
    OBVIOUS
  <2>2. AreLeft([n \in {0} |-> <<>>], pending, msg, 0)
    BY <2>1 DEF AreLeft
  <2> QED BY <1>2, <2>2
<1>4. j - 1 \in Nat /\ j - 1 \notin Bad
  BY <1>2, <1>3
<1>5. PICK f : AreLeft(f, pending, msg, j - 1)
  BY <1>4
<1> DEFINE last == IF pending[j] = msg THEN f[j - 1] ELSE Append(f[j - 1], pending[j])
           g == [n \in 0..j |-> IF n < j THEN f[n] ELSE last]
<1>6. \A n \in 0..(j - 1) :
          f[n] = IF n = 0 THEN <<>>
                 ELSE IF pending[n] = msg THEN f[n - 1] ELSE Append(f[n - 1], pending[n])
  BY <1>5 DEF AreLeft
<1>7. \A n \in 0..j :
          g[n] = IF n = 0 THEN <<>>
                 ELSE IF pending[n] = msg THEN g[n - 1] ELSE Append(g[n - 1], pending[n])
  <2>1. \A n \in 0..(j - 1) : g[n] = f[n]
    BY <1>3
  <2>2. g[j] = last /\ j - 1 \in 0..(j - 1)
    BY <1>3
  <2>3. g[j] = IF pending[j] = msg THEN g[j - 1] ELSE Append(g[j - 1], pending[j])
    BY <2>1, <2>2, Zenon
  <2> HIDE DEF g
  <2>4. \A n \in 1..(j - 1) : n - 1 \in 0..(j - 1) /\ n \in 0..(j - 1) /\ n # 0
    OBVIOUS
  <2>5. g[0] = <<>>
    BY <1>3, <1>6, <2>1
  <2>6. \A n \in 1..(j - 1) :
            g[n] = IF pending[n] = msg THEN g[n - 1] ELSE Append(g[n - 1], pending[n])
    BY <1>6, <2>1, <2>4, Zenon
  <2>7. \A n \in 0..j : n = 0 \/ n \in 1..(j - 1) \/ n = j
    BY <1>3
  <2> QED BY <1>3, <2>3, <2>5, <2>6, <2>7
<1>8. AreLeft(g, pending, msg, j)
  <2>1. g = [n \in 0..j |-> g[n]]
    OBVIOUS
  <2> HIDE DEF g
  <2> QED BY <1>7, <2>1 DEF AreLeft
<1> QED BY <1>2, <1>8

LEMMA AppendedRange ==
    ASSUME NEW S, NEW s \in Seq(S), NEW e \in S
    PROVE  Append(s, e) \in Seq(S) /\ ToSet(Append(s, e)) = ToSet(s) \cup {e}
<1> DEFINE a == Append(s, e)
<1>1. /\ a \in Seq(S) /\ Len(s) \in Nat
      /\ DOMAIN a = 1..(Len(s) + 1) /\ DOMAIN s = 1..Len(s)
      /\ \A i \in 1..Len(s) : a[i] = s[i]
      /\ a[Len(s) + 1] = e
  OBVIOUS
<1> HIDE DEF a
<1>2. \A i \in DOMAIN a : i \in 1..Len(s) \/ i = Len(s) + 1
  BY <1>1
<1>3. Len(s) + 1 \in DOMAIN a /\ \A i \in DOMAIN s : i \in DOMAIN a
  BY <1>1
<1>4. ToSet(a) = ToSet(s) \cup {e}
  BY <1>1, <1>2, <1>3 DEF ToSet
<1> QED BY <1>1, <1>4 DEF a

\* Nothing of a message is left of the pending turn starts, and all the others.
LEMMA PendingDeleted ==
    ASSUME NEW S, NEW pending \in Seq(S), NEW msg
    PROVE  /\ DeletePending(pending, msg) \in Seq(S)
           /\ ToSet(DeletePending(pending, msg)) = ToSet(pending) \ {msg}
<1> DEFINE k == Len(pending)
           f == CHOOSE g : AreLeft(g, pending, msg, k)
<1>1. k \in Nat
  OBVIOUS
<1>2. AreLeft(f, pending, msg, k)
  BY <1>1, LeftOneByOne, Zenon
<1>3. DeletePending(pending, msg) = f[k]
  BY Zenon DEF DeletePending, AreLeft
<1> HIDE DEF f
<1>4. \A n \in 0..k :
          f[n] = IF n = 0 THEN <<>>
                 ELSE IF pending[n] = msg THEN f[n - 1] ELSE Append(f[n - 1], pending[n])
  BY <1>2 DEF AreLeft
<1> DEFINE Good(n) == /\ f[n] \in Seq(S)
                      /\ ToSet(f[n]) = {pending[i] : i \in 1..n} \ {msg}
           Bad == {n \in 0..k : ~Good(n)}
<1> HIDE DEF Good, k
<1>5. Bad = {}
  <2>1. SUFFICES ASSUME Bad # {} PROVE FALSE
    OBVIOUS
  <2>2. PICK n \in Bad : \A i \in Bad : n <= i
    <3>1. Bad \subseteq Nat
      OBVIOUS
    <3> HIDE DEF Bad
    <3> QED BY <2>1, <3>1, LeastOf
  <2>3. n \in 0..k /\ ~Good(n)
    OBVIOUS
  <2>4. CASE n = 0
    <3>1. f[0] = <<>>
      BY <1>1, <1>4
    <3>2. Good(0)
      BY <3>1 DEF Good, ToSet
    <3> QED BY <2>3, <2>4, <3>2
  <2>5. CASE n # 0
    <3>1. n \in 1..k /\ n - 1 \in 0..k /\ n - 1 \notin Bad
      <4>1. n \in 1..k /\ n - 1 \in 0..k /\ ~(n <= n - 1)
        BY <1>1, <2>3, <2>5
      <4> HIDE DEF Bad
      <4> QED BY <2>2, <4>1
    <3>2. /\ f[n - 1] \in Seq(S)
          /\ ToSet(f[n - 1]) = {pending[i] : i \in 1..(n - 1)} \ {msg}
      BY <3>1 DEF Good
    <3>3. /\ {pending[i] : i \in 1..n} = {pending[i] : i \in 1..(n - 1)} \cup {pending[n]}
          /\ pending[n] \in S
      BY <3>1 DEF k
    <3>4. f[n] = IF pending[n] = msg THEN f[n - 1] ELSE Append(f[n - 1], pending[n])
      BY <1>4, <2>3, <2>5
    <3>5. CASE pending[n] = msg
      BY <2>3, <3>2, <3>3, <3>4, <3>5 DEF Good
    <3>6. CASE pending[n] # msg
      <4>1. f[n] \in Seq(S) /\ ToSet(f[n]) = ToSet(f[n - 1]) \cup {pending[n]}
        BY <3>2, <3>3, <3>4, <3>6, AppendedRange
      <4> QED BY <2>3, <3>2, <3>3, <3>6, <4>1 DEF Good
    <3> QED BY <3>5, <3>6
  <2> QED BY <2>4, <2>5
<1>6. Good(k)
  BY <1>1, <1>5
<1>7. {pending[i] : i \in 1..k} = ToSet(pending)
  BY DEF ToSet, k
<1> QED BY <1>3, <1>6, <1>7 DEF Good, k

\* The pending turn starts of a thread after an event.
PendingRowAfter(pending, e) ==
    CASE e.type = "thread.turn-start-requested" -> Append(pending, e.message)
      [] e.type = "thread.turn-queued" /\ e.held -> DeletePending(pending, e.message)
      [] e.type = "thread.session-set" /\ StartsTurn(e) ->
             DeletePending(pending, Head(pending))
      [] OTHER -> pending

LEMMA PendingRowsType ==
    ASSUME NEW pending \in Seq(MessageId), NEW e, ThreadEvent(e)
    PROVE  PendingRowAfter(pending, e) \in Seq(MessageId)
<1>1. CASE e.type = "thread.turn-start-requested"
  <2>1. e.message \in MessageId /\ PendingRowAfter(pending, e) = Append(pending, e.message)
    BY <1>1 DEF ThreadEvent, PendingRowAfter
  <2> QED BY <2>1, AppendedRange
<1>2. CASE e.type # "thread.turn-start-requested"
  BY <1>2, PendingDeleted DEF PendingRowAfter
<1> QED BY <1>1, <1>2

\* The turns.
TurnTableShape(tab) ==
    /\ tab = [t \in ThreadId |-> [turns |-> tab[t].turns, pending |-> tab[t].pending]]
    /\ \A t \in ThreadId : tab[t].turns \in TurnStates /\ tab[t].pending \in Seq(MessageId)

LEMMA TurnRows ==
    ASSUME NEW tab, TurnTableShape(tab), NEW e, ThreadEvent(e)
    PROVE  /\ TurnTableShape(ApplyThreadTurns(tab, e))
           /\ \A t \in ThreadId \ {e.thread} : ApplyThreadTurns(tab, e)[t] = tab[t]
           /\ ApplyThreadTurns(tab, e)[e.thread].turns = TurnRowAfter(tab[e.thread].turns, e)
           /\ ApplyThreadTurns(tab, e)[e.thread].pending =
                 PendingRowAfter(tab[e.thread].pending, e)
<1> DEFINE row == tab[e.thread]
           turns == TurnRowAfter(row.turns, e)
           pending == PendingRowAfter(row.pending, e)
<1>1. e.thread \in ThreadId
  BY DEF ThreadEvent
<1>2. row = [turns |-> row.turns, pending |-> row.pending]
  BY <1>1 DEF TurnTableShape
<1>3. ApplyThreadTurns(tab, e) =
          [tab EXCEPT ![e.thread] = [turns |-> turns, pending |-> pending]]
  <2>1. \A p, u : /\ [row EXCEPT !.pending = p] = [turns |-> row.turns, pending |-> p]
                  /\ [row EXCEPT !.turns = u] = [turns |-> u, pending |-> row.pending]
    BY <1>2
  <2>2. [tab EXCEPT ![e.thread] = row] = tab
    BY <1>1 DEF TurnTableShape
  <2>3. CASE e.type = "thread.session-set" /\ StartsTurn(e)
    <3>1. ApplyThreadTurns(tab, e) = [tab EXCEPT ![e.thread] = StartTurn(row, e.turn)]
      BY <1>1, <2>3 DEF ApplyThreadTurns, StartsTurn, SettledTurnState
    <3>2. pending = DeletePending(row.pending, Head(row.pending))
      BY <2>3 DEF PendingRowAfter
    <3>3. StartTurn(row, e.turn) = [turns |-> turns, pending |-> pending]
      BY <2>3, <3>2 DEF StartTurn, TurnRowAfter
    <3> HIDE DEF pending, turns
    <3> QED BY <3>1, <3>3
  <2>4. CASE e.type = "thread.session-set" /\ ~StartsTurn(e)
    <3>1. pending = row.pending
      BY <2>4 DEF PendingRowAfter
    <3>2. CASE SettledTurnState(e.status) # "none"
      <4>1. turns = Settle(row.turns, SettledTurnState(e.status), None)
        BY <2>4, <3>2 DEF TurnRowAfter
      <4>2. ApplyThreadTurns(tab, e) = [tab EXCEPT ![e.thread] = [row EXCEPT !.turns = turns]]
        BY <1>1, <2>4, <3>2, <4>1 DEF ApplyThreadTurns
      <4> HIDE DEF turns, pending
      <4> QED BY <2>1, <3>1, <4>2
    <3>3. CASE SettledTurnState(e.status) = "none"
      <4>1. turns = row.turns /\ ApplyThreadTurns(tab, e) = tab
        BY <2>4, <3>3 DEF ApplyThreadTurns, TurnRowAfter
      <4> HIDE DEF turns, pending
      <4> QED BY <1>2, <2>2, <3>1, <4>1
    <3> QED BY <3>2, <3>3
  <2>5. CASE e.type = "thread.turn-interrupt-requested" /\ e.turn # None
    <3>1. turns = With(row.turns, e.turn, "interrupted") /\ pending = row.pending
      BY <2>5 DEF TurnRowAfter, PendingRowAfter
    <3>2. ApplyThreadTurns(tab, e) = [tab EXCEPT ![e.thread] = [row EXCEPT !.turns = turns]]
      BY <1>1, <2>5, <3>1 DEF ApplyThreadTurns
    <3> HIDE DEF turns, pending
    <3> QED BY <2>1, <3>1, <3>2
  <2>6. CASE \/ e.type = "thread.turn-start-requested"
             \/ e.type = "thread.turn-queued" /\ e.held
    <3>1. turns = row.turns
      BY <2>6 DEF TurnRowAfter
    <3>2. ApplyThreadTurns(tab, e) = [tab EXCEPT ![e.thread] = [row EXCEPT !.pending = pending]]
      <4>1. CASE e.type = "thread.turn-start-requested"
        BY <1>1, <4>1 DEF ApplyThreadTurns, PendingRowAfter
      <4>2. CASE e.type = "thread.turn-queued" /\ e.held
        BY <1>1, <4>2 DEF ApplyThreadTurns, PendingRowAfter
      <4> QED BY <2>6, <4>1, <4>2
    <3> HIDE DEF turns, pending
    <3> QED BY <2>1, <3>1, <3>2
  <2>7. CASE /\ e.type \notin {"thread.turn-start-requested", "thread.session-set"}
             /\ ~(e.type = "thread.turn-queued" /\ e.held)
             /\ ~(e.type = "thread.turn-interrupt-requested" /\ e.turn # None)
    <3>1. turns = row.turns /\ pending = row.pending /\ ApplyThreadTurns(tab, e) = tab
      BY <2>7 DEF ApplyThreadTurns, TurnRowAfter, PendingRowAfter
    <3> HIDE DEF turns, pending
    <3> QED BY <1>2, <2>2, <3>1
  <2> QED BY <2>3, <2>4, <2>5, <2>6, <2>7
<1>4. turns \in TurnStates /\ pending \in Seq(MessageId)
  BY <1>1, TurnRowsType, PendingRowsType DEF TurnTableShape
<1> HIDE DEF turns, pending
<1>5. /\ ApplyThreadTurns(tab, e)[e.thread].turns = turns
      /\ ApplyThreadTurns(tab, e)[e.thread].pending = pending
      /\ \A t \in ThreadId \ {e.thread} : ApplyThreadTurns(tab, e)[t] = tab[t]
      /\ TurnTableShape(ApplyThreadTurns(tab, e))
  <2> DEFINE new == ApplyThreadTurns(tab, e)
  <2>1. new = [t \in ThreadId |->
                  IF t = e.thread THEN [turns |-> turns, pending |-> pending] ELSE tab[t]]
    BY <1>3 DEF TurnTableShape
  <2> HIDE DEF new
  <2>2. /\ new[e.thread] = [turns |-> turns, pending |-> pending]
        /\ \A t \in ThreadId \ {e.thread} : new[t] = tab[t]
        /\ new = [t \in ThreadId |-> new[t]]
    BY <1>1, <2>1
  <2>3. \A t \in ThreadId : /\ new[t] = [turns |-> new[t].turns, pending |-> new[t].pending]
                            /\ new[t].turns \in TurnStates
                            /\ new[t].pending \in Seq(MessageId)
    BY <1>4, <2>2 DEF TurnTableShape
  <2>4. TurnTableShape(new)
    BY <2>2, <2>3 DEF TurnTableShape
  <2> QED BY <2>2, <2>4 DEF new
<1> QED BY <1>5 DEF turns, pending

-----------------------------------------------------------------------------
(* What the read model and the tables agree on *)

\* Nothing was ever recorded of a thread that was not created.
Untouched(th, rows) ==
    /\ th = AbsentThread
    /\ rows.row = NoThreadRow
    /\ rows.session = AbsentThread.session
    /\ rows.queue = <<>>
    /\ rows.turns = <<>>

SettledQuietly(th, rows) ==
    th.settledOverride = "settled" =>
        /\ th.session.status \notin {"starting", "running"}
        /\ th.openRequests = {}
        /\ \A msg \in DOMAIN th.queuedTurns : th.queuedTurns[msg].held
        /\ \A msg \in DOMAIN rows.queue : rows.queue[msg].held

RunningIsActive(rows) ==
    \A u \in DOMAIN rows.turns :
        rows.turns[u] = "running" => rows.session = [status |-> "running", activeTurnId |-> u]

\* A thread and its rows: what is queued in the tables is queued in memory,
\* where archiving and deletion leave the queue.
Agrees(th, rows) ==
    /\ th.project = rows.row.project
    /\ th.settledOverride = rows.row.settledOverride
    /\ th.session = rows.session
    /\ DOMAIN rows.queue \subseteq DOMAIN th.queuedTurns
    /\ SettledQuietly(th, rows)
    /\ RunningIsActive(rows)
    /\ th.project = None => Untouched(th, rows)

Agreement(m, tb) ==
    /\ ReadModelShape(m) /\ TablesShape(tb)
    /\ \A t \in ThreadId : Agrees(m.threads[t], RowsOf(tb, t))

\* What an event needs of its thread.
Fits(th, e) ==
    /\ ThreadEvent(e)
    /\ th.project # None
    /\ e.type = "thread.settled" =>
          /\ th.session.status \notin {"starting", "running"}
          /\ th.openRequests = {}
          /\ DOMAIN th.queuedTurns = {}
    /\ e.type = "thread.turn-queued" /\ ~e.held => th.settledOverride # "settled"
    /\ e.type = "thread.activity-appended" /\ OpensRequest(e.kind) =>
          th.settledOverride # "settled"
    /\ e.type = "thread.session-set" =>
          /\ e.status # "none"
          /\ e.status \in {"starting", "running"} => th.settledOverride # "settled"
          /\ e.status = "running" => e.turn # None
          /\ e.status = "starting" => th.session.activeTurnId = None /\ e.turn = None

\* An event keeps turns and session together.
LEMMA RunningStaysActive ==
    ASSUME NEW th, NEW rows, NEW e, Fits(th, e), RunningIsActive(rows), th.session = rows.session,
           rows.turns \in TurnStates, NEW next,
           next.turns = TurnRowAfter(rows.turns, e),
           next.session = IF e.type = "thread.session-set"
                          THEN [status |-> e.status, activeTurnId |-> e.turn] ELSE rows.session
    PROVE  RunningIsActive(next)
<1> DEFINE turns == rows.turns
<1>0. None \notin TurnId /\ DOMAIN turns \subseteq TurnId
  BY HistoryAssumption, TurnStatesType
<1>1. CASE e.type = "thread.session-set" /\ StartsTurn(e)
  <2>1. e.turn \in TurnId
    BY <1>1 DEF Fits, ThreadEvent, StartsTurn, MaybeTurn
  <2> DEFINE settled == Settle(turns, "completed", e.turn)
             state == IF e.turn \in DOMAIN turns /\ turns[e.turn] \in {"completed", "error"}
                      THEN turns[e.turn] ELSE "running"
  <2>2. "completed" \in TurnStateType /\ "running" \in TurnStateType
    BY DEF TurnStateType
  <2>3. /\ settled \in TurnStates /\ DOMAIN settled = DOMAIN turns /\ state \in TurnStateType
        /\ \A u \in DOMAIN turns : settled[u] =
              IF turns[u] = "running" /\ u # e.turn THEN "completed" ELSE turns[u]
    BY <2>2, TurnStatesType, TurnsSettled
  <2>4. next.turns = With(settled, e.turn, state)
    BY <1>1 DEF TurnRowAfter
  <2> HIDE DEF settled, state
  <2>5. /\ DOMAIN With(settled, e.turn, state) = DOMAIN settled \cup {e.turn}
        /\ \A v \in DOMAIN settled \cup {e.turn} :
              With(settled, e.turn, state)[v] = IF v = e.turn THEN state ELSE settled[v]
    BY <2>1, <2>3, TurnAdded
  <2>6. \A v \in DOMAIN next.turns : next.turns[v] = "running" => v = e.turn
    BY <2>3, <2>4, <2>5
  <2>7. next.session = [status |-> "running", activeTurnId |-> e.turn]
    BY <1>1 DEF StartsTurn
  <2> QED BY <2>6, <2>7 DEF RunningIsActive
<1>2. CASE e.type = "thread.session-set" /\ ~StartsTurn(e)
  <2>1. CASE e.status = "starting"
    <3>1. next.turns = turns
      BY <1>2, <2>1 DEF TurnRowAfter, SettledTurnState
    <3>2. \A u \in DOMAIN turns : turns[u] # "running"
      <4>1. rows.session.activeTurnId = None
        BY <1>2, <2>1 DEF Fits
      <4>2. ASSUME NEW u \in DOMAIN turns, turns[u] = "running"
            PROVE  rows.session.activeTurnId = u
        <5>1. rows.session = [status |-> "running", activeTurnId |-> u]
          BY <4>2 DEF RunningIsActive
        <5> QED BY <5>1
      <4> QED BY <1>0, <4>1, <4>2
    <3> QED BY <3>1, <3>2 DEF RunningIsActive
  <2>2. CASE e.status # "starting"
    <3>1. e.status \in {"ready", "error", "stopped", "interrupted"}
      BY <1>2, <2>2 DEF Fits, ThreadEvent, StatusType, StartsTurn
    <3> DEFINE state == SettledTurnState(e.status)
    <3>2. state \in {"completed", "error", "interrupted"}
      BY <3>1 DEF SettledTurnState
    <3>3. next.turns = Settle(turns, state, None)
      BY <1>2, <3>2 DEF TurnRowAfter
    <3> HIDE DEF state
    <3>4. state \in TurnStateType
      BY <3>2 DEF TurnStateType
    <3>5. /\ DOMAIN next.turns = DOMAIN turns
          /\ \A u \in DOMAIN turns : next.turns[u] =
                IF turns[u] = "running" /\ u # None THEN state ELSE turns[u]
      BY <3>3, <3>4, TurnsSettled
    <3>6. \A u \in DOMAIN next.turns : next.turns[u] # "running"
      BY <1>0, <3>2, <3>5
    <3> QED BY <3>6 DEF RunningIsActive
  <2> QED BY <2>1, <2>2
<1>3. CASE e.type = "thread.turn-interrupt-requested" /\ e.turn # None
  <2>1. e.turn \in TurnId /\ "interrupted" \in TurnStateType
    BY <1>3 DEF Fits, ThreadEvent, MaybeTurn, TurnStateType
  <2>2. next.turns = With(turns, e.turn, "interrupted") /\ next.session = rows.session
    BY <1>3 DEF TurnRowAfter
  <2> DEFINE state == "interrupted"
  <2>3. state \in TurnStateType /\ state # "running" /\ turns \in TurnStates
    BY <2>1
  <2>4. next.turns = With(turns, e.turn, state)
    BY <2>2
  <2> HIDE DEF state, turns
  <2>5. /\ DOMAIN With(turns, e.turn, state) = DOMAIN turns \cup {e.turn}
        /\ \A v \in DOMAIN turns \cup {e.turn} :
              With(turns, e.turn, state)[v] = IF v = e.turn THEN state ELSE turns[v]
    BY <2>1, <2>3, TurnAdded, SMTT(30)
  <2>6. \A v \in DOMAIN next.turns : next.turns[v] = "running" => turns[v] = "running" /\ v \in DOMAIN turns
    BY <2>3, <2>4, <2>5
  <2> QED BY <2>2, <2>6 DEF RunningIsActive, turns
<1>4. CASE /\ e.type # "thread.session-set"
           /\ ~(e.type = "thread.turn-interrupt-requested" /\ e.turn # None)
  BY <1>4 DEF TurnRowAfter, RunningIsActive
<1> QED BY <1>1, <1>2, <1>3, <1>4

\* The queue of a thread in memory after an event.
LiveQueueAfter(q, e) ==
    CASE e.type = "thread.turn-queued" -> With(q, e.message, [held |-> e.held, steering |-> None])
      [] e.type \in LeavingTypes -> Without(q, e.message)
      [] e.type = "thread.queued-turn-steer-requested" -> WithSteering(q, e.message, e.turn)
      [] e.type = "thread.queued-turn-steer-failed" -> WithSteering(q, e.message, None)
      [] OTHER -> q

\* A queue in memory and a queue in the tables follow the same events, but
\* for those that empty the second; only an event that queues a message puts
\* one there.
LEMMA QueuesFollow ==
    ASSUME NEW q \in QueueType, NEW e, ThreadEvent(e)
    PROVE  /\ e.type \notin Emptying => QueueRowAfter(q, e) = LiveQueueAfter(q, e)
           /\ e.type \in Emptying => /\ LiveQueueAfter(q, e) = q
                                     /\ QueueRowAfter(q, e) = <<>>
           /\ DOMAIN LiveQueueAfter(q, e) =
                 CASE e.type = "thread.turn-queued" -> DOMAIN q \cup {e.message}
                   [] e.type \in LeavingTypes -> DOMAIN q \ {e.message}
                   [] OTHER -> DOMAIN q
           /\ \A k \in DOMAIN LiveQueueAfter(q, e) :
                 \/ k \in DOMAIN q /\ LiveQueueAfter(q, e)[k].held = q[k].held
                 \/ e.type = "thread.turn-queued" /\ LiveQueueAfter(q, e)[k].held = e.held
<1> USE DEF LeavingTypes, SteeringTypes, Emptying
<1>1. /\ e.type \notin Emptying => QueueRowAfter(q, e) = LiveQueueAfter(q, e)
      /\ e.type \in Emptying => /\ LiveQueueAfter(q, e) = q
                                /\ QueueRowAfter(q, e) = <<>>
  BY DEF QueueRowAfter, LiveQueueAfter
<1>2. CASE e.type = "thread.turn-queued"
  <2> DEFINE entry == [held |-> e.held, steering |-> None]
  <2>1. entry \in QueueEntry /\ e.message \in MessageId
    BY <1>2 DEF MaybeTurn, ThreadEvent, QueueEntry
  <2>2. LiveQueueAfter(q, e) = With(q, e.message, entry) /\ entry.held = e.held
    BY <1>2 DEF LiveQueueAfter
  <2> HIDE DEF entry
  <2>3. /\ DOMAIN With(q, e.message, entry) = DOMAIN q \cup {e.message}
        /\ With(q, e.message, entry)[e.message] = entry
        /\ \A k \in DOMAIN q \ {e.message} : With(q, e.message, entry)[k] = q[k]
    BY DEF With
  <2> QED BY <1>1, <1>2, <2>2, <2>3
<1>3. CASE e.type \in LeavingTypes
  <2>1. e.message \in MessageId /\ LiveQueueAfter(q, e) = Without(q, e.message)
    BY <1>3 DEF ThreadEvent, LiveQueueAfter
  <2>2. /\ DOMAIN Without(q, e.message) = DOMAIN q \ {e.message}
        /\ \A k \in DOMAIN q \ {e.message} : Without(q, e.message)[k] = q[k]
    BY MessageLeaves
  <2> QED BY <1>1, <1>3, <2>1, <2>2
<1>4. CASE e.type \in SteeringTypes
  <2>1. PICK u \in MaybeTurn : LiveQueueAfter(q, e) = WithSteering(q, e.message, u)
    BY <1>4 DEF ThreadEvent, LiveQueueAfter, MaybeTurn
  <2>2. e.message \in MessageId
    BY <1>4 DEF ThreadEvent
  <2>3. /\ DOMAIN WithSteering(q, e.message, u) = DOMAIN q
        /\ \A k \in DOMAIN q : WithSteering(q, e.message, u)[k].held = q[k].held
    BY MessageSteered
  <2> QED BY <1>1, <1>4, <2>1, <2>3
<1>5. CASE e.type \notin LeavingTypes \cup SteeringTypes \cup {"thread.turn-queued"}
  <2>1. LiveQueueAfter(q, e) = q
    BY <1>5 DEF LiveQueueAfter
  <2> QED BY <1>1, <1>5, <2>1
<1> QED BY <1>2, <1>3, <1>4, <1>5

\* An event leaves a settled thread quiet.
LEMMA StaysQuiet ==
    ASSUME NEW th \in ThreadType, NEW rows, NEW e, Fits(th, e), SettledQuietly(th, rows),
           rows.queue \in QueueType, DOMAIN rows.queue \subseteq DOMAIN th.queuedTurns,
           NEW next, next.queue = QueueRowAfter(rows.queue, e)
    PROVE  /\ SettledQuietly(ThreadAfter(th, e), next)
           /\ DOMAIN next.queue \subseteq DOMAIN ThreadAfter(th, e).queuedTurns
<1> DEFINE after == ThreadAfter(th, e)
<1>1. ThreadEvent(e) /\ th.queuedTurns \in QueueType
  BY DEF Fits, ThreadType
<1>2. /\ after.settledOverride = "settled" =>
            e.type = "thread.settled" \/ (e.type # "thread.unsettled" /\ th.settledOverride = "settled")
      /\ after.session = IF e.type = "thread.session-set"
                         THEN [status |-> e.status, activeTurnId |-> e.turn] ELSE th.session
      /\ after.openRequests = IF e.type = "thread.activity-appended"
                              THEN AfterActivity(th.openRequests, e) ELSE th.openRequests
      /\ after.queuedTurns = LiveQueueAfter(th.queuedTurns, e)
  BY <1>1, ThreadAfterEvent DEF LiveQueueAfter
<1> HIDE DEF after
<1>3. DOMAIN next.queue \subseteq DOMAIN after.queuedTurns
  <2>1. CASE e.type \in Emptying
    BY <1>1, <2>1, QueuesFollow, EmptyQueue
  <2>2. CASE e.type \notin Emptying
    <3> DEFINE q == th.queuedTurns
               r == rows.queue
    <3>1. /\ next.queue = LiveQueueAfter(r, e)
          /\ DOMAIN LiveQueueAfter(r, e) =
                 CASE e.type = "thread.turn-queued" -> DOMAIN r \cup {e.message}
                   [] e.type \in LeavingTypes -> DOMAIN r \ {e.message}
                   [] OTHER -> DOMAIN r
      BY <1>1, <2>2, QueuesFollow
    <3>2. /\ after.queuedTurns = LiveQueueAfter(q, e)
          /\ DOMAIN LiveQueueAfter(q, e) =
                 CASE e.type = "thread.turn-queued" -> DOMAIN q \cup {e.message}
                   [] e.type \in LeavingTypes -> DOMAIN q \ {e.message}
                   [] OTHER -> DOMAIN q
      BY <1>1, <1>2, QueuesFollow
    <3>3. DOMAIN r \subseteq DOMAIN q
      OBVIOUS
    <3> HIDE DEF q, r
    <3> QED BY <3>1, <3>2, <3>3
  <2> QED BY <2>1, <2>2
<1>4. ASSUME after.settledOverride = "settled" PROVE SettledQuietly(after, next)
  <2>1. CASE e.type = "thread.settled"
    <3>1. /\ after.queuedTurns = th.queuedTurns /\ DOMAIN th.queuedTurns = {}
          /\ after.session = th.session /\ after.openRequests = th.openRequests
      BY <1>2, <2>1 DEF Fits, LiveQueueAfter, LeavingTypes
    <3> QED BY <1>3, <2>1, <3>1 DEF Fits, SettledQuietly
  <2>2. CASE e.type # "thread.settled"
    <3>1. /\ th.settledOverride = "settled"
          /\ th.session.status \notin {"starting", "running"}
          /\ th.openRequests = {}
          /\ \A msg \in DOMAIN th.queuedTurns : th.queuedTurns[msg].held
          /\ \A msg \in DOMAIN rows.queue : rows.queue[msg].held
      BY <1>2, <1>4, <2>2 DEF SettledQuietly
    <3>2. e.type = "thread.turn-queued" => e.held
      BY <3>1 DEF Fits
    <3>3. after.session.status \notin {"starting", "running"}
      BY <1>2, <3>1 DEF Fits
    <3>4. after.openRequests = {}
      BY <1>2, <3>1 DEF Fits, AfterActivity
    <3>5. \A msg \in DOMAIN after.queuedTurns : after.queuedTurns[msg].held
      BY <1>1, <1>2, <3>1, <3>2, QueuesFollow
    <3>6. \A msg \in DOMAIN next.queue : next.queue[msg].held
      <4>1. CASE e.type \in Emptying
        BY <1>1, <4>1, QueuesFollow, EmptyQueue
      <4>2. CASE e.type \notin Emptying
        <5>1. /\ next.queue = LiveQueueAfter(rows.queue, e)
              /\ \A k \in DOMAIN LiveQueueAfter(rows.queue, e) :
                    \/ k \in DOMAIN rows.queue
                       /\ LiveQueueAfter(rows.queue, e)[k].held = rows.queue[k].held
                    \/ e.type = "thread.turn-queued"
                       /\ LiveQueueAfter(rows.queue, e)[k].held = e.held
          BY <1>1, <4>2, QueuesFollow
        <5> QED BY <3>1, <3>2, <5>1
      <4> QED BY <4>1, <4>2
    <3> QED BY <3>3, <3>4, <3>5, <3>6 DEF SettledQuietly
  <2> QED BY <2>1, <2>2
<1>5. SettledQuietly(after, next)
  BY <1>4 DEF SettledQuietly
<1> QED BY <1>3, <1>5 DEF after

\* The read model after an event on a thread that exists.
LEMMA ModelAfterEvent ==
    ASSUME NEW m, ReadModelShape(m), NEW e, ThreadEvent(e), ThreadExists(m, e.thread)
    PROVE  /\ ReadModelShape(ProjectEvent(m, e))
           /\ ProjectEvent(m, e).projects = m.projects
           /\ ProjectEvent(m, e).threads =
                 [m.threads EXCEPT ![e.thread] = ThreadAfter(m.threads[e.thread], e)]
<1> DEFINE after == ThreadAfter(m.threads[e.thread], e)
<1>1. /\ e.thread \in ThreadId
      /\ e.type \notin {"project.created", "project.deleted"}
  BY DEF ThreadEvent, EventTypes, PlainTypes, Emptying, LeavingTypes, SteeringTypes, OtherTypes
<1>2. ProjectEvent(m, e) = [m EXCEPT !.threads[e.thread] = after]
  BY <1>1 DEF ProjectEvent
<1>3. m.threads[e.thread] \in ThreadType
  BY <1>1 DEF ReadModelShape
<1>4. after \in ThreadType
  BY <1>3, ThreadAfterEvent
<1> HIDE DEF after
<1>5. m = [projects |-> m.projects, threads |-> m.threads]
  BY DEF ReadModelShape
<1>6. ProjectEvent(m, e) =
         [projects |-> m.projects, threads |-> [m.threads EXCEPT ![e.thread] = after]]
  BY <1>2, <1>5
<1>7. [m.threads EXCEPT ![e.thread] = after] \in [ThreadId -> ThreadType]
  BY <1>4 DEF ReadModelShape
<1> QED BY <1>6, <1>7 DEF ReadModelShape, after

\* The tables after an event on a thread.
LEMMA TablesAfterEvent ==
    ASSUME NEW tb, TablesShape(tb), NEW e, ThreadEvent(e)
    PROVE  /\ TablesShape(ApplyAllProjections(tb, e))
           /\ ApplyAllProjections(tb, e)["projects"] = tb["projects"]
           /\ \A t \in ThreadId \ {e.thread} :
                 RowsOf(ApplyAllProjections(tb, e), t) = RowsOf(tb, t)
<1> DEFINE after == ApplyAllProjections(tb, e)
<1>1. /\ DOMAIN after = ToSet(AllProjectors)
      /\ after["projects"] = ApplyProjects(tb["projects"], e)
      /\ after["threads"] = ApplyThreads(tb["threads"], e)
      /\ after["threadSessions"] = ApplyThreadSessions(tb["threadSessions"], e)
      /\ after["threadQueuedTurns"] = ApplyThreadQueuedTurns(tb["threadQueuedTurns"], e)
      /\ after["threadTurns"] = ApplyThreadTurns(tb["threadTurns"], e)
      /\ after["threadActivities"] =
            IF e.type = "thread.activity-appended"
            THEN [tb["threadActivities"] EXCEPT ![e.thread] = AfterActivity(@, e)]
            ELSE tb["threadActivities"]
  BY TableByTable DEF TablesShape
<1> HIDE DEF after
<1>2. /\ e.thread \in ThreadId
      /\ e.type \notin {"project.created", "project.deleted"}
  BY DEF ThreadEvent, EventTypes, PlainTypes, Emptying, LeavingTypes, SteeringTypes, OtherTypes
<1>3. after["projects"] = tb["projects"]
  BY <1>1, <1>2 DEF ApplyProjects
<1>4. /\ after["threads"] \in [ThreadId -> RowType]
      /\ \A t \in ThreadId \ {e.thread} : after["threads"][t] = tb["threads"][t]
  <2>1. tb["threads"] \in [ThreadId -> RowType]
    BY DEF TablesShape
  <2> QED BY <1>1, <2>1, ThreadRows
<1>5. /\ after["threadSessions"] \in [ThreadId -> SessionType]
      /\ \A t \in ThreadId \ {e.thread} : after["threadSessions"][t] = tb["threadSessions"][t]
  <2>1. tb["threadSessions"] \in [ThreadId -> SessionType]
    BY DEF TablesShape
  <2> DEFINE tab == tb["threadSessions"]
  <2> HIDE DEF tab
  <2>2. tab \in [ThreadId -> SessionType] /\ after["threadSessions"] = ApplyThreadSessions(tab, e)
    BY <1>1, <2>1 DEF tab
  <2>3. /\ ApplyThreadSessions(tab, e) \in [ThreadId -> SessionType]
        /\ \A t \in ThreadId \ {e.thread} : ApplyThreadSessions(tab, e)[t] = tab[t]
    BY <2>2, SessionRows
  <2> QED BY <2>2, <2>3 DEF tab
<1>6. /\ after["threadQueuedTurns"] \in [ThreadId -> QueueType]
      /\ \A t \in ThreadId \ {e.thread} :
            after["threadQueuedTurns"][t] = tb["threadQueuedTurns"][t]
  <2>1. tb["threadQueuedTurns"] \in [ThreadId -> QueueType]
    BY DEF TablesShape
  <2> QED BY <1>1, <2>1, QueueRows
<1>7. /\ TurnTableShape(after["threadTurns"])
      /\ \A t \in ThreadId \ {e.thread} : after["threadTurns"][t] = tb["threadTurns"][t]
  <2>1. TurnTableShape(tb["threadTurns"])
    BY DEF TablesShape, TurnTableShape
  <2> QED BY <1>1, <2>1, TurnRows
<1>8. /\ after["threadActivities"] = [t \in ThreadId |-> after["threadActivities"][t]]
      /\ \A t \in ThreadId \ {e.thread} :
            after["threadActivities"][t] = tb["threadActivities"][t]
  BY <1>1, <1>2 DEF TablesShape
<1>9. TablesShape(after)
  BY <1>1, <1>3, <1>4, <1>5, <1>6, <1>7, <1>8 DEF TablesShape, TurnTableShape
<1>10. ASSUME NEW t \in ThreadId \ {e.thread}
       PROVE  RowsOf(after, t) = RowsOf(tb, t)
  BY <1>4, <1>5, <1>6, <1>7, <1>8 DEF RowsOf
<1> QED BY <1>3, <1>9, <1>10 DEF after

\* The rows of a thread after an event on it.
LEMMA RowsAfterEvent ==
    ASSUME NEW tb, TablesShape(tb), NEW e, ThreadEvent(e), NEW rows,
           rows = RowsOf(ApplyAllProjections(tb, e), e.thread)
    PROVE  /\ rows.row = ApplyThreads(tb["threads"], e)[e.thread]
           /\ rows.session = IF e.type = "thread.session-set"
                             THEN [status |-> e.status, activeTurnId |-> e.turn]
                             ELSE tb["threadSessions"][e.thread]
           /\ rows.queue = QueueRowAfter(tb["threadQueuedTurns"][e.thread], e)
           /\ rows.turns = TurnRowAfter(tb["threadTurns"][e.thread].turns, e)
           /\ rows.pending = PendingRowAfter(tb["threadTurns"][e.thread].pending, e)
<1> DEFINE after == ApplyAllProjections(tb, e)
<1>1. /\ after["threads"] = ApplyThreads(tb["threads"], e)
      /\ after["threadSessions"] = ApplyThreadSessions(tb["threadSessions"], e)
      /\ after["threadQueuedTurns"] = ApplyThreadQueuedTurns(tb["threadQueuedTurns"], e)
      /\ after["threadTurns"] = ApplyThreadTurns(tb["threadTurns"], e)
  BY TableByTable DEF TablesShape
<1>2. TurnTableShape(tb["threadTurns"])
  BY DEF TablesShape, TurnTableShape
<1>3. /\ rows.row = after["threads"][e.thread]
      /\ rows.session = after["threadSessions"][e.thread]
      /\ rows.queue = after["threadQueuedTurns"][e.thread]
      /\ rows.turns = after["threadTurns"][e.thread].turns
      /\ rows.pending = after["threadTurns"][e.thread].pending
  BY DEF RowsOf
<1> HIDE DEF after
<1>4. after["threadSessions"][e.thread] =
         IF e.type = "thread.session-set"
         THEN [status |-> e.status, activeTurnId |-> e.turn]
         ELSE tb["threadSessions"][e.thread]
  <2>1. tb["threadSessions"] \in [ThreadId -> SessionType]
    BY DEF TablesShape
  <2> QED BY <1>1, <2>1, SessionRows
<1>5. after["threadQueuedTurns"][e.thread] = QueueRowAfter(tb["threadQueuedTurns"][e.thread], e)
  <2>1. tb["threadQueuedTurns"] \in [ThreadId -> QueueType]
    BY DEF TablesShape
  <2> QED BY <1>1, <2>1, QueueRows
<1>6. /\ after["threadTurns"][e.thread].turns = TurnRowAfter(tb["threadTurns"][e.thread].turns, e)
      /\ after["threadTurns"][e.thread].pending =
            PendingRowAfter(tb["threadTurns"][e.thread].pending, e)
  BY <1>1, <1>2, TurnRows
<1> QED BY <1>1, <1>3, <1>4, <1>5, <1>6

\* An event that fits keeps the read model and the tables in agreement.
LEMMA EventKeepsAgreement ==
    ASSUME NEW m, NEW tb, Agreement(m, tb), NEW e, ThreadEvent(e), Fits(m.threads[e.thread], e)
    PROVE  Agreement(ProjectEvent(m, e), ApplyAllProjections(tb, e))
<1> DEFINE t == e.thread
           th == m.threads[t]
           rows == RowsOf(tb, t)
           next == RowsOf(ApplyAllProjections(tb, e), t)
<1>1. /\ t \in ThreadId /\ ReadModelShape(m) /\ TablesShape(tb) /\ Agrees(th, rows)
      /\ th.project # None /\ ThreadExists(m, t)
  BY DEF Agreement, ThreadEvent, Fits, ThreadExists
<1>2. /\ th \in ThreadType /\ rows.row \in RowType
      /\ rows.queue \in QueueType /\ rows.turns \in TurnStates
  BY <1>1 DEF ReadModelShape, TablesShape, RowsOf
<1>3. /\ next.row = ApplyThreads(tb["threads"], e)[t]
      /\ next.session = IF e.type = "thread.session-set"
                        THEN [status |-> e.status, activeTurnId |-> e.turn] ELSE rows.session
      /\ next.queue = QueueRowAfter(rows.queue, e)
      /\ next.turns = TurnRowAfter(rows.turns, e)
  <2>1. /\ rows.session = tb["threadSessions"][t] /\ rows.queue = tb["threadQueuedTurns"][t]
        /\ rows.turns = tb["threadTurns"][t].turns
    BY DEF RowsOf
  <2>2. next = RowsOf(ApplyAllProjections(tb, e), e.thread)
    OBVIOUS
  <2> HIDE DEF next, rows
  <2> QED BY <1>1, <2>1, <2>2, RowsAfterEvent
<1>4. /\ next.row.project = rows.row.project
      /\ next.row.settledOverride =
            CASE e.type = "thread.settled" -> "settled"
              [] e.type = "thread.unsettled" -> IF e.reason = "user" THEN "active" ELSE "none"
              [] OTHER -> rows.row.settledOverride
  <2>1. tb["threads"] \in [ThreadId -> RowType] /\ rows.row = tb["threads"][t]
    BY <1>1 DEF TablesShape, RowsOf
  <2>2. tb["threads"][t].project # None
    BY <1>1, <2>1 DEF Agrees
  <2> HIDE DEF rows, next, th
  <2>3. /\ ApplyThreads(tb["threads"], e)[t].project = tb["threads"][t].project
        /\ ApplyThreads(tb["threads"], e)[t].settledOverride =
              CASE e.type = "thread.settled" -> "settled"
                [] e.type = "thread.unsettled" -> IF e.reason = "user" THEN "active" ELSE "none"
                [] OTHER -> tb["threads"][t].settledOverride
    BY <1>1, <2>1, <2>2, ThreadRows
  <2> QED BY <1>3, <2>1, <2>3
<1>5. /\ ThreadAfter(th, e).project = th.project
      /\ ThreadAfter(th, e).session = IF e.type = "thread.session-set"
                        THEN [status |-> e.status, activeTurnId |-> e.turn] ELSE th.session
      /\ ThreadAfter(th, e).settledOverride =
            CASE e.type = "thread.settled" -> "settled"
              [] e.type = "thread.unsettled" -> IF e.reason = "user" THEN "active" ELSE "none"
              [] OTHER -> th.settledOverride
  BY <1>2, ThreadAfterEvent
<1>6. Agrees(ThreadAfter(th, e), next)
  <2>1. /\ Fits(th, e) /\ th.session = rows.session
        /\ RunningIsActive(rows) /\ SettledQuietly(th, rows)
        /\ DOMAIN rows.queue \subseteq DOMAIN th.queuedTurns
        /\ th.project = rows.row.project /\ th.settledOverride = rows.row.settledOverride
    BY <1>1 DEF Agrees
  <2> HIDE DEF th, rows, next, t
  <2>2. RunningIsActive(next)
    BY <1>2, <1>3, <2>1, RunningStaysActive
  <2>3. /\ SettledQuietly(ThreadAfter(th, e), next)
        /\ DOMAIN next.queue \subseteq DOMAIN ThreadAfter(th, e).queuedTurns
    BY <1>2, <1>3, <2>1, StaysQuiet
  <2> QED BY <1>1, <1>3, <1>4, <1>5, <2>1, <2>2, <2>3 DEF Agrees
<1>7. /\ ReadModelShape(ProjectEvent(m, e))
      /\ ProjectEvent(m, e).threads = [m.threads EXCEPT ![t] = ThreadAfter(th, e)]
  BY <1>1, ModelAfterEvent
<1>8. /\ TablesShape(ApplyAllProjections(tb, e))
      /\ \A u \in ThreadId \ {t} : RowsOf(ApplyAllProjections(tb, e), u) = RowsOf(tb, u)
  BY <1>1, TablesAfterEvent
<1>9. ASSUME NEW u \in ThreadId
      PROVE  Agrees(ProjectEvent(m, e).threads[u], RowsOf(ApplyAllProjections(tb, e), u))
  <2>1. CASE u = t
    <3>1. ProjectEvent(m, e).threads[t] = ThreadAfter(th, e)
      BY <1>1, <1>7 DEF ReadModelShape
    <3> QED BY <1>6, <2>1, <3>1
  <2>2. CASE u # t
    <3>1. ProjectEvent(m, e).threads[u] = m.threads[u]
      BY <1>1, <1>7, <2>2 DEF ReadModelShape
    <3>2. Agrees(m.threads[u], RowsOf(tb, u))
      BY DEF Agreement
    <3> QED BY <1>8, <2>2, <3>1, <3>2
  <2> QED BY <2>1, <2>2
<1> QED BY <1>7, <1>8, <1>9 DEF Agreement

\* A thread that is created begins with nothing, in memory and in the tables.
LEMMA CreationKeepsAgreement ==
    ASSUME NEW m, NEW tb, Agreement(m, tb), NEW t \in ThreadId, NEW p \in ProjectId,
           ~ThreadExists(m, t), NEW e,
           e = [type |-> "thread.created", thread |-> t, project |-> p]
    PROVE  Agreement(ProjectEvent(m, e), ApplyAllProjections(tb, e))
<1> DEFINE after == ApplyAllProjections(tb, e)
           th == [AbsentThread EXCEPT !.project = p]
           row == [NoThreadRow EXCEPT !.project = p]
<1>1. /\ ReadModelShape(m) /\ TablesShape(tb) /\ Untouched(m.threads[t], RowsOf(tb, t))
      /\ \A u \in ThreadId : Agrees(m.threads[u], RowsOf(tb, u))
  BY DEF Agreement, Agrees, ThreadExists
<1>2. p # None /\ e.type = "thread.created" /\ e.thread = t /\ e.project = p
  BY HistoryAssumption
<1>3. /\ th \in ThreadType /\ th.project = p /\ th.settledOverride = "none"
      /\ th.session = AbsentThread.session /\ th.queuedTurns = <<>>
  BY EmptyQueue
     DEF AbsentThread, ThreadType, OverrideType, SessionType, StatusType, MaybeTurn,
         TurnStateType
<1>4. row \in RowType /\ row.project = p /\ row.settledOverride = "none"
  BY DEF NoThreadRow, RowType, OverrideType, MaybeTurn
<1>5. ReadModelShape(ProjectEvent(m, e))
      /\ ProjectEvent(m, e).threads = [m.threads EXCEPT ![t] = th]
  <2>1. ProjectEvent(m, e) = [m EXCEPT !.threads[t] = th]
    BY <1>2 DEF ProjectEvent, ThreadAfter
  <2> HIDE DEF th
  <2>2. m = [projects |-> m.projects, threads |-> m.threads] /\ m.threads \in [ThreadId -> ThreadType]
    BY <1>1 DEF ReadModelShape
  <2>3. ProjectEvent(m, e) =
           [projects |-> m.projects, threads |-> [m.threads EXCEPT ![t] = th]]
    BY <2>1, <2>2
  <2>4. [m.threads EXCEPT ![t] = th] \in [ThreadId -> ThreadType]
    BY <1>3, <2>2
  <2>5. ProjectEvent(m, e).projects = m.projects
        /\ ProjectEvent(m, e).threads = [m.threads EXCEPT ![t] = th]
    BY <2>3
  <2> QED BY <1>1, <2>3, <2>4, <2>5 DEF ReadModelShape
<1>6. /\ DOMAIN after = ToSet(AllProjectors)
      /\ after["projects"] = tb["projects"]
      /\ after["threads"] = [tb["threads"] EXCEPT ![t] = row]
      /\ after["threadSessions"] = tb["threadSessions"]
      /\ after["threadQueuedTurns"] = tb["threadQueuedTurns"]
      /\ after["threadTurns"] = tb["threadTurns"]
      /\ after["threadActivities"] = tb["threadActivities"]
  <2>1. DOMAIN tb = ToSet(AllProjectors)
    BY <1>1 DEF TablesShape
  <2>2. /\ DOMAIN after = ToSet(AllProjectors)
        /\ after["projects"] = ApplyProjects(tb["projects"], e)
        /\ after["threads"] = ApplyThreads(tb["threads"], e)
        /\ after["threadSessions"] = ApplyThreadSessions(tb["threadSessions"], e)
        /\ after["threadQueuedTurns"] = ApplyThreadQueuedTurns(tb["threadQueuedTurns"], e)
        /\ after["threadTurns"] = ApplyThreadTurns(tb["threadTurns"], e)
        /\ after["threadActivities"] = tb["threadActivities"]
    BY <1>2, <2>1, TableByTable
  <2> HIDE DEF after
  <2>3. /\ ApplyProjects(tb["projects"], e) = tb["projects"]
        /\ ApplyThreadSessions(tb["threadSessions"], e) = tb["threadSessions"]
        /\ ApplyThreadQueuedTurns(tb["threadQueuedTurns"], e) = tb["threadQueuedTurns"]
        /\ ApplyThreadTurns(tb["threadTurns"], e) = tb["threadTurns"]
    BY <1>2 DEF ApplyProjects, ApplyThreadSessions, ApplyThreadQueuedTurns, ApplyThreadTurns
  <2>4. ApplyThreads(tb["threads"], e) = [tb["threads"] EXCEPT ![t] = row]
    BY <1>2 DEF ApplyThreads, IsProjectEvent
  <2> QED BY <2>2, <2>3, <2>4
<1> HIDE DEF after, row, th
<1>7. TablesShape(after)
  BY <1>1, <1>4, <1>6 DEF TablesShape
<1>8. ASSUME NEW u \in ThreadId
      PROVE  Agrees(ProjectEvent(m, e).threads[u], RowsOf(after, u))
  <2>1. CASE u = t
    <3> DEFINE rows == RowsOf(after, t)
               old == RowsOf(tb, t)
    <3>1. ProjectEvent(m, e).threads[t] = th
      BY <1>1, <1>5 DEF ReadModelShape
    <3>2. /\ rows.row = row /\ rows.session = old.session /\ rows.queue = old.queue
          /\ rows.turns = old.turns
      BY <1>1, <1>6 DEF RowsOf, TablesShape
    <3>3. old.session = AbsentThread.session /\ old.queue = <<>> /\ old.turns = <<>>
      BY <1>1 DEF Untouched
    <3> HIDE DEF rows, old
    <3>4. Agrees(th, rows)
      BY <1>2, <1>3, <1>4, <3>2, <3>3, EmptyQueue DEF Agrees, SettledQuietly, RunningIsActive
    <3> QED BY <2>1, <3>1, <3>4 DEF rows
  <2>2. CASE u # t
    <3>1. ProjectEvent(m, e).threads[u] = m.threads[u]
      BY <1>1, <1>5, <2>2 DEF ReadModelShape
    <3>2. RowsOf(after, u) = RowsOf(tb, u)
      BY <1>1, <1>6, <2>2 DEF RowsOf, TablesShape
    <3> QED BY <1>1, <3>1, <3>2
  <2> QED BY <2>1, <2>2
<1> QED BY <1>5, <1>7, <1>8 DEF Agreement, after

\* Events on projects leave every thread alone.
LEMMA ProjectsKeepAgreement ==
    ASSUME NEW m, NEW tb, Agreement(m, tb), NEW e, e.project \in ProjectId,
           e.type \in {"project.created", "project.deleted"}
    PROVE  /\ Agreement(ProjectEvent(m, e), ApplyAllProjections(tb, e))
           /\ ProjectEvent(m, e).threads = m.threads
<1> DEFINE after == ApplyAllProjections(tb, e)
<1>1. /\ ReadModelShape(m) /\ TablesShape(tb)
      /\ \A u \in ThreadId : Agrees(m.threads[u], RowsOf(tb, u))
  BY DEF Agreement
<1>2. ReadModelShape(ProjectEvent(m, e)) /\ ProjectEvent(m, e).threads = m.threads
  <2>1. \E status : ProjectEvent(m, e) = [m EXCEPT !.projects[e.project] = status]
    <3>1. CASE e.type = "project.created"
      <4>1. ProjectEvent(m, e) = [m EXCEPT !.projects[e.project] = "active"]
        BY <3>1 DEF ProjectEvent
      <4> QED BY <4>1, Zenon
    <3>2. CASE e.type = "project.deleted"
      <4> DEFINE next == IF m.projects[e.project] = "absent" THEN m.projects[e.project]
                         ELSE "deleted"
      <4>1. ProjectEvent(m, e) = [m EXCEPT !.projects[e.project] = next]
        BY <1>1, <3>2 DEF ProjectEvent, ReadModelShape
      <4> QED BY <4>1, Zenon
    <3> QED BY <3>1, <3>2
  <2>2. PICK status : ProjectEvent(m, e) = [m EXCEPT !.projects[e.project] = status]
    BY <2>1
  <2>3. ProjectEvent(m, e) =
           [projects |-> [m.projects EXCEPT ![e.project] = status], threads |-> m.threads]
    BY <1>1, <2>2 DEF ReadModelShape
  <2>4. /\ ProjectEvent(m, e).projects = [m.projects EXCEPT ![e.project] = status]
        /\ ProjectEvent(m, e).threads = m.threads
    BY <2>3
  <2> QED BY <1>1, <2>3, <2>4 DEF ReadModelShape
<1>3. /\ DOMAIN after = ToSet(AllProjectors)
      /\ after["projects"] = [p \in ProjectId |-> after["projects"][p]]
      /\ after["threads"] = tb["threads"]
      /\ after["threadSessions"] = tb["threadSessions"]
      /\ after["threadQueuedTurns"] = tb["threadQueuedTurns"]
      /\ after["threadTurns"] = tb["threadTurns"]
      /\ after["threadActivities"] = tb["threadActivities"]
  <2>1. DOMAIN tb = ToSet(AllProjectors) /\ tb["projects"] = [p \in ProjectId |-> tb["projects"][p]]
    BY <1>1 DEF TablesShape
  <2>2. /\ DOMAIN after = ToSet(AllProjectors)
        /\ after["projects"] = ApplyProjects(tb["projects"], e)
        /\ after["threads"] = ApplyThreads(tb["threads"], e)
        /\ after["threadSessions"] = ApplyThreadSessions(tb["threadSessions"], e)
        /\ after["threadQueuedTurns"] = ApplyThreadQueuedTurns(tb["threadQueuedTurns"], e)
        /\ after["threadTurns"] = ApplyThreadTurns(tb["threadTurns"], e)
        /\ after["threadActivities"] = tb["threadActivities"]
    BY <2>1, TableByTable
  <2> HIDE DEF after
  <2>3. /\ ApplyThreadSessions(tb["threadSessions"], e) = tb["threadSessions"]
        /\ ApplyThreadQueuedTurns(tb["threadQueuedTurns"], e) = tb["threadQueuedTurns"]
        /\ ApplyThreadTurns(tb["threadTurns"], e) = tb["threadTurns"]
        /\ ApplyThreads(tb["threads"], e) = tb["threads"]
    BY DEF ApplyThreads, IsProjectEvent, ApplyThreadSessions, ApplyThreadQueuedTurns,
           ApplyThreadTurns
  <2>4. \E status : ApplyProjects(tb["projects"], e) = [tb["projects"] EXCEPT ![e.project] = status]
    BY DEF ApplyProjects
  <2>5. after["projects"] = [p \in ProjectId |-> after["projects"][p]]
    BY <2>1, <2>2, <2>4
  <2> QED BY <2>2, <2>3, <2>5
<1> HIDE DEF after
<1>4. TablesShape(after)
  BY <1>1, <1>3 DEF TablesShape
<1>5. \A u \in ThreadId : RowsOf(after, u) = RowsOf(tb, u)
  BY <1>3 DEF RowsOf
<1> QED BY <1>1, <1>2, <1>4, <1>5 DEF Agreement, after

\* At first there is nothing.
LEMMA NothingYet == Agreement(InitialReadModel, EmptyProjections)
<1> DEFINE tb == EmptyProjections
<1>1. ToSet(AllProjectors) =
          {"projects", "threadMessages", "threadQueuedTurns", "threadActivities",
           "threadSessions", "threadTurns", "threads"}
  BY DEF ToSet, AllProjectors
<1>2. /\ DOMAIN tb = ToSet(AllProjectors)
      /\ tb["projects"] = [p \in ProjectId |-> "absent"]
      /\ tb["threads"] = [t \in ThreadId |-> NoThreadRow]
      /\ tb["threadSessions"] = [t \in ThreadId |-> AbsentThread.session]
      /\ tb["threadQueuedTurns"] = [t \in ThreadId |-> <<>>]
      /\ tb["threadTurns"] = [t \in ThreadId |-> NoTurns]
      /\ tb["threadActivities"] = [t \in ThreadId |-> {}]
  BY <1>1 DEF EmptyProjections, EmptyProjection, InitialReadModel
<1>3. /\ NoThreadRow \in RowType /\ AbsentThread.session \in SessionType /\ <<>> \in QueueType
      /\ AbsentThread.queuedTurns = <<>>
      /\ AbsentThread.project = None /\ NoThreadRow.project = None
      /\ AbsentThread.settledOverride = "none" /\ NoThreadRow.settledOverride = "none"
  BY EmptyQueue
     DEF NoThreadRow, AbsentThread, RowType, OverrideType, SessionType, StatusType, MaybeTurn
<1>4. AbsentThread \in ThreadType
  BY EmptyQueue
     DEF AbsentThread, ThreadType, OverrideType, SessionType, StatusType, MaybeTurn,
         TurnStateType
<1>5. /\ NoTurns = [turns |-> NoTurns.turns, pending |-> NoTurns.pending]
      /\ NoTurns.turns \in TurnStates /\ NoTurns.turns = <<>> /\ DOMAIN NoTurns.turns = {}
      /\ NoTurns.pending \in Seq(MessageId)
  <2>1. <<>> \in [{} -> TurnStateType]
    BY DEF TurnStateType
  <2>2. <<>> \in TurnStates
    BY <2>1 DEF TurnStates
  <2> QED BY <2>2 DEF NoTurns
<1> HIDE DEF tb
<1>6. TablesShape(tb)
  BY <1>2, <1>3, <1>5 DEF TablesShape
<1>7. ReadModelShape(InitialReadModel)
      /\ \A t \in ThreadId : InitialReadModel.threads[t] = AbsentThread
  BY <1>4 DEF ReadModelShape, InitialReadModel
<1>8. ASSUME NEW t \in ThreadId
      PROVE  Agrees(AbsentThread, RowsOf(tb, t))
  <2> DEFINE rows == RowsOf(tb, t)
  <2>1. /\ rows.row = NoThreadRow /\ rows.session = AbsentThread.session /\ rows.queue = <<>>
        /\ rows.turns = <<>>
    BY <1>2, <1>5 DEF RowsOf
  <2> HIDE DEF rows
  <2> QED BY <1>3, <2>1, EmptyQueue
          DEF Agrees, SettledQuietly, RunningIsActive, Untouched, rows
<1> QED BY <1>6, <1>7, <1>8 DEF Agreement, tb

\* What a restart loads agrees with the tables it was loaded from.
LEMMA LoadedAgreement ==
    ASSUME NEW m, NEW tb, Agreement(m, tb)
    PROVE  Agreement(LoadCommandReadModel(tb), tb)
<1> DEFINE loaded == LoadCommandReadModel(tb)
<1>1. TablesShape(tb) /\ \A t \in ThreadId : Agrees(m.threads[t], RowsOf(tb, t))
  BY DEF Agreement
<1>2. /\ loaded = [projects |-> tb["projects"], threads |-> loaded.threads]
      /\ loaded.projects = tb["projects"]
      /\ loaded.threads = [t \in ThreadId |->
            IF tb["threads"][t].project = None THEN AbsentThread ELSE LoadedThread(tb, t)]
  BY DEF LoadCommandReadModel
<1> HIDE DEF loaded
<1>3. AbsentThread \in ThreadType
  BY EmptyQueue
     DEF AbsentThread, ThreadType, OverrideType, SessionType, StatusType, MaybeTurn,
         TurnStateType
<1>4. ASSUME NEW t \in ThreadId
      PROVE  /\ LoadedThread(tb, t) \in ThreadType
             /\ LoadedThread(tb, t).project = tb["threads"][t].project
             /\ LoadedThread(tb, t).settledOverride = tb["threads"][t].settledOverride
             /\ LoadedThread(tb, t).session = tb["threadSessions"][t]
             /\ LoadedThread(tb, t).queuedTurns = tb["threadQueuedTurns"][t]
             /\ LoadedThread(tb, t).openRequests = {}
  <2> DEFINE row == tb["threads"][t]
             turns == tb["threadTurns"][t].turns
             latest == IF row.latestTurnId \in DOMAIN turns
                       THEN [turnId |-> row.latestTurnId, state |-> turns[row.latestTurnId]]
                       ELSE AbsentThread.latestTurn
  <2>1. row \in RowType /\ turns \in TurnStates
    BY <1>1 DEF TablesShape
  <2>2. latest \in [turnId : MaybeTurn, state : TurnStateType]
    BY <2>1, <1>3, TurnStatesType DEF RowType, ThreadType
  <2>3. tb["threadSessions"][t] \in SessionType /\ tb["threadQueuedTurns"][t] \in QueueType
    BY <1>1 DEF TablesShape
  <2>4. LoadedThread(tb, t) =
           [project |-> row.project, deleted |-> row.deleted, archived |-> row.archived,
            settledOverride |-> row.settledOverride, snoozed |-> row.snoozed,
            pinned |-> row.pinned, seenCompletionTurnId |-> row.seenCompletionTurnId,
            session |-> tb["threadSessions"][t], latestTurn |-> latest,
            queuedTurns |-> tb["threadQueuedTurns"][t],
            userMessages |-> {}, openRequests |-> {}, unstarted |-> FALSE]
    BY DEF LoadedThread
  <2> HIDE DEF row, turns, latest
  <2>5. LoadedThread(tb, t) \in ThreadType
    BY <2>1, <2>2, <2>3, <2>4 DEF ThreadType, RowType
  <2> QED BY <2>4, <2>5 DEF row
<1>5. ReadModelShape(loaded)
  BY <1>1, <1>2, <1>3, <1>4 DEF ReadModelShape, TablesShape
<1>6. ASSUME NEW t \in ThreadId
      PROVE  Agrees(loaded.threads[t], RowsOf(tb, t))
  <2> DEFINE rows == RowsOf(tb, t)
             th == m.threads[t]
  <2>1. Agrees(th, rows)
    BY <1>1
  <2>2. /\ rows.row = tb["threads"][t] /\ rows.session = tb["threadSessions"][t]
        /\ rows.queue = tb["threadQueuedTurns"][t]
    BY DEF RowsOf
  <2> HIDE DEF rows, th
  <2>3. CASE rows.row.project = None
    <3>1. loaded.threads[t] = AbsentThread
      BY <1>2, <2>2, <2>3
    <3>2. th = AbsentThread
      BY <2>1, <2>3 DEF Agrees, Untouched
    <3> QED BY <2>1, <3>1, <3>2 DEF rows
  <2>4. CASE rows.row.project # None
    <3> DEFINE new == LoadedThread(tb, t)
    <3>1. loaded.threads[t] = new
      BY <1>2, <2>2, <2>4
    <3>2. /\ new.project = rows.row.project /\ new.settledOverride = rows.row.settledOverride
          /\ new.session = rows.session /\ new.queuedTurns = rows.queue /\ new.openRequests = {}
      BY <1>4, <2>2
    <3> HIDE DEF new
    <3>3. Agrees(new, rows)
      BY <2>1, <2>4, <3>2 DEF Agrees, SettledQuietly
    <3> QED BY <3>1, <3>3 DEF rows
  <2> QED BY <2>3, <2>4
<1> QED BY <1>1, <1>5, <1>6 DEF Agreement, loaded

-----------------------------------------------------------------------------
(* The events of a command *)

ReasonType == {"user", "activity"}
KindType == {"approval.requested", "approval.resolved", "provider.turn.steer.failed"}
Event ==
    [type : EventTypes, thread : ThreadId]
    \cup [type : EventTypes, thread : ThreadId, message : MessageId]
    \cup [type : EventTypes, thread : ThreadId, message : MessageId, turn : MaybeTurn]
    \cup [type : EventTypes, thread : ThreadId, message : MessageId, held : BOOLEAN]
    \cup [type : EventTypes, thread : ThreadId, status : StatusType, turn : MaybeTurn]
    \cup [type : EventTypes, thread : ThreadId, turn : MaybeTurn]
    \cup [type : EventTypes, thread : ThreadId, kind : KindType,
          request : RequestId \cup {None}]
    \cup [type : EventTypes, thread : ThreadId, reason : ReasonType]
ProjectEventType == [type : {"project.created", "project.deleted"}, project : ProjectId]
CreationType == [type : {"thread.created"}, thread : ThreadId, project : ProjectId]

\* An event on a thread that fits whatever the thread is like.
Ordinary(e) ==
    /\ ThreadEvent(e)
    /\ e.type \notin {"thread.settled", "thread.session-set"}
    /\ e.type = "thread.turn-queued" => e.held
    /\ e.type = "thread.activity-appended" => ~OpensRequest(e.kind)

\* An event can be projected onto a read model.
Projectable(m, e) ==
    \/ e \in ProjectEventType
    \/ e \in CreationType /\ ~ThreadExists(m, e.thread)
    \/ e \in Event /\ ThreadEvent(e) /\ Fits(m.threads[e.thread], e)

\* The events of a command, and what there is after each of them.
Projected(events, ms, ts) ==
    \A n \in 1..Len(events) : /\ ms[n] = ProjectEvent(ms[n - 1], events[n])
                              /\ ts[n] = ApplyAllProjections(ts[n - 1], events[n])
AllProjectable(events, ms) == \A n \in 1..Len(events) : Projectable(ms[n - 1], events[n])

\* Threads stay in the read model.
Keeps(m, next) == \A t \in ThreadId : ThreadExists(m, t) => ThreadExists(next, t)

LEMMA ProjectableKeepsAgreement ==
    ASSUME NEW m, NEW tb, Agreement(m, tb), NEW e, Projectable(m, e)
    PROVE  /\ Agreement(ProjectEvent(m, e), ApplyAllProjections(tb, e))
           /\ Keeps(m, ProjectEvent(m, e))
<1>1. ReadModelShape(m)
  BY DEF Agreement
<1>2. CASE e \in ProjectEventType
  <2>1. e.project \in ProjectId /\ e.type \in {"project.created", "project.deleted"}
    BY <1>2 DEF ProjectEventType
  <2> QED BY <2>1, ProjectsKeepAgreement DEF Keeps, ThreadExists
<1>3. CASE e \in CreationType /\ ~ThreadExists(m, e.thread)
  <2>1. /\ e.thread \in ThreadId /\ e.project \in ProjectId
        /\ e = [type |-> "thread.created", thread |-> e.thread, project |-> e.project]
    BY <1>3 DEF CreationType
  <2>2. Agreement(ProjectEvent(m, e), ApplyAllProjections(tb, e))
    BY <1>3, <2>1, CreationKeepsAgreement
  <2>3. ProjectEvent(m, e) = [m EXCEPT !.threads[e.thread] = ThreadAfter(@, e)]
    <3>1. e.type = "thread.created"
      BY <1>3 DEF CreationType
    <3> QED BY <3>1 DEF ProjectEvent
  <2>4. \A t \in ThreadId \ {e.thread} : ProjectEvent(m, e).threads[t] = m.threads[t]
    BY <1>1, <2>3 DEF ReadModelShape
  <2> QED BY <1>3, <2>2, <2>4 DEF Keeps, ThreadExists
<1>4. CASE ThreadEvent(e) /\ Fits(m.threads[e.thread], e)
  <2> DEFINE th == m.threads[e.thread]
             after == ThreadAfter(th, e)
  <2>1. th \in ThreadType /\ ThreadExists(m, e.thread) /\ e.thread \in ThreadId
    BY <1>1, <1>4 DEF ReadModelShape, Fits, ThreadExists, ThreadEvent
  <2>2. after.project = th.project
    BY <1>4, <2>1, ThreadAfterEvent
  <2>3. ProjectEvent(m, e).threads = [m.threads EXCEPT ![e.thread] = after]
    BY <1>1, <1>4, <2>1, ModelAfterEvent
  <2> HIDE DEF after, th
  <2>4. \A t \in ThreadId : ProjectEvent(m, e).threads[t].project = m.threads[t].project
    BY <1>1, <2>2, <2>3 DEF ReadModelShape, th
  <2> QED BY <1>4, <2>4, EventKeepsAgreement DEF Keeps, ThreadExists
<1> QED BY <1>2, <1>3, <1>4 DEF Projectable

\* Events that can be projected keep the read model and the tables in
\* agreement, from one to the next.
LEMMA EventsKeepAgreement ==
    ASSUME NEW S, NEW events \in Seq(S), NEW ms, NEW ts, Projected(events, ms, ts),
           AllProjectable(events, ms), Agreement(ms[0], ts[0])
    PROVE  \A n \in 0..Len(events) : Agreement(ms[n], ts[n])
<1> DEFINE Bad == {n \in 0..Len(events) : ~Agreement(ms[n], ts[n])}
<1>1. SUFFICES ASSUME Bad # {} PROVE FALSE
  OBVIOUS
<1>2. PICK n \in Bad : \A k \in Bad : n <= k
  <2>1. Bad \subseteq Nat
    OBVIOUS
  <2> HIDE DEF Bad
  <2> QED BY <1>1, <2>1, LeastOf
<1>3. n \in 0..Len(events) /\ ~Agreement(ms[n], ts[n]) /\ n # 0
  OBVIOUS
<1>4. /\ n \in 1..Len(events) /\ n - 1 \in 0..Len(events)
      /\ n - 1 \notin Bad
  BY <1>2, <1>3
<1>5. Agreement(ms[n - 1], ts[n - 1])
  BY <1>4
<1>6. /\ Projectable(ms[n - 1], events[n])
      /\ ms[n] = ProjectEvent(ms[n - 1], events[n])
      /\ ts[n] = ApplyAllProjections(ts[n - 1], events[n])
  BY <1>4 DEF Projected, AllProjectable
<1>7. Agreement(ms[n], ts[n])
  BY <1>5, <1>6, ProjectableKeepsAgreement
<1> QED BY <1>3, <1>7

\* Ordinary events, on threads that exist, can be projected in any order, and
\* between them what fits when its turn comes.
Mild(m) == {e \in Event : Ordinary(e) /\ ThreadExists(m, e.thread)} \cup ProjectEventType

LEMMA MildEvents ==
    ASSUME NEW S, NEW events \in Seq(S), NEW ms, NEW ts, Projected(events, ms, ts),
           Agreement(ms[0], ts[0]),
           \A n \in 1..Len(events) :
               events[n] \in Mild(ms[0]) \/ Projectable(ms[n - 1], events[n])
    PROVE  AllProjectable(events, ms)
<1> DEFINE Good(n) == Agreement(ms[n], ts[n]) /\ Keeps(ms[0], ms[n])
           Bad == {n \in 0..Len(events) : ~Good(n)}
<1>1. ASSUME NEW n \in 1..Len(events), Keeps(ms[0], ms[n - 1])
      PROVE  Projectable(ms[n - 1], events[n])
  <2>1. CASE Projectable(ms[n - 1], events[n])
    BY <2>1
  <2>2. CASE events[n] \in ProjectEventType
    BY <2>2 DEF Projectable
  <2>3. CASE events[n] \in Mild(ms[0]) /\ events[n] \notin ProjectEventType
    <3>1. events[n] \in Event /\ Ordinary(events[n]) /\ ThreadExists(ms[0], events[n].thread)
      BY <2>3 DEF Mild
    <3>2. ThreadEvent(events[n]) /\ ThreadExists(ms[n - 1], events[n].thread)
      BY <1>1, <3>1 DEF Ordinary, Keeps, ThreadEvent
    <3>3. Fits(ms[n - 1].threads[events[n].thread], events[n])
      BY <3>1, <3>2 DEF Fits, Ordinary, ThreadExists
    <3> QED BY <3>1, <3>2, <3>3 DEF Projectable
  <2> QED BY <2>1, <2>2, <2>3
<1>2. Bad = {}
  <2>1. SUFFICES ASSUME Bad # {} PROVE FALSE
    OBVIOUS
  <2>2. PICK n \in Bad : \A k \in Bad : n <= k
    <3>1. Bad \subseteq Nat
      OBVIOUS
    <3> HIDE DEF Bad
    <3> QED BY <2>1, <3>1, LeastOf
  <2>3. n \in 0..Len(events) /\ ~Good(n) /\ n # 0
    BY DEF Keeps
  <2>4. /\ n \in 1..Len(events) /\ n - 1 \in 0..Len(events)
        /\ n - 1 \notin Bad
    BY <2>2, <2>3
  <2>5. Agreement(ms[n - 1], ts[n - 1]) /\ Keeps(ms[0], ms[n - 1])
    BY <2>4
  <2>6. /\ Projectable(ms[n - 1], events[n])
        /\ ms[n] = ProjectEvent(ms[n - 1], events[n])
        /\ ts[n] = ApplyAllProjections(ts[n - 1], events[n])
    BY <1>1, <2>4, <2>5 DEF Projected
  <2>7. Agreement(ms[n], ts[n]) /\ Keeps(ms[n - 1], ms[n])
    BY <2>5, <2>6, ProjectableKeepsAgreement
  <2>8. Keeps(ms[0], ms[n])
    BY <2>5, <2>7 DEF Keeps
  <2> QED BY <2>3, <2>7, <2>8
<1>3. ASSUME NEW n \in 1..Len(events) PROVE Projectable(ms[n - 1], events[n])
  <2>1. n - 1 \in 0..Len(events) /\ n - 1 \notin Bad
    BY <1>2
  <2> QED BY <1>1, <2>1
<1> QED BY <1>3 DEF AllProjectable

\* A finite set as a sequence.
LEMMA SetAsSequence ==
    ASSUME NEW S, IsFiniteSet(S)
    PROVE  /\ SetToSeq(S) \in Seq(S)
           /\ IsInjective(SetToSeq(S))
<1>1. PICK n \in Nat : ExistsBijection(1..n, S)
  BY FS_NatBijection
<1>2. Cardinality(S) = n
  BY <1>1, FS_CountingElements
<1>3. PICK f \in [1..n -> S] : IsInjective(f)
  BY <1>1 DEF ExistsBijection, Bijection, Injection, IsInjective
<1>4. SetToSeq(S) \in [1..n -> S] /\ IsInjective(SetToSeq(S))
  BY <1>2, <1>3, Zenon DEF SetToSeq
<1> QED BY <1>4

\* What clients, providers and the reactor send.
MessageCommandTypes ==
    {"thread.turn.start", "thread.turn.queue", "thread.turn.hold-for-recovery",
     "thread.queued-turn.update", "thread.queued-turn.cancel", "thread.queued-turn.steer",
     "thread.queued-turn.confirm", "thread.queued-turn.dispatch",
     "thread.queued-turn.steer.complete", "thread.queued-turn.steer.fail"}
TurnCommandTypes ==
    MessageCommandTypes \cup
    {"thread.turn.interrupt", "thread.session.stop", "thread.session.set",
     "thread.activity.append"}
CarryingTurn ==
    {"thread.completion.acknowledge", "thread.completion.mark-unread",
     "thread.turn.interrupt", "thread.queued-turn.steer", "thread.queued-turn.steer.complete",
     "thread.queued-turn.steer.fail", "thread.session.set"}

WellFormed(c) ==
    /\ c.type \in ProjectCommandTypes \cup ThreadCommandTypes \cup TurnCommandTypes
    /\ c.type \in ProjectCommandTypes \cup {"thread.create"} => c.project \in ProjectId
    /\ c.type \notin ProjectCommandTypes => c.thread \in ThreadId
    /\ c.type \in MessageCommandTypes => c.message \in MessageId
    /\ c.type \in CarryingTurn => c.turn \in MaybeTurn
    /\ c.type = "thread.unsettle" => c.reason \in ReasonType
    /\ c.type = "thread.session.set" => c.status \in StatusType
    /\ c.type = "thread.activity.append" => /\ c.kind \in KindType
                                            /\ c.request \in RequestId \cup {None}

\* What a session is set to follows from what it was; requests are opened by
\* a session that runs.
Suits(c, m) ==
    /\ WellFormed(c)
    /\ c.type = "thread.session.set" =>
          /\ c.status # "none"
          /\ c.status = "running" => c.turn # None
          /\ c.status = "starting" =>
                m.threads[c.thread].session.activeTurnId = None /\ c.turn = None
    /\ c.type = "thread.activity.append" /\ OpensRequest(c.kind) =>
          m.threads[c.thread].session.status = "running"

\* The commands whose events fit in any state.
MildCommandTypes ==
    (ProjectCommandTypes \cup ThreadCommandTypes \cup TurnCommandTypes)
    \ {"thread.create", "thread.settle", "thread.turn.queue", "thread.session.set",
       "thread.activity.append"}

\* The ordinary events of one thread.
OrdinaryOn(t) == {e \in Event : Ordinary(e) /\ e.thread = t}

\* The events that move a message to the queue, to the turns about to start,
\* or into a turn that runs; the others leave messages where they are, or
\* drop them.
MovingTypes ==
    {"thread.turn-queued", "thread.turn-start-requested", "thread.queued-turn-steered"}
StillOn(t) == {e \in OrdinaryOn(t) : e.type \notin MovingTypes}

LEMMA StillOnThread ==
    ASSUME NEW t \in ThreadId,
           NEW type \in Emptying \cup
               {"thread.unarchived", "thread.snoozed", "thread.unsnoozed", "thread.pinned",
                "thread.unpinned", "thread.session-stop-requested"}
    PROVE  OnThread(type, t) \in StillOn(t)
BY DEF OnThread, StillOn, MovingTypes, OrdinaryOn, Ordinary, ThreadEvent, Event, EventTypes,
       PlainTypes, Emptying, LeavingTypes, SteeringTypes, OtherTypes

LEMMA StillOnMessage ==
    ASSUME NEW t \in ThreadId, NEW msg \in MessageId,
           NEW type \in {"thread.queued-turn-cancelled", "thread.queued-turn-dispatched",
                         "thread.queued-turn-updated", "thread.message-sent"}
    PROVE  OnMessage(type, t, msg) \in StillOn(t)
BY DEF OnMessage, StillOn, MovingTypes, OrdinaryOn, Ordinary, ThreadEvent, Event, EventTypes,
       PlainTypes, Emptying, LeavingTypes, SteeringTypes, OtherTypes

LEMMA OrdinaryStart ==
    ASSUME NEW t \in ThreadId, NEW msg \in MessageId
    PROVE  OnMessage("thread.turn-start-requested", t, msg) \in OrdinaryOn(t)
BY DEF OnMessage, OrdinaryOn, Ordinary, ThreadEvent, Event, EventTypes, PlainTypes, Emptying,
       LeavingTypes, SteeringTypes, OtherTypes

LEMMA OrdinaryHold ==
    ASSUME NEW t \in ThreadId, NEW msg \in MessageId
    PROVE  TurnQueued(t, msg, TRUE) \in OrdinaryOn(t)
BY DEF TurnQueued, OrdinaryOn, Ordinary, ThreadEvent, Event, EventTypes, PlainTypes, Emptying,
       LeavingTypes, SteeringTypes, OtherTypes

LEMMA OrdinarySteered ==
    ASSUME NEW t \in ThreadId, NEW msg \in MessageId, NEW u \in MaybeTurn
    PROVE  OnSteer("thread.queued-turn-steered", t, msg, u) \in OrdinaryOn(t)
BY DEF OnSteer, OrdinaryOn, Ordinary, ThreadEvent, Event, EventTypes, PlainTypes, Emptying,
       LeavingTypes, SteeringTypes, OtherTypes

LEMMA StillSteering ==
    ASSUME NEW t \in ThreadId, NEW msg \in MessageId, NEW u \in MaybeTurn,
           NEW type \in SteeringTypes
    PROVE  OnSteer(type, t, msg, u) \in StillOn(t)
BY DEF OnSteer, StillOn, MovingTypes, OrdinaryOn, Ordinary, ThreadEvent, Event, EventTypes,
       PlainTypes, Emptying, LeavingTypes, SteeringTypes, OtherTypes

LEMMA StillUnsettled ==
    ASSUME NEW t \in ThreadId, NEW reason \in ReasonType
    PROVE  Unsettled(t, reason) \in StillOn(t)
BY DEF Unsettled, StillOn, MovingTypes, OrdinaryOn, Ordinary, ThreadEvent, Event, EventTypes,
       PlainTypes, Emptying, LeavingTypes, SteeringTypes, OtherTypes

LEMMA StillOnTurn ==
    ASSUME NEW t \in ThreadId, NEW u \in MaybeTurn,
           NEW type \in {"thread.completion-acknowledged", "thread.completion-marked-unread",
                         "thread.turn-interrupt-requested"}
    PROVE  [type |-> type, thread |-> t, turn |-> u] \in StillOn(t)
BY DEF StillOn, MovingTypes, OrdinaryOn, Ordinary, ThreadEvent, Event, EventTypes, PlainTypes,
       Emptying, LeavingTypes, SteeringTypes, OtherTypes

LEMMA StillFailure ==
    ASSUME NEW t \in ThreadId
    PROVE  Activity(t, "provider.turn.steer.failed", None) \in StillOn(t)
BY DEF Activity, KindType, OpensRequest, StillOn, MovingTypes, OrdinaryOn, Ordinary,
       ThreadEvent, Event, EventTypes, PlainTypes, Emptying, LeavingTypes, SteeringTypes, OtherTypes

\* Sequences of events.
LEMMA OneEvent == ASSUME NEW S, NEW e \in S PROVE <<e>> \in Seq(S)
OBVIOUS

LEMMA MaybeEvent == ASSUME NEW S, NEW e \in S, NEW b \in BOOLEAN PROVE If(b, e) \in Seq(S)
BY DEF If

LEMMA MoreEvents == ASSUME NEW S, NEW s \in Seq(S), NEW u \in Seq(S) PROVE s \o u \in Seq(S)
OBVIOUS

\* Two events.
LEMMA Pair == ASSUME NEW a, NEW b PROVE <<a>> \o <<b>> = <<a, b>>
<1> DEFINE S == {a, b}
           s == <<a>> \o <<b>>
<1>1. <<a>> \in Seq(S) /\ <<b>> \in Seq(S) /\ <<a, b>> \in Seq(S)
  OBVIOUS
<1>2. s \in Seq(S) /\ Len(s) = 2 /\ s[1] = a /\ s[2] = b
  BY <1>1, ConcatProperties
<1>3. Len(<<a, b>>) = 2 /\ <<a, b>>[1] = a /\ <<a, b>>[2] = b
  OBVIOUS
<1> DEFINE r == <<a, b>>
<1>4. r \in Seq(S) /\ Len(r) = 2 /\ r[1] = a /\ r[2] = b
  BY <1>1, <1>3
<1> HIDE DEF s, r, S
<1>5. s = r
  BY <1>2, <1>4, SeqEqual
<1> QED BY <1>5 DEF s, r

LEMMA WakingEvents ==
    ASSUME NEW th \in ThreadType, NEW t \in ThreadId
    PROVE  Waking(th, t) \in Seq(StillOn(t))
<1>1. Unsettled(t, "activity") \in StillOn(t)
  BY StillUnsettled DEF ReasonType
<1>2. OnThread("thread.unsnoozed", t) \in StillOn(t)
  BY StillOnThread
<1> QED BY <1>1, <1>2, MaybeEvent, MoreEvents DEF Waking, ThreadType

\* What the commands about the life of a thread are decided to.
LEMMA LifeEvents ==
    ASSUME NEW m, ReadModelShape(m), NEW c, WellFormed(c),
           c.type \in ThreadCommandTypes \ {"thread.create", "thread.settle"},
           DecideCommandOn(c, m) # Rejected
    PROVE  /\ ThreadExists(m, c.thread)
           /\ DecideCommandOn(c, m) \in Seq(StillOn(c.thread))
<1> DEFINE t == c.thread
           th == m.threads[t]
           events == DecideCommandOn(c, m)
<1>1. t \in ThreadId /\ th \in ThreadType
  BY DEF WellFormed, ReadModelShape, ProjectCommandTypes, ThreadCommandTypes
<1>2. events = DecideThread(c, m)
  BY DEF DecideCommandOn, ProjectCommandTypes, ThreadCommandTypes
<1>3. ASSUME NEW type \in Emptying \cup
                 {"thread.unarchived", "thread.snoozed", "thread.unsnoozed", "thread.pinned",
                  "thread.unpinned", "thread.session-stop-requested"}
      PROVE  OnThread(type, t) \in StillOn(t) /\ <<OnThread(type, t)>> \in Seq(StillOn(t))
  BY <1>1, StillOnThread, OneEvent
<1>4. CASE c.type = "thread.delete"
  <2>1. events = Guarded(ThreadExists(m, t), <<OnThread("thread.deleted", t)>>)
    BY <1>2, <1>4 DEF DecideThread
  <2> QED BY <1>3, <2>1 DEF Guarded, Emptying
<1>5. CASE c.type = "thread.archive"
  <2>1. events = Guarded(ThreadNotArchived(m, t), <<OnThread("thread.archived", t)>>)
    BY <1>2, <1>5 DEF DecideThread
  <2> QED BY <1>3, <2>1 DEF Guarded, Emptying, ThreadNotArchived
<1>6. CASE c.type = "thread.unarchive"
  <2>1. events = Guarded(ThreadArchived(m, t), <<OnThread("thread.unarchived", t)>>)
    BY <1>2, <1>6 DEF DecideThread
  <2> QED BY <1>3, <2>1 DEF Guarded, ThreadArchived
<1>7. CASE c.type = "thread.unsettle"
  <2>1. events = Guarded(ThreadNotArchived(m, t), <<Unsettled(t, c.reason)>>)
    BY <1>2, <1>7 DEF DecideThread
  <2>2. <<Unsettled(t, c.reason)>> \in Seq(StillOn(t))
    BY <1>1, <1>7, StillUnsettled, OneEvent DEF WellFormed
  <2> QED BY <2>1, <2>2 DEF Guarded, ThreadNotArchived
<1>8. CASE c.type = "thread.snooze"
  <2>1. events = DecideThreadSnooze(c, m)
    BY <1>2, <1>8 DEF DecideThread
  <2>2. /\ ThreadNotArchived(m, t)
        /\ events = <<OnThread("thread.snoozed", t)>>
    BY <2>1, Zenon DEF DecideThreadSnooze, Guarded
  <2> QED BY <1>3, <2>2 DEF ThreadNotArchived
<1>9. CASE c.type = "thread.unsnooze"
  <2>1. events = Guarded(ThreadNotArchived(m, t), <<OnThread("thread.unsnoozed", t)>>)
    BY <1>2, <1>9 DEF DecideThread
  <2> QED BY <1>3, <2>1 DEF Guarded, ThreadNotArchived
<1>10. CASE c.type = "thread.pin"
  <2> DEFINE wakes == If(th.settledOverride = "settled", Unsettled(t, "user"))
             returns == If(th.snoozed, OnThread("thread.unsnoozed", t))
  <2>1. events = DecideThreadPin(c, m)
    BY <1>2, <1>10 DEF DecideThread
  <2>2. /\ ThreadNotArchived(m, t)
        /\ events = <<OnThread("thread.pinned", t)>> \o wakes \o returns
    BY <2>1, Zenon DEF DecideThreadPin, Guarded
  <2>3. wakes \in Seq(StillOn(t))
    <3>1. Unsettled(t, "user") \in StillOn(t)
      BY <1>1, StillUnsettled DEF ReasonType
    <3> QED BY <3>1, MaybeEvent
  <2>4. returns \in Seq(StillOn(t))
    BY <1>1, <1>3, MaybeEvent DEF ThreadType
  <2>5. <<OnThread("thread.pinned", t)>> \in Seq(StillOn(t))
    BY <1>3
  <2> HIDE DEF wakes, returns
  <2>6. events \in Seq(StillOn(t))
    BY <2>2, <2>3, <2>4, <2>5, MoreEvents
  <2> QED BY <2>2, <2>6 DEF ThreadNotArchived
<1>11. CASE c.type = "thread.unpin"
  <2>1. events = Guarded(ThreadNotArchived(m, t), <<OnThread("thread.unpinned", t)>>)
    BY <1>2, <1>11 DEF DecideThread
  <2> QED BY <1>3, <2>1 DEF Guarded, ThreadNotArchived
<1>12. CASE c.type \in {"thread.completion.acknowledge", "thread.completion.mark-unread"}
  <2> DEFINE type == IF c.type = "thread.completion.acknowledge"
                     THEN "thread.completion-acknowledged"
                     ELSE "thread.completion-marked-unread"
             e == [type |-> type, thread |-> t, turn |-> c.turn]
  <2>1. events = DecideCompletion(c, m)
    BY <1>2, <1>12 DEF DecideThread
  <2>2. ThreadExists(m, t) /\ events = <<e>>
    BY <2>1, Zenon DEF DecideCompletion, Guarded
  <2>3. c.turn \in MaybeTurn
    BY <1>12 DEF WellFormed, CarryingTurn
  <2>4. type \in {"thread.completion-acknowledged", "thread.completion-marked-unread",
                  "thread.turn-interrupt-requested"}
    OBVIOUS
  <2> HIDE DEF type
  <2>5. e \in StillOn(t)
    BY <1>1, <2>3, <2>4, StillOnTurn
  <2> QED BY <2>2, <2>5, OneEvent
<1> QED BY <1>4, <1>5, <1>6, <1>7, <1>8, <1>9, <1>10, <1>11, <1>12 DEF ThreadCommandTypes

\* What the commands about turns that move no message are decided to.
MovingCommandTypes ==
    {"thread.turn.start", "thread.turn.queue", "thread.turn.hold-for-recovery",
     "thread.queued-turn.confirm", "thread.queued-turn.dispatch",
     "thread.queued-turn.steer.complete"}

LEMMA StillTurnEvents ==
    ASSUME NEW m, ReadModelShape(m), NEW c, WellFormed(c),
           c.type \in TurnCommandTypes
               \ ({"thread.session.set", "thread.activity.append"} \cup MovingCommandTypes),
           DecideCommandOn(c, m) # Rejected
    PROVE  /\ ThreadExists(m, c.thread)
           /\ DecideCommandOn(c, m) \in Seq(StillOn(c.thread))
<1> DEFINE t == c.thread
           msg == c.message
           th == m.threads[t]
           events == DecideCommandOn(c, m)
<1>1. t \in ThreadId /\ th \in ThreadType
  BY DEF WellFormed, ReadModelShape, ProjectCommandTypes, TurnCommandTypes, MessageCommandTypes
<1>2. events = DecideTurn(c, m)
  BY DEF DecideCommandOn, ProjectCommandTypes, ThreadCommandTypes, TurnCommandTypes,
         MessageCommandTypes
<1>3. c.type \in MessageCommandTypes => msg \in MessageId
  BY DEF WellFormed
<1>4. Free(m, c) \/ SteeredInto(m, c) => ThreadExists(m, t)
  BY DEF Free, SteeredInto, Queued
<1>5. CASE c.type = "thread.queued-turn.update"
  <2>1. events = DecideQueuedTurnUpdate(c, m)
    BY <1>2, <1>5 DEF DecideTurn
  <2>2. Free(m, c) /\ events = <<OnMessage("thread.queued-turn-updated", t, msg)>>
    BY <2>1, Zenon DEF DecideQueuedTurnUpdate, Guarded
  <2>3. OnMessage("thread.queued-turn-updated", t, msg) \in StillOn(t)
    BY <1>1, <1>3, <1>5, StillOnMessage DEF MessageCommandTypes
  <2> QED BY <1>4, <2>2, <2>3, OneEvent
<1>6. CASE c.type = "thread.queued-turn.cancel"
  <2>1. events = DecideQueuedTurnCancel(c, m)
    BY <1>2, <1>6 DEF DecideTurn
  <2>2. Free(m, c) /\ events = <<OnMessage("thread.queued-turn-cancelled", t, msg)>>
    BY <2>1, Zenon DEF DecideQueuedTurnCancel, Guarded
  <2>3. OnMessage("thread.queued-turn-cancelled", t, msg) \in StillOn(t)
    BY <1>1, <1>3, <1>6, StillOnMessage DEF MessageCommandTypes
  <2> QED BY <1>4, <2>2, <2>3, OneEvent
<1>7. CASE c.type = "thread.queued-turn.steer"
  <2>1. events = DecideQueuedTurnSteer(c, m)
    BY <1>2, <1>7 DEF DecideTurn
  <2>2. Free(m, c) /\ events = <<OnSteer("thread.queued-turn-steer-requested", t, msg, c.turn)>>
    BY <2>1, Zenon DEF DecideQueuedTurnSteer, Guarded
  <2>3. c.turn \in MaybeTurn /\ msg \in MessageId
    BY <1>3, <1>7 DEF WellFormed, CarryingTurn, MessageCommandTypes
  <2>4. OnSteer("thread.queued-turn-steer-requested", t, msg, c.turn) \in StillOn(t)
    BY <1>1, <2>3, StillSteering DEF SteeringTypes
  <2> QED BY <1>4, <2>2, <2>4, OneEvent
<1>8. CASE c.type = "thread.queued-turn.steer.fail"
  <2> DEFINE failed == OnSteer("thread.queued-turn-steer-failed", t, msg, c.turn)
             shown == Activity(t, "provider.turn.steer.failed", None)
  <2>1. events = DecideSteerFail(c, m)
    BY <1>2, <1>8 DEF DecideTurn
  <2>2. SteeredInto(m, c) /\ events = <<failed, shown>>
    BY <2>1, Zenon DEF DecideSteerFail, Guarded
  <2>3. c.turn \in MaybeTurn /\ msg \in MessageId
    BY <1>3, <1>8 DEF WellFormed, CarryingTurn, MessageCommandTypes
  <2>4. failed \in StillOn(t)
    BY <1>1, <2>3, StillSteering DEF SteeringTypes
  <2>5. shown \in StillOn(t)
    BY <1>1, StillFailure
  <2> HIDE DEF failed, shown
  <2> QED BY <1>4, <2>2, <2>4, <2>5
<1>9. CASE c.type = "thread.turn.interrupt"
  <2> DEFINE turn == IF c.turn # None THEN c.turn
                     ELSE IF th.latestTurn.state = "running" THEN th.latestTurn.turnId
                     ELSE th.session.activeTurnId
             e == [type |-> "thread.turn-interrupt-requested", thread |-> t, turn |-> turn]
  <2>1. events = DecideTurnInterrupt(c, m)
    BY <1>2, <1>9 DEF DecideTurn
  <2>2. ThreadExists(m, t) /\ events = <<e>>
    BY <2>1, Zenon DEF DecideTurnInterrupt, Guarded
  <2>3. turn \in MaybeTurn
    BY <1>1, <1>9 DEF WellFormed, CarryingTurn, ThreadType, SessionType
  <2> HIDE DEF turn
  <2>4. e \in StillOn(t)
    BY <1>1, <2>3, StillOnTurn
  <2> QED BY <2>2, <2>4, OneEvent
<1>10. CASE c.type = "thread.session.stop"
  <2>1. events = Guarded(ThreadExists(m, t), <<OnThread("thread.session-stop-requested", t)>>)
    BY <1>2, <1>10 DEF DecideTurn
  <2>2. <<OnThread("thread.session-stop-requested", t)>> \in Seq(StillOn(t))
    BY <1>1, StillOnThread, OneEvent
  <2> QED BY <2>1, <2>2 DEF Guarded
<1> QED BY <1>5, <1>6, <1>7, <1>8, <1>9, <1>10
        DEF TurnCommandTypes, MessageCommandTypes, MovingCommandTypes

\* One event of a command moves its message, and no other event does.
Moves(events, type, t, msg) ==
    \E j \in 1..Len(events) :
        /\ events[j].type = type /\ events[j].thread = t /\ events[j].message = msg
        /\ \A i \in 1..Len(events) : i # j => events[i].type \notin MovingTypes

LEMMA MovesLast ==
    ASSUME NEW t, NEW before \in Seq(StillOn(t)), NEW e, NEW type, NEW msg,
           e.type = type, e.thread = t, e.message = msg
    PROVE  Moves(before \o <<e>>, type, t, msg)
<1> DEFINE events == before \o <<e>>
<1>1. /\ Len(before) \in Nat
      /\ Len(events) = Len(before) + 1
      /\ \A n \in 1..Len(before) : events[n] = before[n] /\ before[n] \in StillOn(t)
      /\ events[Len(before) + 1] = e
  OBVIOUS
<1>2. \A n \in 1..Len(before) : events[n].type \notin MovingTypes
  BY <1>1 DEF StillOn
<1> HIDE DEF events
<1>3. \A n \in 1..Len(events) : n # Len(before) + 1 => events[n].type \notin MovingTypes
  <2>1. \A n \in 1..Len(events) : n # Len(before) + 1 => n \in 1..Len(before)
    BY <1>1
  <2> QED BY <1>2, <2>1
<1>4. Len(before) + 1 \in 1..Len(events)
  BY <1>1
<1>5. Moves(events, type, t, msg)
  BY <1>1, <1>3, <1>4 DEF Moves
<1> QED BY <1>5 DEF events

\* What the commands that move a message are decided to.
LEMMA StartEvents ==
    ASSUME NEW m, ReadModelShape(m), NEW c, WellFormed(c), c.type = "thread.turn.start",
           NEW events, events = DecideCommandOn(c, m), events # Rejected
    PROVE  /\ ThreadExists(m, c.thread) /\ events \in Seq(OrdinaryOn(c.thread))
           /\ Moves(events, "thread.turn-start-requested", c.thread, c.message)
<1> DEFINE t == c.thread
           msg == c.message
           sent == OnMessage("thread.message-sent", t, msg)
           e == OnMessage("thread.turn-start-requested", t, msg)
           woken == Waking(m.threads[t], t)
           before == woken \o <<sent>>
<1>1. t \in ThreadId /\ msg \in MessageId /\ m.threads[t] \in ThreadType
  BY DEF WellFormed, ReadModelShape, ProjectCommandTypes, MessageCommandTypes
<1>2. ThreadExists(m, t) /\ events = woken \o <<sent, e>>
  <2>1. events = DecideTurnStart(c, m)
    BY DEF DecideCommandOn, DecideTurn, ProjectCommandTypes, ThreadCommandTypes
  <2> QED BY <2>1, Zenon DEF DecideTurnStart, Guarded
<1>3. e \in OrdinaryOn(t) /\ e.type = "thread.turn-start-requested" /\ e.thread = t
      /\ e.message = msg
  BY <1>1, OrdinaryStart DEF OnMessage
<1>4. sent \in StillOn(t) /\ woken \in Seq(StillOn(t))
  BY <1>1, StillOnMessage, WakingEvents
<1> HIDE DEF e, sent, woken
<1>5. before \in Seq(StillOn(t)) /\ StillOn(t) \subseteq OrdinaryOn(t)
  BY <1>4 DEF StillOn
<1>6. events = before \o <<e>>
  <2> DEFINE S == OrdinaryOn(t)
  <2>1. woken \in Seq(S) /\ <<sent>> \in Seq(S) /\ <<e>> \in Seq(S)
    BY <1>3, <1>4, <1>5
  <2> HIDE DEF S
  <2>2. before \o <<e>> = woken \o (<<sent>> \o <<e>>)
    BY <2>1, ConcatAssociative
  <2>3. <<sent>> \o <<e>> = <<sent, e>>
    BY Pair
  <2> QED BY <1>2, <2>2, <2>3
<1> HIDE DEF before
<1>7. Moves(before \o <<e>>, "thread.turn-start-requested", t, msg)
  BY <1>3, <1>5, MovesLast
<1>8. before \o <<e>> \in Seq(OrdinaryOn(t))
  BY <1>3, <1>5
<1> QED BY <1>2, <1>6, <1>7, <1>8

LEMMA HoldEvents ==
    ASSUME NEW m, NEW c, WellFormed(c), c.type = "thread.turn.hold-for-recovery",
           NEW events, events = DecideCommandOn(c, m), events # Rejected
    PROVE  /\ ThreadExists(m, c.thread) /\ events \in Seq(OrdinaryOn(c.thread))
           /\ Moves(events, "thread.turn-queued", c.thread, c.message)
           /\ Len(events) = 1
<1> DEFINE t == c.thread
           msg == c.message
           e == TurnQueued(t, msg, TRUE)
<1>1. t \in ThreadId /\ msg \in MessageId
  BY DEF WellFormed, ProjectCommandTypes, MessageCommandTypes
<1>2. events = DecideHoldForRecovery(c, m)
  BY DEF DecideCommandOn, DecideTurn, ProjectCommandTypes, ThreadCommandTypes
<1>3. ThreadExists(m, t) /\ events = <<e>>
  BY <1>2, Zenon DEF DecideHoldForRecovery, Guarded
<1>4. e \in OrdinaryOn(t) /\ e.type = "thread.turn-queued" /\ e.thread = t /\ e.message = msg
  BY <1>1, OrdinaryHold DEF TurnQueued
<1> HIDE DEF e
<1>5. Len(events) = 1 /\ events[1] = e /\ events \in Seq(OrdinaryOn(t))
  BY <1>3, <1>4
<1>6. Moves(events, "thread.turn-queued", t, msg)
  BY <1>4, <1>5 DEF Moves
<1> QED BY <1>3, <1>5, <1>6

LEMMA DispatchedEvents ==
    ASSUME NEW m, NEW c, WellFormed(c),
           c.type \in {"thread.queued-turn.confirm", "thread.queued-turn.dispatch"},
           NEW events, events = DecideCommandOn(c, m), events # Rejected
    PROVE  /\ ThreadExists(m, c.thread) /\ events \in Seq(OrdinaryOn(c.thread))
           /\ Moves(events, "thread.turn-start-requested", c.thread, c.message)
           /\ events[1] = OnMessage("thread.queued-turn-dispatched", c.thread, c.message)
<1> DEFINE t == c.thread
           msg == c.message
           first == OnMessage("thread.queued-turn-dispatched", t, msg)
           sent == OnMessage("thread.message-sent", t, msg)
           e == OnMessage("thread.turn-start-requested", t, msg)
<1>1. t \in ThreadId /\ msg \in MessageId
  BY DEF WellFormed, ProjectCommandTypes, MessageCommandTypes
<1>2. PICK rest \in {<<>>, <<sent>>} : Free(m, c) /\ events = <<first>> \o rest \o <<e>>
  <2>1. CASE c.type = "thread.queued-turn.confirm"
    <3>1. events = DecideQueuedTurnConfirm(c, m)
      BY <2>1 DEF DecideCommandOn, DecideTurn, ProjectCommandTypes, ThreadCommandTypes
    <3>2. /\ Free(m, c)
          /\ events = <<first>> \o If(~(msg \in m.threads[t].userMessages), sent) \o <<e>>
      BY <3>1, Zenon DEF DecideQueuedTurnConfirm, DispatchEvents, Guarded
    <3>3. If(~(msg \in m.threads[t].userMessages), sent) \in {<<>>, <<sent>>}
      BY DEF If
    <3> HIDE DEF first, sent, e
    <3> QED BY <3>2, <3>3, Zenon
  <2>2. CASE c.type = "thread.queued-turn.dispatch"
    <3>1. events = DecideQueuedTurnDispatch(c, m)
      BY <2>2 DEF DecideCommandOn, DecideTurn, ProjectCommandTypes, ThreadCommandTypes
    <3>2. Free(m, c) /\ events = <<first>> \o If(~FALSE, sent) \o <<e>>
      BY <3>1, Zenon DEF DecideQueuedTurnDispatch, DispatchEvents, Guarded
    <3>3. If(~FALSE, sent) \in {<<>>, <<sent>>}
      BY DEF If
    <3> HIDE DEF first, sent, e
    <3> QED BY <3>2, <3>3, Zenon
  <2> QED BY <2>1, <2>2
<1>3. e \in OrdinaryOn(t) /\ e.type = "thread.turn-start-requested" /\ e.thread = t
      /\ e.message = msg
  BY <1>1, OrdinaryStart DEF OnMessage
<1>4. first \in StillOn(t) /\ sent \in StillOn(t)
  BY <1>1, StillOnMessage
<1> HIDE DEF e, sent, first
<1> DEFINE before == <<first>> \o rest
<1>5. /\ before \in Seq(StillOn(t)) /\ StillOn(t) \subseteq OrdinaryOn(t)
      /\ Len(before) \in Nat /\ Len(before) > 0 /\ before[1] = first
  <2>1. rest \in Seq(StillOn(t))
    <3>1. <<>> \in Seq(StillOn(t)) /\ <<sent>> \in Seq(StillOn(t))
      BY <1>4
    <3>2. rest = <<>> \/ rest = <<sent>>
      OBVIOUS
    <3> QED BY <3>1, <3>2, Zenon
  <2>2. <<first>> \in Seq(StillOn(t)) /\ Len(<<first>>) = 1 /\ <<first>>[1] = first
    BY <1>4
  <2> QED BY <2>1, <2>2, ConcatProperties DEF StillOn
<1> HIDE DEF before
<1>6. Moves(before \o <<e>>, "thread.turn-start-requested", t, msg)
  BY <1>3, <1>5, MovesLast
<1>7. before \o <<e>> \in Seq(OrdinaryOn(t)) /\ (before \o <<e>>)[1] = first
  BY <1>3, <1>5
<1>8. ThreadExists(m, t)
  BY <1>2 DEF Free, Queued
<1>9. events = before \o <<e>>
  BY <1>2 DEF before
<1> QED BY <1>6, <1>7, <1>8, <1>9 DEF first

LEMMA SteeredEvents ==
    ASSUME NEW m, NEW c, WellFormed(c), c.type = "thread.queued-turn.steer.complete",
           NEW events, events = DecideCommandOn(c, m), events # Rejected
    PROVE  /\ ThreadExists(m, c.thread) /\ events \in Seq(OrdinaryOn(c.thread))
           /\ Moves(events, "thread.queued-turn-steered", c.thread, c.message)
           /\ events[1] = OnSteer("thread.queued-turn-steered", c.thread, c.message, c.turn)
<1> DEFINE t == c.thread
           msg == c.message
           e == OnSteer("thread.queued-turn-steered", t, msg, c.turn)
           sent == OnMessage("thread.message-sent", t, msg)
<1>1. t \in ThreadId /\ msg \in MessageId /\ c.turn \in MaybeTurn
  BY DEF WellFormed, ProjectCommandTypes, MessageCommandTypes, CarryingTurn
<1>2. SteeredInto(m, c) /\ events = <<e, sent>>
  <2>1. events = DecideSteerComplete(c, m)
    BY DEF DecideCommandOn, DecideTurn, ProjectCommandTypes, ThreadCommandTypes
  <2> QED BY <2>1, Zenon DEF DecideSteerComplete, Guarded
<1>3. e \in OrdinaryOn(t) /\ e.type = "thread.queued-turn-steered" /\ e.thread = t
      /\ e.message = msg
  BY <1>1, OrdinarySteered DEF OnSteer
<1>4. sent \in StillOn(t)
  BY <1>1, StillOnMessage
<1> HIDE DEF e, sent
<1>5. /\ events \in Seq(OrdinaryOn(t)) /\ Len(events) = 2
      /\ events[1] = e /\ events[2] = sent /\ sent.type \notin MovingTypes
  BY <1>2, <1>3, <1>4 DEF StillOn
<1>6. Moves(events, "thread.queued-turn-steered", t, msg)
  <2>1. \A i \in 1..Len(events) : i # 1 => events[i].type \notin MovingTypes
    BY <1>5
  <2> QED BY <1>3, <1>5, <2>1 DEF Moves
<1> QED BY <1>2, <1>5, <1>6 DEF e, SteeredInto, Queued

\* What the commands about projects, and a thread's creation, are decided to.
StillMild(m) == {e \in Mild(m) : e.type \notin MovingTypes}

LEMMA ProjectEventsOf ==
    ASSUME NEW m, ReadModelShape(m), NEW c, WellFormed(c), c.type \in ProjectCommandTypes,
           DecideCommandOn(c, m) # Rejected
    PROVE  DecideCommandOn(c, m) \in Seq(StillMild(m))
<1> DEFINE p == c.project
           events == DecideCommandOn(c, m)
           threads == SetToSeq(ActiveThreads(m, p))
<1>1. p \in ProjectId /\ p # None
  BY HistoryAssumption DEF WellFormed
<1>2. events = DecideProject(c, m)
  BY DEF DecideCommandOn, ProjectCommandTypes, ThreadCommandTypes
<1>3. ASSUME NEW type \in {"project.created", "project.deleted"}
      PROVE  [type |-> type, project |-> p] \in StillMild(m)
  BY <1>1 DEF StillMild, Mild, MovingTypes, ProjectEventType
<1>4. CASE c.type = "project.create"
  <2>1. events = Guarded(~ProjectExists(m, p), <<[type |-> "project.created", project |-> p]>>)
    BY <1>2, <1>4 DEF DecideProject
  <2>2. <<[type |-> "project.created", project |-> p]>> \in Seq(StillMild(m))
    BY <1>3, OneEvent
  <2> QED BY <2>1, <2>2 DEF Guarded
<1>5. CASE c.type = "project.delete"
  <2> DEFINE deleted == [i \in DOMAIN threads |-> OnThread("thread.deleted", threads[i])]
             last == <<[type |-> "project.deleted", project |-> p]>>
  <2>1. events = DecideProjectDelete(c, m)
    BY <1>2, <1>5 DEF DecideProject
  <2>2. events = deleted \o last
    BY <2>1, Zenon DEF DecideProjectDelete, Guarded
  <2>3. threads \in Seq(ActiveThreads(m, p))
    <3>1. IsFiniteSet(ActiveThreads(m, p))
      BY HistoryAssumption, FS_Subset DEF ActiveThreads
    <3> QED BY <3>1, SetAsSequence
  <2> HIDE DEF threads
  <2>4. DOMAIN threads = 1..Len(threads) /\ Len(threads) \in Nat
    BY <2>3
  <2>5. ASSUME NEW i \in DOMAIN threads
        PROVE  OnThread("thread.deleted", threads[i]) \in StillMild(m)
    <3>1. threads[i] \in ActiveThreads(m, p)
      BY <2>3
    <3>2. threads[i] \in ThreadId /\ ThreadExists(m, threads[i])
      BY <1>1, <3>1 DEF ActiveThreads, ThreadExists
    <3>3. OnThread("thread.deleted", threads[i]) \in StillOn(threads[i])
      BY <3>2, StillOnThread DEF Emptying
    <3> QED BY <3>2, <3>3 DEF StillOn, OrdinaryOn, StillMild, Mild
  <2>6. deleted \in [1..Len(threads) -> StillMild(m)]
    BY <2>4, <2>5
  <2>7. deleted \in Seq(StillMild(m))
    <3> HIDE DEF deleted
    <3> QED BY <2>4, <2>6
  <2>8. last \in Seq(StillMild(m))
    BY <1>3, OneEvent
  <2> QED BY <2>2, <2>7, <2>8, MoreEvents
<1> QED BY <1>4, <1>5 DEF ProjectCommandTypes

\* Most commands move no message.
LEMMA StillCommands ==
    ASSUME NEW m, ReadModelShape(m), NEW c, WellFormed(c),
           c.type \in MildCommandTypes \ MovingCommandTypes, DecideCommandOn(c, m) # Rejected
    PROVE  DecideCommandOn(c, m) \in Seq(StillMild(m))
<1>1. CASE c.type \in ProjectCommandTypes
  BY <1>1, ProjectEventsOf
<1>2. CASE c.type \notin ProjectCommandTypes
  <2>1. ThreadExists(m, c.thread) /\ DecideCommandOn(c, m) \in Seq(StillOn(c.thread))
    BY <1>2, LifeEvents, StillTurnEvents DEF MildCommandTypes
  <2>2. StillOn(c.thread) \subseteq StillMild(m)
    BY <2>1 DEF StillOn, OrdinaryOn, StillMild, Mild
  <2> QED BY <2>1, <2>2
<1> QED BY <1>1, <1>2

\* Each command is decided to events that can be projected one after the other.
LEMMA MildCommands ==
    ASSUME NEW m, ReadModelShape(m), NEW c, WellFormed(c), c.type \in MildCommandTypes,
           DecideCommandOn(c, m) # Rejected
    PROVE  DecideCommandOn(c, m) \in Seq(Mild(m))
<1> DEFINE events == DecideCommandOn(c, m)
<1>1. CASE c.type \in MovingCommandTypes
  <2>1. /\ c.type # "thread.turn.queue"
        /\ events = DecideCommandOn(c, m) /\ events # Rejected
    BY DEF MildCommandTypes
  <2> HIDE DEF events
  <2>2. ThreadExists(m, c.thread) /\ events \in Seq(OrdinaryOn(c.thread))
    <3>1. CASE c.type = "thread.turn.start"
      BY <2>1, <3>1, StartEvents
    <3>2. CASE c.type = "thread.turn.hold-for-recovery"
      BY <2>1, <3>2, HoldEvents
    <3>3. CASE c.type \in {"thread.queued-turn.confirm", "thread.queued-turn.dispatch"}
      BY <2>1, <3>3, DispatchedEvents
    <3>4. CASE c.type = "thread.queued-turn.steer.complete"
      BY <2>1, <3>4, SteeredEvents
    <3> QED BY <1>1, <2>1, <3>1, <3>2, <3>3, <3>4 DEF MovingCommandTypes
  <2>3. OrdinaryOn(c.thread) \subseteq Mild(m)
    BY <2>2 DEF OrdinaryOn, Mild
  <2> QED BY <2>2, <2>3 DEF events
<1>2. CASE c.type \notin MovingCommandTypes
  <2>1. DecideCommandOn(c, m) \in Seq(StillMild(m))
    BY <1>2, StillCommands
  <2> QED BY <2>1 DEF StillMild
<1> QED BY <1>1, <1>2

\* A thread that is un-settled, and one whose snooze ends.
LEMMA UnsettledStep ==
    ASSUME NEW m, ReadModelShape(m), NEW t \in ThreadId, ThreadExists(m, t), NEW next,
           next = ProjectEvent(m, Unsettled(t, "activity"))
    PROVE  /\ ReadModelShape(next) /\ ThreadExists(next, t)
           /\ next.threads[t].session = m.threads[t].session
           /\ next.threads[t].settledOverride = "none"
<1> DEFINE th == m.threads[t]
           e == Unsettled(t, "activity")
<1>1. ThreadEvent(e) /\ e.thread = t /\ e.type = "thread.unsettled" /\ e.reason = "activity"
  BY DEF Unsettled, ThreadEvent, EventTypes, PlainTypes, Emptying, LeavingTypes, SteeringTypes,
         OtherTypes
<1>2. next = ProjectEvent(m, e)
  OBVIOUS
<1>3. ThreadAfter(th, e) = [th EXCEPT !.settledOverride = "none"]
  BY <1>1 DEF ThreadAfter
<1> HIDE DEF e
<1>4. ReadModelShape(next) /\ next.threads = [m.threads EXCEPT ![t] = ThreadAfter(th, e)]
  BY <1>1, <1>2, ModelAfterEvent
<1>5. next.threads[t] = [th EXCEPT !.settledOverride = "none"] /\ th \in ThreadType
  BY <1>3, <1>4 DEF ReadModelShape
<1> QED BY <1>4, <1>5 DEF ThreadExists, ThreadType

LEMMA UnsnoozedStep ==
    ASSUME NEW m, ReadModelShape(m), NEW t \in ThreadId, ThreadExists(m, t), NEW next,
           next = ProjectEvent(m, OnThread("thread.unsnoozed", t))
    PROVE  /\ ReadModelShape(next) /\ ThreadExists(next, t)
           /\ next.threads[t].session = m.threads[t].session
           /\ next.threads[t].settledOverride = m.threads[t].settledOverride
<1> DEFINE th == m.threads[t]
           e == OnThread("thread.unsnoozed", t)
<1>1. ThreadEvent(e) /\ e.thread = t /\ e.type = "thread.unsnoozed"
  BY DEF OnThread, ThreadEvent, EventTypes, PlainTypes, Emptying, LeavingTypes, SteeringTypes,
         OtherTypes
<1>2. next = ProjectEvent(m, e)
  OBVIOUS
<1>3. ThreadAfter(th, e) = [th EXCEPT !.snoozed = FALSE]
  BY <1>1 DEF ThreadAfter
<1> HIDE DEF e
<1>4. ReadModelShape(next) /\ next.threads = [m.threads EXCEPT ![t] = ThreadAfter(th, e)]
  BY <1>1, <1>2, ModelAfterEvent
<1>5. next.threads[t] = [th EXCEPT !.snoozed = FALSE] /\ th \in ThreadType
  BY <1>3, <1>4 DEF ReadModelShape
<1> QED BY <1>4, <1>5 DEF ThreadExists, ThreadType

\* The events that wake a thread leave it not settled.
LEMMA WokenThread ==
    ASSUME NEW ms, ReadModelShape(ms[0]), NEW t \in ThreadId, ThreadExists(ms[0], t),
           NEW before, before = Waking(ms[0].threads[t], t),
           \A n \in 1..Len(before) : ms[n] = ProjectEvent(ms[n - 1], before[n])
    PROVE  /\ ThreadExists(ms[Len(before)], t)
           /\ ms[Len(before)].threads[t].settledOverride = "none"
<1> DEFINE th == ms[0].threads[t]
           U == Unsettled(t, "activity")
           Z == OnThread("thread.unsnoozed", t)
<1>1. before = If(th.settledOverride # "none", U) \o If(th.snoozed, Z)
  BY DEF Waking
<1>2. \A m, next : ReadModelShape(m) /\ ThreadExists(m, t) /\ next = ProjectEvent(m, U) =>
          /\ ReadModelShape(next) /\ ThreadExists(next, t)
          /\ next.threads[t].settledOverride = "none"
  BY UnsettledStep
<1>3. \A m, next : ReadModelShape(m) /\ ThreadExists(m, t) /\ next = ProjectEvent(m, Z) =>
          /\ ReadModelShape(next) /\ ThreadExists(next, t)
          /\ next.threads[t].settledOverride = m.threads[t].settledOverride
  BY UnsnoozedStep
<1> HIDE DEF U, Z
<1>4. CASE before = <<>>
  <2>1. th.settledOverride = "none"
    BY <1>1, <1>4, SMTT(30) DEF If
  <2> QED BY <1>4, <2>1
<1>5. CASE before = <<U>>
  <2>1. Len(before) = 1 /\ ms[1] = ProjectEvent(ms[0], U)
    BY <1>5
  <2> QED BY <1>2, <2>1
<1>6. CASE before = <<Z>> /\ th.settledOverride = "none"
  <2>1. Len(before) = 1 /\ ms[1] = ProjectEvent(ms[0], Z)
    BY <1>6
  <2> QED BY <1>3, <1>6, <2>1
<1>7. CASE before = <<U, Z>>
  <2>1. /\ Len(before) = 2
        /\ ms[1] = ProjectEvent(ms[0], U) /\ ms[2] = ProjectEvent(ms[1], Z)
    BY <1>7
  <2>2. /\ ReadModelShape(ms[1]) /\ ThreadExists(ms[1], t)
        /\ ms[1].threads[t].settledOverride = "none"
    BY <1>2, <2>1
  <2> QED BY <1>3, <2>1, <2>2
<1>8. \/ before = <<>> \/ before = <<U>>
      \/ before = <<Z>> /\ th.settledOverride = "none"
      \/ before = <<U, Z>>
  <2>1. <<>> \o <<>> = <<>>
    OBVIOUS
  <2>2. <<U>> \o <<>> = <<U>>
    OBVIOUS
  <2>3. <<>> \o <<Z>> = <<Z>>
    OBVIOUS
  <2>4. <<U>> \o <<Z>> = <<U, Z>>
    BY Pair
  <2> HIDE DEF th
  <2> QED BY <1>1, <2>1, <2>2, <2>3, <2>4, Zenon DEF If
<1> QED BY <1>4, <1>5, <1>6, <1>7, <1>8

\* What is not ordinary in a command is projected onto a thread it fits.
LEMMA OneSpecialEvent ==
    ASSUME NEW t \in ThreadId, NEW before \in Seq(OrdinaryOn(t)), NEW e,
           NEW ms, NEW ts, Projected(before \o <<e>>, ms, ts),
           Agreement(ms[0], ts[0]), ThreadExists(ms[0], t),
           Projectable(ms[Len(before)], e)
    PROVE  AllProjectable(before \o <<e>>, ms)
<1> DEFINE events == before \o <<e>>
<1>1. /\ events \in Seq(OrdinaryOn(t) \cup {e})
      /\ Len(events) = Len(before) + 1
      /\ \A n \in 1..Len(before) : events[n] \in OrdinaryOn(t)
      /\ events[Len(before) + 1] = e
  OBVIOUS
<1>2. OrdinaryOn(t) \subseteq Mild(ms[0])
  BY DEF OrdinaryOn, Mild
<1> HIDE DEF events
<1>3. \A n \in 1..Len(events) :
          events[n] \in Mild(ms[0]) \/ Projectable(ms[n - 1], events[n])
  <2> SUFFICES ASSUME NEW n \in 1..Len(events)
               PROVE  events[n] \in Mild(ms[0]) \/ Projectable(ms[n - 1], events[n])
    OBVIOUS
  <2>1. Len(before) \in Nat
    OBVIOUS
  <2>2. CASE n \in 1..Len(before)
    BY <1>1, <1>2, <2>2
  <2>3. CASE n = Len(before) + 1
    <3>1. n - 1 = Len(before) /\ events[n] = e
      BY <1>1, <2>1, <2>3
    <3> QED BY <3>1
  <2> QED BY <1>1, <2>1, <2>2, <2>3
<1>4. Projected(events, ms, ts)
  BY DEF events
<1>5. AllProjectable(events, ms)
  BY <1>1, <1>3, <1>4, MildEvents
<1> QED BY <1>5 DEF events

\* A message is queued for a thread that was woken.
LEMMA QueueProjectable ==
    ASSUME NEW ms, NEW ts, Agreement(ms[0], ts[0]), NEW c, WellFormed(c),
           c.type = "thread.turn.queue", NEW events, events = DecideCommandOn(c, ms[0]),
           events # Rejected, Projected(events, ms, ts)
    PROVE  AllProjectable(events, ms)
<1> DEFINE t == c.thread
           before == Waking(ms[0].threads[t], t)
           e == TurnQueued(t, c.message, FALSE)
<1>1. ReadModelShape(ms[0]) /\ t \in ThreadId /\ c.message \in MessageId
  BY DEF Agreement, WellFormed, ProjectCommandTypes, MessageCommandTypes
<1>2. ThreadExists(ms[0], t) /\ events = before \o <<e>>
  <2>1. events = DecideTurnQueue(c, ms[0])
    BY DEF DecideCommandOn, DecideTurn, ProjectCommandTypes, ThreadCommandTypes
  <2> QED BY <2>1, Zenon DEF DecideTurnQueue, Guarded
<1>3. before \in Seq(OrdinaryOn(t))
  <2>1. before \in Seq(StillOn(t))
    BY <1>1, WakingEvents DEF ReadModelShape
  <2> QED BY <2>1 DEF StillOn
<1>4. /\ e \in Event /\ ThreadEvent(e)
      /\ e.thread = t /\ e.type = "thread.turn-queued"
  BY <1>1 DEF TurnQueued, ThreadEvent, Event, EventTypes, PlainTypes, Emptying,
              LeavingTypes, SteeringTypes, OtherTypes
<1>5. before = Waking(ms[0].threads[t], t)
  OBVIOUS
<1> HIDE DEF e, before
<1>6. \A n \in 1..Len(before) : ms[n] = ProjectEvent(ms[n - 1], before[n])
  <2>1. \A n \in 1..Len(before) : n \in 1..Len(events) /\ events[n] = before[n]
    BY <1>2, <1>3
  <2> QED BY <2>1 DEF Projected
<1>7. /\ ThreadExists(ms[Len(before)], t)
      /\ ms[Len(before)].threads[t].settledOverride = "none"
  BY <1>1, <1>2, <1>5, <1>6, WokenThread
<1>8. Projectable(ms[Len(before)], e)
  BY <1>4, <1>7 DEF Projectable, Fits, ThreadExists
<1> QED BY <1>1, <1>2, <1>3, <1>8, OneSpecialEvent

\* A session that starts or runs un-settles its thread first.
LEMMA SessionProjectable ==
    ASSUME NEW ms, NEW ts, Agreement(ms[0], ts[0]), NEW c, Suits(c, ms[0]),
           c.type = "thread.session.set", NEW events, events = DecideCommandOn(c, ms[0]),
           events # Rejected, Projected(events, ms, ts)
    PROVE  AllProjectable(events, ms)
<1> DEFINE t == c.thread
           th == ms[0].threads[t]
           U == Unsettled(t, "activity")
           wakes == c.status \in {"starting", "running"} /\ th.settledOverride # "none"
           before == If(wakes, U)
           e == SessionSet(t, c.status, c.turn)
<1>1. /\ ReadModelShape(ms[0]) /\ t \in ThreadId
      /\ c.turn \in MaybeTurn /\ c.status \in StatusType
      /\ c.status # "none"
      /\ c.status = "running" => c.turn # None
      /\ c.status = "starting" => th.session.activeTurnId = None /\ c.turn = None
  BY DEF Agreement, Suits, WellFormed, ProjectCommandTypes, CarryingTurn
<1>2. ThreadExists(ms[0], t) /\ events = before \o <<e>>
  <2>1. events = DecideSessionSet(c, ms[0])
    BY DEF DecideCommandOn, DecideTurn, ProjectCommandTypes, ThreadCommandTypes
  <2> QED BY <2>1, Zenon DEF DecideSessionSet, Guarded
<1>3. /\ e \in Event /\ ThreadEvent(e) /\ e.status = c.status /\ e.turn = c.turn
      /\ e.thread = t /\ e.type = "thread.session-set"
  BY <1>1 DEF SessionSet, ThreadEvent, Event, EventTypes, PlainTypes, Emptying,
              LeavingTypes, SteeringTypes, OtherTypes
<1>4. U \in OrdinaryOn(t) /\ U = Unsettled(t, "activity")
  BY <1>1, StillUnsettled DEF ReasonType, StillOn
<1> HIDE DEF e, U
<1>5. CASE wakes
  <2>1. before = <<U>> /\ before \in Seq(OrdinaryOn(t)) /\ Len(before) = 1
    BY <1>4, <1>5 DEF If
  <2>2. ms[1] = ProjectEvent(ms[0], U)
    <3> HIDE DEF before
    <3>1. events = <<U, e>>
      BY <1>2, <2>1, Pair, Zenon
    <3>2. 1 \in 1..Len(events) /\ events[1] = U
      BY <3>1
    <3> QED BY <3>2 DEF Projected
  <2>3. /\ ThreadExists(ms[1], t) /\ ms[1].threads[t].session = th.session
        /\ ms[1].threads[t].settledOverride = "none"
    BY <1>1, <1>2, <1>4, <2>2, UnsettledStep, ZenonT(30)
  <2> HIDE DEF before, th
  <2>4. Projectable(ms[1], e)
    BY <1>1, <1>3, <2>3 DEF Projectable, Fits, ThreadExists
  <2> QED BY <1>1, <1>2, <2>1, <2>4, OneSpecialEvent
<1>6. CASE ~wakes
  <2>1. before = <<>> /\ before \in Seq(OrdinaryOn(t)) /\ Len(before) = 0
    <3>1. before = <<>>
      BY <1>6, Zenon DEF If
    <3> HIDE DEF before
    <3> QED BY <3>1
  <2>2. c.status \in {"starting", "running"} => th.settledOverride # "settled"
    BY <1>6
  <2> HIDE DEF before
  <2>3. Projectable(ms[0], e)
    BY <1>1, <1>2, <1>3, <2>2 DEF Projectable, Fits, ThreadExists
  <2> QED BY <1>1, <1>2, <2>1, <2>3, OneSpecialEvent
<1> QED BY <1>5, <1>6

\* A request is opened by a session that runs, hence in a thread that is not
\* settled.
LEMMA ActivityProjectable ==
    ASSUME NEW ms, NEW ts, Agreement(ms[0], ts[0]), NEW c, Suits(c, ms[0]),
           c.type = "thread.activity.append", NEW events, events = DecideCommandOn(c, ms[0]),
           events # Rejected, Projected(events, ms, ts)
    PROVE  AllProjectable(events, ms)
<1> DEFINE t == c.thread
           th == ms[0].threads[t]
           e == Activity(t, c.kind, c.request)
<1>1. /\ t \in ThreadId /\ c.kind \in KindType /\ c.request \in RequestId \cup {None}
      /\ OpensRequest(c.kind) => th.session.status = "running"
  BY DEF Suits, WellFormed, ProjectCommandTypes
<1>2. ThreadExists(ms[0], t) /\ events = <<e>>
  <2>1. events = DecideTurn(c, ms[0])
    BY DEF DecideCommandOn, ProjectCommandTypes, ThreadCommandTypes
  <2>2. events = Guarded(ThreadExists(ms[0], t), <<e>>)
    BY <2>1 DEF DecideTurn
  <2> QED BY <2>2, Zenon DEF Guarded
<1>3. OpensRequest(c.kind) => th.settledOverride # "settled"
  <2>1. Agrees(th, RowsOf(ts[0], t))
    BY <1>1 DEF Agreement
  <2>2. SettledQuietly(th, RowsOf(ts[0], t))
    BY <2>1 DEF Agrees
  <2> HIDE DEF th
  <2> QED BY <1>1, <2>2 DEF SettledQuietly
<1>4. /\ e \in Event /\ ThreadEvent(e) /\ e.kind = c.kind
      /\ e.thread = t /\ e.type = "thread.activity-appended"
  BY <1>1 DEF Activity, ThreadEvent, Event, EventTypes, PlainTypes, Emptying,
              LeavingTypes, SteeringTypes, OtherTypes
<1> HIDE DEF e
<1>5. Projectable(ms[0], e)
  BY <1>2, <1>3, <1>4 DEF Projectable, Fits, ThreadExists
<1>6. Len(events) = 1 /\ events[1] = e
  BY <1>2
<1> QED BY <1>5, <1>6 DEF AllProjectable

\* A thread is created once.
LEMMA CreateProjectable ==
    ASSUME NEW ms, NEW c, WellFormed(c),
           c.type = "thread.create", NEW events, events = DecideCommandOn(c, ms[0]),
           events # Rejected
    PROVE  AllProjectable(events, ms)
<1> DEFINE e == [type |-> "thread.created", thread |-> c.thread, project |-> c.project]
<1>1. c.thread \in ThreadId /\ c.project \in ProjectId
  BY DEF WellFormed, ProjectCommandTypes
<1>2. ~ThreadExists(ms[0], c.thread) /\ events = <<e>>
  <2>1. events = DecideThreadCreate(c, ms[0])
    BY DEF DecideCommandOn, DecideThread, ProjectCommandTypes, ThreadCommandTypes
  <2> QED BY <2>1, Zenon DEF DecideThreadCreate, Guarded
<1>3. e \in CreationType /\ e.thread = c.thread
  BY <1>1 DEF CreationType
<1> HIDE DEF e
<1>4. Projectable(ms[0], e)
  BY <1>2, <1>3 DEF Projectable
<1>5. Len(events) = 1 /\ events[1] = e
  BY <1>2
<1> QED BY <1>4, <1>5 DEF AllProjectable

\* A thread that is settled has nothing under way, then loses its pin and its
\* snooze.
LEMMA SettleProjectable ==
    ASSUME NEW ms, NEW ts, Agreement(ms[0], ts[0]), NEW c, WellFormed(c),
           c.type = "thread.settle", NEW events, events = DecideCommandOn(c, ms[0]),
           events # Rejected, Projected(events, ms, ts)
    PROVE  AllProjectable(events, ms)
<1> DEFINE t == c.thread
           th == ms[0].threads[t]
           e == OnThread("thread.settled", t)
           unpins == If(th.pinned, OnThread("thread.unpinned", t))
           wakes == If(th.snoozed, OnThread("thread.unsnoozed", t))
           after == unpins \o wakes
<1>1. ReadModelShape(ms[0]) /\ t \in ThreadId
  BY DEF Agreement, WellFormed, ProjectCommandTypes
<1>2. th \in ThreadType
  BY <1>1 DEF ReadModelShape
<1>3. /\ ThreadExists(ms[0], t)
      /\ th.session.status \notin {"starting", "running"}
      /\ th.openRequests = {}
      /\ DOMAIN th.queuedTurns = {}
      /\ events = <<e>> \o unpins \o wakes
  <2>1. events = DecideThreadSettle(c, ms[0])
    BY DEF DecideCommandOn, DecideThread, ProjectCommandTypes, ThreadCommandTypes
  <2>2. /\ ThreadNotArchived(ms[0], t)
        /\ th.session.status \notin {"starting", "running"}
        /\ th.openRequests = {}
        /\ ~HasQueuedTurnStart(th, c.withinGrace)
        /\ events = <<e>> \o unpins \o wakes
    BY <2>1, Zenon DEF DecideThreadSettle, Guarded
  <2> QED BY <2>2 DEF ThreadNotArchived, HasQueuedTurnStart
<1>4. /\ e \in Event /\ ThreadEvent(e)
      /\ e.thread = t /\ e.type = "thread.settled"
  BY <1>1 DEF OnThread, ThreadEvent, Event, EventTypes, PlainTypes, Emptying,
              LeavingTypes, SteeringTypes, OtherTypes
<1>5. unpins \in Seq(OrdinaryOn(t)) /\ wakes \in Seq(OrdinaryOn(t))
  <2>1. /\ OnThread("thread.unpinned", t) \in OrdinaryOn(t)
        /\ OnThread("thread.unsnoozed", t) \in OrdinaryOn(t)
    BY <1>1, StillOnThread DEF StillOn
  <2> QED BY <1>2, <2>1, MaybeEvent DEF ThreadType
<1> HIDE DEF e, unpins, wakes
<1>6. /\ events \in Seq(OrdinaryOn(t) \cup {e}) /\ events[1] = e
      /\ \A n \in 1..Len(events) : n = 1 \/ events[n] \in OrdinaryOn(t)
  <2>1. after \in Seq(OrdinaryOn(t))
    BY <1>5, MoreEvents
  <2>2. events = <<e>> \o after
    <3>1. /\ <<e>> \in Seq(OrdinaryOn(t) \cup {e}) /\ unpins \in Seq(OrdinaryOn(t) \cup {e})
          /\ wakes \in Seq(OrdinaryOn(t) \cup {e})
      BY <1>5
    <3> QED BY <1>3, <3>1, ConcatAssociative
  <2> HIDE DEF after
  <2>3. <<e>> \o after \in Seq(OrdinaryOn(t) \cup {e}) /\ (<<e>> \o after)[1] = e
    BY <2>1
  <2>4. \A n \in 1..Len(<<e>> \o after) : n = 1 \/ (<<e>> \o after)[n] \in OrdinaryOn(t)
    BY <2>1
  <2> QED BY <2>2, <2>3, <2>4
<1>7. Projectable(ms[0], e)
  BY <1>3, <1>4 DEF Projectable, Fits, ThreadExists
<1>8. OrdinaryOn(t) \subseteq Mild(ms[0])
  BY <1>3 DEF OrdinaryOn, Mild
<1>9. \A n \in 1..Len(events) : events[n] \in Mild(ms[0]) \/ Projectable(ms[n - 1], events[n])
  BY <1>6, <1>7, <1>8
<1> QED BY <1>6, <1>9, MildEvents

\* Whatever command is accepted, its events can be projected one by one.
LEMMA CommandProjectable ==
    ASSUME NEW ms, NEW ts, Agreement(ms[0], ts[0]), NEW c, Suits(c, ms[0]),
           NEW events, events = DecideCommandOn(c, ms[0]),
           events # Rejected, Projected(events, ms, ts)
    PROVE  AllProjectable(events, ms)
<1>1. WellFormed(c) /\ ReadModelShape(ms[0])
  BY DEF Suits, Agreement
<1>2. CASE c.type \in MildCommandTypes
  <2>1. events \in Seq(Mild(ms[0]))
    BY <1>1, <1>2, MildCommands
  <2>2. \A n \in 1..Len(events) : events[n] \in Mild(ms[0])
    BY <2>1
  <2> QED BY <2>1, <2>2, MildEvents
<1>3. CASE c.type = "thread.create"
  BY <1>1, <1>3, CreateProjectable
<1>4. CASE c.type = "thread.settle"
  BY <1>1, <1>4, SettleProjectable
<1>5. CASE c.type = "thread.turn.queue"
  BY <1>1, <1>5, QueueProjectable
<1>6. CASE c.type = "thread.session.set"
  BY <1>6, SessionProjectable
<1>7. CASE c.type = "thread.activity.append"
  BY <1>7, ActivityProjectable
<1> QED BY <1>1, <1>2, <1>3, <1>4, <1>5, <1>6, <1>7 DEF MildCommandTypes, WellFormed

\* The events of a command are a sequence, and only some commands move messages.
LEMMA CommandEvents ==
    ASSUME NEW m, ReadModelShape(m), NEW c, WellFormed(c), DecideCommandOn(c, m) # Rejected
    PROVE  \E S : /\ DecideCommandOn(c, m) \in Seq(S)
                  /\ c.type \notin MovingCommandTypes => \A e \in S : e.type \notin MovingTypes
<1> DEFINE t == c.thread
           th == m.threads[t]
           events == DecideCommandOn(c, m)
<1>1. CASE c.type \in MildCommandTypes \cap MovingCommandTypes
  BY <1>1, MildCommands
<1>2. CASE c.type \in MildCommandTypes \ MovingCommandTypes
  <2>1. events \in Seq(StillMild(m)) /\ \A e \in StillMild(m) : e.type \notin MovingTypes
    BY <1>2, StillCommands DEF StillMild
  <2> QED BY <2>1
<1>3. c.type \notin ProjectCommandTypes => t \in ThreadId /\ th \in ThreadType
  BY DEF WellFormed, ReadModelShape
<1>4. CASE c.type = "thread.create"
  <2>1. events = DecideThreadCreate(c, m)
    BY <1>4 DEF DecideCommandOn, DecideThread, ProjectCommandTypes, ThreadCommandTypes
  <2> DEFINE e == [type |-> "thread.created", thread |-> t, project |-> c.project]
  <2>2. events = <<e>>
    BY <2>1, Zenon DEF DecideThreadCreate, Guarded
  <2>3. e.type \notin MovingTypes
    BY DEF MovingTypes
  <2> HIDE DEF e
  <2>4. events \in Seq({e}) /\ \A x \in {e} : x.type \notin MovingTypes
    BY <2>2, <2>3
  <2> QED BY <2>4
<1>5. CASE c.type = "thread.settle"
  <2> DEFINE e == OnThread("thread.settled", t)
             a == OnThread("thread.unpinned", t)
             b == OnThread("thread.unsnoozed", t)
             S == {e, a, b}
  <2>1. events = DecideThreadSettle(c, m)
    BY <1>5 DEF DecideCommandOn, DecideThread, ProjectCommandTypes, ThreadCommandTypes
  <2>2. events = <<e>> \o If(th.pinned, a) \o If(th.snoozed, b)
    BY <2>1, Zenon DEF DecideThreadSettle, Guarded
  <2>3. th.pinned \in BOOLEAN /\ th.snoozed \in BOOLEAN
    BY <1>3, <1>5 DEF ThreadType, ProjectCommandTypes
  <2>6. \A x \in S : x.type \notin MovingTypes
    BY DEF OnThread, MovingTypes
  <2> HIDE DEF e, a, b
  <2>4. If(th.pinned, a) \in Seq(S) /\ If(th.snoozed, b) \in Seq(S) /\ <<e>> \in Seq(S)
    <3>1. e \in S /\ a \in S /\ b \in S
      OBVIOUS
    <3> HIDE DEF S
    <3> QED BY <2>3, <3>1, MaybeEvent, OneEvent
  <2> HIDE DEF S
  <2>5. events \in Seq(S)
    BY <2>2, <2>4, MoreEvents
  <2> QED BY <2>5, <2>6
<1>6. CASE c.type = "thread.turn.queue"
  <2> DEFINE e == TurnQueued(t, c.message, FALSE)
             S == OrdinaryOn(t) \cup {e}
  <2>1. events = DecideTurnQueue(c, m)
    BY <1>6 DEF DecideCommandOn, DecideTurn, ProjectCommandTypes, ThreadCommandTypes
  <2>2. events = Waking(th, t) \o <<e>>
    BY <2>1, Zenon DEF DecideTurnQueue, Guarded
  <2>3. Waking(th, t) \in Seq(OrdinaryOn(t))
    <3>1. Waking(th, t) \in Seq(StillOn(t))
      BY <1>3, <1>6, WakingEvents DEF ProjectCommandTypes
    <3> QED BY <3>1 DEF StillOn
  <2> HIDE DEF e
  <2>4. Waking(th, t) \in Seq(S) /\ <<e>> \in Seq(S)
    BY <2>3
  <2> HIDE DEF S
  <2>5. events \in Seq(S)
    BY <2>2, <2>4, MoreEvents
  <2> QED BY <1>6, <2>5 DEF MovingCommandTypes
<1>7. CASE c.type = "thread.session.set"
  <2> DEFINE wakes == c.status \in {"starting", "running"} /\ th.settledOverride # "none"
             a == Unsettled(t, "activity")
             e == SessionSet(t, c.status, c.turn)
             S == {a, e}
  <2>1. events = DecideSessionSet(c, m)
    BY <1>7 DEF DecideCommandOn, DecideTurn, ProjectCommandTypes, ThreadCommandTypes
  <2>2. events = If(wakes, a) \o <<e>>
    BY <2>1, Zenon DEF DecideSessionSet, Guarded
  <2>3. wakes \in BOOLEAN
    OBVIOUS
  <2>6. \A x \in S : x.type \notin MovingTypes
    BY DEF Unsettled, SessionSet, MovingTypes
  <2> HIDE DEF e, a, wakes
  <2>4. If(wakes, a) \in Seq(S) /\ <<e>> \in Seq(S)
    <3>1. e \in S /\ a \in S
      OBVIOUS
    <3> HIDE DEF S
    <3> QED BY <2>3, <3>1, MaybeEvent, OneEvent
  <2> HIDE DEF S
  <2>5. events \in Seq(S)
    BY <2>2, <2>4, MoreEvents
  <2> QED BY <2>5, <2>6
<1>8. CASE c.type = "thread.activity.append"
  <2>1. events = DecideTurn(c, m)
    BY <1>8 DEF DecideCommandOn, ProjectCommandTypes, ThreadCommandTypes
  <2>2. events = Guarded(ThreadExists(m, t), <<Activity(t, c.kind, c.request)>>)
    BY <1>8, <2>1 DEF DecideTurn
  <2> DEFINE e == Activity(t, c.kind, c.request)
  <2>3. events = <<e>>
    BY <2>2, Zenon DEF Guarded
  <2>4. e.type \notin MovingTypes
    BY DEF Activity, MovingTypes
  <2> HIDE DEF e
  <2>5. events \in Seq({e}) /\ \A x \in {e} : x.type \notin MovingTypes
    BY <2>3, <2>4
  <2> QED BY <2>5
<1> QED BY <1>1, <1>2, <1>4, <1>5, <1>6, <1>7, <1>8 DEF MildCommandTypes, WellFormed

\* An accepted command keeps the read model and the tables in agreement.
LEMMA AcceptedAgreement ==
    ASSUME NEW m, NEW tb, Agreement(m, tb), NEW c, Suits(c, m),
           NEW events, events = DecideCommandOn(c, m), events # Rejected
    PROVE  Agreement(ProjectEvents(m, events), ApplyEvents(tb, events))
<1>1. PICK S : events \in Seq(S)
  BY CommandEvents DEF Suits, Agreement
<1>2. PICK ms, ts :
         /\ ms[0] = m /\ ts[0] = tb
         /\ \A n \in 1..Len(events) : /\ ms[n] = ProjectEvent(ms[n - 1], events[n])
                                      /\ ts[n] = ApplyAllProjections(ts[n - 1], events[n])
         /\ ms[Len(events)] = ProjectEvents(m, events)
         /\ ts[Len(events)] = ApplyEvents(tb, events)
  BY <1>1, CommandStepByStep, SMTT(30)
<1>3. Projected(events, ms, ts)
  BY <1>2 DEF Projected
<1>4. AllProjectable(events, ms)
  BY <1>2, <1>3, CommandProjectable
<1>5. \A n \in 0..Len(events) : Agreement(ms[n], ts[n])
  BY <1>1, <1>2, <1>3, <1>4, EventsKeepAgreement
<1>6. Len(events) \in 0..Len(events)
  BY <1>1
<1> QED BY <1>2, <1>5, <1>6

-----------------------------------------------------------------------------
(* Every step *)

HoldEntry == [msg : MessageId, thread : ThreadId]

\* What the history knows besides the read model and the tables.
HistoryTyped ==
    /\ started \subseteq TurnId
    /\ recovery \in [hold : Seq(HoldEntry), interrupt : SUBSET ThreadId]

\* The inductive invariant that the theorems below rest on.
HistoryInv == Agreement(live, tables) /\ HistoryTyped

LEMMA AcceptKeepsAgreement ==
    ASSUME Agreement(live, tables), NEW c, Suits(c, live), Accept(c)
    PROVE  Agreement(live', tables')
<1> DEFINE events == DecideCommandOn(c, live)
<1>1. /\ events # Rejected
      /\ live' = ProjectEvents(live, events) /\ tables' = ApplyEvents(tables, events)
  BY DEF Accept
<1>2. events = DecideCommandOn(c, live)
  OBVIOUS
<1> HIDE DEF events
<1>3. Agreement(ProjectEvents(live, events), ApplyEvents(tables, events))
  BY <1>1, <1>2, AcceptedAgreement
<1> QED BY <1>1, <1>3

\* What the rows of a thread look like.
LEMMA RowTypes ==
    ASSUME Agreement(live, tables), NEW t \in ThreadId
    PROVE  /\ DOMAIN Queue(t) \subseteq MessageId
           /\ \A msg \in DOMAIN Queue(t) : Queue(t)[msg].steering \in MaybeTurn
           /\ Pending(t) \subseteq MessageId
           /\ Session(t) \in SessionType
           /\ live.threads[t].session = Session(t)
<1>1. /\ TablesShape(tables) /\ Agrees(live.threads[t], RowsOf(tables, t))
  BY DEF Agreement
<1>2. Queue(t) \in QueueType /\ Session(t) \in SessionType
  BY <1>1 DEF TablesShape, Queue, Session
<1>3. Pending(t) \subseteq MessageId
  <2>1. tables["threadTurns"][t].pending \in Seq(MessageId)
    BY <1>1 DEF TablesShape
  <2> QED BY <2>1 DEF Pending, ToSet
<1>4. live.threads[t].session = Session(t)
  BY <1>1 DEF Agrees, RowsOf, Session
<1>5. Queue(t) \in [DOMAIN Queue(t) -> QueueEntry] /\ DOMAIN Queue(t) \subseteq MessageId
  BY <1>2, QueueShape
<1> QED BY <1>2, <1>3, <1>4, <1>5 DEF QueueEntry

\* Clients send well-formed commands.
LEMMA ClientsSuit ==
    ASSUME HistoryInv, NEW c,
           c \in ProjectCommands \/ \E t \in ThreadId : c \in ThreadCommands(t)
    PROVE  Suits(c, live)
<1> SUFFICES /\ WellFormed(c)
             /\ c.type \notin {"thread.session.set", "thread.activity.append"}
  BY DEF Suits
<1> USE DEF WellFormed, ProjectCommandTypes, ThreadCommandTypes, TurnCommandTypes,
            MessageCommandTypes, CarryingTurn
<1>1. CASE c \in ProjectCommands
  BY <1>1 DEF ProjectCommands
<1>2. ASSUME NEW t \in ThreadId, c \in ThreadCommands(t)
      PROVE  /\ WellFormed(c)
             /\ c.type \notin {"thread.session.set", "thread.activity.append"}
  <2>1. /\ DOMAIN Queue(t) \subseteq MessageId /\ Session(t).activeTurnId \in MaybeTurn
        /\ started \subseteq MaybeTurn /\ None \in MaybeTurn
    BY RowTypes DEF HistoryInv, HistoryTyped, SessionType, MaybeTurn
  <2>2. CASE c \in {Command(type, t) :
                      type \in {"thread.delete", "thread.archive", "thread.unarchive",
                                "thread.unsnooze", "thread.pin", "thread.unpin"}}
    BY <2>2 DEF Command
  <2>3. CASE c \in WithGrace("thread.settle", t) \cup WithGrace("thread.snooze", t)
    BY <2>3 DEF WithGrace
  <2>4. CASE c = [type |-> "thread.unsettle", thread |-> t, reason |-> "user"]
    BY <2>4 DEF ReasonType
  <2>5. CASE c \in OnTurn("thread.completion.acknowledge", t, started)
                   \cup OnTurn("thread.completion.mark-unread", t, started)
                   \cup OnTurn("thread.turn.interrupt", t, {None})
    BY <2>1, <2>5 DEF OnTurn
  <2>6. CASE c \in OnMessages("thread.queued-turn.cancel", t, DOMAIN Queue(t))
                   \cup OnMessages("thread.queued-turn.confirm", t, DOMAIN Queue(t))
    BY <2>1, <2>6 DEF OnMessages
  <2>7. CASE c \in {[type |-> "thread.queued-turn.steer", thread |-> t, message |-> m,
                     turn |-> Session(t).activeTurnId] : m \in DOMAIN Queue(t)}
    BY <2>1, <2>7
  <2> QED BY <1>2, <2>2, <2>3, <2>4, <2>5, <2>6, <2>7 DEF ThreadCommands
<1> QED BY <1>1, <1>2

\* What providers and the reactor set a session to suits it.
LEMMA SessionSuits ==
    ASSUME HistoryInv, NEW t \in ThreadId, NEW status \in StatusType, NEW turn \in MaybeTurn,
           NEW c, c = [type |-> "thread.session.set", thread |-> t, status |-> status,
                       turn |-> turn],
           status # "none",
           status = "running" => turn # None,
           status = "starting" => Session(t).activeTurnId = None /\ turn = None
    PROVE  Suits(c, live)
<1>1. live.threads[t].session = Session(t)
  BY RowTypes DEF HistoryInv
<1>2. /\ c.type = "thread.session.set" /\ c.thread = t /\ c.status = status /\ c.turn = turn
  OBVIOUS
<1>3. WellFormed(c)
  BY <1>2 DEF WellFormed, ProjectCommandTypes, ThreadCommandTypes, TurnCommandTypes,
              MessageCommandTypes, CarryingTurn
<1> QED BY <1>1, <1>2, <1>3 DEF Suits

\* A message of a client, and what the reactor asks of a queued one.
LEMMA MessagesSuit ==
    ASSUME NEW t \in ThreadId, NEW msg \in MessageId,
           NEW type \in {"thread.turn.start", "thread.turn.queue",
                         "thread.turn.hold-for-recovery", "thread.queued-turn.dispatch"},
           NEW c, c = [type |-> type, thread |-> t, message |-> msg]
    PROVE  Suits(c, live)
BY DEF Suits, WellFormed, ProjectCommandTypes, ThreadCommandTypes, TurnCommandTypes,
       MessageCommandTypes, CarryingTurn

LEMMA SteeringSuits ==
    ASSUME NEW t \in ThreadId, NEW msg \in MessageId, NEW turn \in MaybeTurn,
           NEW type \in {"thread.queued-turn.steer.complete", "thread.queued-turn.steer.fail"},
           NEW c, c = [type |-> type, thread |-> t, message |-> msg, turn |-> turn]
    PROVE  Suits(c, live)
BY DEF Suits, WellFormed, ProjectCommandTypes, ThreadCommandTypes, TurnCommandTypes,
       MessageCommandTypes, CarryingTurn

LEMMA ActivitySuits ==
    ASSUME HistoryInv, NEW t \in ThreadId,
           NEW kind \in {"approval.requested", "approval.resolved"},
           NEW request \in RequestId,
           NEW c, c = [type |-> "thread.activity.append", thread |-> t, kind |-> kind,
                       request |-> request],
           OpensRequest(kind) => Session(t).status = "running"
    PROVE  Suits(c, live)
<1>1. live.threads[t].session = Session(t)
  BY RowTypes DEF HistoryInv
<1>2. c.type = "thread.activity.append" /\ c.thread = t /\ c.kind = kind /\ c.request = request
  OBVIOUS
<1>3. WellFormed(c)
  BY <1>2 DEF WellFormed, ProjectCommandTypes, ThreadCommandTypes, TurnCommandTypes,
              MessageCommandTypes, CarryingTurn, KindType
<1> QED BY <1>1, <1>2, <1>3 DEF Suits

\* There are finitely many messages to hold.
LEMMA FinitelyMany == IsFiniteSet(HoldEntry)
<1> DEFINE f == [p \in MessageId \X ThreadId |-> [msg |-> p[1], thread |-> p[2]]]
<1>1. IsFiniteSet(MessageId \X ThreadId)
  BY HistoryAssumption, FS_Product
<1>2. f \in [MessageId \X ThreadId -> HoldEntry]
  BY DEF HoldEntry
<1>3. ASSUME NEW e \in HoldEntry PROVE \E p \in MessageId \X ThreadId : f[p] = e
  <2>1. <<e.msg, e.thread>> \in MessageId \X ThreadId
    BY DEF HoldEntry
  <2>2. f[<<e.msg, e.thread>>] = e
    BY <2>1 DEF HoldEntry
  <2> QED BY <2>1, <2>2
<1> HIDE DEF f
<1>4. f \in Surjection(MessageId \X ThreadId, HoldEntry)
  BY <1>2, <1>3 DEF Surjection
<1> QED BY <1>1, <1>4, FS_Surjection

\* Startup recovery holds messages of threads.
LEMMA RestartRecovers ==
    ASSUME HistoryInv, Restart
    PROVE  recovery' \in [hold : Seq(HoldEntry), interrupt : SUBSET ThreadId]
<1> DEFINE active(t) == Session(t).activeTurnId # None
                        \/ Session(t).status \in {"starting", "running"}
           orphaned == {t \in ThreadId : /\ ThreadExists(live', t)
                                         /\ ~live'.threads[t].deleted
                                         /\ ~live'.threads[t].archived
                                         /\ active(t) \/ Pending(t) # {}}
           toHold(t) == [msg : DOMAIN Queue(t), thread : {t}]
           toReopen(t) == [msg : Pending(t) \ DOMAIN Queue(t), thread : {t}]
           held == UNION {toHold(t) : t \in orphaned}
           pending == UNION {toReopen(t) : t \in orphaned}
<1>1. recovery' = [hold |-> SetToSeq(held) \o SetToSeq(pending),
                   interrupt |-> {t \in orphaned : active(t)}]
  BY DEF Restart
<1>2. \A t \in ThreadId : DOMAIN Queue(t) \subseteq MessageId /\ Pending(t) \subseteq MessageId
  BY RowTypes DEF HistoryInv
<1>3. /\ \A t \in ThreadId : toHold(t) \subseteq HoldEntry /\ toReopen(t) \subseteq HoldEntry
      /\ orphaned \subseteq ThreadId
  BY <1>2 DEF HoldEntry
<1>4. {t \in orphaned : active(t)} \in SUBSET ThreadId
  OBVIOUS
<1> HIDE DEF active, orphaned, toHold, toReopen
<1>5. held \subseteq HoldEntry /\ pending \subseteq HoldEntry
  BY <1>3
<1> HIDE DEF held, pending
<1>6. IsFiniteSet(held) /\ IsFiniteSet(pending)
  BY <1>5, FinitelyMany, FS_Subset
<1>7. SetToSeq(held) \in Seq(held) /\ SetToSeq(pending) \in Seq(pending)
  BY <1>6, SetAsSequence
<1>8. SetToSeq(held) \in Seq(HoldEntry) /\ SetToSeq(pending) \in Seq(HoldEntry)
  BY <1>5, <1>7, SeqMonotonic
<1>9. SetToSeq(held) \o SetToSeq(pending) \in Seq(HoldEntry)
  BY <1>8, MoreEvents
<1> QED BY <1>1, <1>4, <1>9

\* Every step keeps the invariant.
LEMMA HistoryStep ==
    ASSUME HistoryInv, [Next]_vars
    PROVE  HistoryInv'
<1> SUFFICES Agreement(live', tables') /\ HistoryTyped'
  BY DEF HistoryInv
<1>0. Agreement(live, tables) /\ HistoryTyped
  BY DEF HistoryInv
<1>1. ASSUME NEW c, Suits(c, live), Served(c), started' = started
      PROVE  Agreement(live', tables') /\ HistoryTyped'
  BY <1>0, <1>1, AcceptKeepsAgreement DEF Served, HistoryTyped
<1>2. CASE \E c \in ProjectCommands : ClientCommand(c)
  BY <1>1, <1>2, ClientsSuit DEF ClientCommand
<1>3. ASSUME NEW t \in ThreadId, \E c \in ThreadCommands(t) : ClientCommand(c)
      PROVE  Agreement(live', tables') /\ HistoryTyped'
  BY <1>1, <1>3, ClientsSuit DEF ClientCommand
<1>4. ASSUME NEW t \in ThreadId, NEW type \in {"thread.turn.start", "thread.turn.queue"},
             ClientMessage(t, type)
      PROVE  Agreement(live', tables') /\ HistoryTyped'
  <2> DEFINE c == [type |-> type, thread |-> t, message |-> composed + 1]
  <2>1. composed + 1 \in MessageId /\ Served(c) /\ started' = started
    BY <1>4 DEF ClientMessage
  <2>2. Suits(c, live)
    BY <2>1, MessagesSuit
  <2> HIDE DEF c
  <2> QED BY <1>1, <2>1, <2>2
<1>5. ASSUME NEW t \in ThreadId, NEW turn \in TurnId, TurnStarted(t, turn)
      PROVE  Agreement(live', tables') /\ HistoryTyped'
  <2> DEFINE c == [type |-> "thread.session.set", thread |-> t, status |-> "running",
                   turn |-> turn]
  <2>1. Served(c) /\ started' = started \cup {turn}
    BY <1>5 DEF TurnStarted, SetSession
  <2>2. turn \in MaybeTurn /\ turn # None /\ "running" \in StatusType
    BY HistoryAssumption DEF MaybeTurn, StatusType
  <2>3. Suits(c, live)
    BY <2>2, SessionSuits
  <2> HIDE DEF c
  <2> QED BY <1>0, <2>1, <2>3, AcceptKeepsAgreement DEF Served, HistoryTyped
<1>6. ASSUME NEW t \in ThreadId, NEW turn \in TurnId, NEW status \in {"ready", "error"},
             TurnCompleted(t, turn, status)
      PROVE  Agreement(live', tables') /\ HistoryTyped'
  <2> DEFINE c == [type |-> "thread.session.set", thread |-> t, status |-> status,
                   turn |-> None]
  <2>1. Served(c) /\ started' = started
    BY <1>6 DEF TurnCompleted, SetSession
  <2>2. None \in MaybeTurn /\ status \in StatusType /\ status \notin {"none", "running", "starting"}
    BY DEF MaybeTurn, StatusType
  <2>3. Suits(c, live)
    BY <2>2, SessionSuits
  <2> HIDE DEF c
  <2> QED BY <1>1, <2>1, <2>3
<1>7. ASSUME NEW t \in ThreadId, NEW status \in {"starting", "ready", "stopped"},
             SessionMoves(t, status)
      PROVE  Agreement(live', tables') /\ HistoryTyped'
  <2> DEFINE c == [type |-> "thread.session.set", thread |-> t, status |-> status,
                   turn |-> None]
  <2>1. /\ Served(c) /\ started' = started
        /\ status = "starting" => Session(t).activeTurnId = None
    BY <1>7 DEF SessionMoves, SetSession
  <2>2. None \in MaybeTurn /\ status \in StatusType /\ status \notin {"none", "running"}
    BY DEF MaybeTurn, StatusType
  <2>3. Suits(c, live)
    BY <2>1, <2>2, SessionSuits
  <2> HIDE DEF c
  <2> QED BY <1>1, <2>1, <2>3
<1>8. ASSUME NEW t \in ThreadId, RuntimeError(t)
      PROVE  Agreement(live', tables') /\ HistoryTyped'
  <2> DEFINE u == Session(t).activeTurnId
             c == [type |-> "thread.session.set", thread |-> t, status |-> "error", turn |-> u]
  <2>1. Served(c) /\ started' = started
    BY <1>8 DEF RuntimeError, SetSession
  <2>2. u \in MaybeTurn /\ "error" \in StatusType
    BY <1>0, RowTypes DEF StatusType, SessionType
  <2> HIDE DEF u
  <2>3. Suits(c, live)
    BY <2>2, SessionSuits
  <2> HIDE DEF c
  <2> QED BY <1>1, <2>1, <2>3
<1>9. ASSUME NEW t \in ThreadId, NEW kind \in {"approval.requested", "approval.resolved"},
             NEW request \in RequestId, ProviderActivity(t, kind, request)
      PROVE  Agreement(live', tables') /\ HistoryTyped'
  <2> DEFINE c == [type |-> "thread.activity.append", thread |-> t, kind |-> kind,
                   request |-> request]
  <2>1. /\ Served(c) /\ started' = started
        /\ OpensRequest(kind) => Session(t).status = "running"
    BY <1>9 DEF ProviderActivity
  <2>2. Suits(c, live)
    BY <2>1, ActivitySuits
  <2> HIDE DEF c
  <2> QED BY <1>1, <2>1, <2>2
<1>10. ASSUME NEW t \in ThreadId, DispatchQueuedTurn(t)
       PROVE  Agreement(live', tables') /\ HistoryTyped'
  <2>1. PICK msg \in DOMAIN Queue(t) :
           Served([type |-> "thread.queued-turn.dispatch", thread |-> t, message |-> msg])
    BY <1>10 DEF DispatchQueuedTurn
  <2> DEFINE c == [type |-> "thread.queued-turn.dispatch", thread |-> t, message |-> msg]
  <2>2. msg \in MessageId /\ Served(c) /\ started' = started
    BY <1>0, <1>10, <2>1, RowTypes DEF DispatchQueuedTurn
  <2>3. Suits(c, live)
    BY <2>2, MessagesSuit
  <2> HIDE DEF c
  <2> QED BY <1>1, <2>2, <2>3
<1>11. ASSUME NEW t \in ThreadId, NEW msg \in MessageId,
              NEW outcome \in {"thread.queued-turn.steer.complete",
                               "thread.queued-turn.steer.fail"},
              FinishSteering(t, msg, outcome)
       PROVE  Agreement(live', tables') /\ HistoryTyped'
  <2> DEFINE u == Queue(t)[msg].steering
             c == [type |-> outcome, thread |-> t, message |-> msg, turn |-> u]
  <2>1. msg \in DOMAIN Queue(t) /\ Served(c) /\ started' = started
    BY <1>11 DEF FinishSteering
  <2>2. u \in MaybeTurn
    BY <1>0, <2>1, RowTypes
  <2> HIDE DEF u
  <2>3. Suits(c, live)
    BY <2>2, SteeringSuits
  <2> HIDE DEF c
  <2> QED BY <1>1, <2>1, <2>3
<1>12. CASE Restart
  <2>1. live' = LoadCommandReadModel(tables) /\ tables' = tables /\ started' = started
    BY <1>12 DEF Restart
  <2>2. Agreement(live', tables')
    BY <1>0, <2>1, LoadedAgreement
  <2> QED BY <1>0, <1>12, <2>1, <2>2, RestartRecovers DEF HistoryTyped
<1>13. CASE RecoverTurn
  <2> DEFINE next == Head(recovery.hold)
             c == [type |-> "thread.turn.hold-for-recovery", thread |-> next.thread,
                   message |-> next.msg]
  <2>1. /\ recovery.hold # <<>> /\ Accept(c) /\ started' = started
        /\ recovery' = [recovery EXCEPT !.hold = Tail(@)]
    BY <1>13 DEF RecoverTurn
  <2>2. next \in HoldEntry /\ Tail(recovery.hold) \in Seq(HoldEntry)
    BY <1>0, <2>1 DEF HistoryTyped
  <2> HIDE DEF next
  <2>3. next.msg \in MessageId /\ next.thread \in ThreadId
    BY <2>2 DEF HoldEntry
  <2>4. Suits(c, live)
    BY <2>3, MessagesSuit
  <2> HIDE DEF c
  <2>5. Agreement(live', tables')
    BY <1>0, <2>1, <2>4, AcceptKeepsAgreement
  <2> QED BY <1>0, <2>1, <2>2, <2>5 DEF HistoryTyped
<1>14. CASE InterruptSession
  <2>1. PICK t \in recovery.interrupt :
           /\ Accept([type |-> "thread.session.set", thread |-> t, status |-> "interrupted",
                      turn |-> None])
           /\ recovery' = [recovery EXCEPT !.interrupt = @ \ {t}]
    BY <1>14 DEF InterruptSession
  <2> DEFINE c == [type |-> "thread.session.set", thread |-> t, status |-> "interrupted",
                   turn |-> None]
  <2>2. t \in ThreadId /\ started' = started
    BY <1>0, <1>14 DEF InterruptSession, HistoryTyped
  <2>3. None \in MaybeTurn /\ "interrupted" \in StatusType
    BY DEF MaybeTurn, StatusType
  <2>4. Suits(c, live)
    BY <2>2, <2>3, SessionSuits
  <2>5. Accept(c)
    BY <2>1
  <2> HIDE DEF c
  <2>6. Agreement(live', tables')
    BY <1>0, <2>4, <2>5, AcceptKeepsAgreement
  <2> QED BY <1>0, <2>1, <2>2, <2>6 DEF HistoryTyped
<1>15. CASE UNCHANGED vars
  BY <1>0, <1>15 DEF vars, HistoryTyped
<1> QED BY <1>2, <1>3, <1>4, <1>5, <1>6, <1>7, <1>8, <1>9, <1>10, <1>11, <1>12, <1>13, <1>14,
           <1>15 DEF Next

LEMMA HistoryStart == Init => HistoryInv
<1> SUFFICES ASSUME Init PROVE HistoryInv
  OBVIOUS
<1>1. live = InitialReadModel /\ tables = EmptyProjections
  BY DEF Init
<1>2. recovery = [hold |-> <<>>, interrupt |-> {}] /\ started = {}
  BY DEF Init, Recovered
<1> QED BY <1>1, <1>2, NothingYet DEF HistoryInv, HistoryTyped

\* What was accepted, and a restart at any point, leave the read model in
\* memory and the tables in agreement: they know the same threads, settled and
\* with their sessions alike, and all that is queued in SQL is queued in
\* memory.
THEOREM MemoryAgreesWithTables == Spec => []HistoryInv
BY HistoryStart, HistoryStep, PTL DEF Spec

\* A turn is shown running only while its session runs it, and alone
\* (ProjectionPipeline's turns, which thread.session-set settles), for any
\* commands of clients.
THEOREM RunningTurnsAreActive == Spec => []RunningTurnIsActive
<1>1. HistoryInv => RunningTurnIsActive
  <2> SUFFICES ASSUME HistoryInv, NEW t \in ThreadId
               PROVE  LET turns == tables["threadTurns"][t].turns IN
                      \A turn \in DOMAIN turns :
                          turns[turn] = "running" =>
                              Session(t) = [status |-> "running", activeTurnId |-> turn]
    BY DEF RunningTurnIsActive
  <2>1. RunningIsActive(RowsOf(tables, t))
    BY DEF HistoryInv, Agreement, Agrees
  <2> QED BY <2>1 DEF RunningIsActive, RowsOf, Session
<1> QED BY <1>1, MemoryAgreesWithTables, PTL

\* A settled thread has no session at work, no open request, and nothing
\* queued that could start without its user's consent: what the decider
\* checks when it settles a thread stays true until the thread is un-settled.
THEOREM SettledThreadsAreQuiet == Spec => []SettledIsQuiet
<1>1. HistoryInv => SettledIsQuiet
  <2> SUFFICES ASSUME HistoryInv, NEW t \in ThreadId,
                      live.threads[t].settledOverride = "settled"
               PROVE  /\ live.threads[t].session.status \notin {"starting", "running"}
                      /\ live.threads[t].openRequests = {}
                      /\ \A msg \in DOMAIN live.threads[t].queuedTurns :
                            live.threads[t].queuedTurns[msg].held
    BY DEF SettledIsQuiet
  <2>1. SettledQuietly(live.threads[t], RowsOf(tables, t))
    BY DEF HistoryInv, Agreement, Agrees
  <2> QED BY <2>1 DEF SettledQuietly
<1> QED BY <1>1, MemoryAgreesWithTables, PTL

-----------------------------------------------------------------------------
(* Where the messages are *)

QueueIn(tb, t) == DOMAIN tb["threadQueuedTurns"][t]
PendingIn(tb, t) == ToSet(tb["threadTurns"][t].pending)

\* An event that brings a message to a place, queue or turns about to start.
Brings(e, type, t, k) == e.type = type /\ e.thread = t /\ e.message = k

\* The queue of a thread after an event on it.
LEMMA QueueAfterEvent ==
    ASSUME NEW q \in QueueType, NEW e, ThreadEvent(e), NEW k
    PROVE  /\ k \in DOMAIN QueueRowAfter(q, e) /\ k \notin DOMAIN q =>
                 e.type = "thread.turn-queued" /\ e.message = k
           /\ e.type \in LeavingTypes => e.message \notin DOMAIN QueueRowAfter(q, e)
           /\ e.type = "thread.turn-queued" =>
                 DOMAIN QueueRowAfter(q, e) = DOMAIN q \cup {e.message}
<1> USE DEF LeavingTypes, SteeringTypes, Emptying
<1>1. CASE e.type = "thread.turn-queued"
  <2> DEFINE entry == [held |-> e.held, steering |-> None]
  <2>1. entry \in QueueEntry /\ e.message \in MessageId
    BY <1>1 DEF MaybeTurn, ThreadEvent, QueueEntry
  <2>2. QueueRowAfter(q, e) = With(q, e.message, entry)
    BY <1>1 DEF QueueRowAfter
  <2> HIDE DEF entry
  <2>3. DOMAIN With(q, e.message, entry) = DOMAIN q \cup {e.message}
    BY DEF With
  <2> QED BY <1>1, <2>2, <2>3
<1>2. CASE e.type \in LeavingTypes
  <2>1. QueueRowAfter(q, e) = Without(q, e.message)
    BY <1>2 DEF QueueRowAfter
  <2>2. DOMAIN Without(q, e.message) = DOMAIN q \ {e.message}
    BY MessageLeaves
  <2> QED BY <1>2, <2>1, <2>2
<1>3. CASE e.type \in SteeringTypes
  <2>1. \E u \in MaybeTurn : QueueRowAfter(q, e) = WithSteering(q, e.message, u)
    BY <1>3 DEF ThreadEvent, QueueRowAfter, MaybeTurn
  <2>2. DOMAIN QueueRowAfter(q, e) = DOMAIN q
    BY <2>1, MessageSteered
  <2> QED BY <1>3, <2>2
<1>4. CASE e.type \notin LeavingTypes \cup SteeringTypes \cup {"thread.turn-queued"}
  <2>1. QueueRowAfter(q, e) \in {<<>>, q}
    BY <1>4 DEF QueueRowAfter
  <2> QED BY <1>4, <2>1, EmptyQueue
<1> QED BY <1>1, <1>2, <1>3, <1>4

\* Its turns about to start.
LEMMA PendingAfterEvent ==
    ASSUME NEW pending \in Seq(MessageId), NEW e, ThreadEvent(e), NEW k
    PROVE  /\ k \in ToSet(PendingRowAfter(pending, e)) /\ k \notin ToSet(pending) =>
                 e.type = "thread.turn-start-requested" /\ e.message = k
           /\ e.type = "thread.turn-queued" /\ e.held =>
                 ToSet(PendingRowAfter(pending, e)) = ToSet(pending) \ {e.message}
<1>1. CASE e.type = "thread.turn-start-requested"
  <2>1. e.message \in MessageId /\ PendingRowAfter(pending, e) = Append(pending, e.message)
    BY <1>1 DEF ThreadEvent, PendingRowAfter
  <2>2. ToSet(Append(pending, e.message)) = ToSet(pending) \cup {e.message}
    BY <2>1, AppendedRange
  <2> QED BY <1>1, <2>1, <2>2
<1>2. CASE e.type = "thread.turn-queued" /\ e.held
  <2>1. PendingRowAfter(pending, e) = DeletePending(pending, e.message)
    BY <1>2 DEF PendingRowAfter
  <2>2. ToSet(DeletePending(pending, e.message)) = ToSet(pending) \ {e.message}
    BY PendingDeleted
  <2> QED BY <1>2, <2>1, <2>2
<1>3. CASE e.type = "thread.session-set" /\ StartsTurn(e)
  <2>1. PendingRowAfter(pending, e) = DeletePending(pending, Head(pending))
    BY <1>3 DEF PendingRowAfter
  <2>2. ToSet(DeletePending(pending, Head(pending))) = ToSet(pending) \ {Head(pending)}
    BY PendingDeleted
  <2> QED BY <1>3, <2>1, <2>2
<1>4. CASE /\ e.type # "thread.turn-start-requested"
           /\ ~(e.type = "thread.turn-queued" /\ e.held)
           /\ ~(e.type = "thread.session-set" /\ StartsTurn(e))
  BY <1>4 DEF PendingRowAfter
<1> QED BY <1>1, <1>2, <1>3, <1>4

\* An event brings messages only to the place it names.
LEMMA PlacesAfterEvent ==
    ASSUME NEW m, NEW tb, Agreement(m, tb), NEW e, Projectable(m, e), NEW next,
           next = ApplyAllProjections(tb, e), NEW t \in ThreadId, NEW k
    PROVE  /\ k \in QueueIn(next, t) => \/ k \in QueueIn(tb, t)
                                        \/ Brings(e, "thread.turn-queued", t, k)
           /\ k \in PendingIn(next, t) => \/ k \in PendingIn(tb, t)
                                          \/ Brings(e, "thread.turn-start-requested", t, k)
           /\ e.type \in LeavingTypes /\ e.thread = t /\ e.message = k => k \notin QueueIn(next, t)
<1> DEFINE q == tb["threadQueuedTurns"]
           p == tb["threadTurns"]
           nq == next["threadQueuedTurns"]
           np == next["threadTurns"]
<1>1. /\ TablesShape(tb)
      /\ nq = ApplyThreadQueuedTurns(q, e) /\ np = ApplyThreadTurns(p, e)
  BY TableByTable DEF Agreement, TablesShape
<1>2. /\ q \in [ThreadId -> QueueType] /\ TurnTableShape(p)
      /\ p[t].pending \in Seq(MessageId) /\ q[t] \in QueueType
  BY <1>1 DEF TablesShape, TurnTableShape
<1> HIDE DEF q, p, nq, np
<1> SUFFICES /\ k \in DOMAIN nq[t] => \/ k \in DOMAIN q[t]
                                      \/ Brings(e, "thread.turn-queued", t, k)
             /\ k \in ToSet(np[t].pending) => \/ k \in ToSet(p[t].pending)
                                              \/ Brings(e, "thread.turn-start-requested", t, k)
             /\ e.type \in LeavingTypes /\ e.thread = t /\ e.message = k => k \notin DOMAIN nq[t]
  BY DEF QueueIn, PendingIn, q, p, nq, np
<1>3. CASE e \in ProjectEventType \cup CreationType
  <2>1. e.type \in {"project.created", "project.deleted", "thread.created"}
    BY <1>3 DEF ProjectEventType, CreationType
  <2>2. nq = q /\ np = p /\ e.type \notin LeavingTypes
    BY <1>1, <2>1 DEF ApplyThreadQueuedTurns, ApplyThreadTurns, LeavingTypes
  <2> QED BY <2>2
<1>4. CASE ThreadEvent(e) /\ e.thread = t
  <2>1. nq[t] = QueueRowAfter(q[t], e)
    BY <1>1, <1>2, <1>4, QueueRows
  <2>2. np[t].pending = PendingRowAfter(p[t].pending, e)
    BY <1>1, <1>2, <1>4, TurnRows
  <2>3. /\ k \in DOMAIN QueueRowAfter(q[t], e) /\ k \notin DOMAIN q[t] =>
              e.type = "thread.turn-queued" /\ e.message = k
        /\ e.type \in LeavingTypes => e.message \notin DOMAIN QueueRowAfter(q[t], e)
    BY <1>2, <1>4, QueueAfterEvent
  <2>4. k \in ToSet(PendingRowAfter(p[t].pending, e)) /\ k \notin ToSet(p[t].pending) =>
            e.type = "thread.turn-start-requested" /\ e.message = k
    BY <1>2, <1>4, PendingAfterEvent
  <2> QED BY <1>4, <2>1, <2>2, <2>3, <2>4 DEF Brings
<1>5. CASE ThreadEvent(e) /\ e.thread # t
  <2>1. nq[t] = q[t]
    BY <1>1, <1>2, <1>5, QueueRows
  <2>2. np[t] = p[t]
    BY <1>1, <1>2, <1>5, TurnRows
  <2> QED BY <1>5, <2>1, <2>2
<1> QED BY <1>3, <1>4, <1>5 DEF Projectable

\* What a message that is held leaves: it is queued, and not about to start.
LEMMA PlacesAfterHold ==
    ASSUME NEW tb, TablesShape(tb), NEW e, ThreadEvent(e), e.type = "thread.turn-queued",
           e.held, NEW next, next = ApplyAllProjections(tb, e), NEW t \in ThreadId
    PROVE  /\ QueueIn(next, t) = IF t = e.thread THEN QueueIn(tb, t) \cup {e.message}
                                 ELSE QueueIn(tb, t)
           /\ PendingIn(next, t) = IF t = e.thread THEN PendingIn(tb, t) \ {e.message}
                                   ELSE PendingIn(tb, t)
<1> DEFINE q == tb["threadQueuedTurns"]
           p == tb["threadTurns"]
           nq == next["threadQueuedTurns"]
           np == next["threadTurns"]
<1>1. nq = ApplyThreadQueuedTurns(q, e) /\ np = ApplyThreadTurns(p, e)
  <2>1. DOMAIN tb = ToSet(AllProjectors)
    BY DEF TablesShape
  <2> QED BY <2>1, TableByTable
<1>2. /\ q \in [ThreadId -> QueueType] /\ TurnTableShape(p)
      /\ p[t].pending \in Seq(MessageId) /\ q[t] \in QueueType
  BY DEF TablesShape, TurnTableShape
<1> HIDE DEF q, p, nq, np
<1> SUFFICES /\ DOMAIN nq[t] = IF t = e.thread THEN DOMAIN q[t] \cup {e.message}
                               ELSE DOMAIN q[t]
             /\ ToSet(np[t].pending) = IF t = e.thread THEN ToSet(p[t].pending) \ {e.message}
                                       ELSE ToSet(p[t].pending)
  BY DEF QueueIn, PendingIn, q, p, nq, np
<1>3. CASE e.thread = t
  <2>1. nq[t] = QueueRowAfter(q[t], e)
    BY <1>1, <1>2, <1>3, QueueRows
  <2>2. np[t].pending = PendingRowAfter(p[t].pending, e)
    BY <1>1, <1>2, <1>3, TurnRows
  <2>3. DOMAIN QueueRowAfter(q[t], e) = DOMAIN q[t] \cup {e.message}
    BY <1>2, QueueAfterEvent
  <2>4. ToSet(PendingRowAfter(p[t].pending, e)) = ToSet(p[t].pending) \ {e.message}
    BY <1>2, PendingAfterEvent
  <2> QED BY <1>3, <2>1, <2>2, <2>3, <2>4
<1>4. CASE e.thread # t
  <2>1. nq[t] = q[t]
    BY <1>1, <1>2, <1>4, QueueRows
  <2>2. np[t] = p[t]
    BY <1>1, <1>2, <1>4, TurnRows
  <2> QED BY <1>4, <2>1, <2>2
<1> QED BY <1>3, <1>4

\* Events that do not bring a message to a place leave it where it was, or
\* take it away.
LEMMA PlacesAlong ==
    ASSUME NEW S, NEW events \in Seq(S), NEW ms, NEW ts, Projected(events, ms, ts),
           AllProjectable(events, ms), Agreement(ms[0], ts[0]),
           NEW a \in 0..Len(events), NEW t \in ThreadId, NEW k
    PROVE  /\ \/ \E i \in (a + 1)..Len(events) : Brings(events[i], "thread.turn-queued", t, k)
              \/ k \in QueueIn(ts[Len(events)], t) => k \in QueueIn(ts[a], t)
           /\ \/ \E i \in (a + 1)..Len(events) :
                    Brings(events[i], "thread.turn-start-requested", t, k)
              \/ k \in PendingIn(ts[Len(events)], t) => k \in PendingIn(ts[a], t)
<1> DEFINE L == Len(events)
           Q == {n \in a..L : k \in QueueIn(ts[n], t)}
           P == {n \in a..L : k \in PendingIn(ts[n], t)}
<1>1. L \in Nat /\ a \in Nat /\ a <= L /\ Q \subseteq Nat /\ P \subseteq Nat
  OBVIOUS
<1>2. \A n \in 1..L : /\ Agreement(ms[n - 1], ts[n - 1]) /\ Projectable(ms[n - 1], events[n])
                      /\ ts[n] = ApplyAllProjections(ts[n - 1], events[n])
  BY EventsKeepAgreement DEF Projected, AllProjectable
<1>3. ASSUME NEW n \in 1..L
      PROVE  /\ k \in QueueIn(ts[n], t) => \/ k \in QueueIn(ts[n - 1], t)
                                           \/ Brings(events[n], "thread.turn-queued", t, k)
             /\ k \in PendingIn(ts[n], t) =>
                    \/ k \in PendingIn(ts[n - 1], t)
                    \/ Brings(events[n], "thread.turn-start-requested", t, k)
  BY <1>2, PlacesAfterEvent
<1>4. ASSUME L \in Q, a \notin Q
      PROVE  \E i \in (a + 1)..L : Brings(events[i], "thread.turn-queued", t, k)
  <2>1. PICK n \in Q : \A i \in Q : n <= i
    <3> HIDE DEF Q
    <3> QED BY <1>1, <1>4, LeastOf
  <2>2. /\ n \in (a + 1)..L /\ n \in 1..L /\ n - 1 \in a..L /\ n - 1 \notin Q
        /\ k \in QueueIn(ts[n], t)
    BY <1>1, <1>4, <2>1
  <2> QED BY <1>3, <2>2
<1>5. ASSUME L \in P, a \notin P
      PROVE  \E i \in (a + 1)..L : Brings(events[i], "thread.turn-start-requested", t, k)
  <2>1. PICK n \in P : \A i \in P : n <= i
    <3> HIDE DEF P
    <3> QED BY <1>1, <1>5, LeastOf
  <2>2. /\ n \in (a + 1)..L /\ n \in 1..L /\ n - 1 \in a..L /\ n - 1 \notin P
        /\ k \in PendingIn(ts[n], t)
    BY <1>1, <1>5, <2>1
  <2> QED BY <1>3, <2>2
<1>6. /\ (k \in QueueIn(ts[L], t)) = (L \in Q) /\ (k \in QueueIn(ts[a], t)) = (a \in Q)
      /\ (k \in PendingIn(ts[L], t)) = (L \in P) /\ (k \in PendingIn(ts[a], t)) = (a \in P)
  BY <1>1
<1> HIDE DEF Q, P
<1> QED BY <1>4, <1>5, <1>6

\* The same of a command as a whole.
LEMMA CommandTrace ==
    ASSUME NEW m, NEW tb, Agreement(m, tb), NEW c, Suits(c, m),
           NEW events, events = DecideCommandOn(c, m), events # Rejected
    PROVE  \E S, ms, ts :
              /\ events \in Seq(S) /\ Projected(events, ms, ts) /\ AllProjectable(events, ms)
              /\ Agreement(ms[0], ts[0]) /\ ms[0] = m /\ ts[0] = tb
              /\ ms[Len(events)] = ProjectEvents(m, events)
              /\ ts[Len(events)] = ApplyEvents(tb, events)
<1>1. PICK S : events \in Seq(S)
  BY CommandEvents DEF Suits, Agreement
<1>2. PICK ms, ts :
         /\ ms[0] = m /\ ts[0] = tb
         /\ \A n \in 1..Len(events) : /\ ms[n] = ProjectEvent(ms[n - 1], events[n])
                                      /\ ts[n] = ApplyAllProjections(ts[n - 1], events[n])
         /\ ms[Len(events)] = ProjectEvents(m, events)
         /\ ts[Len(events)] = ApplyEvents(tb, events)
  BY <1>1, CommandStepByStep, SMTT(30)
<1>3. Projected(events, ms, ts)
  BY <1>2 DEF Projected
<1>4. AllProjectable(events, ms)
  BY <1>2, <1>3, CommandProjectable
<1> QED BY <1>1, <1>2, <1>3, <1>4

LEMMA CommandPlaces ==
    ASSUME NEW m, NEW tb, Agreement(m, tb), NEW c, Suits(c, m),
           NEW events, events = DecideCommandOn(c, m), events # Rejected,
           NEW next, next = ApplyEvents(tb, events), NEW t \in ThreadId, NEW k
    PROVE  /\ \/ \E i \in 1..Len(events) : Brings(events[i], "thread.turn-queued", t, k)
              \/ k \in QueueIn(next, t) => k \in QueueIn(tb, t)
           /\ \/ \E i \in 1..Len(events) :
                    Brings(events[i], "thread.turn-start-requested", t, k)
              \/ k \in PendingIn(next, t) => k \in PendingIn(tb, t)
<1>1. PICK S, ms, ts :
         /\ events \in Seq(S) /\ Projected(events, ms, ts) /\ AllProjectable(events, ms)
         /\ Agreement(ms[0], ts[0]) /\ ts[0] = tb
         /\ ts[Len(events)] = ApplyEvents(tb, events)
  BY CommandTrace
<1>2. 0 \in 0..Len(events) /\ 0 + 1 = 1
  BY <1>1
<1> QED BY <1>1, <1>2, PlacesAlong

\* A message that leaves the queue first, and is not queued again, has left it.
LEMMA MessageGone ==
    ASSUME NEW m, NEW tb, Agreement(m, tb), NEW c, Suits(c, m),
           NEW events, events = DecideCommandOn(c, m), events # Rejected,
           NEW next, next = ApplyEvents(tb, events), NEW t \in ThreadId, NEW k,
           events[1].type \in LeavingTypes, events[1].thread = t, events[1].message = k,
           \A i \in 1..Len(events) : events[i].type # "thread.turn-queued"
    PROVE  k \notin QueueIn(next, t)
<1>1. PICK S, ms, ts :
         /\ events \in Seq(S) /\ Projected(events, ms, ts) /\ AllProjectable(events, ms)
         /\ Agreement(ms[0], ts[0]) /\ ts[0] = tb
         /\ ts[Len(events)] = ApplyEvents(tb, events)
  BY CommandTrace
<1>2. 1 \in 0..Len(events) /\ 1 \in 1..Len(events) /\ 1 - 1 = 0
  BY <1>1 DEF Rejected
<1>3. Projectable(ms[0], events[1]) /\ ts[1] = ApplyAllProjections(ts[0], events[1])
  BY <1>1, <1>2 DEF Projected, AllProjectable
<1>4. k \notin QueueIn(ts[1], t)
  BY <1>1, <1>3, PlacesAfterEvent
<1>5. ~\E i \in (1 + 1)..Len(events) : Brings(events[i], "thread.turn-queued", t, k)
  BY <1>1 DEF Brings
<1> QED BY <1>1, <1>2, <1>4, <1>5, PlacesAlong

-----------------------------------------------------------------------------
(* How often messages are handed over *)

HandedIn(events, msg) == Cardinality({i \in DOMAIN events : HandsOver(events[i], msg)})

LEMMA HandedNowhere ==
    ASSUME NEW S, NEW events \in Seq(S), NEW msg,
           \A i \in 1..Len(events) : ~HandsOver(events[i], msg)
    PROVE  HandedIn(events, msg) = 0
<1>1. {i \in DOMAIN events : HandsOver(events[i], msg)} = {}
  OBVIOUS
<1> QED BY <1>1, FS_EmptySet DEF HandedIn

\* A command that moves a message hands over that message or none.
LEMMA HandedByMove ==
    ASSUME NEW S, NEW events \in Seq(S), NEW type \in MovingTypes, NEW t, NEW k,
           Moves(events, type, t, k), NEW msg
    PROVE  HandedIn(events, msg) = IF type # "thread.turn-queued" /\ msg = k THEN 1 ELSE 0
<1>1. PICK j \in 1..Len(events) :
        /\ events[j].type = type /\ events[j].message = k
        /\ \A i \in 1..Len(events) : i # j => events[i].type \notin MovingTypes
  BY DEF Moves
<1>2. ASSUME NEW i \in 1..Len(events), HandsOver(events[i], msg)
      PROVE  i = j /\ type # "thread.turn-queued" /\ msg = k
  BY <1>1, <1>2 DEF HandsOver, MovingTypes
<1>3. CASE type # "thread.turn-queued" /\ msg = k
  <2>1. HandsOver(events[j], msg)
    BY <1>1, <1>3 DEF HandsOver, MovingTypes
  <2>2. {i \in DOMAIN events : HandsOver(events[i], msg)} = {j}
    BY <1>2, <2>1
  <2> QED BY <1>3, <2>2, FS_Singleton DEF HandedIn
<1>4. CASE ~(type # "thread.turn-queued" /\ msg = k)
  BY <1>2, <1>4, HandedNowhere
<1> QED BY <1>3, <1>4

-----------------------------------------------------------------------------
(* A message is in one place, and handed over once *)

Placed(tb, t) == QueueIn(tb, t) \cup PendingIn(tb, t)

\* A message is queued or about to start, on one thread.
OnePlace(tb) ==
    \A t \in ThreadId :
        /\ QueueIn(tb, t) \cap PendingIn(tb, t) = {}
        /\ \A u \in ThreadId \ {t} : Placed(tb, t) \cap Placed(tb, u) = {}

\* What was handed over is accounted for; what is queued has yet to be handed
\* over (again); a message that was not written is nowhere.
Counted(tb, hd, ro, written) ==
    /\ hd \in [MessageId -> Nat] /\ ro \in [MessageId -> Nat] /\ written \in Nat
    /\ \A k \in MessageId : hd[k] <= 1 + ro[k] /\ (k > written => hd[k] = 0)
    /\ \A t \in ThreadId : /\ \A k \in Placed(tb, t) : k <= written
                           /\ \A k \in QueueIn(tb, t) : hd[k] <= ro[k]

\* What the recovery will hold is still where it was found.
HoldsPlaced ==
    \A i \in 1..Len(recovery.hold) :
        recovery.hold[i].msg \in Placed(tables, recovery.hold[i].thread)

Accounted == OnePlace(tables) /\ Counted(tables, handed, reopened, composed)

\* The inductive invariant of MessageHandedOnce.
HandingInv == HistoryInv /\ Accounted /\ HoldsPlaced

\* One message is moved or handed over; the others at most leave their place.
LEMMA MovedOnce ==
    ASSUME NEW tb, NEW hd, NEW ro, NEW written, NEW tb2, NEW hd2, NEW ro2, NEW written2,
           OnePlace(tb), Counted(tb, hd, ro, written),
           \A u \in ThreadId : Placed(tb, u) \subseteq MessageId,
           \A u \in ThreadId : Placed(tb2, u) \subseteq MessageId,
           NEW k \in MessageId, NEW t \in ThreadId,
           hd2 \in [MessageId -> Nat], ro2 \in [MessageId -> Nat],
           written2 \in Nat, written <= written2, k <= written2,
           \A x \in MessageId \ {k} : hd2[x] = hd[x] /\ ro2[x] = ro[x],
           \A u \in ThreadId : \A x \in MessageId \ {k} :
               /\ x \in QueueIn(tb2, u) => x \in QueueIn(tb, u)
               /\ x \in PendingIn(tb2, u) => x \in PendingIn(tb, u),
           \A u \in ThreadId \ {t} : k \notin Placed(tb2, u),
           ~(k \in QueueIn(tb2, t) /\ k \in PendingIn(tb2, t)),
           hd2[k] <= 1 + ro2[k],
           k \in QueueIn(tb2, t) => hd2[k] <= ro2[k]
    PROVE  OnePlace(tb2) /\ Counted(tb2, hd2, ro2, written2)
<1>1. \A x \in MessageId : x \in Nat /\ hd2[x] \in Nat /\ ro2[x] \in Nat
  BY HistoryAssumption
<1>2. OnePlace(tb2)
  <2> SUFFICES ASSUME NEW u \in ThreadId
               PROVE  /\ QueueIn(tb2, u) \cap PendingIn(tb2, u) = {}
                      /\ \A v \in ThreadId \ {u} : Placed(tb2, u) \cap Placed(tb2, v) = {}
    BY DEF OnePlace
  <2>1. QueueIn(tb2, u) \cap PendingIn(tb2, u) = {}
    BY DEF OnePlace, Placed
  <2>2. ASSUME NEW v \in ThreadId \ {u}, NEW x \in Placed(tb2, u) \cap Placed(tb2, v)
        PROVE  FALSE
    <3>1. CASE x = k
      BY <2>2, <3>1
    <3>2. CASE x # k
      <4>1. x \in MessageId
        BY <2>2
      <4>2. x \in Placed(tb, u) \cap Placed(tb, v)
        BY <2>2, <3>2, <4>1 DEF Placed
      <4> QED BY <2>2, <4>2 DEF OnePlace
    <3> QED BY <3>1, <3>2
  <2> QED BY <2>1, <2>2
<1>3. ASSUME NEW x \in MessageId
      PROVE  hd2[x] <= 1 + ro2[x] /\ (x > written2 => hd2[x] = 0)
  <2>1. CASE x = k
    BY <1>1, <2>1
  <2>2. CASE x # k
    BY <1>1, <2>2 DEF Counted
  <2> QED BY <2>1, <2>2
<1>4. ASSUME NEW u \in ThreadId, NEW x \in Placed(tb2, u)
      PROVE  x <= written2 /\ (x \in QueueIn(tb2, u) => hd2[x] <= ro2[x])
  <2>1. x \in MessageId
    OBVIOUS
  <2>2. CASE x = k
    BY <2>2
  <2>3. CASE x # k
    <3>1. /\ x \in Placed(tb, u)
          /\ x \in QueueIn(tb2, u) => x \in QueueIn(tb, u)
          /\ hd2[x] = hd[x] /\ ro2[x] = ro[x]
      BY <2>1, <2>3 DEF Placed
    <3>2. x <= written /\ (x \in QueueIn(tb, u) => hd[x] <= ro[x]) /\ written \in Nat
      BY <3>1 DEF Counted
    <3> QED BY <1>1, <2>1, <3>1, <3>2
  <2> QED BY <2>2, <2>3
<1>5. Counted(tb2, hd2, ro2, written2)
  BY <1>3, <1>4 DEF Counted, Placed
<1> QED BY <1>2, <1>5

\* One message is moved, and not handed over.
MovedTo(tb, hd, ro, tb2, ro2, k, t) ==
    /\ ro2 \in [MessageId -> Nat]
    /\ \A u \in ThreadId : Placed(tb, u) \subseteq MessageId
    /\ \A u \in ThreadId : Placed(tb2, u) \subseteq MessageId
    /\ \A x \in MessageId \ {k} : ro2[x] = ro[x]
    /\ \A u \in ThreadId : \A x \in MessageId \ {k} :
          /\ x \in QueueIn(tb2, u) => x \in QueueIn(tb, u)
          /\ x \in PendingIn(tb2, u) => x \in PendingIn(tb, u)
    /\ \A u \in ThreadId \ {t} : k \notin Placed(tb2, u)
    /\ ~(k \in QueueIn(tb2, t) /\ k \in PendingIn(tb2, t))
    /\ hd[k] <= 1 + ro2[k]
    /\ k \in QueueIn(tb2, t) => hd[k] <= ro2[k]

LEMMA MovedWithoutHanding ==
    ASSUME NEW tb, NEW hd, NEW ro, NEW written, NEW tb2, NEW ro2,
           NEW k \in MessageId, NEW t \in ThreadId,
           OnePlace(tb), Counted(tb, hd, ro, written), k <= written,
           MovedTo(tb, hd, ro, tb2, ro2, k, t)
    PROVE  OnePlace(tb2) /\ Counted(tb2, hd, ro2, written)
<1>1. hd \in [MessageId -> Nat] /\ written \in Nat
  BY DEF Counted
<1>2. PICK hd2, written2 : hd2 = hd /\ written2 = written
  OBVIOUS
<1>3. /\ ro2 \in [MessageId -> Nat]
      /\ \A u \in ThreadId : Placed(tb, u) \subseteq MessageId
      /\ \A u \in ThreadId : Placed(tb2, u) \subseteq MessageId
      /\ \A u \in ThreadId : \A x \in MessageId \ {k} :
            /\ x \in QueueIn(tb2, u) => x \in QueueIn(tb, u)
            /\ x \in PendingIn(tb2, u) => x \in PendingIn(tb, u)
      /\ \A u \in ThreadId \ {t} : k \notin Placed(tb2, u)
      /\ ~(k \in QueueIn(tb2, t) /\ k \in PendingIn(tb2, t))
  BY DEF MovedTo
<1>4. /\ \A x \in MessageId \ {k} : hd2[x] = hd[x] /\ ro2[x] = ro[x]
      /\ hd2[k] <= 1 + ro2[k]
      /\ k \in QueueIn(tb2, t) => hd2[k] <= ro2[k]
      /\ hd2 \in [MessageId -> Nat]
  BY <1>1, <1>2 DEF MovedTo
<1>5. written2 \in Nat /\ written <= written2 /\ k <= written2
  BY <1>1, <1>2
<1>6. OnePlace(tb2) /\ Counted(tb2, hd2, ro2, written2)
  BY <1>3, <1>4, <1>5, MovedOnce
<1> QED BY <1>2, <1>6

\* Nothing is moved or handed over.
LEMMA StillAccounted ==
    ASSUME NEW tb, NEW tb2, NEW hd, NEW ro, NEW written,
           OnePlace(tb), Counted(tb, hd, ro, written),
           \A u \in ThreadId : /\ QueueIn(tb2, u) \subseteq QueueIn(tb, u)
                               /\ PendingIn(tb2, u) \subseteq PendingIn(tb, u)
    PROVE  OnePlace(tb2) /\ Counted(tb2, hd, ro, written)
<1>1. \A u \in ThreadId : Placed(tb2, u) \subseteq Placed(tb, u)
  BY DEF Placed
<1>2. OnePlace(tb2)
  BY <1>1 DEF OnePlace
<1>3. Counted(tb2, hd, ro, written)
  BY <1>1 DEF Counted
<1> QED BY <1>2, <1>3

\* What is placed are messages.
LEMMA PlacedMessages ==
    ASSUME NEW m, NEW tb, Agreement(m, tb), NEW t \in ThreadId
    PROVE  Placed(tb, t) \subseteq MessageId
<1>1. tb["threadQueuedTurns"][t] \in QueueType /\ tb["threadTurns"][t].pending \in Seq(MessageId)
  BY DEF Agreement, TablesShape
<1>2. QueueIn(tb, t) \subseteq MessageId
  BY <1>1, QueueShape DEF QueueIn
<1>3. PendingIn(tb, t) \subseteq MessageId
  <2> DEFINE p == tb["threadTurns"][t].pending
  <2>1. p \in Seq(MessageId)
    BY <1>1
  <2> HIDE DEF p
  <2>2. ToSet(p) \subseteq MessageId
    BY <2>1 DEF ToSet
  <2> QED BY <2>2 DEF PendingIn, p
<1> QED BY <1>2, <1>3 DEF Placed

\* What an accepted command does to the tables and to the history.
LEMMA AcceptEffect ==
    ASSUME Agreement(live, tables), NEW c, Suits(c, live), Accept(c)
    PROVE  \E S, events :
              /\ events = DecideCommandOn(c, live) /\ events # Rejected /\ events \in Seq(S)
              /\ c.type \notin MovingCommandTypes =>
                    \A i \in 1..Len(events) : events[i].type \notin MovingTypes
              /\ tables' = ApplyEvents(tables, events)
              /\ handed' = [msg \in MessageId |-> handed[msg] + HandedIn(events, msg)]
<1> DEFINE events == DecideCommandOn(c, live)
<1>1. /\ events # Rejected
      /\ tables' = ApplyEvents(tables, events)
      /\ handed' = [msg \in MessageId |-> handed[msg] + HandedIn(events, msg)]
  BY Zenon DEF Accept, HandedIn
<1>2. PICK S : /\ events \in Seq(S)
               /\ c.type \notin MovingCommandTypes => \A e \in S : e.type \notin MovingTypes
  BY <1>1, CommandEvents DEF Suits, Agreement
<1>3. events = DecideCommandOn(c, live)
  OBVIOUS
<1> HIDE DEF events
<1>4. c.type \notin MovingCommandTypes =>
          \A i \in 1..Len(events) : events[i].type \notin MovingTypes
  BY <1>2
<1> QED BY <1>1, <1>2, <1>3, <1>4

\* A command that moves no message.
LEMMA StillCommandAccounted ==
    ASSUME Agreement(live, tables), Accounted, NEW c, Suits(c, live), Accept(c),
           c.type \notin MovingCommandTypes, reopened' = reopened, composed' = composed
    PROVE  Accounted'
<1>1. PICK S, events :
         /\ events = DecideCommandOn(c, live) /\ events # Rejected /\ events \in Seq(S)
         /\ \A i \in 1..Len(events) : events[i].type \notin MovingTypes
         /\ tables' = ApplyEvents(tables, events)
         /\ handed' = [msg \in MessageId |-> handed[msg] + HandedIn(events, msg)]
  BY AcceptEffect
<1>2. ASSUME NEW t \in ThreadId
      PROVE  /\ QueueIn(tables', t) \subseteq QueueIn(tables, t)
             /\ PendingIn(tables', t) \subseteq PendingIn(tables, t)
  <2>1. ASSUME NEW k
        PROVE  /\ k \in QueueIn(tables', t) => k \in QueueIn(tables, t)
               /\ k \in PendingIn(tables', t) => k \in PendingIn(tables, t)
    BY <1>1, CommandPlaces DEF Brings, MovingTypes
  <2> QED BY <2>1
<1>3. handed' = handed
  <2>1. handed \in [MessageId -> Nat]
    BY DEF Accounted, Counted
  <2>2. \A msg \in MessageId : HandedIn(events, msg) = 0
    BY <1>1, HandedNowhere DEF HandsOver, MovingTypes
  <2>3. \A msg \in MessageId : handed[msg] + HandedIn(events, msg) = handed[msg]
    BY <2>1, <2>2
  <2> QED BY <1>1, <2>1, <2>3
<1>4. OnePlace(tables) /\ Counted(tables, handed, reopened, composed)
  BY DEF Accounted
<1>5. OnePlace(tables') /\ Counted(tables', handed', reopened', composed')
  BY <1>2, <1>3, <1>4, StillAccounted
<1> QED BY <1>5 DEF Accounted

\* A command that moves a message: where it may come to, and what is counted.
LEMMA MoveEffect ==
    ASSUME Agreement(live, tables), Accounted, NEW c, Suits(c, live),
           NEW S, NEW events \in Seq(S), events = DecideCommandOn(c, live), events # Rejected,
           tables' = ApplyEvents(tables, events),
           handed' = [msg \in MessageId |-> handed[msg] + HandedIn(events, msg)],
           NEW type \in MovingTypes, NEW t \in ThreadId, NEW k \in MessageId,
           Moves(events, type, t, k)
    PROVE  /\ handed' \in [MessageId -> Nat]
           /\ \A x \in MessageId \ {k} : handed'[x] = handed[x]
           /\ handed'[k] = handed[k] + (IF type # "thread.turn-queued" THEN 1 ELSE 0)
           /\ \A u \in ThreadId : \A x :
                 /\ x \in QueueIn(tables', u) => \/ x \in QueueIn(tables, u)
                                                 \/ type = "thread.turn-queued" /\ u = t /\ x = k
                 /\ x \in PendingIn(tables', u) =>
                       \/ x \in PendingIn(tables, u)
                       \/ type = "thread.turn-start-requested" /\ u = t /\ x = k
<1>1. ASSUME NEW u \in ThreadId, NEW x
      PROVE  /\ x \in QueueIn(tables', u) => \/ x \in QueueIn(tables, u)
                                             \/ type = "thread.turn-queued" /\ u = t /\ x = k
             /\ x \in PendingIn(tables', u) =>
                   \/ x \in PendingIn(tables, u)
                   \/ type = "thread.turn-start-requested" /\ u = t /\ x = k
  <2>1. /\ \/ \E i \in 1..Len(events) : Brings(events[i], "thread.turn-queued", u, x)
           \/ x \in QueueIn(tables', u) => x \in QueueIn(tables, u)
        /\ \/ \E i \in 1..Len(events) : Brings(events[i], "thread.turn-start-requested", u, x)
           \/ x \in PendingIn(tables', u) => x \in PendingIn(tables, u)
    BY CommandPlaces
  <2>2. ASSUME NEW other \in MovingTypes,
               \E i \in 1..Len(events) : Brings(events[i], other, u, x)
        PROVE  type = other /\ u = t /\ x = k
    <3>1. PICK i \in 1..Len(events) : Brings(events[i], other, u, x)
      BY <2>2
    <3> QED BY <3>1, <2>2 DEF Moves, Brings
  <2>3. "thread.turn-queued" \in MovingTypes /\ "thread.turn-start-requested" \in MovingTypes
    BY DEF MovingTypes
  <2> QED BY <2>1, <2>2, <2>3
<1>2. handed \in [MessageId -> Nat]
  BY DEF Accounted, Counted
<1>3. \A x \in MessageId :
          HandedIn(events, x) = IF type # "thread.turn-queued" /\ x = k THEN 1 ELSE 0
  BY HandedByMove
<1>4. \A x \in MessageId :
          /\ handed'[x] = handed[x] + (IF type # "thread.turn-queued" /\ x = k THEN 1 ELSE 0)
          /\ handed[x] \in Nat
  BY <1>2, <1>3
<1>5. handed' \in [MessageId -> Nat]
  BY <1>2, <1>3
<1>6. \A x \in MessageId \ {k} : handed'[x] = handed[x]
  BY <1>4
<1>7. handed'[k] = handed[k] + (IF type # "thread.turn-queued" THEN 1 ELSE 0)
  BY <1>4
<1> QED BY <1>1, <1>5, <1>6, <1>7

\* A message is queued.
LEMMA QueueEvents ==
    ASSUME NEW m, ReadModelShape(m), NEW c, WellFormed(c), c.type = "thread.turn.queue",
           NEW events, events = DecideCommandOn(c, m), events # Rejected
    PROVE  Moves(events, "thread.turn-queued", c.thread, c.message)
<1> DEFINE t == c.thread
           before == Waking(m.threads[t], t)
           e == TurnQueued(t, c.message, FALSE)
<1>1. events = before \o <<e>>
  <2>1. events = DecideTurnQueue(c, m)
    BY DEF DecideCommandOn, DecideTurn, ProjectCommandTypes, ThreadCommandTypes
  <2> QED BY <2>1, Zenon DEF DecideTurnQueue, Guarded
<1>2. t \in ThreadId /\ m.threads[t] \in ThreadType
  BY DEF WellFormed, ReadModelShape, ProjectCommandTypes
<1>3. before \in Seq(StillOn(t))
  BY <1>2, WakingEvents
<1>4. e.type = "thread.turn-queued" /\ e.thread = t /\ e.message = c.message
  BY DEF TurnQueued
<1> HIDE DEF before, e
<1> QED BY <1>1, <1>3, <1>4, MovesLast

\* A new message is queued, or its turn is started.
LEMMA NewMessageAccounted ==
    ASSUME Agreement(live, tables), Agreement(live', tables'), Accounted,
           NEW c, Suits(c, live), Accept(c),
           c.type \in {"thread.turn.start", "thread.turn.queue"},
           c.message = composed + 1, composed' = composed + 1, reopened' = reopened
    PROVE  Accounted'
<1> DEFINE t == c.thread
           k == c.message
           type == IF c.type = "thread.turn.start" THEN "thread.turn-start-requested"
                   ELSE "thread.turn-queued"
<1>1. PICK S, events :
         /\ events = DecideCommandOn(c, live) /\ events # Rejected /\ events \in Seq(S)
         /\ tables' = ApplyEvents(tables, events)
         /\ handed' = [msg \in MessageId |-> handed[msg] + HandedIn(events, msg)]
  BY AcceptEffect
<1>2. t \in ThreadId /\ k \in MessageId /\ type \in MovingTypes
  BY DEF Suits, WellFormed, ProjectCommandTypes, MessageCommandTypes, MovingTypes
<1>3. Moves(events, type, t, k)
  <2>1. WellFormed(c) /\ ReadModelShape(live)
    BY DEF Suits, Agreement
  <2>2. CASE c.type = "thread.turn.start"
    BY <1>1, <2>1, <2>2, StartEvents
  <2>3. CASE c.type = "thread.turn.queue"
    BY <1>1, <2>1, <2>3, QueueEvents
  <2> QED BY <2>2, <2>3
<1>4. type \in {"thread.turn-start-requested", "thread.turn-queued"}
  OBVIOUS
<1> HIDE DEF type
<1>5. /\ handed' \in [MessageId -> Nat]
      /\ \A x \in MessageId \ {k} : handed'[x] = handed[x]
      /\ handed'[k] = handed[k] + (IF type # "thread.turn-queued" THEN 1 ELSE 0)
      /\ \A u \in ThreadId : \A x :
            /\ x \in QueueIn(tables', u) => \/ x \in QueueIn(tables, u)
                                            \/ type = "thread.turn-queued" /\ u = t /\ x = k
            /\ x \in PendingIn(tables', u) =>
                  \/ x \in PendingIn(tables, u)
                  \/ type = "thread.turn-start-requested" /\ u = t /\ x = k
  BY <1>1, <1>2, <1>3, MoveEffect
<1>6. /\ OnePlace(tables) /\ Counted(tables, handed, reopened, composed)
      /\ composed \in Nat /\ k = composed + 1
      /\ reopened \in [MessageId -> Nat] /\ handed[k] = 0
  BY <1>2 DEF Accounted, Counted
<1>7. \A u \in ThreadId : k \notin QueueIn(tables, u) /\ k \notin PendingIn(tables, u)
  <2>1. \A u \in ThreadId : \A x \in Placed(tables, u) : x <= composed
    BY <1>6 DEF Counted
  <2> QED BY <1>6, <2>1 DEF Placed
<1>8. /\ \A u \in ThreadId : Placed(tables, u) \subseteq MessageId
      /\ \A u \in ThreadId : Placed(tables', u) \subseteq MessageId
  BY PlacedMessages
<1>9. /\ \A u \in ThreadId \ {t} : k \notin Placed(tables', u)
      /\ ~(k \in QueueIn(tables', t) /\ k \in PendingIn(tables', t))
      /\ k \in QueueIn(tables', t) => type = "thread.turn-queued"
  BY <1>2, <1>4, <1>5, <1>7 DEF Placed
<1>10. reopened[k] \in Nat
  BY <1>2, <1>6
<1>11. handed'[k] <= 1 + reopened[k] /\ (k \in QueueIn(tables', t) => handed'[k] <= reopened[k])
  BY <1>5, <1>6, <1>9, <1>10
<1>12. composed' \in Nat /\ composed <= composed' /\ k <= composed'
  BY <1>6
<1> HIDE DEF k, t
<1>13. OnePlace(tables') /\ Counted(tables', handed', reopened, composed')
  BY <1>2, <1>5, <1>6, <1>8, <1>9, <1>11, <1>12, MovedOnce
<1> QED BY <1>13 DEF Accounted

\* A queued message leaves the queue for a turn of its own, or for one that runs.
LEMMA LeavingAccounted ==
    ASSUME Agreement(live, tables), Agreement(live', tables'), Accounted,
           NEW c, Suits(c, live), Accept(c),
           c.type \in {"thread.queued-turn.confirm", "thread.queued-turn.dispatch",
                       "thread.queued-turn.steer.complete"},
           c.message \in QueueIn(tables, c.thread),
           composed' = composed, reopened' = reopened
    PROVE  Accounted'
<1> DEFINE t == c.thread
           k == c.message
           type == IF c.type = "thread.queued-turn.steer.complete"
                   THEN "thread.queued-turn-steered" ELSE "thread.turn-start-requested"
<1>1. PICK S, events :
         /\ events = DecideCommandOn(c, live) /\ events # Rejected /\ events \in Seq(S)
         /\ tables' = ApplyEvents(tables, events)
         /\ handed' = [msg \in MessageId |-> handed[msg] + HandedIn(events, msg)]
  BY AcceptEffect
<1>2. t \in ThreadId /\ k \in MessageId /\ type \in MovingTypes
  BY DEF Suits, WellFormed, ProjectCommandTypes, MessageCommandTypes, MovingTypes
<1>3. /\ Moves(events, type, t, k)
      /\ events[1].type \in LeavingTypes /\ events[1].thread = t /\ events[1].message = k
  <2>1. WellFormed(c) /\ ReadModelShape(live)
    BY DEF Suits, Agreement
  <2>2. CASE c.type \in {"thread.queued-turn.confirm", "thread.queued-turn.dispatch"}
    <3>1. /\ Moves(events, "thread.turn-start-requested", t, k)
          /\ events[1] = OnMessage("thread.queued-turn-dispatched", t, k)
      BY <1>1, <2>1, <2>2, DispatchedEvents
    <3>2. type = "thread.turn-start-requested"
      BY <2>2
    <3> QED BY <3>1, <3>2 DEF OnMessage, LeavingTypes
  <2>3. CASE c.type = "thread.queued-turn.steer.complete"
    <3>1. /\ Moves(events, "thread.queued-turn-steered", t, k)
          /\ events[1] = OnSteer("thread.queued-turn-steered", t, k, c.turn)
      BY <1>1, <2>1, <2>3, SteeredEvents
    <3> QED BY <2>3, <3>1 DEF OnSteer, LeavingTypes
  <2> QED BY <2>2, <2>3
<1>4. type \in {"thread.queued-turn-steered", "thread.turn-start-requested"}
  OBVIOUS
<1> HIDE DEF type
<1>5. /\ handed' \in [MessageId -> Nat]
      /\ \A x \in MessageId \ {k} : handed'[x] = handed[x]
      /\ handed'[k] = handed[k] + (IF type # "thread.turn-queued" THEN 1 ELSE 0)
      /\ \A u \in ThreadId : \A x :
            /\ x \in QueueIn(tables', u) => \/ x \in QueueIn(tables, u)
                                            \/ type = "thread.turn-queued" /\ u = t /\ x = k
            /\ x \in PendingIn(tables', u) =>
                  \/ x \in PendingIn(tables, u)
                  \/ type = "thread.turn-start-requested" /\ u = t /\ x = k
  BY <1>1, <1>2, <1>3, MoveEffect
<1>6. /\ OnePlace(tables) /\ Counted(tables, handed, reopened, composed)
      /\ composed \in Nat /\ reopened \in [MessageId -> Nat] /\ handed \in [MessageId -> Nat]
  BY <1>2 DEF Accounted, Counted
<1>7. k \in QueueIn(tables, t) /\ k \in Placed(tables, t)
  BY DEF Placed
<1>8. handed[k] <= reopened[k] /\ k <= composed
  BY <1>2, <1>6, <1>7 DEF Counted
<1>9. k \notin QueueIn(tables', t)
  <2>1. \A i \in 1..Len(events) : events[i].type # "thread.turn-queued"
    <3>1. ASSUME NEW i \in 1..Len(events), events[i].type = "thread.turn-queued" PROVE FALSE
      BY <1>3, <1>4, <3>1 DEF Moves, MovingTypes
    <3> QED BY <3>1
  <2> QED BY <1>1, <1>2, <1>3, <2>1, MessageGone
<1>10. \A u \in ThreadId \ {t} : k \notin Placed(tables', u)
  <2>1. \A u \in ThreadId \ {t} : k \notin Placed(tables, u)
    BY <1>2, <1>6, <1>7 DEF OnePlace
  <2> QED BY <1>5, <2>1 DEF Placed
<1>11. /\ \A u \in ThreadId : Placed(tables, u) \subseteq MessageId
       /\ \A u \in ThreadId : Placed(tables', u) \subseteq MessageId
  BY PlacedMessages
<1>12. handed'[k] <= 1 + reopened[k]
  <2>1. handed[k] \in Nat /\ reopened[k] \in Nat
    BY <1>2, <1>6
  <2> QED BY <1>4, <1>5, <1>8, <2>1
<1>13. composed \in Nat /\ composed <= composed
  BY <1>6
<1> HIDE DEF k, t
<1>14. \A u \in ThreadId : \A x \in MessageId \ {k} :
          /\ x \in QueueIn(tables', u) => x \in QueueIn(tables, u)
          /\ x \in PendingIn(tables', u) => x \in PendingIn(tables, u)
  BY <1>4, <1>5
<1>15. /\ handed' \in [MessageId -> Nat]
       /\ \A x \in MessageId \ {k} : handed'[x] = handed[x] /\ reopened[x] = reopened[x]
       /\ ~(k \in QueueIn(tables', t) /\ k \in PendingIn(tables', t))
       /\ k \in QueueIn(tables', t) => handed'[k] <= reopened[k]
  BY <1>5, <1>9
<1>16. OnePlace(tables') /\ Counted(tables', handed', reopened, composed)
  BY <1>2, <1>6, <1>8, <1>10, <1>11, <1>12, <1>13, <1>14, <1>15, MovedOnce, SMTT(60)
<1> QED BY <1>16 DEF Accounted

\* The recovery holds a message that it found queued or about to start; if it
\* was about to start or being steered, it may be handed over again.
LEMMA HoldAccounted ==
    ASSUME HandingInv, RecoverTurn, Agreement(live', tables')
    PROVE  Accounted' /\ HoldsPlaced'
<1> DEFINE next == Head(recovery.hold)
           t == next.thread
           k == next.msg
           c == [type |-> "thread.turn.hold-for-recovery", thread |-> t, message |-> k]
           hold == recovery.hold
           wasHanded == \/ k \in Pending(t)
                        \/ k \in DOMAIN Queue(t) /\ Queue(t)[k].steering # None
<1>1. /\ hold # <<>> /\ Accept(c) /\ composed' = composed
      /\ recovery' = [recovery EXCEPT !.hold = Tail(@)]
      /\ reopened' = IF wasHanded THEN [reopened EXCEPT ![k] = @ + 1] ELSE reopened
  BY DEF RecoverTurn
<1>2. /\ hold \in Seq(HoldEntry) /\ recovery' = [hold |-> Tail(hold), interrupt |-> recovery.interrupt]
      /\ Agreement(live, tables) /\ Accounted /\ HoldsPlaced
  BY <1>1 DEF HandingInv, HistoryInv, HistoryTyped
<1>3. /\ next = hold[1] /\ next \in HoldEntry
      /\ Tail(hold) \in Seq(HoldEntry) /\ Len(Tail(hold)) = Len(hold) - 1
      /\ \A i \in 1..Len(Tail(hold)) : Tail(hold)[i] = hold[i + 1] /\ i + 1 \in 1..Len(hold)
      /\ 1 \in 1..Len(hold)
  BY <1>1, <1>2
<1>4. t \in ThreadId /\ k \in MessageId /\ k \in Placed(tables, t)
  BY <1>2, <1>3 DEF HoldEntry, HoldsPlaced
<1>5. Suits(c, live) /\ c.type = "thread.turn.hold-for-recovery" /\ c.thread = t /\ c.message = k
  BY <1>4, MessagesSuit
<1> HIDE DEF c, next
<1>6. PICK S, events :
         /\ events = DecideCommandOn(c, live) /\ events # Rejected /\ events \in Seq(S)
         /\ tables' = ApplyEvents(tables, events)
         /\ handed' = [msg \in MessageId |-> handed[msg] + HandedIn(events, msg)]
  BY <1>1, <1>2, <1>5, AcceptEffect
<1>7. /\ events \in Seq(OrdinaryOn(t))
      /\ Moves(events, "thread.turn-queued", t, k)
      /\ Len(events) = 1
  <2>1. WellFormed(c)
    BY <1>5 DEF Suits
  <2> QED BY <1>5, <1>6, <2>1, HoldEvents
<1>8. /\ events[1] \in OrdinaryOn(t)
      /\ events[1].type = "thread.turn-queued" /\ events[1].thread = t /\ events[1].message = k
  <2>1. PICK j \in 1..Len(events) :
           events[j].type = "thread.turn-queued" /\ events[j].thread = t /\ events[j].message = k
    BY <1>7 DEF Moves
  <2>2. j = 1 /\ events[1] \in OrdinaryOn(t)
    BY <1>7
  <2> QED BY <2>1, <2>2
<1>9. ThreadEvent(events[1]) /\ events[1].held
  BY <1>8 DEF OrdinaryOn, Ordinary
<1>10. tables' = ApplyAllProjections(tables, events[1])
  <2>1. PICK S2, ms, ts :
           /\ Projected(events, ms, ts) /\ ts[0] = tables
           /\ ts[Len(events)] = ApplyEvents(tables, events)
    BY <1>2, <1>5, <1>6, CommandTrace
  <2>2. ts[1] = ApplyAllProjections(ts[0], events[1])
    BY <1>7, <2>1 DEF Projected
  <2> QED BY <1>6, <1>7, <2>1, <2>2
<1>11. \A u \in ThreadId :
          /\ QueueIn(tables', u) = IF u = t THEN QueueIn(tables, u) \cup {k}
                                   ELSE QueueIn(tables, u)
          /\ PendingIn(tables', u) = IF u = t THEN PendingIn(tables, u) \ {k}
                                     ELSE PendingIn(tables, u)
  <2>1. TablesShape(tables)
    BY <1>2 DEF Agreement
  <2> QED BY <1>8, <1>9, <1>10, <2>1, PlacesAfterHold
<1>12. handed \in [MessageId -> Nat] /\ reopened \in [MessageId -> Nat] /\ composed \in Nat
       /\ OnePlace(tables) /\ Counted(tables, handed, reopened, composed)
  BY <1>2 DEF Accounted, Counted
<1>13. handed' = handed
  <2>1. \A msg \in MessageId : HandedIn(events, msg) = 0
    BY <1>6, <1>7, HandedByMove DEF MovingTypes
  <2>2. \A msg \in MessageId : handed[msg] + HandedIn(events, msg) = handed[msg]
    BY <1>12, <2>1
  <2> QED BY <1>6, <1>12, <2>2
<1>14. /\ reopened' \in [MessageId -> Nat]
       /\ \A x \in MessageId \ {k} : reopened'[x] = reopened[x]
       /\ reopened'[k] = IF wasHanded THEN reopened[k] + 1 ELSE reopened[k]
  BY <1>1, <1>4, <1>12
<1>15. handed[k] <= 1 + reopened[k] /\ (k \in QueueIn(tables, t) => handed[k] <= reopened[k])
       /\ k <= composed
  BY <1>4, <1>12 DEF Counted
<1>16. handed[k] <= reopened'[k]
  <2>1. handed[k] \in Nat /\ reopened[k] \in Nat
    BY <1>4, <1>12
  <2>2. wasHanded \/ k \in QueueIn(tables, t)
    BY <1>4 DEF Placed, Pending, PendingIn
  <2> HIDE DEF wasHanded
  <2> QED BY <1>14, <1>15, <2>1, <2>2
<1> HIDE DEF wasHanded, t, k, hold
<1>17. handed[k] <= 1 + reopened'[k]
  BY <1>4, <1>12, <1>14, <1>16
<1>18. /\ \A u \in ThreadId : Placed(tables, u) \subseteq MessageId
       /\ \A u \in ThreadId : Placed(tables', u) \subseteq MessageId
  BY <1>2, PlacedMessages
<1>19. \A u \in ThreadId \ {t} : k \notin Placed(tables', u)
  <2>1. \A u \in ThreadId \ {t} : k \notin Placed(tables, u)
    BY <1>4, <1>12 DEF OnePlace
  <2> QED BY <1>11, <2>1 DEF Placed
<1>20. /\ ~(k \in QueueIn(tables', t) /\ k \in PendingIn(tables', t))
       /\ k \in QueueIn(tables', t) => handed[k] <= reopened'[k]
  BY <1>4, <1>11, <1>16
<1>21. \A u \in ThreadId : \A x \in MessageId \ {k} :
          /\ x \in QueueIn(tables', u) => x \in QueueIn(tables, u)
          /\ x \in PendingIn(tables', u) => x \in PendingIn(tables, u)
  BY <1>11
<1>22. OnePlace(tables') /\ Counted(tables', handed, reopened', composed)
  <2>1. PICK tb2, ro2 : tb2 = tables' /\ ro2 = reopened'
    OBVIOUS
  <2>2. MovedTo(tables, handed, reopened, tb2, ro2, k, t)
    BY <1>14, <1>16, <1>17, <1>18, <1>19, <1>20, <1>21, <2>1 DEF MovedTo
  <2>3. OnePlace(tb2) /\ Counted(tb2, handed, ro2, composed)
    BY <1>4, <1>12, <1>15, <2>2, MovedWithoutHanding
  <2> QED BY <2>1, <2>3
<1>23. \A u \in ThreadId : Placed(tables, u) \subseteq Placed(tables', u)
  BY <1>11 DEF Placed
<1>24. HoldsPlaced'
  <2>1. recovery'.hold = Tail(hold)
    BY <1>2
  <2>2. ASSUME NEW i \in 1..Len(Tail(hold))
        PROVE  Tail(hold)[i].msg \in Placed(tables', Tail(hold)[i].thread)
    <3>1. /\ Tail(hold)[i] = hold[i + 1] /\ i + 1 \in 1..Len(hold)
          /\ hold[i + 1] \in HoldEntry
      BY <1>2, <1>3
    <3>2. hold[i + 1].msg \in Placed(tables, hold[i + 1].thread)
      BY <1>2, <3>1 DEF HoldsPlaced, hold
    <3>3. hold[i + 1].thread \in ThreadId
      BY <3>1 DEF HoldEntry
    <3> QED BY <1>23, <3>1, <3>2, <3>3
  <2> QED BY <2>1, <2>2 DEF HoldsPlaced
<1> QED BY <1>1, <1>13, <1>22, <1>24 DEF Accounted

\* What a restart finds under way is where it was found.
LEMMA RestartAccounted ==
    ASSUME HandingInv, Restart
    PROVE  Accounted' /\ HoldsPlaced'
<1> DEFINE active(t) == Session(t).activeTurnId # None
                        \/ Session(t).status \in {"starting", "running"}
           orphaned == {t \in ThreadId : /\ ThreadExists(live', t)
                                         /\ ~live'.threads[t].deleted
                                         /\ ~live'.threads[t].archived
                                         /\ active(t) \/ Pending(t) # {}}
           toHold(t) == [msg : DOMAIN Queue(t), thread : {t}]
           toReopen(t) == [msg : Pending(t) \ DOMAIN Queue(t), thread : {t}]
           held == UNION {toHold(t) : t \in orphaned}
           pending == UNION {toReopen(t) : t \in orphaned}
           found == {e \in HoldEntry : e.msg \in Placed(tables, e.thread)}
<1>1. recovery' = [hold |-> SetToSeq(held) \o SetToSeq(pending),
                   interrupt |-> {t \in orphaned : active(t)}]
  BY DEF Restart
<1>2. \A t \in ThreadId : DOMAIN Queue(t) \subseteq MessageId /\ Pending(t) \subseteq MessageId
  BY RowTypes DEF HandingInv, HistoryInv
<1>3. \A t \in ThreadId : toHold(t) \subseteq found /\ toReopen(t) \subseteq found
  BY <1>2 DEF HoldEntry, Placed, QueueIn, PendingIn, Queue, Pending
<1>4. orphaned \subseteq ThreadId /\ found \subseteq HoldEntry
  OBVIOUS
<1>5. \A e \in found : e.msg \in Placed(tables, e.thread)
  OBVIOUS
<1> HIDE DEF active, orphaned, toHold, toReopen, found
<1>6. held \subseteq found /\ pending \subseteq found
  BY <1>3, <1>4
<1> HIDE DEF held, pending
<1>7. IsFiniteSet(held) /\ IsFiniteSet(pending)
  BY <1>4, <1>6, FinitelyMany, FS_Subset
<1>8. SetToSeq(held) \in Seq(held) /\ SetToSeq(pending) \in Seq(pending)
  BY <1>7, SetAsSequence
<1>9. SetToSeq(held) \in Seq(found) /\ SetToSeq(pending) \in Seq(found)
  BY <1>6, <1>8, SeqMonotonic
<1>10. recovery'.hold \in Seq(found)
  BY <1>1, <1>9, MoreEvents
<1>11. tables' = tables /\ composed' = composed /\ handed' = handed /\ reopened' = reopened
  BY DEF Restart
<1>12. HoldsPlaced'
  BY <1>5, <1>10, <1>11 DEF HoldsPlaced
<1> QED BY <1>11, <1>12 DEF HandingInv, Accounted

\* While clients and providers are served, nothing is left to hold.
LEMMA ServedAccounted ==
    ASSUME HandingInv, Agreement(live', tables'), NEW c, Suits(c, live), Served(c),
           \/ c.type \notin MovingCommandTypes /\ composed' = composed
           \/ /\ c.type \in {"thread.turn.start", "thread.turn.queue"}
              /\ c.message = composed + 1 /\ composed' = composed + 1
           \/ /\ c.type \in {"thread.queued-turn.confirm", "thread.queued-turn.dispatch",
                             "thread.queued-turn.steer.complete"}
              /\ c.message \in DOMAIN Queue(c.thread) /\ composed' = composed
    PROVE  Accounted' /\ HoldsPlaced'
<1>1. Agreement(live, tables) /\ Accounted /\ Accept(c) /\ reopened' = reopened
  BY DEF HandingInv, HistoryInv, Served
<1>2. recovery'.hold = <<>>
  BY DEF Served, Serving, Recovered
<1>3. HoldsPlaced'
  BY <1>2 DEF HoldsPlaced
<1>4. CASE c.type \notin MovingCommandTypes /\ composed' = composed
  BY <1>1, <1>3, <1>4, StillCommandAccounted
<1>5. CASE /\ c.type \in {"thread.turn.start", "thread.turn.queue"}
           /\ c.message = composed + 1 /\ composed' = composed + 1
  BY <1>1, <1>3, <1>5, NewMessageAccounted
<1>6. CASE /\ c.type \in {"thread.queued-turn.confirm", "thread.queued-turn.dispatch",
                          "thread.queued-turn.steer.complete"}
           /\ c.message \in DOMAIN Queue(c.thread) /\ composed' = composed
  <2>1. c.message \in QueueIn(tables, c.thread)
    BY <1>6 DEF QueueIn, Queue
  <2> QED BY <1>1, <1>3, <1>6, <2>1, LeavingAccounted
<1> QED BY <1>4, <1>5, <1>6

\* Of what clients ask of a thread, confirming a queued message moves it.
LEMMA ThreadCommandsMove ==
    ASSUME NEW t \in ThreadId, NEW c \in ThreadCommands(t)
    PROVE  \/ c.type \notin MovingCommandTypes
           \/ /\ c.type = "thread.queued-turn.confirm" /\ c.thread = t
              /\ c.message \in DOMAIN Queue(t)
<1>1. CASE c \in OnMessages("thread.queued-turn.confirm", t, DOMAIN Queue(t))
  BY <1>1 DEF OnMessages
<1>2. CASE c \notin OnMessages("thread.queued-turn.confirm", t, DOMAIN Queue(t))
  BY <1>2 DEF ThreadCommands, Command, WithGrace, OnTurn, OnMessages, MovingCommandTypes
<1> QED BY <1>1, <1>2

\* Every step keeps the messages accounted for.
LEMMA HandingStep ==
    ASSUME HandingInv, [Next]_vars
    PROVE  HandingInv'
<1>0. HistoryInv /\ HistoryInv' /\ Agreement(live', tables') /\ Accounted /\ HoldsPlaced
  BY HistoryStep DEF HandingInv, HistoryInv
<1> SUFFICES Accounted' /\ HoldsPlaced'
  BY <1>0 DEF HandingInv
<1>1. ASSUME NEW c, Suits(c, live), Served(c), c.type \notin MovingCommandTypes,
             composed' = composed
      PROVE  Accounted' /\ HoldsPlaced'
  BY <1>0, <1>1, ServedAccounted
<1>2. CASE \E c \in ProjectCommands : ClientCommand(c)
  <2>1. PICK c \in ProjectCommands : ClientCommand(c)
    BY <1>2
  <2>2. c.type \notin MovingCommandTypes
    BY DEF ProjectCommands, MovingCommandTypes
  <2>3. Suits(c, live)
    BY <1>0, ClientsSuit
  <2> QED BY <1>1, <2>1, <2>2, <2>3 DEF ClientCommand
<1>3. ASSUME NEW t \in ThreadId, \E c \in ThreadCommands(t) : ClientCommand(c)
      PROVE  Accounted' /\ HoldsPlaced'
  <2>1. PICK c \in ThreadCommands(t) : ClientCommand(c)
    BY <1>3
  <2>2. Suits(c, live) /\ Served(c) /\ composed' = composed
    BY <1>0, <2>1, ClientsSuit DEF ClientCommand
  <2>3. \/ c.type \notin MovingCommandTypes
        \/ /\ c.type = "thread.queued-turn.confirm" /\ c.thread = t
           /\ c.message \in DOMAIN Queue(t)
    BY ThreadCommandsMove
  <2> QED BY <1>0, <2>2, <2>3, ServedAccounted
<1>4. ASSUME NEW t \in ThreadId, NEW type \in {"thread.turn.start", "thread.turn.queue"},
             ClientMessage(t, type)
      PROVE  Accounted' /\ HoldsPlaced'
  <2> DEFINE c == [type |-> type, thread |-> t, message |-> composed + 1]
  <2>1. composed + 1 \in MessageId /\ Served(c) /\ composed' = composed + 1
    BY <1>4 DEF ClientMessage
  <2>2. Suits(c, live)
    BY <2>1, MessagesSuit
  <2>3. c.type \in {"thread.turn.start", "thread.turn.queue"} /\ c.message = composed + 1
    OBVIOUS
  <2> HIDE DEF c
  <2> QED BY <1>0, <2>1, <2>2, <2>3, ServedAccounted
<1>5. ASSUME NEW t \in ThreadId, NEW status \in StatusType, NEW turn \in MaybeTurn,
             SetSession(t, status, turn), composed' = composed,
             status # "none", status = "running" => turn # None,
             status = "starting" => Session(t).activeTurnId = None /\ turn = None
      PROVE  Accounted' /\ HoldsPlaced'
  <2> DEFINE c == [type |-> "thread.session.set", thread |-> t, status |-> status,
                   turn |-> turn]
  <2>1. Served(c) /\ c.type \notin MovingCommandTypes
    BY <1>5 DEF SetSession, MovingCommandTypes
  <2>2. Suits(c, live)
    BY <1>0, <1>5, SessionSuits
  <2> HIDE DEF c
  <2> QED BY <1>1, <1>5, <2>1, <2>2
<1>6. ASSUME NEW t \in ThreadId, NEW turn \in TurnId, TurnStarted(t, turn)
      PROVE  Accounted' /\ HoldsPlaced'
  <2>1. SetSession(t, "running", turn) /\ composed' = composed
    BY <1>6 DEF TurnStarted
  <2>2. turn \in MaybeTurn /\ turn # None /\ "running" \in StatusType
    BY HistoryAssumption DEF MaybeTurn, StatusType
  <2> QED BY <1>5, <2>1, <2>2
<1>7. ASSUME NEW t \in ThreadId, NEW turn \in TurnId, NEW status \in {"ready", "error"},
             TurnCompleted(t, turn, status)
      PROVE  Accounted' /\ HoldsPlaced'
  <2>1. SetSession(t, status, None) /\ composed' = composed
    BY <1>7 DEF TurnCompleted
  <2>2. None \in MaybeTurn /\ status \in StatusType /\ status \notin {"none", "running", "starting"}
    BY DEF MaybeTurn, StatusType
  <2> QED BY <1>5, <2>1, <2>2
<1>8. ASSUME NEW t \in ThreadId, NEW status \in {"starting", "ready", "stopped"},
             SessionMoves(t, status)
      PROVE  Accounted' /\ HoldsPlaced'
  <2>1. /\ SetSession(t, status, None) /\ composed' = composed
        /\ status = "starting" => Session(t).activeTurnId = None
    BY <1>8 DEF SessionMoves
  <2>2. None \in MaybeTurn /\ status \in StatusType /\ status \notin {"none", "running"}
    BY DEF MaybeTurn, StatusType
  <2> QED BY <1>5, <2>1, <2>2
<1>9. ASSUME NEW t \in ThreadId, RuntimeError(t)
      PROVE  Accounted' /\ HoldsPlaced'
  <2> DEFINE u == Session(t).activeTurnId
  <2>1. SetSession(t, "error", u) /\ composed' = composed
    BY <1>9 DEF RuntimeError
  <2>2. u \in MaybeTurn /\ "error" \in StatusType
    BY <1>0, RowTypes DEF HistoryInv, StatusType, SessionType
  <2> HIDE DEF u
  <2> QED BY <1>5, <2>1, <2>2
<1>10. ASSUME NEW t \in ThreadId, NEW kind \in {"approval.requested", "approval.resolved"},
              NEW request \in RequestId, ProviderActivity(t, kind, request)
       PROVE  Accounted' /\ HoldsPlaced'
  <2> DEFINE c == [type |-> "thread.activity.append", thread |-> t, kind |-> kind,
                   request |-> request]
  <2>1. /\ Served(c) /\ composed' = composed
        /\ OpensRequest(kind) => Session(t).status = "running"
    BY <1>10 DEF ProviderActivity
  <2>2. Suits(c, live) /\ c.type \notin MovingCommandTypes
    BY <1>0, <2>1, ActivitySuits DEF MovingCommandTypes
  <2> HIDE DEF c
  <2> QED BY <1>1, <2>1, <2>2
<1>11. ASSUME NEW t \in ThreadId, DispatchQueuedTurn(t)
       PROVE  Accounted' /\ HoldsPlaced'
  <2>1. PICK msg \in DOMAIN Queue(t) :
           Served([type |-> "thread.queued-turn.dispatch", thread |-> t, message |-> msg])
    BY <1>11 DEF DispatchQueuedTurn
  <2> DEFINE c == [type |-> "thread.queued-turn.dispatch", thread |-> t, message |-> msg]
  <2>2. msg \in MessageId /\ Served(c) /\ composed' = composed
    BY <1>0, <1>11, <2>1, RowTypes DEF DispatchQueuedTurn, HistoryInv
  <2>3. Suits(c, live)
    BY <2>2, MessagesSuit
  <2>4. c.type = "thread.queued-turn.dispatch" /\ c.message \in DOMAIN Queue(c.thread)
    BY <2>1
  <2> HIDE DEF c
  <2> QED BY <1>0, <2>2, <2>3, <2>4, ServedAccounted
<1>12. ASSUME NEW t \in ThreadId, NEW msg \in MessageId,
              NEW outcome \in {"thread.queued-turn.steer.complete",
                               "thread.queued-turn.steer.fail"},
              FinishSteering(t, msg, outcome)
       PROVE  Accounted' /\ HoldsPlaced'
  <2> DEFINE u == Queue(t)[msg].steering
             c == [type |-> outcome, thread |-> t, message |-> msg, turn |-> u]
  <2>1. msg \in DOMAIN Queue(t) /\ Served(c) /\ composed' = composed
    BY <1>12 DEF FinishSteering
  <2>2. u \in MaybeTurn
    BY <1>0, <2>1, RowTypes DEF HistoryInv
  <2> HIDE DEF u
  <2>3. Suits(c, live)
    BY <2>2, SteeringSuits
  <2>4. \/ c.type \notin MovingCommandTypes
        \/ c.type = "thread.queued-turn.steer.complete" /\ c.message \in DOMAIN Queue(c.thread)
    BY <2>1 DEF MovingCommandTypes
  <2> HIDE DEF c
  <2> QED BY <1>0, <2>1, <2>3, <2>4, ServedAccounted
<1>13. CASE Restart
  BY <1>13, RestartAccounted
<1>14. CASE RecoverTurn
  BY <1>0, <1>14, HoldAccounted
<1>15. CASE InterruptSession
  <2> DEFINE command(t) == [type |-> "thread.session.set", thread |-> t,
                            status |-> "interrupted", turn |-> None]
  <2>1. PICK t \in recovery.interrupt :
           /\ Accept(command(t))
           /\ recovery' = [recovery EXCEPT !.interrupt = @ \ {t}]
    BY <1>15 DEF InterruptSession
  <2> DEFINE c == command(t)
  <2>2. /\ t \in ThreadId /\ composed' = composed /\ reopened' = reopened
        /\ recovery.hold = <<>>
    BY <1>0, <1>15 DEF InterruptSession, HistoryInv, HistoryTyped
  <2>3. None \in MaybeTurn /\ "interrupted" \in StatusType
    BY DEF MaybeTurn, StatusType
  <2>4. Suits(c, live) /\ c.type \notin MovingCommandTypes
    BY <1>0, <2>2, <2>3, SessionSuits DEF MovingCommandTypes
  <2>5. Accept(c)
    BY <2>1
  <2>6. recovery'.hold = <<>>
    BY <1>0, <2>1, <2>2 DEF HistoryInv, HistoryTyped
  <2> HIDE DEF c
  <2>7. Agreement(live, tables)
    BY <1>0 DEF HistoryInv
  <2>8. Accounted'
    BY <1>0, <2>2, <2>4, <2>5, <2>7, StillCommandAccounted
  <2> QED BY <2>6, <2>8 DEF HoldsPlaced
<1>16. CASE UNCHANGED vars
  BY <1>0, <1>16 DEF vars, Accounted, HoldsPlaced
<1> QED BY <1>2, <1>3, <1>4, <1>6, <1>7, <1>8, <1>9, <1>10, <1>11, <1>12, <1>13, <1>14, <1>15,
           <1>16 DEF Next

LEMMA HandingStart == Init => HandingInv
<1> SUFFICES ASSUME Init PROVE HandingInv
  OBVIOUS
<1>1. /\ tables = EmptyProjections /\ recovery.hold = <<>> /\ composed = 0
      /\ handed = [msg \in MessageId |-> 0] /\ reopened = [msg \in MessageId |-> 0]
  BY DEF Init, Recovered
<1>2. ASSUME NEW t \in ThreadId
      PROVE  QueueIn(tables, t) = {} /\ PendingIn(tables, t) = {}
  <2>1. {"threadQueuedTurns", "threadTurns"} \subseteq ToSet(AllProjectors)
    BY DEF ToSet, AllProjectors
  <2>2. tables["threadQueuedTurns"][t] = <<>> /\ tables["threadTurns"][t].pending = <<>>
    BY <1>1, <2>1 DEF EmptyProjections, EmptyProjection, NoTurns
  <2>3. DOMAIN <<>> = {} /\ ToSet(<<>>) = {}
    BY EmptyQueue DEF ToSet
  <2> QED BY <2>2, <2>3 DEF QueueIn, PendingIn
<1>3. OnePlace(tables)
  BY <1>2 DEF OnePlace, Placed
<1>4. Counted(tables, handed, reopened, composed)
  BY <1>1, <1>2 DEF Counted, Placed
<1>5. HoldsPlaced
  BY <1>1 DEF HoldsPlaced
<1> QED BY <1>3, <1>4, <1>5, HistoryStart DEF HandingInv, Accounted

\* A message reaches a provider once, as a turn of its own or by steering, and
\* again only after a restart took it back, however messages, confirmations,
\* dispatches, steering and restarts interleave; a message that waits in the
\* queue is not also a turn about to start.
THEOREM MessagesAreHandedOnce == Spec => []MessageHandedOnce
<1>1. HandingInv => MessageHandedOnce
  <2> SUFFICES ASSUME HandingInv PROVE MessageHandedOnce
    OBVIOUS
  <2>1. OnePlace(tables) /\ Counted(tables, handed, reopened, composed)
    BY DEF HandingInv, Accounted
  <2>2. \A msg \in MessageId : handed[msg] <= 1 + reopened[msg]
    BY <2>1 DEF Counted
  <2>3. \A t \in ThreadId : DOMAIN Queue(t) \cap Pending(t) = {}
    BY <2>1 DEF OnePlace, QueueIn, PendingIn, Queue, Pending
  <2> QED BY <2>2, <2>3 DEF MessageHandedOnce
<1> QED BY <1>1, HandingStart, HandingStep, PTL DEF Spec

-----------------------------------------------------------------------------
(* Restarting gives back the read model *)

\* Archiving and deletion empty the queue in the tables only, and a request to
\* interrupt ends the turn in the tables only: after these a restart loads
\* something else than what was in memory.
PartingTypes == Emptying \cup {"thread.turn-interrupt-requested"}
PartingCommandTypes ==
    {"project.delete", "thread.delete", "thread.archive", "thread.turn.interrupt"}

LatestOf(rows) ==
    IF rows.row.latestTurnId \in DOMAIN rows.turns
    THEN [turnId |-> rows.row.latestTurnId, state |-> rows.turns[rows.row.latestTurnId]]
    ELSE AbsentThread.latestTurn

RowReflects(th, row) ==
    /\ th.project = row.project /\ th.deleted = row.deleted /\ th.archived = row.archived
    /\ th.settledOverride = row.settledOverride /\ th.snoozed = row.snoozed
    /\ th.pinned = row.pinned /\ th.seenCompletionTurnId = row.seenCompletionTurnId

\* The rows of a thread give it back; its session works on its latest turn,
\* and its turns are among those that were announced.
Reflects(th, rows, known) ==
    /\ RowReflects(th, rows.row)
    /\ th.session = rows.session /\ th.queuedTurns = rows.queue
    /\ th.latestTurn = LatestOf(rows)
    /\ rows.session.activeTurnId \in {None, rows.row.latestTurnId}
    /\ DOMAIN rows.turns \subseteq known

Reflected(m, tb, known) ==
    /\ m.projects = tb["projects"]
    /\ \A t \in ThreadId : Reflects(m.threads[t], RowsOf(tb, t), known)

\* The inductive invariant of RestartTransparent.
RestartInv == HistoryInv /\ Reflected(live, tables, started)

\* A session starts a turn that is new to its thread, or keeps the latest one,
\* or none.
Calm(rows, e, known) ==
    /\ e.type \notin PartingTypes
    /\ e.type = "thread.session-set" =>
          IF StartsTurn(e) THEN e.turn \in known \ DOMAIN rows.turns
          ELSE e.turn \in {None, rows.row.latestTurnId}

\* The rows of a thread after an event on it.
Follows(rows, e, next) ==
    /\ next.row = ThreadRowAfter(rows.row, e)
    /\ next.session = IF e.type = "thread.session-set"
                      THEN [status |-> e.status, activeTurnId |-> e.turn] ELSE rows.session
    /\ next.queue = QueueRowAfter(rows.queue, e)
    /\ next.turns = TurnRowAfter(rows.turns, e)

\* The flags of a thread and of its row change together.
LEMMA RowsReflect ==
    ASSUME NEW th \in ThreadType, NEW row \in RowType, RowReflects(th, row),
           NEW e, ThreadEvent(e), e.type \notin Emptying
    PROVE  RowReflects(ThreadAfter(th, e), ThreadRowAfter(row, e))
<1> USE DEF RowReflects
<1>1. CASE e.type = "thread.unarchived"
  BY <1>1 DEF ThreadAfter, ThreadRowAfter, ThreadType, RowType
<1>2. CASE e.type \in {"thread.settled", "thread.unsettled"}
  BY <1>2 DEF ThreadAfter, ThreadRowAfter, ThreadType, RowType
<1>3. CASE e.type \in {"thread.snoozed", "thread.unsnoozed"}
  BY <1>3 DEF ThreadAfter, ThreadRowAfter, ThreadType, RowType
<1>4. CASE e.type \in {"thread.pinned", "thread.unpinned"}
  BY <1>4 DEF ThreadAfter, ThreadRowAfter, ThreadType, RowType
<1>5. CASE e.type \in {"thread.completion-acknowledged", "thread.completion-marked-unread"}
  BY <1>5 DEF ThreadAfter, ThreadRowAfter, ThreadType, RowType
<1>6. CASE e.type = "thread.session-set"
  BY <1>6 DEF ThreadAfter, ThreadRowAfter, SessionSetOn, ThreadType, RowType
<1>7. CASE e.type \in {"thread.message-sent", "thread.turn-start-requested",
                       "thread.queued-turn-updated", "thread.session-stop-requested",
                       "thread.activity-appended", "thread.turn-interrupt-requested"}
  BY <1>7 DEF ThreadAfter, ThreadRowAfter, ThreadType, RowType
<1>8. CASE e.type \in LeavingTypes \cup SteeringTypes \cup {"thread.turn-queued"}
  BY <1>8 DEF ThreadAfter, ThreadRowAfter, ThreadType, RowType, LeavingTypes, SteeringTypes
<1> QED BY <1>1, <1>2, <1>3, <1>4, <1>5, <1>6, <1>7, <1>8
        DEF ThreadEvent, EventTypes, PlainTypes, Emptying, OtherTypes

\* Only a session that is set changes the latest turn.
LEMMA LatestStays ==
    ASSUME NEW th \in ThreadType, NEW row \in RowType, NEW e, ThreadEvent(e),
           e.type # "thread.session-set"
    PROVE  /\ ThreadAfter(th, e).latestTurn = th.latestTurn
           /\ ThreadRowAfter(row, e).latestTurnId = row.latestTurnId
<1>1. CASE e.type \in {"thread.unarchived", "thread.settled", "thread.unsettled"} \cup Emptying
  BY <1>1 DEF ThreadAfter, ThreadRowAfter, ThreadType, RowType, Emptying
<1>2. CASE e.type \in {"thread.snoozed", "thread.unsnoozed", "thread.pinned", "thread.unpinned"}
  BY <1>2 DEF ThreadAfter, ThreadRowAfter, ThreadType, RowType
<1>3. CASE e.type \in {"thread.completion-acknowledged", "thread.completion-marked-unread"}
  BY <1>3 DEF ThreadAfter, ThreadRowAfter, ThreadType, RowType
<1>4. CASE e.type \in {"thread.message-sent", "thread.turn-start-requested",
                       "thread.queued-turn-updated", "thread.session-stop-requested",
                       "thread.activity-appended", "thread.turn-interrupt-requested"}
  BY <1>4 DEF ThreadAfter, ThreadRowAfter, ThreadType, RowType
<1>5. CASE e.type \in LeavingTypes \cup SteeringTypes \cup {"thread.turn-queued"}
  BY <1>5 DEF ThreadAfter, ThreadRowAfter, ThreadType, RowType, LeavingTypes, SteeringTypes
<1> QED BY <1>1, <1>2, <1>3, <1>4, <1>5
        DEF ThreadEvent, EventTypes, PlainTypes, Emptying, OtherTypes

\* A session that is set moves the latest turn, in memory as in the tables.
LEMMA SessionReflects ==
    ASSUME NEW th \in ThreadType, NEW rows, NEW known, rows.row \in RowType,
           rows.turns \in TurnStates, Reflects(th, rows, known),
           NEW e, ThreadEvent(e), e.type = "thread.session-set", Calm(rows, e, known),
           NEW next, Follows(rows, e, next)
    PROVE  /\ ThreadAfter(th, e).latestTurn = LatestOf(next)
           /\ e.turn \in {None, next.row.latestTurnId}
           /\ DOMAIN next.turns \subseteq known
<1> DEFINE turns == rows.turns
           latest == rows.row.latestTurnId
<1>0. /\ th.latestTurn = LatestOf(rows) /\ DOMAIN turns \subseteq known
      /\ next.row = ThreadRowAfter(rows.row, e) /\ next.turns = TurnRowAfter(turns, e)
  BY DEF Reflects, Follows
<1>1. /\ ThreadAfter(th, e) = SessionSetOn(th, e)
      /\ next.row.latestTurnId = IF e.turn = None THEN latest ELSE e.turn
      /\ e.turn \in MaybeTurn /\ latest \in MaybeTurn
      /\ None \notin TurnId /\ DOMAIN turns \subseteq TurnId
  BY <1>0, HistoryAssumption, TurnStatesType DEF ThreadAfter, ThreadRowAfter, RowType, ThreadEvent
<1>2. /\ th.latestTurn = IF latest \in DOMAIN turns
                         THEN [turnId |-> latest, state |-> turns[latest]]
                         ELSE [turnId |-> None, state |-> "none"]
      /\ LatestOf(next) = IF next.row.latestTurnId \in DOMAIN next.turns
                          THEN [turnId |-> next.row.latestTurnId,
                                state |-> next.turns[next.row.latestTurnId]]
                          ELSE [turnId |-> None, state |-> "none"]
  BY <1>0 DEF LatestOf, AbsentThread
<1>3. CASE StartsTurn(e)
  <2>1. e.turn \in TurnId /\ e.turn \in known /\ e.turn \notin DOMAIN turns
    BY <1>1, <1>3 DEF Calm, StartsTurn, MaybeTurn
  <2> DEFINE settled == Settle(turns, "completed", e.turn)
             run == "running"
  <2>2. next.turns = With(settled, e.turn, run)
    BY <1>0, <1>3, <2>1 DEF TurnRowAfter
  <2>3. "completed" \in TurnStateType /\ run \in TurnStateType
    BY DEF TurnStateType
  <2>4. settled \in TurnStates /\ DOMAIN settled = DOMAIN turns
    BY <2>3, TurnsSettled
  <2> HIDE DEF settled, run
  <2>5. /\ DOMAIN next.turns = DOMAIN turns \cup {e.turn}
        /\ next.turns[e.turn] = run
    BY <2>2, <2>4 DEF With
  <2>6. next.row.latestTurnId = e.turn
    BY <1>1, <2>1
  <2>7. LatestOf(next) = [turnId |-> e.turn, state |-> run]
    BY <1>2, <2>5, <2>6
  <2>8. SessionSetOn(th, e).latestTurn = [turnId |-> e.turn, state |-> "running"]
    BY <1>3 DEF SessionSetOn, ThreadType
  <2> QED BY <1>0, <1>1, <2>1, <2>5, <2>6, <2>7, <2>8 DEF run
<1>4. CASE ~StartsTurn(e)
  <2> DEFINE state == SettledTurnState(e.status)
  <2>1. next.row.latestTurnId = latest /\ e.turn \in {None, latest}
    BY <1>1, <1>4 DEF Calm
  <2>2. SessionSetOn(th, e).latestTurn =
           IF th.latestTurn.state = "running" /\ state # "none"
           THEN [th.latestTurn EXCEPT !.state = state] ELSE th.latestTurn
    BY <1>4 DEF SessionSetOn, ThreadType
  <2>3. next.turns = IF state # "none" THEN Settle(turns, state, None) ELSE turns
    BY <1>0, <1>4 DEF TurnRowAfter
  <2>4. state \in TurnStateType
    BY SettledStates DEF TurnStateType
  <2> HIDE DEF state
  <2>5. /\ DOMAIN next.turns = DOMAIN turns
        /\ \A u \in DOMAIN turns : next.turns[u] =
              IF turns[u] = "running" /\ state # "none" THEN state ELSE turns[u]
    <3>1. CASE state # "none"
      <4>1. /\ DOMAIN next.turns = DOMAIN turns
            /\ \A u \in DOMAIN turns : next.turns[u] =
                  IF turns[u] = "running" /\ u # None THEN state ELSE turns[u]
        BY <2>3, <2>4, <3>1, TurnsSettled
      <4> QED BY <1>1, <3>1, <4>1
    <3>2. CASE state = "none"
      BY <2>3, <3>2
    <3> QED BY <3>1, <3>2
  <2>6. SessionSetOn(th, e).latestTurn = LatestOf(next)
    <3>1. CASE latest \in DOMAIN turns
      <4>1. th.latestTurn = [turnId |-> latest, state |-> turns[latest]]
        BY <1>2, <3>1
      <4>2. LatestOf(next) = [turnId |-> latest, state |-> next.turns[latest]]
        BY <1>2, <2>1, <2>5, <3>1
      <4> QED BY <2>2, <2>5, <3>1, <4>1, <4>2
    <3>2. CASE latest \notin DOMAIN turns
      BY <1>2, <2>1, <2>2, <2>5, <3>2
    <3> QED BY <3>1, <3>2
  <2> QED BY <1>0, <1>1, <2>1, <2>5, <2>6
<1> QED BY <1>3, <1>4

\* A thread and its rows after an event that is calm.
LEMMA ThreadReflects ==
    ASSUME NEW th \in ThreadType, NEW rows, NEW known, rows.row \in RowType,
           rows.turns \in TurnStates, Reflects(th, rows, known),
           NEW e, ThreadEvent(e), Calm(rows, e, known),
           NEW next, Follows(rows, e, next)
    PROVE  Reflects(ThreadAfter(th, e), next, known)
<1> DEFINE after == ThreadAfter(th, e)
<1>1. /\ RowReflects(th, rows.row) /\ th.session = rows.session /\ th.queuedTurns = rows.queue
      /\ th.latestTurn = LatestOf(rows)
      /\ rows.session.activeTurnId \in {None, rows.row.latestTurnId}
      /\ DOMAIN rows.turns \subseteq known
      /\ next.row = ThreadRowAfter(rows.row, e) /\ next.queue = QueueRowAfter(rows.queue, e)
      /\ next.session = IF e.type = "thread.session-set"
                        THEN [status |-> e.status, activeTurnId |-> e.turn] ELSE rows.session
      /\ next.turns = TurnRowAfter(rows.turns, e)
  BY DEF Reflects, Follows
<1>2. RowReflects(after, next.row)
  BY <1>1, RowsReflect DEF Calm, PartingTypes
<1>3. /\ after.session = IF e.type = "thread.session-set"
                         THEN [status |-> e.status, activeTurnId |-> e.turn] ELSE th.session
      /\ after.queuedTurns =
             CASE e.type = "thread.turn-queued" ->
                      With(th.queuedTurns, e.message, [held |-> e.held, steering |-> None])
               [] e.type \in LeavingTypes -> Without(th.queuedTurns, e.message)
               [] e.type = "thread.queued-turn-steer-requested" ->
                      WithSteering(th.queuedTurns, e.message, e.turn)
               [] e.type = "thread.queued-turn-steer-failed" ->
                      WithSteering(th.queuedTurns, e.message, None)
               [] OTHER -> th.queuedTurns
  BY ThreadAfterEvent
<1> HIDE DEF after
<1>4. after.queuedTurns = next.queue /\ after.session = next.session
  BY <1>1, <1>3 DEF QueueRowAfter, Calm, PartingTypes
<1>5. /\ after.latestTurn = LatestOf(next)
      /\ next.session.activeTurnId \in {None, next.row.latestTurnId}
      /\ DOMAIN next.turns \subseteq known
  <2>1. CASE e.type = "thread.session-set"
    <3>1. /\ ThreadAfter(th, e).latestTurn = LatestOf(next)
          /\ e.turn \in {None, next.row.latestTurnId}
          /\ DOMAIN next.turns \subseteq known
      BY <2>1, SessionReflects
    <3> QED BY <1>1, <2>1, <3>1 DEF after
  <2>2. CASE e.type # "thread.session-set"
    <3>1. after.latestTurn = th.latestTurn /\ next.row.latestTurnId = rows.row.latestTurnId
      BY <1>1, <2>2, LatestStays DEF after
    <3>2. next.turns = rows.turns /\ next.session = rows.session
      BY <1>1, <2>2 DEF TurnRowAfter, Calm, PartingTypes
    <3> QED BY <1>1, <3>1, <3>2 DEF LatestOf
  <2> QED BY <2>1, <2>2
<1> QED BY <1>2, <1>4, <1>5 DEF Reflects, after

\* The rows of a thread after an event that is projected onto them.
LEMMA EventFollows ==
    ASSUME NEW m, NEW tb, Agreement(m, tb), NEW e, ThreadEvent(e), Fits(m.threads[e.thread], e)
    PROVE  Follows(RowsOf(tb, e.thread), e, RowsOf(ApplyAllProjections(tb, e), e.thread))
<1> DEFINE t == e.thread
           rows == RowsOf(tb, t)
           next == RowsOf(ApplyAllProjections(tb, e), t)
<1>1. t \in ThreadId /\ TablesShape(tb) /\ rows.row.project # None
  BY DEF Agreement, ThreadEvent, Fits, Agrees
<1>2. /\ rows.session = tb["threadSessions"][t] /\ rows.queue = tb["threadQueuedTurns"][t]
      /\ rows.turns = tb["threadTurns"][t].turns /\ rows.row = tb["threads"][t]
  BY DEF RowsOf
<1>3. next = RowsOf(ApplyAllProjections(tb, e), e.thread)
  OBVIOUS
<1> HIDE DEF next, rows
<1>4. ApplyThreads(tb["threads"], e)[t] = ThreadRowAfter(rows.row, e)
  <2>1. e.type \notin {"project.created", "project.deleted", "thread.created"}
    BY DEF ThreadEvent, EventTypes, PlainTypes, Emptying, LeavingTypes, SteeringTypes, OtherTypes
  <2>2. tb["threads"] \in [ThreadId -> RowType]
    BY <1>1 DEF TablesShape
  <2>3. ApplyThreads(tb["threads"], e) = [tb["threads"] EXCEPT ![t] = ThreadRowAfter(@, e)]
    BY <1>1, <1>2, <2>1 DEF ApplyThreads, IsProjectEvent
  <2> QED BY <1>1, <1>2, <2>2, <2>3
<1>5. /\ next.row = ApplyThreads(tb["threads"], e)[e.thread]
      /\ next.session = IF e.type = "thread.session-set"
                        THEN [status |-> e.status, activeTurnId |-> e.turn]
                        ELSE tb["threadSessions"][e.thread]
      /\ next.queue = QueueRowAfter(tb["threadQueuedTurns"][e.thread], e)
      /\ next.turns = TurnRowAfter(tb["threadTurns"][e.thread].turns, e)
  BY <1>1, <1>3, RowsAfterEvent
<1>6. Follows(rows, e, next)
  BY <1>2, <1>4, <1>5 DEF Follows
<1> QED BY <1>6 DEF rows, next

\* An event on a thread that exists.
LEMMA EventReflects ==
    ASSUME NEW m, NEW tb, NEW known, Agreement(m, tb), Reflected(m, tb, known),
           NEW e, ThreadEvent(e), Fits(m.threads[e.thread], e),
           Calm(RowsOf(tb, e.thread), e, known)
    PROVE  Reflected(ProjectEvent(m, e), ApplyAllProjections(tb, e), known)
<1> DEFINE t == e.thread
           th == m.threads[t]
           rows == RowsOf(tb, t)
           next == RowsOf(ApplyAllProjections(tb, e), t)
<1>1. /\ t \in ThreadId /\ ReadModelShape(m) /\ TablesShape(tb) /\ Agrees(th, rows)
      /\ th.project # None /\ ThreadExists(m, t)
      /\ Reflects(th, rows, known) /\ m.projects = tb["projects"]
  BY DEF Agreement, ThreadEvent, Fits, ThreadExists, Reflected
<1>2. /\ th \in ThreadType /\ rows.row \in RowType /\ rows.turns \in TurnStates
  BY <1>1 DEF ReadModelShape, TablesShape, RowsOf
<1>3. Follows(rows, e, next)
  BY EventFollows
<1>4. Reflects(ThreadAfter(th, e), next, known)
  <2> HIDE DEF next, th
  <2>1. Calm(rows, e, known)
    OBVIOUS
  <2> HIDE DEF rows, t
  <2> QED BY <1>1, <1>2, <1>3, <2>1, ThreadReflects
<1>5. /\ ProjectEvent(m, e).projects = m.projects
      /\ ProjectEvent(m, e).threads = [m.threads EXCEPT ![t] = ThreadAfter(th, e)]
  BY <1>1, ModelAfterEvent
<1>6. /\ ApplyAllProjections(tb, e)["projects"] = tb["projects"]
      /\ \A u \in ThreadId \ {t} : RowsOf(ApplyAllProjections(tb, e), u) = RowsOf(tb, u)
  BY <1>1, TablesAfterEvent
<1>7. ASSUME NEW u \in ThreadId
      PROVE  Reflects(ProjectEvent(m, e).threads[u], RowsOf(ApplyAllProjections(tb, e), u), known)
  <2>1. CASE u = t
    <3>1. ProjectEvent(m, e).threads[t] = ThreadAfter(th, e)
      BY <1>1, <1>5 DEF ReadModelShape
    <3> QED BY <1>4, <2>1, <3>1
  <2>2. CASE u # t
    <3>1. ProjectEvent(m, e).threads[u] = m.threads[u]
      BY <1>1, <1>5, <2>2 DEF ReadModelShape
    <3>2. Reflects(m.threads[u], RowsOf(tb, u), known)
      BY DEF Reflected
    <3> QED BY <1>6, <2>2, <3>1, <3>2
  <2> QED BY <2>1, <2>2
<1> QED BY <1>1, <1>5, <1>6, <1>7 DEF Reflected

\* A thread that is created.
LEMMA CreationReflects ==
    ASSUME NEW m, NEW tb, NEW known, Agreement(m, tb), Reflected(m, tb, known),
           NEW e, e \in CreationType, ~ThreadExists(m, e.thread)
    PROVE  Reflected(ProjectEvent(m, e), ApplyAllProjections(tb, e), known)
<1> DEFINE t == e.thread
           p == e.project
           after == ApplyAllProjections(tb, e)
           th == [AbsentThread EXCEPT !.project = p]
           row == [NoThreadRow EXCEPT !.project = p]
<1>1. /\ ReadModelShape(m) /\ TablesShape(tb) /\ Untouched(m.threads[t], RowsOf(tb, t))
      /\ \A u \in ThreadId : Reflects(m.threads[u], RowsOf(tb, u), known)
      /\ m.projects = tb["projects"]
      /\ t \in ThreadId /\ p \in ProjectId /\ p # None /\ e.type = "thread.created"
  BY HistoryAssumption DEF Agreement, Agrees, ThreadExists, Reflected, CreationType
<1>2. /\ ProjectEvent(m, e).projects = m.projects
      /\ ProjectEvent(m, e).threads = [m.threads EXCEPT ![t] = th]
  <2>1. ProjectEvent(m, e) = [m EXCEPT !.threads[t] = th]
    BY <1>1 DEF ProjectEvent, ThreadAfter
  <2> HIDE DEF th
  <2> QED BY <1>1, <2>1 DEF ReadModelShape
<1>3. /\ after["projects"] = tb["projects"]
      /\ after["threads"] = [tb["threads"] EXCEPT ![t] = row]
      /\ after["threadSessions"] = tb["threadSessions"]
      /\ after["threadQueuedTurns"] = tb["threadQueuedTurns"]
      /\ after["threadTurns"] = tb["threadTurns"]
      /\ after["threadActivities"] = tb["threadActivities"]
  <2>1. DOMAIN tb = ToSet(AllProjectors)
    BY <1>1 DEF TablesShape
  <2>2. /\ after["projects"] = ApplyProjects(tb["projects"], e)
        /\ after["threads"] = ApplyThreads(tb["threads"], e)
        /\ after["threadSessions"] = ApplyThreadSessions(tb["threadSessions"], e)
        /\ after["threadQueuedTurns"] = ApplyThreadQueuedTurns(tb["threadQueuedTurns"], e)
        /\ after["threadTurns"] = ApplyThreadTurns(tb["threadTurns"], e)
        /\ after["threadActivities"] = tb["threadActivities"]
    BY <1>1, <2>1, TableByTable
  <2> HIDE DEF after
  <2>3. /\ ApplyProjects(tb["projects"], e) = tb["projects"]
        /\ ApplyThreadSessions(tb["threadSessions"], e) = tb["threadSessions"]
        /\ ApplyThreadQueuedTurns(tb["threadQueuedTurns"], e) = tb["threadQueuedTurns"]
        /\ ApplyThreadTurns(tb["threadTurns"], e) = tb["threadTurns"]
    BY <1>1 DEF ApplyProjects, ApplyThreadSessions, ApplyThreadQueuedTurns, ApplyThreadTurns
  <2>4. ApplyThreads(tb["threads"], e) = [tb["threads"] EXCEPT ![t] = row]
    BY <1>1 DEF ApplyThreads, IsProjectEvent
  <2> QED BY <2>2, <2>3, <2>4
<1> HIDE DEF after
<1>4. ASSUME NEW u \in ThreadId
      PROVE  Reflects(ProjectEvent(m, e).threads[u], RowsOf(after, u), known)
  <2>1. CASE u = t
    <3> DEFINE rows == RowsOf(after, t)
               old == RowsOf(tb, t)
    <3>1. ProjectEvent(m, e).threads[t] = th
      BY <1>1, <1>2 DEF ReadModelShape
    <3>2. /\ rows.row = row /\ rows.session = old.session /\ rows.queue = old.queue
          /\ rows.turns = old.turns
      BY <1>1, <1>3 DEF RowsOf, TablesShape
    <3>3. old.session = AbsentThread.session /\ old.queue = <<>> /\ old.turns = <<>>
      BY <1>1 DEF Untouched
    <3>4. RowReflects(th, row) /\ th.session = AbsentThread.session /\ th.queuedTurns = <<>>
          /\ th.latestTurn = AbsentThread.latestTurn /\ AbsentThread.session.activeTurnId = None
      BY DEF RowReflects, AbsentThread, NoThreadRow
    <3> HIDE DEF rows, old, th, row
    <3>5. DOMAIN rows.turns = {}
      BY <3>2, <3>3, EmptyQueue
    <3>6. Reflects(th, rows, known)
      BY <3>2, <3>3, <3>4, <3>5 DEF Reflects, LatestOf
    <3> QED BY <2>1, <3>1, <3>6 DEF rows
  <2>2. CASE u # t
    <3>1. ProjectEvent(m, e).threads[u] = m.threads[u]
      BY <1>1, <1>2, <2>2 DEF ReadModelShape
    <3>2. RowsOf(after, u) = RowsOf(tb, u)
      BY <1>1, <1>3, <2>2 DEF RowsOf, TablesShape
    <3> QED BY <1>1, <3>1, <3>2
  <2> QED BY <2>1, <2>2
<1> QED BY <1>1, <1>2, <1>3, <1>4 DEF Reflected, after

\* A project that is created or deleted.
LEMMA ProjectsReflect ==
    ASSUME NEW m, NEW tb, NEW known, Agreement(m, tb), Reflected(m, tb, known),
           NEW e, e \in ProjectEventType
    PROVE  Reflected(ProjectEvent(m, e), ApplyAllProjections(tb, e), known)
<1> DEFINE after == ApplyAllProjections(tb, e)
           q == e.project
           table == m.projects
<1>1. /\ ReadModelShape(m) /\ TablesShape(tb)
      /\ \A u \in ThreadId : Reflects(m.threads[u], RowsOf(tb, u), known)
      /\ table = tb["projects"]
      /\ q \in ProjectId /\ e.type \in {"project.created", "project.deleted"}
      /\ ProjectEvent(m, e).threads = m.threads
  BY ProjectsKeepAgreement DEF Agreement, Reflected, ProjectEventType
<1>2. ProjectEvent(m, e).projects = ApplyProjects(table, e)
  <2>1. m = [projects |-> table, threads |-> m.threads]
        /\ table = [x \in ProjectId |-> table[x]]
    BY <1>1 DEF ReadModelShape
  <2>2. CASE e.type = "project.created"
    <3>1. ProjectEvent(m, e) = [m EXCEPT !.projects[q] = "active"]
      BY <2>2 DEF ProjectEvent
    <3>2. ApplyProjects(table, e) = [table EXCEPT ![q] = "active"]
      BY <2>2 DEF ApplyProjects
    <3> QED BY <2>1, <3>1, <3>2
  <2>3. CASE e.type = "project.deleted"
    <3> DEFINE status == IF table[q] = "absent" THEN table[q] ELSE "deleted"
    <3>1. ProjectEvent(m, e) = [m EXCEPT !.projects[q] = status]
      BY <1>1, <2>1, <2>3 DEF ProjectEvent
    <3>2. ApplyProjects(table, e) = [table EXCEPT ![q] = status]
      BY <1>1, <2>1, <2>3 DEF ApplyProjects
    <3> HIDE DEF status
    <3> QED BY <2>1, <3>1, <3>2
  <2> QED BY <1>1, <2>2, <2>3
<1>3. /\ after["projects"] = ApplyProjects(tb["projects"], e)
      /\ after["threads"] = tb["threads"]
      /\ after["threadSessions"] = tb["threadSessions"]
      /\ after["threadQueuedTurns"] = tb["threadQueuedTurns"]
      /\ after["threadTurns"] = tb["threadTurns"]
      /\ after["threadActivities"] = tb["threadActivities"]
  <2>1. DOMAIN tb = ToSet(AllProjectors)
    BY <1>1 DEF TablesShape
  <2>2. /\ after["projects"] = ApplyProjects(tb["projects"], e)
        /\ after["threads"] = ApplyThreads(tb["threads"], e)
        /\ after["threadSessions"] = ApplyThreadSessions(tb["threadSessions"], e)
        /\ after["threadQueuedTurns"] = ApplyThreadQueuedTurns(tb["threadQueuedTurns"], e)
        /\ after["threadTurns"] = ApplyThreadTurns(tb["threadTurns"], e)
        /\ after["threadActivities"] = tb["threadActivities"]
    BY <1>1, <2>1, TableByTable
  <2> HIDE DEF after
  <2>3. /\ ApplyThreadSessions(tb["threadSessions"], e) = tb["threadSessions"]
        /\ ApplyThreadQueuedTurns(tb["threadQueuedTurns"], e) = tb["threadQueuedTurns"]
        /\ ApplyThreadTurns(tb["threadTurns"], e) = tb["threadTurns"]
        /\ ApplyThreads(tb["threads"], e) = tb["threads"]
    BY <1>1 DEF ApplyThreads, IsProjectEvent, ApplyThreadSessions, ApplyThreadQueuedTurns,
           ApplyThreadTurns
  <2> QED BY <2>2, <2>3
<1> HIDE DEF after
<1>4. \A u \in ThreadId : RowsOf(after, u) = RowsOf(tb, u)
  BY <1>3 DEF RowsOf
<1> QED BY <1>1, <1>2, <1>3, <1>4 DEF Reflected, after

\* An event that can be projected, when it is calm.
LEMMA ProjectableReflects ==
    ASSUME NEW m, NEW tb, NEW known, Agreement(m, tb), Reflected(m, tb, known),
           NEW e, Projectable(m, e), Calm(RowsOf(tb, e.thread), e, known)
    PROVE  Reflected(ProjectEvent(m, e), ApplyAllProjections(tb, e), known)
<1>1. CASE e \in ProjectEventType
  BY <1>1, ProjectsReflect
<1>2. CASE e \in CreationType /\ ~ThreadExists(m, e.thread)
  BY <1>2, CreationReflects
<1>3. CASE ThreadEvent(e) /\ Fits(m.threads[e.thread], e)
  BY <1>3, EventReflects
<1> QED BY <1>1, <1>2, <1>3 DEF Projectable

\* Each event of a command is calm when its turn comes.
AllCalm(events, ts, known) ==
    \A n \in 1..Len(events) : Calm(RowsOf(ts[n - 1], events[n].thread), events[n], known)

LEMMA EventsReflect ==
    ASSUME NEW S, NEW events \in Seq(S), NEW ms, NEW ts, NEW known, Projected(events, ms, ts),
           AllProjectable(events, ms), Agreement(ms[0], ts[0]),
           Reflected(ms[0], ts[0], known), AllCalm(events, ts, known)
    PROVE  \A n \in 0..Len(events) : Reflected(ms[n], ts[n], known)
<1> DEFINE Bad == {n \in 0..Len(events) : ~Reflected(ms[n], ts[n], known)}
<1>1. SUFFICES ASSUME Bad # {} PROVE FALSE
  OBVIOUS
<1>2. PICK n \in Bad : \A k \in Bad : n <= k
  <2>1. Bad \subseteq Nat
    OBVIOUS
  <2> HIDE DEF Bad
  <2> QED BY <1>1, <2>1, LeastOf
<1>3. n \in 0..Len(events) /\ ~Reflected(ms[n], ts[n], known) /\ n # 0
  OBVIOUS
<1>4. /\ n \in 1..Len(events) /\ n - 1 \in 0..Len(events)
      /\ n - 1 \notin Bad
  BY <1>2, <1>3
<1>5. Reflected(ms[n - 1], ts[n - 1], known) /\ Agreement(ms[n - 1], ts[n - 1])
  BY <1>4, EventsKeepAgreement
<1>6. /\ Projectable(ms[n - 1], events[n])
      /\ Calm(RowsOf(ts[n - 1], events[n].thread), events[n], known)
      /\ ms[n] = ProjectEvent(ms[n - 1], events[n])
      /\ ts[n] = ApplyAllProjections(ts[n - 1], events[n])
  BY <1>4 DEF Projected, AllProjectable, AllCalm
<1>7. Reflected(ms[n], ts[n], known)
  BY <1>5, <1>6, ProjectableReflects
<1> QED BY <1>3, <1>7

\* Most commands part nothing, and set no session.
Loud == PartingTypes \cup {"thread.session-set"}
Quiet(events) == \E S : events \in Seq(S) /\ \A e \in S : e.type \notin Loud

LEMMA QuietEvent == ASSUME NEW e, e.type \notin Loud PROVE Quiet(<<e>>)
<1> DEFINE S == {e}
<1>1. <<e>> \in Seq(S) /\ \A x \in S : x.type \notin Loud
  OBVIOUS
<1> HIDE DEF S
<1> QED BY <1>1 DEF Quiet

LEMMA QuietNothing == Quiet(<<>>)
<1> DEFINE S == {}
<1>1. <<>> \in Seq(S) /\ \A x \in S : x.type \notin Loud
  OBVIOUS
<1> HIDE DEF S
<1> QED BY <1>1 DEF Quiet

LEMMA QuietTogether == ASSUME NEW s, NEW u, Quiet(s), Quiet(u) PROVE Quiet(s \o u)
<1>1. PICK S : s \in Seq(S) /\ \A e \in S : e.type \notin Loud
  BY DEF Quiet
<1>2. PICK U : u \in Seq(U) /\ \A e \in U : e.type \notin Loud
  BY DEF Quiet
<1>3. s \in Seq(S \cup U) /\ u \in Seq(S \cup U)
  BY <1>1, <1>2
<1>4. s \o u \in Seq(S \cup U) /\ \A e \in S \cup U : e.type \notin Loud
  BY <1>1, <1>2, <1>3, MoreEvents
<1> QED BY <1>4 DEF Quiet

LEMMA QuietOnThread ==
    ASSUME NEW t, NEW type, type \notin Loud PROVE Quiet(<<OnThread(type, t)>>)
BY QuietEvent DEF OnThread

LEMMA QuietOnMessage ==
    ASSUME NEW t, NEW msg, NEW type, type \notin Loud PROVE Quiet(<<OnMessage(type, t, msg)>>)
BY QuietEvent DEF OnMessage

LEMMA QuietOnSteer ==
    ASSUME NEW t, NEW msg, NEW u, NEW type, type \notin Loud
    PROVE  Quiet(<<OnSteer(type, t, msg, u)>>)
BY QuietEvent DEF OnSteer

LEMMA QuietUnsettled == ASSUME NEW t, NEW reason PROVE Quiet(<<Unsettled(t, reason)>>)
<1> DEFINE e == Unsettled(t, reason)
<1>1. e.type \notin Loud
  BY DEF Unsettled, Loud, PartingTypes, Emptying
<1> HIDE DEF e
<1>2. Quiet(<<e>>)
  BY <1>1, QuietEvent
<1> QED BY <1>2 DEF e

LEMMA QuietWaking == ASSUME NEW th, NEW t PROVE Quiet(Waking(th, t))
<1> DEFINE a == If(th.settledOverride # "none", Unsettled(t, "activity"))
           b == If(th.snoozed, OnThread("thread.unsnoozed", t))
<1>1. Quiet(a)
  BY QuietUnsettled, QuietNothing, Zenon DEF If
<1>2. "thread.unsnoozed" \notin Loud
  BY DEF Loud, PartingTypes, Emptying
<1>3. Quiet(b)
  BY <1>2, QuietOnThread, QuietNothing, Zenon DEF If
<1>4. Waking(th, t) = a \o b
  BY Zenon DEF Waking
<1> HIDE DEF a, b
<1> QED BY <1>1, <1>3, <1>4, QuietTogether

\* What the quiet commands about the life of a thread are decided to.
LEMMA QuietLife ==
    ASSUME NEW m, NEW c, c.type \in ThreadCommandTypes \ PartingCommandTypes
    PROVE  Quiet(DecideThread(c, m))
<1> DEFINE t == c.thread
           th == m.threads[t]
           events == DecideThread(c, m)
<1>0. /\ {"thread.settled", "thread.unsnoozed", "thread.unarchived", "thread.snoozed",
          "thread.pinned", "thread.unpinned"} \cap Loud = {}
      /\ {"thread.created", "thread.completion-acknowledged",
          "thread.completion-marked-unread"} \cap Loud = {}
  BY DEF Loud, PartingTypes, Emptying
<1>1. CASE c.type = "thread.create"
  <2> DEFINE e == [type |-> "thread.created", thread |-> t, project |-> c.project]
  <2>1. events = DecideThreadCreate(c, m)
    BY <1>1 DEF DecideThread
  <2>2. e.type \notin Loud
    BY <1>0
  <2> HIDE DEF e
  <2>3. Quiet(<<e>>)
    BY <2>2, QuietEvent
  <2> QED BY <2>1, <2>3, QuietNothing, Zenon DEF DecideThreadCreate, Guarded, Rejected, e
<1>2. CASE c.type = "thread.unarchive"
  <2>1. events = Guarded(ThreadArchived(m, t), <<OnThread("thread.unarchived", t)>>)
    BY <1>2 DEF DecideThread
  <2>2. Quiet(<<OnThread("thread.unarchived", t)>>)
    BY <1>0, QuietOnThread
  <2> QED BY <2>1, <2>2, QuietNothing, Zenon DEF Guarded, Rejected
<1>3. CASE c.type = "thread.settle"
  <2> DEFINE a == <<OnThread("thread.settled", t)>>
             b == If(th.pinned, OnThread("thread.unpinned", t))
             d == If(th.snoozed, OnThread("thread.unsnoozed", t))
  <2>1. events = DecideThreadSettle(c, m)
    BY <1>3 DEF DecideThread
  <2>2. events \in {a \o b \o d, <<>>}
    BY <2>1, Zenon DEF DecideThreadSettle, Guarded, Rejected
  <2>3. /\ Quiet(a) /\ Quiet(<<OnThread("thread.unpinned", t)>>)
        /\ Quiet(<<OnThread("thread.unsnoozed", t)>>)
    BY <1>0, QuietOnThread
  <2>4. Quiet(b) /\ Quiet(d)
    BY <2>3, QuietNothing, Zenon DEF If
  <2> HIDE DEF a, b, d
  <2>5. Quiet(a \o b \o d)
    BY <2>3, <2>4, QuietTogether
  <2> QED BY <2>2, <2>5, QuietNothing
<1>4. CASE c.type = "thread.unsettle"
  <2>1. events = Guarded(ThreadNotArchived(m, t), <<Unsettled(t, c.reason)>>)
    BY <1>4 DEF DecideThread
  <2> QED BY <2>1, QuietUnsettled, QuietNothing, Zenon DEF Guarded, Rejected
<1>5. CASE c.type = "thread.snooze"
  <2>1. events = DecideThreadSnooze(c, m)
    BY <1>5 DEF DecideThread
  <2>2. Quiet(<<OnThread("thread.snoozed", t)>>)
    BY <1>0, QuietOnThread
  <2> QED BY <2>1, <2>2, QuietNothing, Zenon DEF DecideThreadSnooze, Guarded, Rejected
<1>6. CASE c.type = "thread.unsnooze"
  <2>1. events = Guarded(ThreadNotArchived(m, t), <<OnThread("thread.unsnoozed", t)>>)
    BY <1>6 DEF DecideThread
  <2>2. Quiet(<<OnThread("thread.unsnoozed", t)>>)
    BY <1>0, QuietOnThread
  <2> QED BY <2>1, <2>2, QuietNothing, Zenon DEF Guarded, Rejected
<1>7. CASE c.type = "thread.pin"
  <2> DEFINE a == <<OnThread("thread.pinned", t)>>
             b == If(th.settledOverride = "settled", Unsettled(t, "user"))
             d == If(th.snoozed, OnThread("thread.unsnoozed", t))
  <2>1. events = DecideThreadPin(c, m)
    BY <1>7 DEF DecideThread
  <2>2. events \in {a \o b \o d, <<>>}
    BY <2>1, Zenon DEF DecideThreadPin, Guarded, Rejected
  <2>3. /\ Quiet(a) /\ Quiet(<<OnThread("thread.unsnoozed", t)>>)
        /\ Quiet(<<Unsettled(t, "user")>>)
    BY <1>0, QuietOnThread, QuietUnsettled
  <2>4. Quiet(b) /\ Quiet(d)
    BY <2>3, QuietNothing, Zenon DEF If
  <2> HIDE DEF a, b, d
  <2>5. Quiet(a \o b \o d)
    BY <2>3, <2>4, QuietTogether
  <2> QED BY <2>2, <2>5, QuietNothing
<1>8. CASE c.type = "thread.unpin"
  <2>1. events = Guarded(ThreadNotArchived(m, t), <<OnThread("thread.unpinned", t)>>)
    BY <1>8 DEF DecideThread
  <2>2. Quiet(<<OnThread("thread.unpinned", t)>>)
    BY <1>0, QuietOnThread
  <2> QED BY <2>1, <2>2, QuietNothing, Zenon DEF Guarded, Rejected
<1>9. CASE c.type \in {"thread.completion.acknowledge", "thread.completion.mark-unread"}
  <2> DEFINE e == [type |-> IF c.type = "thread.completion.acknowledge"
                            THEN "thread.completion-acknowledged"
                            ELSE "thread.completion-marked-unread",
                   thread |-> t, turn |-> c.turn]
  <2>1. events = DecideCompletion(c, m)
    BY <1>9 DEF DecideThread
  <2>2. events \in {<<e>>, <<>>}
    BY <2>1, Zenon DEF DecideCompletion, Guarded, Rejected
  <2>3. e.type \notin Loud
    BY <1>0
  <2> HIDE DEF e
  <2> QED BY <2>2, <2>3, QuietEvent, QuietNothing
<1> QED BY <1>1, <1>2, <1>3, <1>4, <1>5, <1>6, <1>7, <1>8, <1>9
        DEF ThreadCommandTypes, PartingCommandTypes

\* What the quiet commands about turns are decided to.
LEMMA QuietTurns ==
    ASSUME NEW m, NEW c,
           c.type \in TurnCommandTypes \ (PartingCommandTypes \cup {"thread.session.set"})
    PROVE  Quiet(DecideTurn(c, m))
<1> DEFINE t == c.thread
           msg == c.message
           th == m.threads[t]
           events == DecideTurn(c, m)
<1>0. /\ (MovingTypes \cup LeavingTypes \cup SteeringTypes) \cap Loud = {}
      /\ {"thread.message-sent", "thread.turn-start-requested", "thread.queued-turn-updated",
          "thread.queued-turn-cancelled", "thread.queued-turn-dispatched",
          "thread.queued-turn-steered", "thread.queued-turn-steer-requested",
          "thread.queued-turn-steer-failed", "thread.turn-queued",
          "thread.session-stop-requested", "thread.activity-appended"} \cap Loud = {}
  BY DEF Loud, PartingTypes, Emptying, MovingTypes, LeavingTypes, SteeringTypes
<1> DEFINE sent == <<OnMessage("thread.message-sent", t, msg)>>
           start == <<OnMessage("thread.turn-start-requested", t, msg)>>
<1>1. Quiet(sent) /\ Quiet(start)
  BY <1>0, QuietOnMessage
<1>2. ASSUME NEW kind, NEW request PROVE Quiet(<<Activity(t, kind, request)>>)
  <2> DEFINE e == Activity(t, kind, request)
  <2>1. e.type \notin Loud
    BY <1>0 DEF Activity
  <2> HIDE DEF e
  <2>2. Quiet(<<e>>)
    BY <2>1, QuietEvent
  <2> QED BY <2>2 DEF e
<1>3. ASSUME NEW held PROVE Quiet(<<TurnQueued(t, msg, held)>>)
  <2> DEFINE e == TurnQueued(t, msg, held)
  <2>1. e.type \notin Loud
    BY <1>0 DEF TurnQueued
  <2> HIDE DEF e
  <2>2. Quiet(<<e>>)
    BY <2>1, QuietEvent
  <2> QED BY <2>2 DEF e
<1>4. CASE c.type = "thread.turn.start"
  <2> DEFINE woken == Waking(th, t)
             both == <<OnMessage("thread.message-sent", t, msg),
                       OnMessage("thread.turn-start-requested", t, msg)>>
  <2>1. events = DecideTurnStart(c, m)
    BY <1>4 DEF DecideTurn
  <2>2. events \in {woken \o both, <<>>}
    BY <2>1, Zenon DEF DecideTurnStart, Guarded, Rejected
  <2>3. both = sent \o start
    BY Pair, Zenon
  <2>4. Quiet(woken)
    BY QuietWaking
  <2> HIDE DEF woken, both, sent, start
  <2>5. Quiet(woken \o both)
    BY <1>1, <2>3, <2>4, QuietTogether
  <2> QED BY <2>2, <2>5, QuietNothing
<1>5. CASE c.type = "thread.turn.queue"
  <2> DEFINE woken == Waking(th, t)
             last == <<TurnQueued(t, msg, FALSE)>>
  <2>1. events = DecideTurnQueue(c, m)
    BY <1>5 DEF DecideTurn
  <2>2. events \in {woken \o last, <<>>}
    BY <2>1, Zenon DEF DecideTurnQueue, Guarded, Rejected
  <2>3. Quiet(woken) /\ Quiet(last)
    BY <1>3, QuietWaking, Zenon
  <2> HIDE DEF woken, last
  <2>4. Quiet(woken \o last)
    BY <2>3, QuietTogether
  <2> QED BY <2>2, <2>4, QuietNothing
<1>6. CASE c.type = "thread.turn.hold-for-recovery"
  <2>1. events = DecideHoldForRecovery(c, m)
    BY <1>6 DEF DecideTurn
  <2>2. Quiet(<<TurnQueued(t, msg, TRUE)>>)
    BY <1>3, Zenon
  <2> QED BY <2>1, <2>2, QuietNothing, Zenon DEF DecideHoldForRecovery, Guarded, Rejected
<1>7. CASE c.type = "thread.queued-turn.update"
  <2>1. events = DecideQueuedTurnUpdate(c, m)
    BY <1>7 DEF DecideTurn
  <2>2. Quiet(<<OnMessage("thread.queued-turn-updated", t, msg)>>)
    BY <1>0, QuietOnMessage
  <2> QED BY <2>1, <2>2, QuietNothing, Zenon DEF DecideQueuedTurnUpdate, Guarded, Rejected
<1>8. CASE c.type = "thread.queued-turn.cancel"
  <2>1. events = DecideQueuedTurnCancel(c, m)
    BY <1>8 DEF DecideTurn
  <2>2. Quiet(<<OnMessage("thread.queued-turn-cancelled", t, msg)>>)
    BY <1>0, QuietOnMessage
  <2> QED BY <2>1, <2>2, QuietNothing, Zenon DEF DecideQueuedTurnCancel, Guarded, Rejected
<1>9. CASE c.type = "thread.queued-turn.steer"
  <2>1. events = DecideQueuedTurnSteer(c, m)
    BY <1>9 DEF DecideTurn
  <2>2. Quiet(<<OnSteer("thread.queued-turn-steer-requested", t, msg, c.turn)>>)
    BY <1>0, QuietOnSteer
  <2> QED BY <2>1, <2>2, QuietNothing, Zenon DEF DecideQueuedTurnSteer, Guarded, Rejected
<1>10. CASE c.type \in {"thread.queued-turn.confirm", "thread.queued-turn.dispatch"}
  <2> DEFINE first == <<OnMessage("thread.queued-turn-dispatched", t, msg)>>
  <2>1. events = DecideQueuedTurnConfirm(c, m) \/ events = DecideQueuedTurnDispatch(c, m)
    BY <1>10 DEF DecideTurn
  <2>2. events \in {first \o sent \o start, first \o <<>> \o start, <<>>}
    <3>1. CASE events = DecideQueuedTurnConfirm(c, m)
      BY <3>1, Zenon DEF DecideQueuedTurnConfirm, DispatchEvents, Guarded, Rejected, If
    <3>2. CASE events = DecideQueuedTurnDispatch(c, m)
      BY <3>2, Zenon DEF DecideQueuedTurnDispatch, DispatchEvents, Guarded, Rejected, If
    <3> QED BY <2>1, <3>1, <3>2
  <2>3. Quiet(first)
    BY <1>0, QuietOnMessage
  <2> HIDE DEF first, sent, start
  <2>4. Quiet(first \o sent \o start) /\ Quiet(first \o <<>> \o start)
    BY <1>1, <2>3, QuietTogether, QuietNothing, Zenon
  <2> QED BY <2>2, <2>4, QuietNothing, Zenon
<1>11. CASE c.type = "thread.queued-turn.steer.complete"
  <2> DEFINE first == <<OnSteer("thread.queued-turn-steered", t, msg, c.turn)>>
             both == <<OnSteer("thread.queued-turn-steered", t, msg, c.turn),
                       OnMessage("thread.message-sent", t, msg)>>
  <2>1. events = DecideSteerComplete(c, m)
    BY <1>11 DEF DecideTurn
  <2>2. events \in {both, <<>>}
    BY <2>1, Zenon DEF DecideSteerComplete, Guarded, Rejected
  <2>3. both = first \o sent
    BY Pair, Zenon
  <2>4. Quiet(first)
    BY <1>0, QuietOnSteer
  <2> HIDE DEF first, both, sent, start
  <2> QED BY <1>1, <2>2, <2>3, <2>4, QuietTogether, QuietNothing
<1>12. CASE c.type = "thread.queued-turn.steer.fail"
  <2> DEFINE first == <<OnSteer("thread.queued-turn-steer-failed", t, msg, c.turn)>>
             last == <<Activity(t, "provider.turn.steer.failed", None)>>
             both == <<OnSteer("thread.queued-turn-steer-failed", t, msg, c.turn),
                       Activity(t, "provider.turn.steer.failed", None)>>
  <2>1. events = DecideSteerFail(c, m)
    BY <1>12 DEF DecideTurn
  <2>2. events \in {both, <<>>}
    BY <2>1, Zenon DEF DecideSteerFail, Guarded, Rejected
  <2>3. both = first \o last
    BY Pair, Zenon
  <2>4. Quiet(first) /\ Quiet(last)
    BY <1>0, <1>2, QuietOnSteer
  <2> HIDE DEF first, last, both
  <2> QED BY <2>2, <2>3, <2>4, QuietTogether, QuietNothing
<1>13. CASE c.type = "thread.session.stop"
  <2>1. events = Guarded(ThreadExists(m, t), <<OnThread("thread.session-stop-requested", t)>>)
    BY <1>13 DEF DecideTurn
  <2>2. Quiet(<<OnThread("thread.session-stop-requested", t)>>)
    BY <1>0, QuietOnThread
  <2> QED BY <2>1, <2>2, QuietNothing, Zenon DEF Guarded, Rejected
<1>14. CASE c.type = "thread.activity.append"
  <2>1. events = Guarded(ThreadExists(m, t), <<Activity(t, c.kind, c.request)>>)
    BY <1>14 DEF DecideTurn
  <2>2. Quiet(<<Activity(t, c.kind, c.request)>>)
    BY <1>2
  <2> QED BY <2>1, <2>2, QuietNothing, Zenon DEF Guarded, Rejected
<1> QED BY <1>4, <1>5, <1>6, <1>7, <1>8, <1>9, <1>10, <1>11, <1>12, <1>13, <1>14
        DEF TurnCommandTypes, MessageCommandTypes, PartingCommandTypes

LEMMA QuietCommands ==
    ASSUME NEW m, NEW c, WellFormed(c),
           c.type \notin PartingCommandTypes \cup {"thread.session.set"}
    PROVE  Quiet(DecideCommandOn(c, m))
<1>1. CASE c.type \in ProjectCommandTypes
  <2> DEFINE e == [type |-> "project.created", project |-> c.project]
             events == DecideCommandOn(c, m)
  <2>1. c.type = "project.create"
    BY <1>1 DEF ProjectCommandTypes, PartingCommandTypes
  <2>2. events = DecideProject(c, m)
    BY <1>1 DEF DecideCommandOn, ProjectCommandTypes, ThreadCommandTypes
  <2>3. events = Guarded(~ProjectExists(m, c.project), <<e>>)
    BY <2>1, <2>2 DEF DecideProject
  <2>4. e.type \notin Loud
    BY DEF Loud, PartingTypes, Emptying
  <2> HIDE DEF e
  <2>5. Quiet(<<e>>)
    BY <2>4, QuietEvent
  <2> QED BY <2>3, <2>5, QuietNothing, Zenon DEF Guarded, Rejected
<1>2. CASE c.type \in ThreadCommandTypes
  <2>1. DecideCommandOn(c, m) = DecideThread(c, m)
    BY <1>2 DEF DecideCommandOn, ProjectCommandTypes, ThreadCommandTypes
  <2> QED BY <1>2, <2>1, QuietLife
<1>3. CASE c.type \in TurnCommandTypes
  <2>1. DecideCommandOn(c, m) = DecideTurn(c, m)
    BY <1>3 DEF DecideCommandOn, ProjectCommandTypes, ThreadCommandTypes, TurnCommandTypes,
           MessageCommandTypes
  <2> QED BY <1>3, <2>1, QuietTurns
<1> QED BY <1>1, <1>2, <1>3 DEF WellFormed

\* Each event is calm where it is projected.
Calmly(events, m, tb, known) ==
    \A ms, ts : ms[0] = m /\ ts[0] = tb /\ Projected(events, ms, ts) =>
                    AllCalm(events, ts, known)

\* What a command leaves, when each of its events is calm.
LEMMA CommandReflects ==
    ASSUME NEW m, NEW tb, NEW known, Agreement(m, tb), Reflected(m, tb, known),
           NEW c, Suits(c, m), NEW events, events = DecideCommandOn(c, m), events # Rejected,
           Calmly(events, m, tb, known)
    PROVE  Reflected(ProjectEvents(m, events), ApplyEvents(tb, events), known)
<1>1. PICK S, ms, ts :
         /\ events \in Seq(S) /\ Projected(events, ms, ts) /\ AllProjectable(events, ms)
         /\ Agreement(ms[0], ts[0]) /\ ms[0] = m /\ ts[0] = tb
         /\ ms[Len(events)] = ProjectEvents(m, events)
         /\ ts[Len(events)] = ApplyEvents(tb, events)
  BY CommandTrace
<1>2. AllCalm(events, ts, known)
  BY <1>1 DEF Calmly
<1>3. \A n \in 0..Len(events) : Reflected(ms[n], ts[n], known)
  BY <1>1, <1>2, EventsReflect
<1>4. Len(events) \in 0..Len(events)
  BY <1>1
<1> QED BY <1>1, <1>3, <1>4

\* Quiet events are calm whatever they are projected onto.
LEMMA QuietIsCalm ==
    ASSUME NEW events, Quiet(events), NEW ts, NEW known
    PROVE  AllCalm(events, ts, known)
<1>1. PICK S : events \in Seq(S) /\ \A e \in S : e.type \notin Loud
  BY DEF Quiet
<1>2. \A n \in 1..Len(events) : events[n].type \notin Loud
  BY <1>1
<1> QED BY <1>2 DEF AllCalm, Calm, Loud

\* A session is set to a turn nobody knew, which starts, or keeps the latest.
Announced(c, rows, known) ==
    IF c.status = "running" /\ c.turn # None THEN c.turn \in known \ DOMAIN rows.turns
    ELSE c.turn \in {None, rows.row.latestTurnId}

LEMMA SessionIsCalm ==
    ASSUME NEW ms, NEW ts, NEW known, Agreement(ms[0], ts[0]), NEW c, Suits(c, ms[0]),
           c.type = "thread.session.set", Announced(c, RowsOf(ts[0], c.thread), known),
           NEW events, events = DecideCommandOn(c, ms[0]), events # Rejected,
           Projected(events, ms, ts)
    PROVE  AllCalm(events, ts, known)
<1> DEFINE t == c.thread
           th == ms[0].threads[t]
           U == Unsettled(t, "activity")
           wakes == c.status \in {"starting", "running"} /\ th.settledOverride # "none"
           before == If(wakes, U)
           e == SessionSet(t, c.status, c.turn)
           rows == RowsOf(ts[0], t)
           next == RowsOf(ApplyAllProjections(ts[0], U), t)
<1>1. /\ ReadModelShape(ms[0]) /\ TablesShape(ts[0]) /\ t \in ThreadId
      /\ rows.row \in RowType /\ th \in ThreadType
  <2>1. ReadModelShape(ms[0]) /\ TablesShape(ts[0]) /\ t \in ThreadId
    BY DEF Agreement, Suits, WellFormed, ProjectCommandTypes
  <2> QED BY <2>1 DEF ReadModelShape, TablesShape, RowsOf
<1>2. ThreadExists(ms[0], t) /\ events = before \o <<e>>
  <2>1. events = DecideSessionSet(c, ms[0])
    BY DEF DecideCommandOn, DecideTurn, ProjectCommandTypes, ThreadCommandTypes
  <2> QED BY <2>1, Zenon DEF DecideSessionSet, Guarded
<1>3. /\ e.type = "thread.session-set" /\ e.thread = t
      /\ e.status = c.status /\ e.turn = c.turn
  BY DEF SessionSet
<1>4. U \in OrdinaryOn(t) /\ U.type = "thread.unsettled" /\ U.thread = t
  BY <1>1, StillUnsettled DEF ReasonType, StillOn, Unsettled
<1>5. "thread.session-set" \notin PartingTypes /\ "thread.unsettled" \notin PartingTypes
  BY DEF PartingTypes, Emptying
<1>6. Calm(rows, e, known)
  BY <1>3, <1>5 DEF Calm, Announced, StartsTurn
<1>7. Calm(next, e, known)
  <2>1. ThreadEvent(U) /\ Fits(th, U)
    BY <1>2, <1>4 DEF OrdinaryOn, Ordinary, Fits, ThreadExists
  <2>2. Follows(rows, U, next)
    BY <1>4, <2>1, EventFollows
  <2> HIDE DEF next, rows, U
  <2>3. next.row.latestTurnId = rows.row.latestTurnId
    <3>1. ThreadRowAfter(rows.row, U).latestTurnId = rows.row.latestTurnId
      BY <1>1, <1>4, <2>1, LatestStays
    <3> QED BY <2>2, <3>1 DEF Follows
  <2>4. next.turns = rows.turns
    BY <1>4, <2>2 DEF Follows, TurnRowAfter
  <2> QED BY <1>6, <2>3, <2>4 DEF Calm
<1> HIDE DEF e, U, next, rows
<1>8. CASE wakes
  <2>1. before = <<U>>
    BY <1>8 DEF If
  <2> HIDE DEF before
  <2>2. events = <<U, e>>
    BY <1>2, <2>1, Pair, Zenon
  <2>3. Len(events) = 2 /\ events[1] = U /\ events[2] = e
    BY <2>2
  <2>4. ts[1] = ApplyAllProjections(ts[0], U)
    BY <2>3 DEF Projected
  <2>5. RowsOf(ts[1], e.thread) = next
    BY <1>3, <2>4 DEF next
  <2>6. Calm(RowsOf(ts[0], U.thread), U, known)
    BY <1>4, <1>5 DEF Calm
  <2>7. \A n \in 1..2 : n = 1 \/ n = 2
    OBVIOUS
  <2> QED BY <1>7, <2>3, <2>5, <2>6, <2>7 DEF AllCalm
<1>9. CASE ~wakes
  <2>1. before = <<>>
    BY <1>9, Zenon DEF If
  <2> HIDE DEF before
  <2>2. events = <<e>>
    BY <1>2, <2>1
  <2>3. Len(events) = 1 /\ events[1] = e
    BY <2>2
  <2>4. RowsOf(ts[0], e.thread) = rows
    BY <1>3 DEF rows
  <2> QED BY <1>6, <2>3, <2>4 DEF AllCalm
<1> QED BY <1>8, <1>9

\* More turns may be known.
LEMMA ReflectedMore ==
    ASSUME NEW m, NEW tb, NEW known, Reflected(m, tb, known), NEW more, known \subseteq more
    PROVE  Reflected(m, tb, more)
BY DEF Reflected, Reflects

-----------------------------------------------------------------------------
(* What a restart loads *)

\* Whatever a restart forgets, the fields that the rows give back stay.
LEMMA ForgetfulThread ==
    ASSUME NEW th \in ThreadType
    PROVE  Forgetful(th) =
             [project |-> th.project, deleted |-> th.deleted, archived |-> th.archived,
              settledOverride |-> th.settledOverride, snoozed |-> th.snoozed,
              pinned |-> th.pinned, seenCompletionTurnId |-> th.seenCompletionTurnId,
              session |-> th.session, latestTurn |-> th.latestTurn,
              queuedTurns |-> th.queuedTurns,
              userMessages |-> {}, openRequests |-> {}, unstarted |-> FALSE]
<1> DEFINE new == Forgetful(th)
<1>1. /\ new.project = th.project /\ new.deleted = th.deleted /\ new.archived = th.archived
      /\ new.settledOverride = th.settledOverride /\ new.snoozed = th.snoozed
      /\ new.pinned = th.pinned /\ new.seenCompletionTurnId = th.seenCompletionTurnId
      /\ new.session = th.session /\ new.queuedTurns = th.queuedTurns
      /\ new.latestTurn = th.latestTurn
      /\ new.userMessages = {} /\ new.openRequests = {} /\ new.unstarted = FALSE
  BY DEF Forgetful, ThreadType
<1>2. new \in ThreadType
  BY DEF Forgetful, ThreadType
<1> HIDE DEF new
<1>3. new =
         [project |-> new.project, deleted |-> new.deleted, archived |-> new.archived,
          settledOverride |-> new.settledOverride, snoozed |-> new.snoozed,
          pinned |-> new.pinned, seenCompletionTurnId |-> new.seenCompletionTurnId,
          session |-> new.session, latestTurn |-> new.latestTurn,
          queuedTurns |-> new.queuedTurns,
          userMessages |-> new.userMessages, openRequests |-> new.openRequests,
          unstarted |-> new.unstarted]
  BY <1>2 DEF ThreadType
<1> QED BY <1>1, <1>3 DEF new

LEMMA LoadIsForgetful ==
    ASSUME NEW m, NEW tb, NEW known, Agreement(m, tb), Reflected(m, tb, known)
    PROVE  LoadCommandReadModel(tb) =
               [m EXCEPT !.threads = [t \in ThreadId |-> Forgetful(m.threads[t])]]
<1>1. /\ ReadModelShape(m) /\ TablesShape(tb) /\ m.projects = tb["projects"]
      /\ \A t \in ThreadId : /\ Agrees(m.threads[t], RowsOf(tb, t))
                             /\ Reflects(m.threads[t], RowsOf(tb, t), known)
  BY DEF Agreement, Reflected
<1>2. ASSUME NEW t \in ThreadId
      PROVE  (IF tb["threads"][t].project = None THEN AbsentThread ELSE LoadedThread(tb, t))
                 = Forgetful(m.threads[t])
  <2> DEFINE th == m.threads[t]
             rows == RowsOf(tb, t)
  <2>1. Agrees(th, rows) /\ Reflects(th, rows, known) /\ th \in ThreadType
    BY <1>1 DEF ReadModelShape
  <2>2. /\ rows.row = tb["threads"][t] /\ rows.session = tb["threadSessions"][t]
        /\ rows.queue = tb["threadQueuedTurns"][t] /\ rows.turns = tb["threadTurns"][t].turns
    BY DEF RowsOf
  <2> HIDE DEF rows, th
  <2>3. CASE rows.row.project = None
    <3>1. th = AbsentThread
      BY <2>1, <2>3 DEF Agrees, Untouched
    <3>2. Forgetful(AbsentThread) = AbsentThread
      BY <2>1, <3>1, ForgetfulThread DEF AbsentThread
    <3> QED BY <2>2, <2>3, <3>1, <3>2 DEF th
  <2>4. CASE rows.row.project # None
    <3>1. LoadedThread(tb, t) =
             [project |-> rows.row.project, deleted |-> rows.row.deleted,
              archived |-> rows.row.archived,
              settledOverride |-> rows.row.settledOverride, snoozed |-> rows.row.snoozed,
              pinned |-> rows.row.pinned,
              seenCompletionTurnId |-> rows.row.seenCompletionTurnId,
              session |-> rows.session, latestTurn |-> LatestOf(rows),
              queuedTurns |-> rows.queue,
              userMessages |-> {}, openRequests |-> {}, unstarted |-> FALSE]
      BY <2>2 DEF LoadedThread, LatestOf
    <3>3. Forgetful(th) =
             [project |-> th.project, deleted |-> th.deleted, archived |-> th.archived,
              settledOverride |-> th.settledOverride, snoozed |-> th.snoozed,
              pinned |-> th.pinned, seenCompletionTurnId |-> th.seenCompletionTurnId,
              session |-> th.session, latestTurn |-> th.latestTurn,
              queuedTurns |-> th.queuedTurns,
              userMessages |-> {}, openRequests |-> {}, unstarted |-> FALSE]
      BY <2>1, ForgetfulThread
    <3>4. /\ RowReflects(th, rows.row)
          /\ th.session = rows.session /\ th.queuedTurns = rows.queue
          /\ th.latestTurn = LatestOf(rows)
      BY <2>1 DEF Reflects
    <3>5. LoadedThread(tb, t) = Forgetful(th)
      BY <3>1, <3>3, <3>4 DEF RowReflects
    <3> QED BY <2>2, <2>4, <3>5 DEF th
  <2> QED BY <2>3, <2>4
<1>3. LoadCommandReadModel(tb) =
         [projects |-> m.projects, threads |-> [t \in ThreadId |-> Forgetful(m.threads[t])]]
  BY <1>1, <1>2, Zenon DEF LoadCommandReadModel
<1>4. m = [projects |-> m.projects, threads |-> m.threads]
  BY <1>1 DEF ReadModelShape
<1> DEFINE forgetful == [t \in ThreadId |-> Forgetful(m.threads[t])]
<1> HIDE DEF forgetful
<1>5. [m EXCEPT !.threads = forgetful] = [projects |-> m.projects, threads |-> forgetful]
  BY <1>4
<1> QED BY <1>3, <1>5 DEF forgetful

\* What is loaded is reflected as what was in memory.
LEMMA LoadReflects ==
    ASSUME NEW m, NEW tb, NEW known, Agreement(m, tb), Reflected(m, tb, known)
    PROVE  Reflected(LoadCommandReadModel(tb), tb, known)
<1> DEFINE loaded == LoadCommandReadModel(tb)
           threads == [t \in ThreadId |-> Forgetful(m.threads[t])]
<1>1. /\ ReadModelShape(m) /\ m.projects = tb["projects"]
      /\ \A t \in ThreadId : Reflects(m.threads[t], RowsOf(tb, t), known)
  BY DEF Agreement, Reflected
<1>2. loaded = [m EXCEPT !.threads = threads]
  BY LoadIsForgetful
<1>3. m = [projects |-> m.projects, threads |-> m.threads]
  BY <1>1 DEF ReadModelShape
<1> HIDE DEF loaded
<1>4. loaded.projects = m.projects /\ loaded.threads = threads
  <2> HIDE DEF threads
  <2> QED BY <1>2, <1>3
<1>5. ASSUME NEW t \in ThreadId
      PROVE  Reflects(loaded.threads[t], RowsOf(tb, t), known)
  <2> DEFINE th == m.threads[t]
             rows == RowsOf(tb, t)
             new == Forgetful(th)
  <2>1. Reflects(th, rows, known) /\ th \in ThreadType /\ loaded.threads[t] = new
    BY <1>1, <1>4 DEF ReadModelShape
  <2>2. /\ new.project = th.project /\ new.deleted = th.deleted /\ new.archived = th.archived
        /\ new.settledOverride = th.settledOverride /\ new.snoozed = th.snoozed
        /\ new.pinned = th.pinned /\ new.seenCompletionTurnId = th.seenCompletionTurnId
        /\ new.session = th.session /\ new.queuedTurns = th.queuedTurns
        /\ new.latestTurn = th.latestTurn
    BY <2>1 DEF Forgetful, ThreadType
  <2> HIDE DEF new, rows, th
  <2>3. Reflects(new, rows, known)
    BY <2>1, <2>2 DEF Reflects, RowReflects
  <2> QED BY <2>1, <2>3 DEF rows
<1> QED BY <1>1, <1>4, <1>5 DEF Reflected, loaded

-----------------------------------------------------------------------------
(* Every step gives back the read model *)

\* A command that parts nothing and sets no session.
LEMMA QuietAccepted ==
    ASSUME RestartInv, NEW c, Suits(c, live), Accept(c),
           c.type \notin PartingCommandTypes \cup {"thread.session.set"}
    PROVE  Reflected(live', tables', started)
<1> DEFINE events == DecideCommandOn(c, live)
<1>1. /\ events # Rejected /\ events = DecideCommandOn(c, live)
      /\ live' = ProjectEvents(live, events) /\ tables' = ApplyEvents(tables, events)
  BY DEF Accept
<1>2. Quiet(events)
  BY QuietCommands DEF Suits
<1>3. Agreement(live, tables) /\ Reflected(live, tables, started)
  BY DEF RestartInv, HistoryInv
<1> HIDE DEF events
<1>4. Calmly(events, live, tables, started)
  BY <1>2, QuietIsCalm DEF Calmly
<1>5. Reflected(ProjectEvents(live, events), ApplyEvents(tables, events), started)
  BY <1>1, <1>3, <1>4, CommandReflects
<1> QED BY <1>1, <1>5

\* A session that is set to a turn nobody knew, or that keeps the latest.
LEMMA SessionAccepted ==
    ASSUME RestartInv, NEW c, Suits(c, live), Accept(c), c.type = "thread.session.set",
           NEW known, started \subseteq known, Announced(c, RowsOf(tables, c.thread), known)
    PROVE  Reflected(live', tables', known)
<1> DEFINE events == DecideCommandOn(c, live)
<1>1. /\ events # Rejected /\ events = DecideCommandOn(c, live)
      /\ live' = ProjectEvents(live, events) /\ tables' = ApplyEvents(tables, events)
  BY DEF Accept
<1>2. Agreement(live, tables) /\ Reflected(live, tables, known)
  BY ReflectedMore DEF RestartInv, HistoryInv
<1> HIDE DEF events
<1>3. ASSUME NEW ms, NEW ts, ms[0] = live /\ ts[0] = tables /\ Projected(events, ms, ts)
      PROVE  AllCalm(events, ts, known)
  BY <1>1, <1>2, <1>3, SessionIsCalm
<1>4. Calmly(events, live, tables, known)
  BY <1>3 DEF Calmly
<1>5. Reflected(ProjectEvents(live, events), ApplyEvents(tables, events), known)
  BY <1>1, <1>2, <1>4, CommandReflects
<1> QED BY <1>1, <1>5

\* A session that starts no turn, and works on none or on the one it had.
LEMMA SessionKept ==
    ASSUME RestartInv, NEW t \in ThreadId, NEW status \in StatusType, NEW turn,
           status \notin {"none", "running"},
           turn = None \/ turn = Session(t).activeTurnId,
           status = "starting" => Session(t).activeTurnId = None /\ turn = None,
           Accept([type |-> "thread.session.set", thread |-> t, status |-> status,
                   turn |-> turn])
    PROVE  Reflected(live', tables', started)
<1> DEFINE c == [type |-> "thread.session.set", thread |-> t, status |-> status,
                 turn |-> turn]
           rows == RowsOf(tables, t)
<1>1. HistoryInv /\ Reflected(live, tables, started)
  BY DEF RestartInv
<1>2. turn \in MaybeTurn
  BY <1>1, RowTypes DEF HistoryInv, SessionType, MaybeTurn
<1>3. Suits(c, live)
  BY <1>1, <1>2, SessionSuits
<1>4. rows.session = Session(t)
  BY DEF RowsOf, Session
<1>5. rows.session.activeTurnId \in {None, rows.row.latestTurnId}
  BY <1>1 DEF Reflected, Reflects
<1>6. /\ Accept(c) /\ c.type = "thread.session.set" /\ c.status = status /\ c.turn = turn
      /\ c.thread = t
  OBVIOUS
<1> HIDE DEF c, rows
<1>7. Announced(c, rows, started)
  BY <1>4, <1>5, <1>6 DEF Announced
<1> QED BY <1>3, <1>6, <1>7, SessionAccepted DEF rows

LEMMA RestartStep ==
    ASSUME ClientCommandTypes \cap PartingCommandTypes = {}, RestartInv, [Next]_vars
    PROVE  RestartInv'
<1>0. HistoryInv /\ Reflected(live, tables, started) /\ Agreement(live, tables)
  BY DEF RestartInv, HistoryInv
<1> SUFFICES Reflected(live', tables', started')
  BY <1>0, HistoryStep DEF RestartInv
<1>1. ASSUME NEW c, Suits(c, live), Served(c), started' = started,
             c.type \notin PartingCommandTypes \cup {"thread.session.set"}
      PROVE  Reflected(live', tables', started')
  BY <1>1, QuietAccepted DEF Served
<1>2. ASSUME NEW c, c \in ProjectCommands \/ \E t \in ThreadId : c \in ThreadCommands(t),
             ClientCommand(c)
      PROVE  Reflected(live', tables', started')
  <2>1. /\ Suits(c, live) /\ Served(c) /\ started' = started
        /\ c.type \notin PartingCommandTypes
    BY <1>0, <1>2, ClientsSuit DEF ClientCommand
  <2>2. c.type # "thread.session.set"
    <3>1. CASE c \in ProjectCommands
      BY <3>1 DEF ProjectCommands
    <3>2. ASSUME NEW t \in ThreadId, c \in ThreadCommands(t)
          PROVE  c.type # "thread.session.set"
      BY <3>2 DEF ThreadCommands, Command, WithGrace, OnTurn, OnMessages
    <3> QED BY <1>2, <3>1, <3>2
  <2> QED BY <1>1, <2>1, <2>2
<1>3. ASSUME NEW t \in ThreadId, NEW type \in {"thread.turn.start", "thread.turn.queue"},
             ClientMessage(t, type)
      PROVE  Reflected(live', tables', started')
  <2> DEFINE c == [type |-> type, thread |-> t, message |-> composed + 1]
  <2>1. composed + 1 \in MessageId /\ Served(c) /\ started' = started
    BY <1>3 DEF ClientMessage
  <2>2. Suits(c, live)
    BY <2>1, MessagesSuit
  <2>3. c.type \notin PartingCommandTypes \cup {"thread.session.set"}
    BY DEF PartingCommandTypes
  <2> HIDE DEF c
  <2> QED BY <1>1, <2>1, <2>2, <2>3
<1>4. ASSUME NEW t \in ThreadId, NEW turn \in TurnId, TurnStarted(t, turn)
      PROVE  Reflected(live', tables', started')
  <2> DEFINE c == [type |-> "thread.session.set", thread |-> t, status |-> "running",
                   turn |-> turn]
             known == started \cup {turn}
             rows == RowsOf(tables, t)
  <2>1. Accept(c) /\ started' = known /\ turn \notin started
    BY <1>4 DEF TurnStarted, SetSession, Served
  <2>2. turn \in MaybeTurn /\ turn # None /\ "running" \in StatusType
    BY HistoryAssumption DEF MaybeTurn, StatusType
  <2>3. Suits(c, live)
    BY <1>0, <2>2, SessionSuits
  <2>4. DOMAIN rows.turns \subseteq started
    BY <1>0 DEF Reflected, Reflects
  <2>5. /\ c.type = "thread.session.set" /\ c.status = "running" /\ c.turn = turn
        /\ c.thread = t
    OBVIOUS
  <2>6. started \subseteq known /\ turn \in known
    OBVIOUS
  <2> HIDE DEF c, known, rows
  <2>7. Announced(c, rows, known)
    BY <2>1, <2>2, <2>4, <2>5, <2>6 DEF Announced
  <2>8. Reflected(live', tables', known)
    BY <2>1, <2>3, <2>5, <2>6, <2>7, SessionAccepted DEF rows
  <2> QED BY <2>1, <2>8
<1>5. ASSUME NEW t \in ThreadId, NEW turn \in TurnId, NEW status \in {"ready", "error"},
             TurnCompleted(t, turn, status)
      PROVE  Reflected(live', tables', started')
  <2>1. /\ Accept([type |-> "thread.session.set", thread |-> t, status |-> status,
                   turn |-> None])
        /\ started' = started
    BY <1>5 DEF TurnCompleted, SetSession, Served
  <2>2. status \in StatusType /\ status \notin {"none", "running", "starting"}
    BY DEF StatusType
  <2>3. Reflected(live', tables', started)
    BY <2>1, <2>2, SessionKept
  <2> QED BY <2>1, <2>3
<1>6. ASSUME NEW t \in ThreadId, NEW status \in {"starting", "ready", "stopped"},
             SessionMoves(t, status)
      PROVE  Reflected(live', tables', started')
  <2>1. /\ Accept([type |-> "thread.session.set", thread |-> t, status |-> status,
                   turn |-> None])
        /\ started' = started
        /\ status = "starting" => Session(t).activeTurnId = None
    BY <1>6 DEF SessionMoves, SetSession, Served
  <2>2. status \in StatusType /\ status \notin {"none", "running"}
    BY DEF StatusType
  <2>3. Reflected(live', tables', started)
    BY <2>1, <2>2, SessionKept
  <2> QED BY <2>1, <2>3
<1>7. ASSUME NEW t \in ThreadId, RuntimeError(t)
      PROVE  Reflected(live', tables', started')
  <2> DEFINE u == Session(t).activeTurnId
  <2>1. /\ Accept([type |-> "thread.session.set", thread |-> t, status |-> "error",
                   turn |-> u])
        /\ started' = started
    BY <1>7 DEF RuntimeError, SetSession, Served
  <2>2. "error" \in StatusType /\ u = Session(t).activeTurnId
    BY DEF StatusType
  <2> HIDE DEF u
  <2>3. Reflected(live', tables', started)
    BY <2>1, <2>2, SessionKept
  <2> QED BY <2>1, <2>3
<1>8. ASSUME NEW t \in ThreadId, NEW kind \in {"approval.requested", "approval.resolved"},
             NEW request \in RequestId, ProviderActivity(t, kind, request)
      PROVE  Reflected(live', tables', started')
  <2> DEFINE c == [type |-> "thread.activity.append", thread |-> t, kind |-> kind,
                   request |-> request]
  <2>1. /\ Served(c) /\ started' = started
        /\ OpensRequest(kind) => Session(t).status = "running"
    BY <1>8 DEF ProviderActivity
  <2>2. Suits(c, live)
    BY <1>0, <2>1, ActivitySuits
  <2>3. c.type \notin PartingCommandTypes \cup {"thread.session.set"}
    BY DEF PartingCommandTypes
  <2> HIDE DEF c
  <2> QED BY <1>1, <2>1, <2>2, <2>3
<1>9. ASSUME NEW t \in ThreadId, DispatchQueuedTurn(t)
      PROVE  Reflected(live', tables', started')
  <2>1. PICK msg \in DOMAIN Queue(t) :
           Served([type |-> "thread.queued-turn.dispatch", thread |-> t, message |-> msg])
    BY <1>9 DEF DispatchQueuedTurn
  <2> DEFINE c == [type |-> "thread.queued-turn.dispatch", thread |-> t, message |-> msg]
  <2>2. msg \in MessageId /\ Served(c) /\ started' = started
    BY <1>0, <1>9, <2>1, RowTypes DEF DispatchQueuedTurn
  <2>3. Suits(c, live)
    BY <2>2, MessagesSuit
  <2>4. c.type \notin PartingCommandTypes \cup {"thread.session.set"}
    BY DEF PartingCommandTypes
  <2> HIDE DEF c
  <2> QED BY <1>1, <2>2, <2>3, <2>4
<1>10. ASSUME NEW t \in ThreadId, NEW msg \in MessageId,
              NEW outcome \in {"thread.queued-turn.steer.complete",
                               "thread.queued-turn.steer.fail"},
              FinishSteering(t, msg, outcome)
       PROVE  Reflected(live', tables', started')
  <2> DEFINE u == Queue(t)[msg].steering
             c == [type |-> outcome, thread |-> t, message |-> msg, turn |-> u]
  <2>1. msg \in DOMAIN Queue(t) /\ Served(c) /\ started' = started
    BY <1>10 DEF FinishSteering
  <2>2. u \in MaybeTurn
    BY <1>0, <2>1, RowTypes
  <2> HIDE DEF u
  <2>3. Suits(c, live)
    BY <2>2, SteeringSuits
  <2>4. c.type \notin PartingCommandTypes \cup {"thread.session.set"}
    BY DEF PartingCommandTypes
  <2> HIDE DEF c
  <2> QED BY <1>1, <2>1, <2>3, <2>4
<1>11. CASE Restart
  <2>1. live' = LoadCommandReadModel(tables) /\ tables' = tables /\ started' = started
    BY <1>11 DEF Restart
  <2>2. Reflected(LoadCommandReadModel(tables), tables, started)
    BY <1>0, LoadReflects
  <2> QED BY <2>1, <2>2
<1>12. CASE RecoverTurn
  <2> DEFINE next == Head(recovery.hold)
             c == [type |-> "thread.turn.hold-for-recovery", thread |-> next.thread,
                   message |-> next.msg]
  <2>1. recovery.hold # <<>> /\ Accept(c) /\ started' = started
    BY <1>12 DEF RecoverTurn
  <2>2. next \in HoldEntry
    BY <1>0, <2>1 DEF HistoryInv, HistoryTyped
  <2> HIDE DEF next
  <2>3. next.msg \in MessageId /\ next.thread \in ThreadId
    BY <2>2 DEF HoldEntry
  <2>4. Suits(c, live)
    BY <2>3, MessagesSuit
  <2>5. c.type \notin PartingCommandTypes \cup {"thread.session.set"}
    BY DEF PartingCommandTypes
  <2> HIDE DEF c
  <2>6. Reflected(live', tables', started)
    BY <2>1, <2>4, <2>5, QuietAccepted
  <2> QED BY <2>1, <2>6
<1>13. CASE InterruptSession
  <2>1. PICK t \in recovery.interrupt :
           Accept([type |-> "thread.session.set", thread |-> t, status |-> "interrupted",
                   turn |-> None])
    BY <1>13 DEF InterruptSession
  <2>2. t \in ThreadId /\ started' = started /\ "interrupted" \in StatusType
    BY <1>0, <1>13 DEF InterruptSession, HistoryInv, HistoryTyped, StatusType
  <2>3. Reflected(live', tables', started)
    BY <2>1, <2>2, SessionKept
  <2> QED BY <2>2, <2>3
<1>14. CASE UNCHANGED vars
  BY <1>0, <1>14 DEF vars
<1> QED BY <1>2, <1>3, <1>4, <1>5, <1>6, <1>7, <1>8, <1>9, <1>10, <1>11, <1>12, <1>13, <1>14
        DEF Next

LEMMA RestartStart == Init => RestartInv
<1> SUFFICES ASSUME Init PROVE Reflected(live, tables, started)
  BY HistoryStart DEF RestartInv
<1>1. live = InitialReadModel /\ tables = EmptyProjections /\ Agreement(live, tables)
  BY HistoryStart DEF Init, HistoryInv
<1>2. /\ live.projects = tables["projects"]
      /\ \A t \in ThreadId : live.threads[t] = AbsentThread
  <2>1. "projects" \in ToSet(AllProjectors)
    <3>1. AllProjectors[1] = "projects" /\ 1 \in DOMAIN AllProjectors
      BY DEF AllProjectors
    <3> QED BY <3>1 DEF ToSet
  <2>2. tables["projects"] = [p \in ProjectId |-> "absent"]
    BY <1>1, <2>1 DEF EmptyProjections, EmptyProjection, InitialReadModel
  <2> QED BY <1>1, <2>2 DEF InitialReadModel
<1>3. ASSUME NEW t \in ThreadId
      PROVE  Reflects(live.threads[t], RowsOf(tables, t), started)
  <2> DEFINE rows == RowsOf(tables, t)
  <2>1. live.threads[t] = AbsentThread /\ Agrees(live.threads[t], rows)
    BY <1>1, <1>2 DEF Agreement
  <2>2. AbsentThread.project = None
    BY DEF AbsentThread
  <2> HIDE DEF rows
  <2>3. /\ rows.row = NoThreadRow /\ rows.session = AbsentThread.session
        /\ rows.queue = <<>> /\ rows.turns = <<>>
    BY <2>1, <2>2 DEF Agrees, Untouched
  <2>4. /\ RowReflects(AbsentThread, NoThreadRow)
        /\ AbsentThread.queuedTurns = <<>>
        /\ AbsentThread.session.activeTurnId = None
    BY DEF RowReflects, AbsentThread, NoThreadRow
  <2>5. DOMAIN rows.turns = {}
    BY <2>3, EmptyQueue
  <2>6. Reflects(AbsentThread, rows, started)
    BY <2>3, <2>4, <2>5 DEF Reflects, LatestOf
  <2> QED BY <2>1, <2>6 DEF rows
<1> QED BY <1>2, <1>3 DEF Reflected

\* Restarting is invisible to the decider, but for messages and activities:
\* whatever is accepted, the tables give back the read model in memory, as
\* long as clients neither archive nor delete, nor ask to interrupt a turn:
\* the projections of these events empty the queue, or end the turn, in the
\* tables only.
THEOREM RestartsAreTransparent ==
    ASSUME ClientCommandTypes \cap PartingCommandTypes = {}
    PROVE  Spec => []RestartTransparent
<1>1. Init => RestartInv
  BY RestartStart
<1>2. RestartInv /\ [Next]_vars => RestartInv'
  BY RestartStep
<1>3. RestartInv => RestartTransparent
  BY LoadIsForgetful DEF RestartInv, HistoryInv, RestartTransparent
<1> QED BY <1>1, <1>2, <1>3, PTL DEF Spec
=============================================================================
