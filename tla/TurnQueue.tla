------------------------------ MODULE TurnQueue ------------------------------
(***************************************************************************)
(* ProviderCommandReactor: which turn of a thread starts next.             *)
(*                                                                         *)
(* A client starts a turn directly (thread.turn.start) or puts it in the   *)
(* thread's durable queue (thread.turn.queue).  The reactor reads the      *)
(* engine's events from a worker's inbox, one at a time, and keeps flags   *)
(* in memory: a turn is being started, a turn was seen running, a queued   *)
(* message is being promoted.  A direct start that finds the thread busy   *)
(* waits in a second queue, in memory.  Sending a turn to the provider is  *)
(* a fiber of its own; after a restart a startup fiber recovers the thread *)
(* before clients are served.                                              *)
(*                                                                         *)
(* Every action is a step between two suspension points of a fiber: reads  *)
(* of the projection, commands to the engine, calls of the provider.  One  *)
(* thread is modelled; the reactor shares nothing between threads but its  *)
(* worker.  Turns answer messages, so a turn is named by its message and   *)
(* the life of the server it was sent in.                                  *)
(***************************************************************************)
EXTENDS ProjectionTables

CONSTANTS
    Thread, Project,
    worker, startup,     \* the reactor's two long-lived fibers
    Limits               \* bounds: one of these limits holds for a behaviour

VARIABLES
    model,        \* the thread, as the engine and the SQL projections have it
    turnRows,     \* SQL: turns, and pending turn starts, oldest first
    answers,      \* SQL: the message each turn is recorded to answer
    inbox,        \* events the reactor's worker has not taken yet
    active,       \* activeTurnStartThreadIds
    observed,     \* observedRunningTurnThreadIds
    promoting,    \* queuedTurnPromotionMessageIdByThreadId
    startQueue,   \* queuedTurnStartsByThreadId
    blocked,      \* startupRecoveryBlockedThreadIds
    recovery,     \* what the startup recovery still has to do
    fiber,        \* where each fiber is, and the message it works on
    live,         \* the provider has a session for the thread
    turn,         \* what the provider makes of each message
    outstanding,  \* history: turn starts requested and not begun, oldest first
    limits,       \* which kinds of client commands, and how often each thing, may happen
    spent         \* how often each has happened

durable == <<model, turnRows, answers, inbox, outstanding>>
flags == <<active, observed, promoting>>
memory == <<flags, startQueue, blocked, recovery>>
provider == <<live, turn>>
bounds == <<limits, spent>>
vars == <<durable, memory, fiber, provider, bounds>>

\* What the bounds count: client messages and stops, failed commands and
\* inventories of the reactor, turns the provider does not start, runtime
\* errors, sessions that exit, restarts of the server.
Occurrence == {"messages", "stops", "faults", "refusals", "errors", "exits", "restarts"}
Spends(what) == /\ spent[what] < limits[what]
                /\ spent' = [spent EXCEPT ![what] = @ + 1]
                /\ UNCHANGED limits

Runner == {worker, startup}
Fiber == Runner \cup MessageId  \* the fiber that sends a message's turn
Resting(f) == [at |-> IF f = startup THEN "over" ELSE "idle", message |-> None]

\* Read from the SQL projections, which the engine commits with the events.
Queue == model.threads[Thread].queuedTurns
Session == model.threads[Thread].session
Pending == turnRows[Thread].pending
Oldest(msgs) == CHOOSE m \in msgs : \A k \in msgs : m <= k

TurnOf(m) == <<m, spent.restarts>>

NewThread ==
    [InitialReadModel EXCEPT !.projects[Project] = "active",
                             !.threads[Thread].project = Project]

Init ==
    /\ model = NewThread
    /\ turnRows = [t \in ThreadId |-> NoTurns]
    /\ answers = [u \in TurnId |-> None]
    /\ inbox = <<>>
    /\ active = FALSE
    /\ observed = FALSE
    /\ promoting = None
    /\ startQueue = <<>>
    /\ blocked = FALSE
    /\ recovery = [hold |-> <<>>, interrupt |-> FALSE]
    /\ fiber = [f \in Fiber |-> Resting(f)]
    /\ live = FALSE
    /\ turn = [m \in MessageId |-> "none"]
    /\ outstanding = <<>>
    /\ limits \in Limits
    /\ spent = [what \in Occurrence |-> 0]

-----------------------------------------------------------------------------
(* Commands to the engine *)

\* The events the reactor subscribes to and does something about.
Handled(e) ==
    \/ e.type \in {"thread.turn-queued", "thread.queued-turn-steer-failed",
                   "thread.queued-turn-steer-requested", "thread.turn-start-requested",
                   "thread.session-set", "thread.session-stop-requested"}
    \/ e.type = "thread.queued-turn-cancelled" /\ Queue[e.message].held
    \/ e.type = "thread.activity-appended" /\ e.kind = "provider.turn.start.failed"

OutstandingAfter(requests, e) ==
    CASE e.type = "thread.turn-start-requested" -> Append(requests, e.message)
      [] e.type = "thread.turn-queued" -> SelectSeq(requests, LAMBDA m : m # e.message)
      [] OTHER -> requests

\* A turn that starts answers the oldest pending turn start.
AnswersAfter(recorded, e) ==
    IF e.type = "thread.session-set" /\ StartsTurn(e) /\ recorded[e.turn] = None /\ Pending # <<>>
    THEN [recorded EXCEPT ![e.turn] = Head(Pending)]
    ELSE recorded

\* The engine decides a command and commits, projects and publishes its events.
Commit(c) ==
    LET events == DecideCommandOn(c, model) IN
    /\ events # Rejected
    /\ model' = ProjectEvents(model, events)
    /\ turnRows' = FoldLeft(ApplyThreadTurns, turnRows, events)
    /\ answers' = FoldLeft(AnswersAfter, answers, events)
    /\ inbox' = inbox \o SelectSeq(events, Handled)
    /\ outstanding' = FoldLeft(OutstandingAfter, outstanding, events)

\* The engine rejects a command, or fails it.
CommandFails(c) ==
    /\ \/ DecideCommandOn(c, model) = Rejected /\ UNCHANGED bounds
       \/ DecideCommandOn(c, model) # Rejected /\ Spends("faults")
    /\ UNCHANGED durable

OnTheThread(type) == [type |-> type, thread |-> Thread]
OnItsMessage(type, m) == [type |-> type, thread |-> Thread, message |-> m]
SetSession(status, turnId) ==
    [type |-> "thread.session.set", thread |-> Thread, status |-> status, turn |-> turnId]

Moves(f, at, m) == fiber' = [fiber EXCEPT ![f] = [at |-> at, message |-> m]]
Rests(f) == fiber' = [fiber EXCEPT ![f] = Resting(f)]
At(f, at) == fiber[f].at = at

-----------------------------------------------------------------------------
(* The worker takes an event: processDomainEvent *)

Takes(types) ==
    /\ At(worker, "idle")
    /\ inbox # <<>>
    /\ Head(inbox).type \in types
    /\ inbox' = Tail(inbox)
    /\ UNCHANGED <<model, turnRows, answers, outstanding, startQueue, blocked, recovery,
                   provider, bounds>>

\* processTurnStartRequested, up to its busy check.
TakeTurnStart ==
    /\ Takes({"thread.turn-start-requested"})
    /\ promoting' = IF promoting = Head(inbox).message THEN None ELSE promoting
    /\ Moves(worker, "check", Head(inbox).message)
    /\ UNCHANGED <<active, observed>>

\* Mutant: only a session that failed frees the thread.
FreesThreadOnFailure(e) == e.status \in {"stopped", "error", "interrupted"}

\* A session that stopped working frees the thread for its next turn.
FreesThread(e) ==
    \/ e.status \in {"stopped", "error", "interrupted"}
    \/ e.status = "ready" /\ observed

\* processThreadSessionSet
TakeSessionSet ==
    /\ Takes({"thread.session-set"})
    /\ LET e == Head(inbox) IN
       \/ /\ e.turn # None
          /\ active' = TRUE
          /\ observed' = (observed \/ e.status = "running")
          /\ UNCHANGED fiber
       \/ /\ e.turn = None /\ FreesThread(e)
          /\ active' = FALSE
          /\ observed' = FALSE
          /\ Moves(worker, "offer", None)
       \/ /\ e.turn = None /\ ~FreesThread(e)
          /\ UNCHANGED <<active, observed, fiber>>
    /\ UNCHANGED promoting

\* processThreadActivityAppended
TakeStartFailure ==
    /\ Takes({"thread.activity-appended"})
    /\ active' = FALSE
    /\ observed' = FALSE
    /\ Moves(worker, "offer", None)
    /\ UNCHANGED promoting

\* processTurnQueued, processRecoveryQueuedTurnCancelled
TakeQueueChange ==
    /\ Takes({"thread.turn-queued", "thread.queued-turn-steer-failed",
              "thread.queued-turn-cancelled"})
    /\ Moves(worker, "offer", None)
    /\ UNCHANGED flags

\* The provider's session ends, and every turn it had.
ProviderGone ==
    /\ live' = FALSE
    /\ turn' = [m \in MessageId |->
           IF turn[m] \in {"accepted", "running"} THEN "ended" ELSE turn[m]]

\* processSessionStopRequested
TakeSessionStop ==
    /\ Takes({"thread.session-stop-requested"})
    /\ Moves(worker, "stop", None)
    /\ UNCHANGED flags

StopSession ==
    /\ At(worker, "stop")
    /\ IF Session.status \in {"none", "stopped"} THEN UNCHANGED provider ELSE ProviderGone
    /\ Moves(worker, "close", None)
    /\ UNCHANGED <<durable, memory, bounds>>

CloseSession ==
    /\ At(worker, "close")
    /\ \/ Commit(SetSession("stopped", None)) /\ UNCHANGED bounds
       \/ CommandFails(SetSession("stopped", None))
    /\ Rests(worker)
    /\ UNCHANGED <<memory, provider>>

TakeSteer ==
    /\ Takes({"thread.queued-turn-steer-requested"})
    /\ Moves(worker, "steer", Head(inbox).message)
    /\ UNCHANGED flags

\* processQueuedTurnSteerRequested: the provider's running turn takes the
\* message, or not, and the engine is told.
Steer(outcome) ==
    LET m == fiber[worker].message
        c == [type |-> outcome, thread |-> Thread, message |-> m,
              turn |-> IF m \in DOMAIN Queue THEN Queue[m].steering ELSE None]
    IN /\ At(worker, "steer")
       /\ outcome = "thread.queued-turn.steer.complete" =>
              \E k \in MessageId : turn[k] = "running" /\ TurnOf(k) = c.turn
       /\ \/ Commit(c) /\ UNCHANGED bounds
          \/ CommandFails(c)
       /\ Rests(worker)
       /\ UNCHANGED <<memory, provider>>

-----------------------------------------------------------------------------
(* The next turn: startNextAvailableTurnForThread *)

\* isThreadTurnBusy
Busy ==
    \/ active
    \/ promoting # None
    \/ Session.activeTurnId # None
    \/ Session.status \in {"starting", "running"}

\* dispatchQueuedTurnForThread, up to its read of the oldest queued turn.
Offer(f) ==
    /\ At(f, "offer")
    /\ IF blocked THEN Rests(f) ELSE Moves(f, IF Busy THEN "next" ELSE "oldest", None)
    /\ UNCHANGED <<durable, memory, provider, bounds>>

\* Mutant: the oldest turn that is not held.
ReadOldestFree(f) ==
    /\ At(f, "oldest")
    /\ LET free == {m \in DOMAIN Queue : ~Queue[m].held} IN
       \/ /\ free = {}
          /\ Moves(f, "next", None)
          /\ UNCHANGED promoting
       \/ /\ free # {}
          /\ promoting' = Oldest(free)
          /\ Moves(f, "promote", Oldest(free))
    /\ UNCHANGED <<durable, active, observed, startQueue, blocked, recovery, provider, bounds>>

\* A turn held for recovery owns the head of the queue.
ReadOldest(f) ==
    /\ At(f, "oldest")
    /\ LET m == Oldest(DOMAIN Queue) IN
       \/ /\ DOMAIN Queue = {}
          /\ Moves(f, "next", None)
          /\ UNCHANGED promoting
       \/ /\ DOMAIN Queue # {} /\ Queue[m].held
          /\ Rests(f)
          /\ UNCHANGED promoting
       \/ /\ DOMAIN Queue # {} /\ ~Queue[m].held
          /\ promoting' = m
          /\ Moves(f, "promote", m)
    /\ UNCHANGED <<durable, active, observed, startQueue, blocked, recovery, provider, bounds>>

Promotion(f) == OnItsMessage("thread.queued-turn.dispatch", fiber[f].message)

\* The promotion lasts until the worker takes the turn start it asked for.
Promote(f) ==
    /\ At(f, "promote")
    /\ \/ /\ Commit(Promotion(f))
          /\ Rests(f)
          /\ UNCHANGED <<promoting, bounds>>
       \/ /\ CommandFails(Promotion(f))
          /\ promoting' = None
          /\ Moves(f, "next", None)
    /\ UNCHANGED <<active, observed, startQueue, blocked, recovery, provider>>

\* startNextQueuedTurnForThread
StartNextQueued(f) ==
    /\ At(f, "next")
    /\ IF Busy \/ startQueue = <<>>
       THEN Rests(f) /\ UNCHANGED startQueue
       ELSE Moves(f, "start", Head(startQueue)) /\ startQueue' = Tail(startQueue)
    /\ UNCHANGED <<durable, flags, blocked, recovery, provider, bounds>>

\* Mutant: a busy thread drops the start.
CheckTurnStartDropping ==
    /\ At(worker, "check")
    /\ IF Busy THEN Rests(worker) ELSE Moves(worker, "start", fiber[worker].message)
    /\ UNCHANGED <<durable, memory, provider, bounds>>

\* processTurnStartRequested, from its busy check.
CheckTurnStart ==
    /\ At(worker, "check")
    /\ LET m == fiber[worker].message IN
       IF Busy
       THEN Rests(worker) /\ startQueue' = Append(startQueue, m)
       ELSE Moves(worker, "start", m) /\ UNCHANGED startQueue
    /\ UNCHANGED <<durable, flags, blocked, recovery, provider, bounds>>

-----------------------------------------------------------------------------
(* A turn starts: startTurnFromEvent *)

\* Mutant: the flag is left for the session to set.
StartUnmarked(f) ==
    /\ At(f, "start")
    /\ outstanding' = SelectSeq(outstanding, LAMBDA m : m # fiber[f].message)
    /\ Moves(f, "build", fiber[f].message)
    /\ UNCHANGED <<model, turnRows, answers, inbox, flags, startQueue, blocked,
                   recovery, provider, bounds>>

Start(f) ==
    /\ At(f, "start")
    /\ active' = TRUE
    /\ outstanding' = SelectSeq(outstanding, LAMBDA m : m # fiber[f].message)
    /\ Moves(f, "build", fiber[f].message)
    /\ UNCHANGED <<model, turnRows, answers, inbox, observed, promoting, startQueue, blocked,
                   recovery, provider, bounds>>

\* The send is forked and the runner is done.
Forks(f) ==
    fiber' = [fiber EXCEPT ![f] = Resting(f),
                           ![fiber[f].message] = [at |-> "sending", message |-> fiber[f].message]]

\* buildSendTurnRequestForThread: the session is there, or is started first.
\* Nothing is sent when that fails, or the request is not acceptable.
Build(f) ==
    /\ At(f, "build")
    /\ \/ /\ Session.status \notin {"none", "stopped"} /\ live
          /\ Forks(f)
          /\ UNCHANGED <<live, bounds>>
       \/ /\ Session.status \in {"none", "stopped"} \/ ~live
          /\ live' = TRUE
          /\ Moves(f, "bind", fiber[f].message)
          /\ UNCHANGED bounds
       \/ /\ Spends("refusals")
          /\ Moves(f, "refused", fiber[f].message)
          /\ UNCHANGED live
    /\ UNCHANGED <<durable, memory, turn>>

\* bindSessionToThread
Bind(f) ==
    /\ At(f, "bind")
    /\ \/ Commit(SetSession("ready", None)) /\ Forks(f) /\ UNCHANGED bounds
       \/ CommandFails(SetSession("ready", None)) /\ Moves(f, "refused", fiber[f].message)
    /\ UNCHANGED <<memory, provider>>

\* sendTurn: the provider takes the message, with a new session if need be.
SendAccepted(m) ==
    /\ At(m, "sending")
    /\ turn' = [turn EXCEPT ![m] = "accepted"]
    /\ live' = TRUE
    /\ Rests(m)
    /\ UNCHANGED <<durable, memory, bounds>>

SendFails(m) ==
    /\ At(m, "sending")
    /\ Spends("refusals")
    /\ active' = FALSE
    /\ observed' = FALSE
    /\ Moves(m, "refused", m)
    /\ UNCHANGED <<durable, promoting, startQueue, blocked, recovery, provider>>

\* handleTurnStartFailure.  setThreadSessionErrorOnTurnStartFailure reads the
\* session, and without one goes on to the activity.
ReadFailedSession(f) ==
    /\ At(f, "refused")
    /\ Moves(f, CASE Session.status = "none" -> "report"
                  [] Session.status = "stopped" -> "set-stopped"
                  [] OTHER -> "set-ready", fiber[f].message)
    /\ UNCHANGED <<durable, memory, provider, bounds>>

\* Recording the failure failed.  A send fiber logs that; an event's handler
\* is abandoned, with the thread still marked active.
Abandons(f) == Rests(f) /\ UNCHANGED flags

SetFailedSession(f, status) ==
    /\ At(f, IF status = "stopped" THEN "set-stopped" ELSE "set-ready")
    /\ \/ /\ Commit(SetSession(status, None))
          /\ Moves(f, "report", fiber[f].message)
          /\ UNCHANGED <<flags, bounds>>
       \/ CommandFails(SetSession(status, None)) /\ Abandons(f)
    /\ UNCHANGED <<startQueue, blocked, recovery, provider>>

FailureActivity ==
    [type |-> "thread.activity.append", thread |-> Thread, kind |-> "provider.turn.start.failed",
     request |-> None]

ReportFailure(f) ==
    /\ At(f, "report")
    /\ \/ /\ Commit(FailureActivity)
          /\ Rests(f)
          /\ IF f \in Runner THEN active' = FALSE /\ observed' = FALSE
                             ELSE UNCHANGED <<active, observed>>
          /\ UNCHANGED <<promoting, bounds>>
       \/ CommandFails(FailureActivity) /\ Abandons(f)
    /\ UNCHANGED <<startQueue, blocked, recovery, provider>>

-----------------------------------------------------------------------------
(* Startup: recoverInterruptedThreadsAtStartup, then the scan of the queues *)

\* The server restarts: providers, fibers and memory are gone; what events
\* the worker had not taken is not delivered again.
Restart ==
    /\ Spends("restarts")
    /\ model' = [model EXCEPT !.threads[Thread].userMessages = {},
                              !.threads[Thread].unstarted = FALSE]
    /\ inbox' = <<>>
    /\ active' = FALSE
    /\ observed' = FALSE
    /\ promoting' = None
    /\ startQueue' = <<>>
    /\ blocked' = FALSE
    /\ recovery' = [hold |-> <<>>, interrupt |-> FALSE]
    /\ fiber' = [f \in Fiber |-> IF f = startup THEN [at |-> "inventory", message |-> None]
                                 ELSE Resting(f)]
    /\ ProviderGone
    /\ outstanding' = <<>>
    /\ UNCHANGED <<turnRows, answers>>

HasActiveWork ==
    Session.activeTurnId # None \/ Session.status \in {"starting", "running"}

\* A thread with work under way is recovered: what is queued is held, then
\* what is pending, then the session is interrupted.
Inventory ==
    /\ At(startup, "inventory")
    /\ IF HasActiveWork \/ Pending # <<>>
       THEN recovery' = [hold |-> SetToSortSeq(DOMAIN Queue, <)
                                  \o SelectSeq(Pending, LAMBDA m : m \notin DOMAIN Queue),
                         interrupt |-> HasActiveWork]
       ELSE UNCHANGED recovery
    /\ Moves(startup, "recover", None)
    /\ UNCHANGED <<durable, flags, startQueue, blocked, provider, bounds>>

\* Without an inventory no durable queue is promoted, and none is scanned.
InventoryFails ==
    /\ At(startup, "inventory")
    /\ Spends("faults")
    /\ blocked' = TRUE
    /\ Rests(startup)
    /\ UNCHANGED <<durable, flags, startQueue, recovery, provider>>

\* The next command of the recovery.
RecoveryCommand ==
    IF recovery.hold # <<>>
    THEN OnItsMessage("thread.turn.hold-for-recovery", Head(recovery.hold))
    ELSE SetSession("interrupted", None)

\* A command that fails ends the recovery and blocks the thread's queue.
Recover ==
    /\ At(startup, "recover")
    /\ recovery.hold # <<>> \/ recovery.interrupt
    /\ \/ /\ Commit(RecoveryCommand)
          /\ recovery' = IF recovery.hold # <<>> THEN [recovery EXCEPT !.hold = Tail(@)]
                         ELSE [recovery EXCEPT !.interrupt = FALSE]
          /\ UNCHANGED <<blocked, bounds>>
       \/ /\ CommandFails(RecoveryCommand)
          /\ recovery' = [hold |-> <<>>, interrupt |-> FALSE]
          /\ blocked' = TRUE
    /\ UNCHANGED <<flags, startQueue, fiber, provider>>

Scan ==
    /\ At(startup, "recover")
    /\ recovery = [hold |-> <<>>, interrupt |-> FALSE]
    /\ IF DOMAIN Queue = {} THEN Rests(startup) ELSE Moves(startup, "offer", None)
    /\ UNCHANGED <<durable, memory, provider, bounds>>

-----------------------------------------------------------------------------
(* Clients, once the startup is over (makeCommandGate), and providers *)

ClientMessage(type) ==
    /\ At(startup, "over")
    /\ type \in limits.commands
    /\ Spends("messages")
    /\ Commit(OnItsMessage(type, spent.messages + 1))
    /\ UNCHANGED <<memory, fiber, provider>>

ClientCommands ==
    {OnItsMessage(type, m) :
        type \in {"thread.queued-turn.cancel", "thread.queued-turn.confirm"}, m \in DOMAIN Queue}
    \cup {[type |-> "thread.queued-turn.steer", thread |-> Thread, message |-> m,
           turn |-> Session.activeTurnId] : m \in DOMAIN Queue}
    \cup {OnTheThread("thread.session.stop")}

ClientCommand(c) ==
    /\ At(startup, "over")
    /\ c.type \in limits.commands
    /\ IF c.type = "thread.session.stop" THEN Spends("stops") ELSE UNCHANGED bounds
    /\ Commit(c)
    /\ UNCHANGED <<memory, fiber, provider>>

\* turn.started replaces an active turn only while a start is pending; the
\* provider runs the turn either way.
TurnStarted(m) ==
    /\ turn[m] = "accepted"
    /\ turn' = [turn EXCEPT ![m] = "running"]
    /\ IF Session.activeTurnId = None \/ Pending # <<>>
       THEN Commit(SetSession("running", TurnOf(m)))
       ELSE UNCHANGED durable
    /\ UNCHANGED <<memory, fiber, live, bounds>>

\* turn.completed counts for the active turn, or when none is active.
TurnEnded(m, status) ==
    /\ turn[m] = "running"
    /\ turn' = [turn EXCEPT ![m] = "ended"]
    /\ IF Session.activeTurnId \in {None, TurnOf(m)}
       THEN Commit(SetSession(status, None))
       ELSE UNCHANGED durable
    /\ UNCHANGED <<memory, fiber, live, bounds>>

\* runtime.error of the active turn, which goes on.
RuntimeError ==
    /\ Spends("errors")
    /\ Session.activeTurnId # None
    /\ \E m \in MessageId : turn[m] = "running" /\ Session.activeTurnId = TurnOf(m)
    /\ Commit(SetSession("error", Session.activeTurnId))
    /\ UNCHANGED <<memory, fiber, provider>>

\* session.exited, while nothing is being sent.
SessionExited ==
    /\ Spends("exits")
    /\ live
    /\ \A m \in MessageId : ~At(m, "sending")
    /\ ProviderGone
    /\ Commit(SetSession("stopped", None))
    /\ UNCHANGED <<memory, fiber>>

-----------------------------------------------------------------------------

Worker ==
    \/ TakeTurnStart \/ TakeSessionSet \/ TakeStartFailure \/ TakeQueueChange \/ TakeSteer
    \/ TakeSessionStop \/ StopSession \/ CloseSession
    \/ CheckTurnStart
    \/ \E outcome \in {"thread.queued-turn.steer.complete", "thread.queued-turn.steer.fail"} :
          Steer(outcome)

\* The steps of the worker and of the startup fiber.
Run(f) ==
    \/ Offer(f) \/ ReadOldest(f) \/ Promote(f)
    \/ StartNextQueued(f) \/ Start(f) \/ Build(f) \/ Bind(f)
RecordFailure(f) ==
    \/ ReadFailedSession(f)
    \/ \E status \in {"ready", "stopped"} : SetFailedSession(f, status)
    \/ ReportFailure(f)
Startup == Inventory \/ InventoryFails \/ Recover \/ Scan
Send(m) == SendAccepted(m) \/ SendFails(m)
Turn(m) == TurnStarted(m) \/ \E status \in {"ready", "error"} : TurnEnded(m, status)

Next ==
    \/ Worker
    \/ \E f \in Runner : Run(f)
    \/ \E f \in Fiber : RecordFailure(f)
    \/ Startup
    \/ \E m \in MessageId : Send(m) \/ Turn(m)
    \/ \E type \in {"thread.turn.start", "thread.turn.queue"} : ClientMessage(type)
    \/ \E c \in ClientCommands : ClientCommand(c)
    \/ RuntimeError
    \/ SessionExited
    \/ Restart

Spec == Init /\ [][Next]_vars

\* Fibers go on, and a provider ends the turns it takes.
FairSpec ==
    /\ Spec
    /\ WF_vars(Worker \/ Run(worker) \/ RecordFailure(worker))
    /\ WF_vars(Startup \/ Run(startup) \/ RecordFailure(startup))
    /\ \A m \in MessageId : WF_vars(Send(m) \/ RecordFailure(m)) /\ WF_vars(Turn(m))

-----------------------------------------------------------------------------
(* Properties *)

InFlight(m) == At(m, "sending") \/ turn[m] \in {"accepted", "running"}

\* A thread has one turn at a time: no second turn is sent to the provider
\* while one is being sent or runs.
OneTurnAtATime == \A m, k \in MessageId : InFlight(m) /\ InFlight(k) => m = k

\* A turn is recorded to answer the message it was started for.
TurnAnswersItsMessage == \A u \in TurnId : answers[u] \in {None, u[1]}

\* The two above hold as long as turns end on their own or with the server,
\* the second when the clients do not mix the two ways to start a turn.
Undisturbed == \A what \in {"stops", "faults", "refusals", "exits"} : spent[what] = 0
DirectOnly == limits.commands = {"thread.turn.start"}
NothingHeld == \A m \in DOMAIN Queue : ~Queue[m].held

\* Until something ends or refuses a turn, a thread has one turn at a time,
\* over runtime errors, steering and restarts; and a turn that was started
\* directly answers its own message, unless a turn is held for recovery.
UndisturbedTurns ==
    Undisturbed => OneTurnAtATime /\ (DirectOnly /\ NothingHeld => TurnAnswersItsMessage)

\* Turns start in order.  Of direct starts, one that waits in memory is not
\* overtaken by a later one, until something ends or refuses a turn, or a turn
\* is held for recovery: what waits in memory then waits for the user, and a
\* start that finds the thread free does not.  The durable queue is promoted
\* oldest first, never past a held turn, which only its user can start.
StartsInOrder ==
    [][/\ Undisturbed /\ DirectOnly /\ NothingHeld =>
             \A f \in Runner :
                 At(f, "start") /\ fiber'[f].at = "build" =>
                     Head(outstanding) = fiber[f].message
       /\ \A m \in DOMAIN Queue :
             (m \notin DOMAIN Queue' /\ \E f \in Runner : At(f, "promote") /\ fiber'[f] # fiber[f])
             => \A k \in DOMAIN Queue : m <= k /\ ~Queue[m].held]_vars

\* The messages whose turns were accepted and not announced yet.
Underway ==
    ToSet(outstanding)
    \cup {m \in MessageId : At(m, "sending") \/ \E f \in Runner :
             fiber[f].message = m /\ fiber[f].at \in {"build", "bind"}}

\* A direct start that was accepted is a pending turn start until the provider
\* announces its turn, so that a restart puts it on hold and does not lose it,
\* until something ends or refuses a turn, or one is held: then starts overtake
\* those in memory and take their pending rows.
DirectStartsSurvive ==
    Undisturbed /\ DirectOnly /\ NothingHeld => Underway \subseteq ToSet(Pending)

\* A queued turn is started, steered or cancelled, or put on hold.
QueuedTurnStarts ==
    \A m \in MessageId :
        m \in DOMAIN Queue /\ ~Queue[m].held ~> m \notin DOMAIN Queue \/ Queue[m].held

\* A turn start that was requested begins, or is put on hold.
RequestedTurnBegins == \A m \in MessageId : m \in ToSet(outstanding) ~> m \notin ToSet(outstanding)
=============================================================================
