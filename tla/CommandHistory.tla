--------------------------- MODULE CommandHistory ---------------------------
(***************************************************************************)
(* Histories of accepted commands.  The engine decides and commits one     *)
(* command at a time (module OrchestrationEngine), so here a command is    *)
(* one step: its events are projected onto the in-memory read model and    *)
(* onto the SQL tables.  A restart forgets the first and loads it from the *)
(* second, and the startup recovery of the ProviderCommandReactor puts the *)
(* turns that were under way on hold.                                      *)
(*                                                                         *)
(* Clients send any command.  Provider sessions are driven by what         *)
(* ProviderRuntimeIngestion and ProviderCommandReactor dispatch: a         *)
(* provider announces each of its turns once.                              *)
(***************************************************************************)
EXTENDS ProjectionTables

CONSTANTS
    ClientCommandTypes, \* the kinds of commands clients send
    MaxSequence,        \* bound: length of the event log
    MaxRestarts         \* bound: restarts of the server

ASSUME HistoryAssumption ==
    /\ MaxSequence \in Nat /\ MaxRestarts \in Nat
    /\ MessageId \subseteq Nat
    /\ IsFiniteSet(ThreadId) /\ IsFiniteSet(MessageId)
    /\ None \notin ProjectId \cup TurnId

VARIABLES
    live,       \* the in-memory command read model
    tables,     \* the SQL projections
    sequence,   \* length of the event log
    restarts,   \* how often the server was restarted
    recovery,   \* startup recovery: messages still to hold, sessions to interrupt
    composed,   \* how many messages clients have written
    started,    \* turns providers have announced
    handed,     \* history: how often a message was handed to a provider
    reopened    \* history: how often the recovery took a handed message back

vars == <<live, tables, sequence, restarts, recovery, composed, started, handed, reopened>>

Recovered == [hold |-> <<>>, interrupt |-> {}]

Init ==
    /\ live = InitialReadModel
    /\ tables = EmptyProjections
    /\ sequence = 0
    /\ restarts = 0
    /\ recovery = Recovered
    /\ composed = 0
    /\ started = {}
    /\ handed = [msg \in MessageId |-> 0]
    /\ reopened = [msg \in MessageId |-> 0]

\* Clients and providers wait for the startup recovery (makeCommandGate).
Serving == recovery = Recovered

Queue(t) == tables["threadQueuedTurns"][t]
Pending(t) == ToSet(tables["threadTurns"][t].pending)
Session(t) == tables["threadSessions"][t]

-----------------------------------------------------------------------------
(* One command *)

HandsOver(e, msg) ==
    e.type \in {"thread.turn-start-requested", "thread.queued-turn-steered"} /\ e.message = msg

\* The command is accepted: its events enter the log, the read model and the
\* tables together.
Accept(c) ==
    LET events == DecideCommandOn(c, live) IN
    /\ events # Rejected
    /\ sequence + Len(events) <= MaxSequence
    /\ sequence' = sequence + Len(events)
    /\ live' = ProjectEvents(live, events)
    /\ tables' = ApplyEvents(tables, events)
    /\ handed' = [msg \in MessageId |->
           handed[msg] + Cardinality({i \in DOMAIN events : HandsOver(events[i], msg)})]
    /\ UNCHANGED restarts

Served(c) == Serving /\ Accept(c) /\ UNCHANGED <<recovery, reopened>>

-----------------------------------------------------------------------------
(* Clients *)

Command(type, t) == [type |-> type, thread |-> t]
WithGrace(type, t) ==
    {[type |-> type, thread |-> t, withinGrace |-> grace, wakesInFuture |-> TRUE] :
        grace \in BOOLEAN}
OnTurn(type, t, turns) == {[type |-> type, thread |-> t, turn |-> u] : u \in turns}
OnMessages(type, t, msgs) == {[type |-> type, thread |-> t, message |-> m] : m \in msgs}

\* What a client can ask of a thread that it sees, other than a new message.
ThreadCommands(t) ==
    {Command(type, t) : type \in {"thread.delete", "thread.archive", "thread.unarchive",
                                  "thread.unsnooze", "thread.pin", "thread.unpin"}}
    \cup WithGrace("thread.settle", t) \cup WithGrace("thread.snooze", t)
    \cup {[type |-> "thread.unsettle", thread |-> t, reason |-> "user"]}
    \cup OnTurn("thread.completion.acknowledge", t, started)
    \cup OnTurn("thread.completion.mark-unread", t, started)
    \cup OnTurn("thread.turn.interrupt", t, {None})
    \cup OnMessages("thread.queued-turn.cancel", t, DOMAIN Queue(t))
    \cup OnMessages("thread.queued-turn.confirm", t, DOMAIN Queue(t))
    \cup {[type |-> "thread.queued-turn.steer", thread |-> t, message |-> m,
           turn |-> Session(t).activeTurnId] : m \in DOMAIN Queue(t)}

ProjectCommands ==
    {[type |-> "project.create", project |-> p] : p \in ProjectId}
    \cup {[type |-> "project.delete", project |-> p, force |-> force] :
            p \in ProjectId, force \in BOOLEAN}
    \cup {[type |-> "thread.create", project |-> p, thread |-> t] :
            p \in ProjectId, t \in ThreadId}

ClientCommand(c) ==
    /\ c.type \in ClientCommandTypes
    /\ Served(c)
    /\ UNCHANGED <<composed, started>>

\* A new message, with an identifier of its own: started at once or queued.
ClientMessage(t, type) ==
    /\ type \in ClientCommandTypes
    /\ composed + 1 \in MessageId
    /\ Served([type |-> type, thread |-> t, message |-> composed + 1])
    /\ composed' = composed + 1
    /\ UNCHANGED started

-----------------------------------------------------------------------------
(* Providers, through ProviderRuntimeIngestion *)

SetSession(t, status, turn) ==
    Served([type |-> "thread.session.set", thread |-> t, status |-> status, turn |-> turn])

\* turn.started: it may replace the active turn only while a start is pending.
TurnStarted(t, turn) ==
    /\ turn \notin started
    /\ Session(t).activeTurnId = None \/ Pending(t) # {}
    /\ SetSession(t, "running", turn)
    /\ started' = started \cup {turn}
    /\ UNCHANGED composed

\* turn.completed counts for the active turn, or late, when none is active.
TurnCompleted(t, turn, status) ==
    /\ turn \in started
    /\ Session(t).activeTurnId \in {None, turn}
    /\ SetSession(t, status, None)
    /\ UNCHANGED <<composed, started>>

\* session.exited, and what the reactor sets: a session that starts when
\* nothing runs, one that is ready again after a turn that could not start
\* (its pending row stays), one that is stopped.
SessionMoves(t, status) ==
    /\ status \in {"starting", "ready"} => Session(t).activeTurnId = None
    /\ SetSession(t, status, None)
    /\ UNCHANGED <<composed, started>>

\* runtime.error keeps the active turn's identifier.
RuntimeError(t) ==
    /\ Session(t).status # "none"
    /\ SetSession(t, "error", Session(t).activeTurnId)
    /\ UNCHANGED <<composed, started>>

\* Requests for approval are opened by a running turn and answered once.
ProviderActivity(t, kind, request) ==
    /\ IF OpensRequest(kind)
       THEN /\ Session(t).status = "running"
            /\ request \notin tables["threadActivities"][t]
       ELSE request \in tables["threadActivities"][t]
    /\ Served([type |-> "thread.activity.append", thread |-> t, kind |-> kind,
               request |-> request])
    /\ UNCHANGED <<composed, started>>

-----------------------------------------------------------------------------
(* ProviderCommandReactor *)

\* dispatchQueuedTurnForThread: the oldest queued turn, when nothing is busy.
DispatchQueuedTurn(t) ==
    /\ Session(t).activeTurnId = None
    /\ Session(t).status \notin {"starting", "running"}
    /\ \E msg \in DOMAIN Queue(t) :
          /\ \A k \in DOMAIN Queue(t) : msg <= k
          /\ Served([type |-> "thread.queued-turn.dispatch", thread |-> t, message |-> msg])
    /\ UNCHANGED <<composed, started>>

\* processQueuedTurnSteerRequested: the provider took the message, or not.
FinishSteering(t, msg, outcome) ==
    /\ msg \in DOMAIN Queue(t)
    /\ Queue(t)[msg].steering # None
    /\ Served([type |-> outcome, thread |-> t, message |-> msg,
               turn |-> Queue(t)[msg].steering])
    /\ UNCHANGED <<composed, started>>

\* The server restarts: the read model is loaded from the tables.  Of the
\* threads with work under way, the recovery holds what is queued, then what
\* is pending, in the order it was asked for, and interrupts the session.
Restart ==
    /\ restarts < MaxRestarts
    /\ restarts' = restarts + 1
    /\ live' = LoadCommandReadModel(tables)
    /\ LET active(t) == Session(t).activeTurnId # None
                        \/ Session(t).status \in {"starting", "running"}
           orphaned == {t \in ThreadId : /\ ThreadExists(live', t)
                                         /\ ~live'.threads[t].deleted
                                         /\ ~live'.threads[t].archived
                                         /\ active(t) \/ Pending(t) # {}}
           toHold(t) == [msg : DOMAIN Queue(t), thread : {t}]
           toReopen(t) == [msg : Pending(t) \ DOMAIN Queue(t), thread : {t}]
       IN recovery' =
            [hold |-> SetToSeq(UNION {toHold(t) : t \in orphaned})
                      \o SetToSeq(UNION {toReopen(t) : t \in orphaned}),
             interrupt |-> {t \in orphaned : active(t)}]
    /\ UNCHANGED <<tables, sequence, composed, started, handed, reopened>>

RecoverTurn ==
    /\ recovery.hold # <<>>
    /\ LET next == Head(recovery.hold)
           wasHanded == \/ next.msg \in Pending(next.thread)
                        \/ /\ next.msg \in DOMAIN Queue(next.thread)
                           /\ Queue(next.thread)[next.msg].steering # None
       IN /\ Accept([type |-> "thread.turn.hold-for-recovery", thread |-> next.thread,
                     message |-> next.msg])
          /\ reopened' = IF wasHanded THEN [reopened EXCEPT ![next.msg] = @ + 1] ELSE reopened
    /\ recovery' = [recovery EXCEPT !.hold = Tail(@)]
    /\ UNCHANGED <<composed, started>>

InterruptSession ==
    /\ recovery.hold = <<>>
    /\ \E t \in recovery.interrupt :
          /\ Accept([type |-> "thread.session.set", thread |-> t, status |-> "interrupted",
                     turn |-> None])
          /\ recovery' = [recovery EXCEPT !.interrupt = @ \ {t}]
    /\ UNCHANGED <<composed, started, reopened>>

Next ==
    \/ \E c \in ProjectCommands : ClientCommand(c)
    \/ \E t \in ThreadId :
          \/ \E c \in ThreadCommands(t) : ClientCommand(c)
          \/ \E type \in {"thread.turn.start", "thread.turn.queue"} : ClientMessage(t, type)
          \/ \E turn \in TurnId : TurnStarted(t, turn)
          \/ \E turn \in TurnId, status \in {"ready", "error"} : TurnCompleted(t, turn, status)
          \/ \E status \in {"starting", "ready", "stopped"} : SessionMoves(t, status)
          \/ RuntimeError(t)
          \/ \E kind \in {"approval.requested", "approval.resolved"}, request \in RequestId :
                ProviderActivity(t, kind, request)
          \/ DispatchQueuedTurn(t)
          \/ \E msg \in MessageId, outcome \in {"thread.queued-turn.steer.complete",
                                                "thread.queued-turn.steer.fail"} :
                FinishSteering(t, msg, outcome)
    \/ Restart
    \/ RecoverTurn
    \/ InterruptSession

Spec == Init /\ [][Next]_vars

-----------------------------------------------------------------------------
(* Properties *)

\* What a restart keeps of a thread: messages and activities are not loaded.
Forgetful(thread) ==
    [thread EXCEPT !.userMessages = {}, !.openRequests = {}, !.unstarted = FALSE]

\* Restarting is invisible to the decider, but for messages and activities:
\* whatever was accepted, the tables give back the read model in memory.
RestartTransparent ==
    LoadCommandReadModel(tables) =
        [live EXCEPT !.threads = [t \in ThreadId |-> Forgetful(live.threads[t])]]

\* A message reaches a provider once, by a turn of its own or by steering,
\* and again only after a restart found it under way and put it on hold; one
\* that waits in the queue is not also a turn about to start.
MessageHandedOnce ==
    /\ \A msg \in MessageId : handed[msg] <= 1 + reopened[msg]
    /\ \A t \in ThreadId : DOMAIN Queue(t) \cap Pending(t) = {}

\* A turn is shown running only while its session runs it, and alone.
RunningTurnIsActive ==
    \A t \in ThreadId :
        LET turns == tables["threadTurns"][t].turns IN
        \A turn \in DOMAIN turns :
            turns[turn] = "running" => Session(t) = [status |-> "running", activeTurnId |-> turn]

\* A settled thread has no session at work, no open request, and nothing
\* queued that could start without its user's consent.
SettledIsQuiet ==
    \A t \in ThreadId :
        LET thread == live.threads[t] IN
        thread.settledOverride = "settled" =>
            /\ thread.session.status \notin {"starting", "running"}
            /\ thread.openRequests = {}
            /\ \A msg \in DOMAIN thread.queuedTurns : thread.queuedTurns[msg].held
=============================================================================
