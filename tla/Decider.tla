------------------------------ MODULE Decider ------------------------------
(***************************************************************************)
(* decideOrchestrationCommand: what a command does to a read model, as a   *)
(* sequence of planned events, or Rejected (an invariant error).           *)
(*                                                                         *)
(* A read model has a status per project and a record per thread.  Times   *)
(* are abstracted: the command carries what the clock would tell the       *)
(* decider (withinGrace, wakesInFuture).  Message identifiers are numbers  *)
(* ordered as (createdAt, messageId) orders queued turns.                  *)
(***************************************************************************)
EXTENDS Naturals, Sequences, FiniteSets, SequencesExt

CONSTANTS
    ProjectId, ThreadId, TurnId, RequestId,
    MessageId,  \* a set of numbers: the order in which turns were asked for
    None        \* null and undefined

\* A thread that was never created.
AbsentThread ==
    [project |-> None, deleted |-> FALSE, archived |-> FALSE,
     settledOverride |-> "none", snoozed |-> FALSE, pinned |-> FALSE,
     session |-> [status |-> "none", activeTurnId |-> None],
     latestTurn |-> [turnId |-> None, state |-> "none"],
     seenCompletionTurnId |-> None,
     queuedTurns |-> <<>>,      \* function from queued message identifiers
     userMessages |-> {},       \* identifiers of its user messages
     openRequests |-> {},       \* approvals and questions nobody answered
     unstarted |-> FALSE]       \* its last user message is newer than its latest turn

InitialReadModel ==
    [projects |-> [p \in ProjectId |-> "absent"],
     threads |-> [t \in ThreadId |-> AbsentThread]]

Rejected == <<>>

-----------------------------------------------------------------------------
(* commandInvariants.ts: a deleted project or thread still "exists". *)

ProjectExists(m, p) == m.projects[p] # "absent"
ThreadExists(m, t) == m.threads[t].project # None
ThreadArchived(m, t) == ThreadExists(m, t) /\ m.threads[t].archived
ThreadNotArchived(m, t) == ThreadExists(m, t) /\ ~m.threads[t].archived

ActiveThreads(m, p) ==
    {t \in ThreadId : m.threads[t].project = p /\ ~m.threads[t].deleted}

Queued(m, t, msg) == ThreadExists(m, t) /\ msg \in DOMAIN m.threads[t].queuedTurns
Held(m, t, msg) == m.threads[t].queuedTurns[msg].held
Steering(m, t, msg) == m.threads[t].queuedTurns[msg].steering

\* threadHasQueuedTurnStart: something queued, or a message so recent that
\* its turn may still be on its way.
HasQueuedTurnStart(thread, withinGrace) ==
    \/ DOMAIN thread.queuedTurns # {}
    \/ thread.session.status # "error" /\ thread.unstarted /\ withinGrace

-----------------------------------------------------------------------------
(* Events *)

OnThread(type, t) == [type |-> type, thread |-> t]
OnMessage(type, t, msg) == [type |-> type, thread |-> t, message |-> msg]
OnSteer(type, t, msg, turn) == [type |-> type, thread |-> t, message |-> msg, turn |-> turn]
Unsettled(t, reason) == [type |-> "thread.unsettled", thread |-> t, reason |-> reason]
TurnQueued(t, msg, held) ==
    [type |-> "thread.turn-queued", thread |-> t, message |-> msg, held |-> held]
SessionSet(t, status, turn) ==
    [type |-> "thread.session-set", thread |-> t, status |-> status, turn |-> turn]
Activity(t, kind, request) ==
    [type |-> "thread.activity-appended", thread |-> t, kind |-> kind, request |-> request]

If(condition, event) == IF condition THEN <<event>> ELSE <<>>
Guarded(condition, events) == IF condition THEN events ELSE Rejected

-----------------------------------------------------------------------------
(* Projects, and the life of a thread *)

\* The threads of a forced deletion are deleted one by one, then the project.
DecideProjectDelete(c, m) ==
    LET threads == SetToSeq(ActiveThreads(m, c.project)) IN
    Guarded(ProjectExists(m, c.project) /\ (threads = <<>> \/ c.force),
            [i \in DOMAIN threads |-> OnThread("thread.deleted", threads[i])]
            \o <<[type |-> "project.deleted", project |-> c.project]>>)

DecideProject(c, m) ==
    CASE c.type = "project.create" ->
             Guarded(~ProjectExists(m, c.project),
                     <<[type |-> "project.created", project |-> c.project]>>)
      [] c.type = "project.delete" -> DecideProjectDelete(c, m)

DecideThreadCreate(c, m) ==
    Guarded(ProjectExists(m, c.project) /\ ~ThreadExists(m, c.thread),
            <<[type |-> "thread.created", thread |-> c.thread, project |-> c.project]>>)

DecideThreadSettle(c, m) ==
    LET thread == m.threads[c.thread] IN
    Guarded(/\ ThreadNotArchived(m, c.thread)
            /\ thread.session.status \notin {"starting", "running"}
            /\ thread.openRequests = {}
            /\ ~HasQueuedTurnStart(thread, c.withinGrace),
            <<OnThread("thread.settled", c.thread)>>
            \o If(thread.pinned, OnThread("thread.unpinned", c.thread))
            \o If(thread.snoozed, OnThread("thread.unsnoozed", c.thread)))

DecideThreadSnooze(c, m) ==
    LET thread == m.threads[c.thread] IN
    Guarded(/\ ThreadNotArchived(m, c.thread)
            /\ c.wakesInFuture
            /\ thread.openRequests = {}
            /\ ~HasQueuedTurnStart(thread, c.withinGrace),
            <<OnThread("thread.snoozed", c.thread)>>)

DecideThreadPin(c, m) ==
    LET thread == m.threads[c.thread] IN
    Guarded(ThreadNotArchived(m, c.thread),
            <<OnThread("thread.pinned", c.thread)>>
            \o If(thread.settledOverride = "settled", Unsettled(c.thread, "user"))
            \o If(thread.snoozed, OnThread("thread.unsnoozed", c.thread)))

\* A completion can be acknowledged, or marked unread again, only while it is
\* the latest turn, ended, and not already in that state.
DecideCompletion(c, m) ==
    LET thread == m.threads[c.thread] IN
    Guarded(/\ ThreadExists(m, c.thread)
            /\ thread.latestTurn.turnId = c.turn
            /\ thread.latestTurn.state \notin {"none", "running", "interrupted"}
            /\ (thread.seenCompletionTurnId = c.turn)
                  = (c.type = "thread.completion.mark-unread"),
            <<[type |-> IF c.type = "thread.completion.acknowledge"
                        THEN "thread.completion-acknowledged"
                        ELSE "thread.completion-marked-unread",
               thread |-> c.thread, turn |-> c.turn]>>)

DecideThread(c, m) ==
    CASE c.type = "thread.create" -> DecideThreadCreate(c, m)
      [] c.type = "thread.delete" ->
             Guarded(ThreadExists(m, c.thread), <<OnThread("thread.deleted", c.thread)>>)
      [] c.type = "thread.archive" ->
             Guarded(ThreadNotArchived(m, c.thread), <<OnThread("thread.archived", c.thread)>>)
      [] c.type = "thread.unarchive" ->
             Guarded(ThreadArchived(m, c.thread), <<OnThread("thread.unarchived", c.thread)>>)
      [] c.type = "thread.settle" -> DecideThreadSettle(c, m)
      [] c.type = "thread.unsettle" ->
             Guarded(ThreadNotArchived(m, c.thread), <<Unsettled(c.thread, c.reason)>>)
      [] c.type = "thread.snooze" -> DecideThreadSnooze(c, m)
      [] c.type = "thread.unsnooze" ->
             Guarded(ThreadNotArchived(m, c.thread), <<OnThread("thread.unsnoozed", c.thread)>>)
      [] c.type = "thread.pin" -> DecideThreadPin(c, m)
      [] c.type = "thread.unpin" ->
             Guarded(ThreadNotArchived(m, c.thread), <<OnThread("thread.unpinned", c.thread)>>)
      [] OTHER -> DecideCompletion(c, m)

-----------------------------------------------------------------------------
(* Turns and the queue of turns *)

\* Mutant: only a snooze ends.
WakingOnly(thread, t) == If(thread.snoozed, OnThread("thread.unsnoozed", t))

\* A new turn wakes and un-settles its thread.
Waking(thread, t) ==
    If(thread.settledOverride # "none", Unsettled(t, "activity"))
    \o If(thread.snoozed, OnThread("thread.unsnoozed", t))

DecideTurnStart(c, m) ==
    Guarded(ThreadExists(m, c.thread),
            Waking(m.threads[c.thread], c.thread)
            \o <<OnMessage("thread.message-sent", c.thread, c.message),
                 OnMessage("thread.turn-start-requested", c.thread, c.message)>>)

DecideTurnQueue(c, m) ==
    Guarded(ThreadExists(m, c.thread) /\ ~Queued(m, c.thread, c.message),
            Waking(m.threads[c.thread], c.thread)
            \o <<TurnQueued(c.thread, c.message, FALSE)>>)

DecideHoldForRecovery(c, m) ==
    Guarded(ThreadExists(m, c.thread), <<TurnQueued(c.thread, c.message, TRUE)>>)

Free(m, c) ==
    /\ Queued(m, c.thread, c.message)
    /\ Steering(m, c.thread, c.message) = None

DecideQueuedTurnUpdate(c, m) ==
    Guarded(Free(m, c) /\ ~Held(m, c.thread, c.message),
            <<OnMessage("thread.queued-turn-updated", c.thread, c.message)>>)

DecideQueuedTurnCancel(c, m) ==
    Guarded(Free(m, c), <<OnMessage("thread.queued-turn-cancelled", c.thread, c.message)>>)

DecideQueuedTurnSteer(c, m) ==
    Guarded(/\ Free(m, c) /\ ~Held(m, c.thread, c.message)
            /\ m.threads[c.thread].session = [status |-> "running", activeTurnId |-> c.turn],
            <<OnSteer("thread.queued-turn-steer-requested", c.thread, c.message, c.turn)>>)

\* Mutant: the message stays in the queue.
DispatchEventsStaying(c, alreadyPersisted) ==
    If(~alreadyPersisted, OnMessage("thread.message-sent", c.thread, c.message))
    \o <<OnMessage("thread.turn-start-requested", c.thread, c.message)>>

\* buildQueuedTurnDispatchEvents
DispatchEvents(c, alreadyPersisted) ==
    <<OnMessage("thread.queued-turn-dispatched", c.thread, c.message)>>
    \o If(~alreadyPersisted, OnMessage("thread.message-sent", c.thread, c.message))
    \o <<OnMessage("thread.turn-start-requested", c.thread, c.message)>>

DecideQueuedTurnConfirm(c, m) ==
    Guarded(Free(m, c) /\ Held(m, c.thread, c.message),
            DispatchEvents(c, c.message \in m.threads[c.thread].userMessages))

DecideQueuedTurnDispatch(c, m) ==
    Guarded(Free(m, c) /\ ~Held(m, c.thread, c.message), DispatchEvents(c, FALSE))

SteeredInto(m, c) ==
    Queued(m, c.thread, c.message) /\ Steering(m, c.thread, c.message) = c.turn

DecideSteerComplete(c, m) ==
    Guarded(SteeredInto(m, c),
            <<OnSteer("thread.queued-turn-steered", c.thread, c.message, c.turn),
              OnMessage("thread.message-sent", c.thread, c.message)>>)

DecideSteerFail(c, m) ==
    Guarded(SteeredInto(m, c),
            <<OnSteer("thread.queued-turn-steer-failed", c.thread, c.message, c.turn),
              Activity(c.thread, "provider.turn.steer.failed", None)>>)

\* A session that starts or runs un-settles the thread, but leaves a snooze.
DecideSessionSet(c, m) ==
    Guarded(ThreadExists(m, c.thread),
            If(/\ c.status \in {"starting", "running"}
               /\ m.threads[c.thread].settledOverride # "none",
               Unsettled(c.thread, "activity"))
            \o <<SessionSet(c.thread, c.status, c.turn)>>)

\* Without a turn of its own the request names the turn that runs.
DecideTurnInterrupt(c, m) ==
    LET thread == m.threads[c.thread]
        turn == IF c.turn # None THEN c.turn
                ELSE IF thread.latestTurn.state = "running" THEN thread.latestTurn.turnId
                ELSE thread.session.activeTurnId
    IN Guarded(ThreadExists(m, c.thread),
               <<[type |-> "thread.turn-interrupt-requested", thread |-> c.thread,
                  turn |-> turn]>>)

DecideTurn(c, m) ==
    CASE c.type = "thread.turn.start" -> DecideTurnStart(c, m)
      [] c.type = "thread.turn.queue" -> DecideTurnQueue(c, m)
      [] c.type = "thread.turn.hold-for-recovery" -> DecideHoldForRecovery(c, m)
      [] c.type = "thread.queued-turn.update" -> DecideQueuedTurnUpdate(c, m)
      [] c.type = "thread.queued-turn.cancel" -> DecideQueuedTurnCancel(c, m)
      [] c.type = "thread.queued-turn.steer" -> DecideQueuedTurnSteer(c, m)
      [] c.type = "thread.queued-turn.confirm" -> DecideQueuedTurnConfirm(c, m)
      [] c.type = "thread.queued-turn.dispatch" -> DecideQueuedTurnDispatch(c, m)
      [] c.type = "thread.queued-turn.steer.complete" -> DecideSteerComplete(c, m)
      [] c.type = "thread.queued-turn.steer.fail" -> DecideSteerFail(c, m)
      [] c.type = "thread.turn.interrupt" -> DecideTurnInterrupt(c, m)
      [] c.type = "thread.session.stop" ->
             Guarded(ThreadExists(m, c.thread),
                     <<OnThread("thread.session-stop-requested", c.thread)>>)
      [] c.type = "thread.session.set" -> DecideSessionSet(c, m)
      [] OTHER ->  \* thread.activity.append
             Guarded(ThreadExists(m, c.thread), <<Activity(c.thread, c.kind, c.request)>>)

-----------------------------------------------------------------------------

ProjectCommandTypes == {"project.create", "project.delete"}
ThreadCommandTypes ==
    {"thread.create", "thread.delete", "thread.archive", "thread.unarchive", "thread.settle",
     "thread.unsettle", "thread.snooze", "thread.unsnooze", "thread.pin", "thread.unpin",
     "thread.completion.acknowledge", "thread.completion.mark-unread"}

DecideCommandOn(c, m) ==
    CASE c.type \in ProjectCommandTypes -> DecideProject(c, m)
      [] c.type \in ThreadCommandTypes -> DecideThread(c, m)
      [] OTHER -> DecideTurn(c, m)
=============================================================================
