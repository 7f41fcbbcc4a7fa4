-------------------------- MODULE ProjectionTables --------------------------
(***************************************************************************)
(* The projection pipeline's SQL projectors, one operator per projector    *)
(* whose tables the command read model is loaded from, and the load        *)
(* (getCommandReadModel).  A table is keyed by thread or project.  Each of *)
(* these projectors reads only the tables it writes.                       *)
(***************************************************************************)
EXTENDS Projector

NoThreadRow ==
    [project |-> None, deleted |-> FALSE, archived |-> FALSE, settledOverride |-> "none",
     snoozed |-> FALSE, pinned |-> FALSE, latestTurnId |-> None, seenCompletionTurnId |-> None]
NoTurns == [turns |-> <<>>, pending |-> <<>>]

EmptyProjection(p) ==
    CASE p = "projects" -> InitialReadModel.projects
      [] p = "threadMessages" -> [t \in ThreadId |-> {}]
      [] p = "threadQueuedTurns" -> [t \in ThreadId |-> <<>>]
      [] p = "threadActivities" -> [t \in ThreadId |-> {}]
      [] p = "threadSessions" -> [t \in ThreadId |-> AbsentThread.session]
      [] p = "threadTurns" -> [t \in ThreadId |-> NoTurns]
      [] p = "threads" -> [t \in ThreadId |-> NoThreadRow]

\* The projectors, in the order of the pipeline.
AllProjectors ==
    <<"projects", "threadMessages", "threadQueuedTurns", "threadActivities", "threadSessions",
      "threadTurns", "threads">>

ApplyProjects(table, e) ==
    CASE e.type = "project.created" -> [table EXCEPT ![e.project] = "active"]
      [] e.type = "project.deleted" ->
             [table EXCEPT ![e.project] = IF @ = "absent" THEN @ ELSE "deleted"]
      [] OTHER -> table

\* Archiving and deleting a thread empty its queue.
ApplyThreadQueuedTurns(table, e) ==
    CASE e.type = "thread.turn-queued" ->
             [table EXCEPT ![e.thread] =
                 With(@, e.message, [held |-> e.held, steering |-> None])]
      [] e.type \in {"thread.queued-turn-cancelled", "thread.queued-turn-dispatched",
                     "thread.queued-turn-steered"} ->
             [table EXCEPT ![e.thread] = Without(@, e.message)]
      [] e.type = "thread.queued-turn-steer-requested" ->
             [table EXCEPT ![e.thread] = WithSteering(@, e.message, e.turn)]
      [] e.type = "thread.queued-turn-steer-failed" ->
             [table EXCEPT ![e.thread] = WithSteering(@, e.message, None)]
      [] e.type \in {"thread.archived", "thread.deleted"} -> [table EXCEPT ![e.thread] = <<>>]
      [] OTHER -> table

ApplyThreadSessions(table, e) ==
    IF e.type = "thread.session-set"
    THEN [table EXCEPT ![e.thread] = [status |-> e.status, activeTurnId |-> e.turn]]
    ELSE table

\* Turns that run, other than one, move to a state.
Settle(turns, state, except) ==
    [k \in DOMAIN turns |-> IF turns[k] = "running" /\ k # except THEN state ELSE turns[k]]

\* The pending turn starts that are left when a message's rows are deleted.
DeletePending(pending, msg) ==
    LET left[n \in 0..Len(pending)] ==
            IF n = 0 THEN <<>>
            ELSE IF pending[n] = msg THEN left[n - 1] ELSE Append(left[n - 1], pending[n])
    IN  left[Len(pending)]

\* Mutant: the turns before the active one are left running.
StartTurnBeside(rows, turn) ==
    [turns |-> With(rows.turns, turn, "running"),
     pending |-> DeletePending(rows.pending, Head(rows.pending))]

\* Mutant: every pending turn start is consumed.
StartTurnClearing(rows, turn) ==
    [turns |-> With(Settle(rows.turns, "completed", turn), turn, "running"), pending |-> <<>>]

\* The active turn runs, unless it already ended; it consumes the oldest
\* pending turn start and supersedes every other running turn.
StartTurn(rows, turn) ==
    [turns |-> With(Settle(rows.turns, "completed", turn), turn,
                    IF turn \in DOMAIN rows.turns /\ rows.turns[turn] \in {"completed", "error"}
                    THEN rows.turns[turn] ELSE "running"),
     pending |-> DeletePending(rows.pending, Head(rows.pending))]

ApplyThreadTurns(table, e) ==
    CASE e.type = "thread.turn-start-requested" ->
             [table EXCEPT ![e.thread].pending = Append(@, e.message)]
      [] e.type = "thread.turn-queued" /\ e.held ->
             [table EXCEPT ![e.thread].pending = DeletePending(@, e.message)]
      [] e.type = "thread.session-set" /\ StartsTurn(e) ->
             [table EXCEPT ![e.thread] = StartTurn(@, e.turn)]
      [] e.type = "thread.session-set" /\ SettledTurnState(e.status) # "none" ->
             [table EXCEPT ![e.thread].turns = Settle(@, SettledTurnState(e.status), None)]
      [] e.type = "thread.turn-interrupt-requested" /\ e.turn # None ->
             [table EXCEPT ![e.thread].turns = With(@, e.turn, "interrupted")]
      [] OTHER -> table

\* Mutant: the row follows neither its session nor the inbox.
ThreadRowWithoutTurn(row, e) ==
    CASE e.type = "thread.deleted" -> [row EXCEPT !.deleted = TRUE]
      [] e.type = "thread.archived" -> [row EXCEPT !.archived = TRUE]
      [] OTHER -> row

\* A thread's row after an event of its own.
ThreadRowAfter(row, e) ==
    CASE e.type = "thread.deleted" -> [row EXCEPT !.deleted = TRUE]
      [] e.type = "thread.archived" -> [row EXCEPT !.archived = TRUE]
      [] e.type = "thread.unarchived" -> [row EXCEPT !.archived = FALSE]
      [] e.type = "thread.settled" -> [row EXCEPT !.settledOverride = "settled"]
      [] e.type = "thread.unsettled" ->
             [row EXCEPT !.settledOverride = IF e.reason = "user" THEN "active" ELSE "none"]
      [] e.type = "thread.snoozed" -> [row EXCEPT !.snoozed = TRUE]
      [] e.type = "thread.unsnoozed" -> [row EXCEPT !.snoozed = FALSE]
      [] e.type = "thread.pinned" -> [row EXCEPT !.pinned = TRUE]
      [] e.type = "thread.unpinned" -> [row EXCEPT !.pinned = FALSE]
      [] e.type = "thread.completion-acknowledged" -> [row EXCEPT !.seenCompletionTurnId = e.turn]
      [] e.type = "thread.completion-marked-unread" -> [row EXCEPT !.seenCompletionTurnId = None]
      [] e.type = "thread.session-set" ->
             [row EXCEPT !.latestTurnId = IF e.turn = None THEN @ ELSE e.turn]
      [] OTHER -> row

IsProjectEvent(e) == e.type \in {"project.created", "project.deleted"}

ApplyThreads(table, e) ==
    CASE IsProjectEvent(e) -> table
      [] e.type = "thread.created" ->
             [table EXCEPT ![e.thread] = [NoThreadRow EXCEPT !.project = e.project]]
      [] OTHER ->
             [table EXCEPT ![e.thread] = IF @.project = None THEN @ ELSE ThreadRowAfter(@, e)]

ApplyProjection(p, table, e) ==
    CASE p = "projects" -> ApplyProjects(table, e)
      [] p = "threadMessages" ->
             IF e.type = "thread.message-sent"
             THEN [table EXCEPT ![e.thread] = @ \cup {e.message}] ELSE table
      [] p = "threadQueuedTurns" -> ApplyThreadQueuedTurns(table, e)
      [] p = "threadActivities" ->
             IF e.type = "thread.activity-appended"
             THEN [table EXCEPT ![e.thread] = AfterActivity(@, e)] ELSE table
      [] p = "threadSessions" -> ApplyThreadSessions(table, e)
      [] p = "threadTurns" -> ApplyThreadTurns(table, e)
      [] p = "threads" -> ApplyThreads(table, e)

EmptyProjections == [p \in ToSet(AllProjectors) |-> EmptyProjection(p)]
ApplyAllProjections(tables, e) ==
    [p \in DOMAIN tables |-> ApplyProjection(p, tables[p], e)]

\* The events of a command, one after the other.
ApplyEvents(tables, events) ==
    LET after[n \in 0..Len(events)] ==
            IF n = 0 THEN tables ELSE ApplyAllProjections(after[n - 1], events[n])
    IN  after[Len(events)]

-----------------------------------------------------------------------------
(* getCommandReadModel: rows of threads that have one, joined with their   *)
(* queue, session and latest turn.  Messages and activities stay in SQL:   *)
(* the loaded threads have none.                                           *)

LoadedThread(tables, t) ==
    LET row == tables["threads"][t]
        turns == tables["threadTurns"][t].turns
    IN [project |-> row.project, deleted |-> row.deleted, archived |-> row.archived,
        settledOverride |-> row.settledOverride, snoozed |-> row.snoozed,
        pinned |-> row.pinned, seenCompletionTurnId |-> row.seenCompletionTurnId,
        session |-> tables["threadSessions"][t],
        latestTurn |-> IF row.latestTurnId \in DOMAIN turns
                       THEN [turnId |-> row.latestTurnId, state |-> turns[row.latestTurnId]]
                       ELSE AbsentThread.latestTurn,
        queuedTurns |-> tables["threadQueuedTurns"][t],
        userMessages |-> {}, openRequests |-> {}, unstarted |-> FALSE]

LoadCommandReadModel(tables) ==
    [projects |-> tables["projects"],
     threads |-> [t \in ThreadId |->
         IF tables["threads"][t].project = None THEN AbsentThread ELSE LoadedThread(tables, t)]]
=============================================================================
