----------------------------- MODULE Projector -----------------------------
(***************************************************************************)
(* projectEvent of projector.ts: what an event does to the in-memory read  *)
(* model.  Titles, texts and times are left out; of a thread's messages    *)
(* the model keeps the user's, of its activities the requests that wait    *)
(* for an answer.                                                          *)
(***************************************************************************)
EXTENDS Decider

\* The state a running turn settles in when its session leaves "running".
SettledTurnState(status) ==
    CASE status \in {"idle", "ready"} -> "completed"
      [] status = "error" -> "error"
      [] status \in {"interrupted", "stopped"} -> "interrupted"
      [] OTHER -> "none"

StartsTurn(e) == e.status = "running" /\ e.turn # None

\* thread.session-set: a new active turn becomes the latest turn; leaving
\* "running" settles the latest turn if it still runs.
SessionSetOn(thread, e) ==
    LET settles == /\ ~StartsTurn(e)
                   /\ thread.latestTurn.state = "running"
                   /\ SettledTurnState(e.status) # "none"
        newTurn == StartsTurn(e) /\ thread.latestTurn.turnId # e.turn
    IN [thread EXCEPT
          !.session = [status |-> e.status, activeTurnId |-> e.turn],
          !.latestTurn = IF StartsTurn(e) THEN [turnId |-> e.turn, state |-> "running"]
                         ELSE IF settles THEN [@ EXCEPT !.state = SettledTurnState(e.status)]
                         ELSE @,
          !.unstarted = @ /\ ~newTurn /\ ~settles]

\* A queue without one message, and with one message (re)entered.
Without(queue, msg) == [k \in DOMAIN queue \ {msg} |-> queue[k]]
With(queue, msg, entry) ==
    [k \in DOMAIN queue \cup {msg} |-> IF k = msg THEN entry ELSE queue[k]]
WithSteering(queue, msg, turn) ==
    IF msg \in DOMAIN queue THEN [queue EXCEPT ![msg].steering = turn] ELSE queue

OpensRequest(kind) == kind \in {"approval.requested", "user-input.requested"}
\* Answered, or the provider no longer knows the request (a stale failure).
ClosesRequest(kind) ==
    kind \in {"approval.resolved", "user-input.resolved", "respond.failed.stale"}
\* The requests that are open after an activity.
AfterActivity(open, e) ==
    CASE OpensRequest(e.kind) -> open \cup {e.request}
      [] ClosesRequest(e.kind) -> open \ {e.request}
      [] OTHER -> open

\* A thread after an event of its own.
ThreadAfter(thread, e) ==
    CASE e.type = "thread.created" -> [AbsentThread EXCEPT !.project = e.project]
      [] e.type = "thread.deleted" -> [thread EXCEPT !.deleted = TRUE]
      [] e.type = "thread.archived" -> [thread EXCEPT !.archived = TRUE]
      [] e.type = "thread.unarchived" -> [thread EXCEPT !.archived = FALSE]
      [] e.type = "thread.settled" -> [thread EXCEPT !.settledOverride = "settled"]
      [] e.type = "thread.unsettled" ->
             [thread EXCEPT !.settledOverride = IF e.reason = "user" THEN "active" ELSE "none"]
      [] e.type = "thread.snoozed" -> [thread EXCEPT !.snoozed = TRUE]
      [] e.type = "thread.unsnoozed" -> [thread EXCEPT !.snoozed = FALSE]
      [] e.type = "thread.pinned" -> [thread EXCEPT !.pinned = TRUE]
      [] e.type = "thread.unpinned" -> [thread EXCEPT !.pinned = FALSE]
      [] e.type = "thread.completion-acknowledged" ->
             [thread EXCEPT !.seenCompletionTurnId = e.turn]
      [] e.type = "thread.completion-marked-unread" ->
             [thread EXCEPT !.seenCompletionTurnId = None]
      [] e.type = "thread.message-sent" ->
             [thread EXCEPT !.userMessages = @ \cup {e.message},
                            !.unstarted = @ \/ e.message \notin thread.userMessages]
      [] e.type = "thread.turn-queued" ->
             [thread EXCEPT !.queuedTurns =
                 With(@, e.message, [held |-> e.held, steering |-> None])]
      [] e.type \in {"thread.queued-turn-cancelled", "thread.queued-turn-dispatched",
                     "thread.queued-turn-steered"} ->
             [thread EXCEPT !.queuedTurns = Without(@, e.message)]
      [] e.type = "thread.queued-turn-steer-requested" ->
             [thread EXCEPT !.queuedTurns = WithSteering(@, e.message, e.turn)]
      [] e.type = "thread.queued-turn-steer-failed" ->
             [thread EXCEPT !.queuedTurns = WithSteering(@, e.message, None)]
      [] e.type = "thread.session-set" -> SessionSetOn(thread, e)
      [] e.type = "thread.activity-appended" ->
             [thread EXCEPT !.openRequests = AfterActivity(@, e)]
      [] OTHER -> thread  \* requests to the provider, edits of a queued text

\* A deleted project stays in the read model, marked; events on threads the
\* read model does not have are ignored.
ProjectEvent(m, e) ==
    IF e.type = "project.created" THEN [m EXCEPT !.projects[e.project] = "active"]
    ELSE IF e.type = "project.deleted"
    THEN [m EXCEPT !.projects[e.project] = IF @ = "absent" THEN @ ELSE "deleted"]
    ELSE IF e.type = "thread.created" \/ ThreadExists(m, e.thread)
    THEN [m EXCEPT !.threads[e.thread] = ThreadAfter(@, e)]
    ELSE m

\* The events of a command, one after the other.
ProjectEvents(m, events) ==
    LET after[n \in 0..Len(events)] ==
            IF n = 0 THEN m ELSE ProjectEvent(after[n - 1], events[n])
    IN  after[Len(events)]
=============================================================================
