----------------------------- MODULE MCTurnQueue -----------------------------
(***************************************************************************)
(* TurnQueue for TLC: one thread, its first messages in the order they are *)
(* written, one turn per message and life of the server.                   *)
(***************************************************************************)
EXTENDS TurnQueue

CONSTANTS p1, t1

MCMessageId == 1..3
MCTurnId == MCMessageId \X (0..1)

Starting == {"thread.turn.start"}
Queueing == {"thread.turn.queue"}
Stopping == {"thread.turn.start", "thread.session.stop"}
Editing == {"thread.turn.start", "thread.turn.queue", "thread.queued-turn.cancel",
            "thread.queued-turn.confirm", "thread.queued-turn.steer"}

\* So many messages, and nothing goes wrong.
Sound(commands, messages) ==
    [commands |-> commands, messages |-> messages, stops |-> 0, faults |-> 0, refusals |-> 0,
     errors |-> 0, exits |-> 0, restarts |-> 0]

\* The queue over a restart; direct starts with failing turns; everything.
SafetyLimits ==
    {[Sound(Editing, 3) EXCEPT !.faults = 1, !.errors = 1, !.restarts = 1],
     [Sound(Starting, 3) EXCEPT !.refusals = 1, !.errors = 1, !.restarts = 1],
     [Sound(Editing \cup Stopping, 2) EXCEPT !.stops = 1, !.faults = 1, !.refusals = 1,
                                             !.exits = 1]}

FairLimits == {[Sound(Starting \cup Queueing, 3) EXCEPT !.errors = 1]}
=============================================================================
