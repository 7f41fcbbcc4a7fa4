-------------------------- MODULE MCCommandHistory --------------------------
(***************************************************************************)
(* CommandHistory for TLC: one project, one thread, and the kinds of       *)
(* client commands of each run.                                            *)
(***************************************************************************)
EXTENDS CommandHistory

CONSTANTS p1, t1, u1, u2, r1

MCMessageId == {1, 2}
Creating == {"project.create", "thread.create"}
Queueing ==
    {"thread.turn.start", "thread.turn.queue", "thread.queued-turn.cancel",
     "thread.queued-turn.confirm", "thread.queued-turn.steer"}
Filing ==
    {"thread.settle", "thread.unsettle", "thread.snooze", "thread.unsnooze", "thread.pin",
     "thread.unpin"}
Reading == {"thread.completion.acknowledge", "thread.completion.mark-unread"}

TurnCommands == Creating \cup Queueing \cup Filing \cup Reading
=============================================================================
