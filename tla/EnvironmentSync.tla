-------------------------- MODULE EnvironmentSync --------------------------
(***************************************************************************)
(* How the web client keeps what it shows of a server in step with the     *)
(* server's log (environments/runtime/service.ts with store.ts, against    *)
(* the RPCs of ws.ts).  Three sources write the same state and are not     *)
(* ordered among each other: the two subscriptions, each a snapshot and    *)
(* then the events after it; replays, asked for to close a gap or to catch *)
(* up; and reconciliations of the thread that is shown.                    *)
(*                                                                         *)
(* The log has events of two kinds, each named by its sequence: "project"  *)
(* sets the one project, "piece" appends text to the message that streams  *)
(* into its one thread.  The subscriptions deliver their events in order   *)
(* and without gaps (OrderedCatchup), except that the server drops a shell *)
(* event when it cannot read the row it describes.                         *)
(***************************************************************************)
EXTENDS Integers, Sequences, FiniteSets, FiniteSetsExt

CONSTANTS
    ReplayLimit,        \* events a replay reads at most
    DetailEventLimit,   \* events a reconciliation answers with at most
    MaxProjectEvents,   \* bound on the "project" events in the log
    Budgets             \* bounds: one of these holds for a behaviour, on the events that
                        \* follow ("commits"), on lost connections, dropped shell events and
                        \* failed requests ("faults"), and on the reconciliations a timer
                        \* asks for ("reconciles")

ASSUME SyncAssumption ==
    /\ ReplayLimit \in Nat \ {0}
    /\ {DetailEventLimit, MaxProjectEvents} \subseteq Nat
    /\ Budgets \subseteq [commits : Nat, faults : Nat, reconciles : Nat]

VARIABLES
    log,        \* the server's events, by kind
    shell,      \* subscribeShell: what the server has sent up to
    thread,     \* subscribeThread, likewise
    version,    \* sequence of lastAppliedProjectionVersion
    project,    \* the project event whose value the client shows, 0 = none
    recovery,   \* the entry of projectionRecoveryByEnvironment
    catchUp,    \* the replay asked for by a resume, a reconnect or a poll
    text,       \* the pieces of the message, as the client shows it
    applied,    \* lastAppliedEventSequenceByThreadId of the thread
    latest,     \* entry.latestDetailSequence
    verified,   \* entry.verifiedDetailSequence
    reconcile,  \* reconcileThreadDetail in flight, of a timer and of a restart
    restarted,  \* the next welcome carries a new serverBootId
    budget,     \* of commits, faults and reconciliations
    regressed,  \* ghost: a recovery applied events the version already covered
    disturbed   \* ghost: the detail was written in a way it cannot follow from

shellVars == <<version, project, regressed>>
detailVars == <<text, applied, latest, verified, disturbed>>
requestVars == <<recovery, catchUp, reconcile>>
vars == <<log, shell, thread, shellVars, detailVars, requestVars, restarted, budget>>

None == -1
Slots == {"timer", "restart"}
End == Len(log)

Down == [at |-> "down", pos |-> 0]
NoRecovery == [stage |-> "none", high |-> 0, from |-> 0, askedAt |-> 0]
NoCatchUp == [on |-> FALSE, known |-> 0, from |-> 0, askedAt |-> 0]
NoReconcile == [on |-> FALSE, client |-> None, verified |-> None, askedAt |-> 0]

Init ==
    /\ log = <<"project">>
    /\ shell = Down /\ thread = Down
    /\ version = None /\ project = 0 /\ regressed = FALSE
    /\ recovery = NoRecovery /\ catchUp = NoCatchUp
    /\ reconcile = [slot \in Slots |-> NoReconcile]
    /\ text = <<>> /\ applied = 0 /\ latest = None /\ verified = None /\ disturbed = FALSE
    /\ restarted = FALSE
    /\ budget \in Budgets

Spend(what) ==
    /\ budget[what] > 0
    /\ budget' = [budget EXCEPT ![what] = @ - 1]

Least(a, b) == IF a <= b THEN a ELSE b
Greatest(a, b) == IF a >= b THEN a ELSE b

\* The pieces after a up to b, and some pieces in the order of the log.
PiecesIn(a, b) == {n \in (a + 1)..b : log[n] = "piece"}
InOrder(pieces) ==
    CHOOSE s \in [1..Cardinality(pieces) -> pieces] :
        /\ {s[i] : i \in DOMAIN s} = pieces
        /\ \A i, j \in DOMAIN s : i < j => s[i] < s[j]

\* The project event in force at n.
LastProject(n) == Max({0} \cup {i \in 1..n : log[i] = "project"})
LastPieceIn(a, b) == Max({0} \cup PiecesIn(a, b))

(***************************************************************************)
(* The server and the connection                                           *)
(***************************************************************************)

Commit ==
    /\ Spend("commits")
    /\ \E kind \in {"project", "piece"} :
        /\ kind = "project" =>
               Cardinality({i \in 1..End : log[i] = "project"}) < MaxProjectEvents
        /\ log' = Append(log, kind)
    /\ UNCHANGED <<shell, thread, shellVars, detailVars, requestVars, restarted>>

\* The streams end and what is in flight fails.
ConnectionLost ==
    /\ shell' = Down
    /\ thread' = Down
    /\ catchUp' = NoCatchUp
    /\ reconcile' = [slot \in Slots |-> NoReconcile]

Reconnecting == [NoRecovery EXCEPT !.stage = "reconnecting"]

\* A recovery whose replay failed with the connection goes on to reconnect.
Disconnect ==
    /\ Spend("faults")
    /\ restarted' \in {restarted, TRUE}
    /\ ConnectionLost
    /\ recovery' = IF recovery.stage = "asked" THEN Reconnecting ELSE recovery
    /\ UNCHANGED <<log, shellVars, detailVars>>

\* The server reads the snapshot of a new subscription.
SubscribeShell ==
    /\ shell.at = "down"
    /\ shell' = [at |-> "loading", pos |-> End]
    /\ UNCHANGED <<log, thread, shellVars, detailVars, requestVars, restarted, budget>>

SubscribeThread ==
    /\ thread.at = "down"
    /\ thread' = [at |-> "loading", pos |-> End]
    /\ UNCHANGED <<log, shell, shellVars, detailVars, requestVars, restarted, budget>>

(***************************************************************************)
(* What every source of events does to the client's state                  *)
(***************************************************************************)

\* A run of pieces of one batch is merged into its last event before the
\* store sees it (coalesceOrchestrationUiEvents).
RunEnd(n, b) == Max({m \in n..b : \A k \in n..m : log[k] = "piece"})

\* Mutant: the version is not marked after a batch.
ApplyBatchUnmarked(a, b) ==
    /\ UNCHANGED <<version, verified, applied, latest, disturbed, text>>
    /\ project' = IF LastProject(b) > a THEN LastProject(b) ELSE project
    /\ regressed' = (regressed \/ (b > a /\ a < version))

\* applyRecoveredProjectionEventBatch on the events after a up to b; the
\* store drops a thread event that is not newer than the last it applied.
ApplyBatch(a, b) ==
    /\ version' = Greatest(version, b)
    /\ project' = IF LastProject(b) > a THEN LastProject(b) ELSE project
    /\ regressed' = (regressed \/ (b > a /\ a < version))
    /\ text' = text \o InOrder({n \in PiecesIn(a, b) : RunEnd(n, b) > applied})
    /\ applied' = Greatest(applied, LastPieceIn(a, b))
    /\ latest' = IF LastPieceIn(a, b) = 0 THEN latest ELSE Greatest(latest, LastPieceIn(a, b))
    /\ LET shown == Greatest(latest, applied)
       IN  disturbed' = (disturbed \/ (/\ PiecesIn(a, b) # {}
                                      /\ PiecesIn(Least(a, shown), Greatest(a, shown)) # {}))
    /\ UNCHANGED verified

\* queueProjectionRecovery: one recovery at a time, which asks at once.
QueueRecovery(observed, from) ==
    recovery' = IF recovery.stage = "none"
                THEN [stage |-> "asked", high |-> observed, from |-> from, askedAt |-> End]
                ELSE [recovery EXCEPT !.high = Greatest(@, observed)]

\* What a replay from a sequence may answer with: the server read the log
\* some time after it was asked.
ReplayedUpTo(request) ==
    {Least(n, request.from + ReplayLimit) : n \in request.askedAt..End}

(***************************************************************************)
(* The subscriptions                                                       *)
(***************************************************************************)

\* Mutant: a snapshot older than the version is applied.
ShellSnapshotUnguarded ==
    /\ shell.at = "loading"
    /\ shell' = [shell EXCEPT !.at = "open"]
    /\ version' = shell.pos
    /\ project' = LastProject(shell.pos)
    /\ regressed' = FALSE
    /\ UNCHANGED <<log, thread, detailVars, requestVars, restarted, budget>>

\* syncShellSnapshot; of an equal sequence only updatedAt decides.
ShellSnapshot ==
    /\ shell.at = "loading"
    /\ shell' = [shell EXCEPT !.at = "open"]
    /\ \/ /\ shell.pos >= version
          /\ version' = shell.pos
          /\ project' = LastProject(shell.pos)
          /\ regressed' = FALSE
       \/ /\ shell.pos <= version
          /\ UNCHANGED shellVars
    /\ UNCHANGED <<log, thread, detailVars, requestVars, restarted, budget>>

\* toShellStreamEvent cannot read the row, and the client never hears of it.
ShellEventUnread ==
    /\ shell.at = "open"
    /\ shell.pos < End
    /\ Spend("faults")
    /\ shell' = [shell EXCEPT !.pos = @ + 1]
    /\ UNCHANGED <<log, thread, shellVars, detailVars, requestVars, restarted>>

\* Mutant: every newer event is applied at once.
ClassifyWithoutGap(sequence) ==
    IF version # None /\ sequence <= version THEN "stale" ELSE "apply"

\* classifyProjectionEvent
Classify(sequence) ==
    IF version = None THEN "apply"
    ELSE IF sequence <= version THEN "stale"
    ELSE IF sequence = version + 1 THEN "apply"
    ELSE "gap"

\* applyShellEvent; the row of a project is read when the event is sent.
ShellEvent ==
    /\ shell.at = "open"
    /\ shell.pos < End
    /\ shell' = [shell EXCEPT !.pos = @ + 1]
    /\ LET sequence == shell.pos + 1
       IN  \/ /\ recovery.stage # "none"
              /\ recovery' = [recovery EXCEPT !.high = Greatest(@, sequence)]
              /\ UNCHANGED shellVars
           \/ /\ recovery.stage = "none"
              /\ Classify(sequence) = "stale"
              /\ UNCHANGED <<recovery, shellVars>>
           \/ /\ recovery.stage = "none"
              /\ Classify(sequence) = "gap"
              /\ QueueRecovery(sequence, version)
              /\ UNCHANGED shellVars
           \/ /\ recovery.stage = "none"
              /\ Classify(sequence) = "apply"
              /\ version' = sequence
              /\ \/ log[sequence] = "piece" /\ UNCHANGED project
                 \/ /\ log[sequence] = "project"
                    /\ \E n \in sequence..End : project' = LastProject(n)
              /\ UNCHANGED <<recovery, regressed>>
    /\ UNCHANGED <<log, thread, detailVars, catchUp, reconcile, restarted, budget>>

\* Has the thread's stream sent what a snapshot at this sequence lacks?
Outrun(sequence) == thread.at = "open" /\ sequence < thread.pos

\* The snapshot of the thread replaces what it shares with what is shown.
ShowSnapshot(sequence) ==
    /\ latest' = sequence
    /\ verified' = sequence
    /\ text' = InOrder(PiecesIn(0, sequence))
    /\ disturbed' = (sequence < Greatest(latest, applied) \/ Outrun(sequence))
    /\ UNCHANGED applied

ThreadSnapshot ==
    /\ thread.at = "loading"
    /\ thread' = [thread EXCEPT !.at = "open"]
    /\ \/ thread.pos < latest /\ UNCHANGED detailVars
       \/ thread.pos >= latest /\ ShowSnapshot(thread.pos)
    /\ UNCHANGED <<log, shell, shellVars, requestVars, restarted, budget>>

\* Mutant: what the cursor covers is shown again.
ShowPiecesSeen(a, b) ==
    /\ text' = text \o InOrder({n \in PiecesIn(a, b) : n > applied})
    /\ applied' = Greatest(applied, LastPieceIn(a, b))

\* The pieces of a thread stream or a reconciliation, one store event each;
\* those up to the cursor have been seen.
ShowPieces(a, b) ==
    LET unseen == Greatest(a, latest)
    IN  /\ text' = text \o InOrder({n \in PiecesIn(unseen, b) : n > applied})
        /\ applied' = Greatest(applied, LastPieceIn(unseen, b))

ThreadEvent ==
    /\ thread.at = "open"
    /\ thread.pos < End
    /\ thread' = [thread EXCEPT !.pos = @ + 1]
    /\ LET sequence == thread.pos + 1
       IN  \/ /\ log[sequence] = "project" \/ sequence <= latest
              /\ UNCHANGED <<text, applied, latest>>
           \/ /\ log[sequence] = "piece"
              /\ sequence > latest
              /\ ShowPieces(thread.pos, sequence)
              /\ latest' = sequence
    /\ UNCHANGED <<log, shell, shellVars, verified, disturbed, requestVars, restarted, budget>>

(***************************************************************************)
(* Replays                                                                 *)
(***************************************************************************)

\* A reconnect replays from the version; a resume and the poll of an active
\* thread probe first and know the server's sequence.
AskCatchUp ==
    /\ version # None
    /\ ~catchUp.on
    /\ \E known \in {0, End} :
        catchUp' = [on |-> TRUE, known |-> known, from |-> version, askedAt |-> End]
    /\ UNCHANGED <<log, shell, thread, shellVars, detailVars, recovery, reconcile, restarted,
                   budget>>

\* replayProjectionEventsFromSequence reads the version again.
CatchUpReply ==
    /\ catchUp.on
    /\ catchUp' = NoCatchUp
    /\ \E upTo \in ReplayedUpTo(catchUp) :
        LET contiguousTo == Greatest(version, upTo)
            highest == Greatest(catchUp.known, upTo)
        IN  /\ ApplyBatch(version, contiguousTo)
            /\ IF highest > contiguousTo THEN QueueRecovery(highest, contiguousTo)
               ELSE UNCHANGED recovery
    /\ UNCHANGED <<log, shell, thread, reconcile, restarted, budget>>

CatchUpFails ==
    /\ catchUp.on
    /\ Spend("faults")
    /\ catchUp' = NoCatchUp
    /\ UNCHANGED <<log, shell, thread, shellVars, detailVars, recovery, reconcile, restarted>>

\* recoverProjectionSequenceGap goes by the sequence it asked from.
RecoveryReply ==
    /\ recovery.stage = "asked"
    /\ \E upTo \in ReplayedUpTo(recovery) :
        \/ /\ upTo = recovery.from
           /\ recovery' = Reconnecting
           /\ ConnectionLost
           /\ UNCHANGED <<shellVars, detailVars>>
        \/ /\ upTo > recovery.from
           /\ ApplyBatch(recovery.from, upTo)
           /\ recovery' = IF version' >= recovery.high THEN NoRecovery
                          ELSE [recovery EXCEPT !.from = version', !.askedAt = End]
           /\ UNCHANGED <<shell, thread, catchUp, reconcile>>
    /\ UNCHANGED <<log, restarted, budget>>

RecoveryFails ==
    /\ recovery.stage = "asked"
    /\ Spend("faults")
    /\ recovery' = Reconnecting
    /\ ConnectionLost
    /\ UNCHANGED <<log, shellVars, detailVars, restarted>>

\* Mutant: the registration is not removed after the reconnect.
RecoveryStays ==
    /\ recovery.stage = "reconnecting"
    /\ UNCHANGED vars

\* The reconnect waits for the next shell snapshot or times out.
RecoveryEndsReconnect ==
    /\ recovery.stage = "reconnecting"
    /\ recovery' = NoRecovery
    /\ UNCHANGED <<log, shell, thread, shellVars, detailVars, catchUp, reconcile, restarted,
                   budget>>

(***************************************************************************)
(* Reconciliations of the thread                                           *)
(***************************************************************************)

Ask(slot) ==
    /\ ~reconcile[slot].on
    /\ reconcile' = [reconcile EXCEPT ![slot] =
           [on |-> TRUE, client |-> latest, verified |-> verified, askedAt |-> End]]

\* A timer, which never has two in flight.
AskReconcile ==
    /\ Ask("timer")
    /\ Spend("reconciles")
    /\ UNCHANGED <<log, shell, thread, shellVars, detailVars, recovery, catchUp, restarted>>

\* observeEnvironmentServerWelcome
Welcome ==
    /\ restarted
    /\ restarted' = FALSE
    /\ \/ latest # None /\ Ask("restart")
       \/ latest = None /\ UNCHANGED reconcile
    /\ UNCHANGED <<log, shell, thread, shellVars, detailVars, recovery, catchUp, budget>>

\* The handler of reconcileThreadDetail reads a snapshot at serverSequence
\* and then, for a client that is verified up to its cursor, the events after
\* that cursor up to eventsTo.
ReplyKind(request, serverSequence, eventsTo) ==
    IF request.client = None \/ request.verified # request.client THEN "snapshot"
    ELSE IF request.client >= serverSequence THEN "current"
    ELSE IF Cardinality(PiecesIn(request.client, eventsTo)) > DetailEventLimit THEN "snapshot"
    ELSE "events"

\* applyThreadDetailReconcileResult
ApplyReconcileResult(request, serverSequence, eventsTo) ==
    LET kind == ReplyKind(request, serverSequence, eventsTo)
    IN  \/ kind = "snapshot" /\ ShowSnapshot(serverSequence)
        \/ /\ kind = "current"
           /\ latest' = serverSequence
           /\ verified' = serverSequence
           /\ disturbed' = (disturbed \/ serverSequence < latest)
           /\ UNCHANGED <<text, applied>>
        \/ /\ kind = "events"
           /\ ShowPieces(request.client, eventsTo)
           /\ latest' = serverSequence
           /\ verified' = serverSequence
           /\ disturbed' = (disturbed \/ serverSequence < latest \/ eventsTo < serverSequence)

\* Only after a restart is an answer older than the cursor ignored.
ReconcileReply(slot) ==
    /\ reconcile[slot].on
    /\ reconcile' = [reconcile EXCEPT ![slot] = NoReconcile]
    /\ LET request == reconcile[slot]
       IN  \E serverSequence \in request.askedAt..End :
           \E end \in serverSequence..End :
               LET eventsTo == Least(end, Greatest(request.client, 0) + ReplayLimit)
               IN  \/ /\ slot = "restart" /\ serverSequence < latest
                      /\ UNCHANGED detailVars
                   \/ /\ slot = "timer" \/ serverSequence >= latest
                      /\ ApplyReconcileResult(request, serverSequence, eventsTo)
    /\ UNCHANGED <<log, shell, thread, shellVars, recovery, catchUp, restarted, budget>>

ReconcileFails(slot) ==
    /\ reconcile[slot].on
    /\ Spend("faults")
    /\ reconcile' = [reconcile EXCEPT ![slot] = NoReconcile]
    /\ UNCHANGED <<log, shell, thread, shellVars, detailVars, recovery, catchUp, restarted>>

Next ==
    \/ Commit
    \/ Disconnect
    \/ SubscribeShell \/ SubscribeThread
    \/ ShellSnapshot \/ ShellEventUnread \/ ShellEvent
    \/ ThreadSnapshot \/ ThreadEvent
    \/ AskCatchUp \/ CatchUpReply \/ CatchUpFails
    \/ RecoveryReply \/ RecoveryFails \/ RecoveryEndsReconnect
    \/ AskReconcile \/ Welcome
    \/ \E slot \in Slots : ReconcileReply(slot) \/ ReconcileFails(slot)

ShellStream == SubscribeShell \/ ShellSnapshot \/ ShellEvent
CatchUpReplay == AskCatchUp \/ CatchUpReply
RecoveryReplay == RecoveryReply \/ RecoveryEndsReconnect

\* The shell subscription is taken up again and delivered, the poll of the
\* thread that is shown runs on, and a recovery's replay or reconnect ends.
\* Nothing is assumed of commits, of the thread's stream or of the timers.
Fairness ==
    /\ WF_vars(ShellStream)
    /\ WF_vars(CatchUpReplay)
    /\ WF_vars(RecoveryReplay)

Spec == Init /\ [][Next]_vars /\ Fairness

(***************************************************************************)
(* Properties                                                              *)
(***************************************************************************)

\* Whatever the version claims to cover is shown: no subscription, replay or
\* recovery lets it pass a project event whose value, or a later one, the
\* client does not show (classifyProjectionEvent, selectContiguousReplay-
\* Events); but for a recovery that applied what the version already covered.
ProjectFollowsVersion == ~regressed => project >= LastProject(version)

\* The text of a thread is the pieces up to the cursor, each once, however
\* snapshots, the stream and reconciliations overlap, unless a replay wrote to
\* the thread or an outdated or cut off reconciliation was applied, and no
\* snapshot since was as new as the stream (attachThreadDetailSubscription,
\* applyThreadDetailReconcileResult).
DetailFollowsLog ==
    ~disturbed /\ latest # None => text = InOrder(PiecesIn(0, Greatest(latest, applied)))

\* The version of the projection only moves forward, across reconnects and
\* restarts too (markAppliedProjectionSnapshot, markAppliedProjectionEvent).
VersionNeverGoesBack == [][version' >= version]_vars

\* While a recovery is registered shell events are only noted: it must end
\* (queueProjectionRecovery).
RecoveryEnds == recovery.stage # "none" ~> recovery.stage = "none"

\* The client catches up with a log that has stopped growing, whatever was
\* dropped or lost on the way.
ProjectionCatchesUp == <>[](version = End)

\* Refuted: a replay appends pieces that a snapshot or the stream has shown.
NoPieceShownTwice == \A i, j \in DOMAIN text : text[i] = text[j] => i = j
=============================================================================
