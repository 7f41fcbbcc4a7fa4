----------------------------- MODULE Checkpoints -----------------------------
(***************************************************************************)
(* The checkpoints of one thread (CheckpointReactor.ts): what the reactor  *)
(* keeps in git, what the projection says about it, and the workspace and  *)
(* the provider's conversation that a revert must bring back together.     *)
(* The reactor is one fiber that takes events of two streams, of the       *)
(* engine and of the provider; the provider, the runtime ingestion, the    *)
(* user and the reactor change the workspace, the session and the          *)
(* checkpoints between any two of its steps.                               *)
(*                                                                         *)
(* A tree is the set of the turns whose change it holds, each of them in a *)
(* file of its own.  Diffs are taken over whole trees: the attribution by  *)
(* edit snapshots, which only narrows them, is left out.  message-sent and *)
(* turn-start-requested, committed together and handled alike, are one     *)
(* event, and events the reactor returns from at once by their payload are *)
(* not in its streams.                                                     *)
(***************************************************************************)
EXTENDS Integers, SequencesExt, FiniteSetsExt

CONSTANTS
    MaxTurns,      \* turns the user asks for
    MaxReverts,    \* reverts the user asks for
    MaxFaults,     \* failures of the reactor, exits of the provider, restarts of the server
    MaxLag         \* events on their way before the user and the provider pause

ASSUME CheckpointsAssumption ==
    {MaxTurns, MaxReverts, MaxFaults, MaxLag} \subseteq Nat

VARIABLES
    workspace,    \* the tree on disk
    refs,         \* the checkpoint refs of the thread in git
    checkpoints,  \* projection_turns: the checkpoint of a turn
    session,      \* projection_thread_sessions
    provider,     \* the provider's side of the thread
    waiting,      \* turn starts requested and not sent
    ingest,       \* runtime events the ingestion has not handled
    placeholder,  \* a placeholder it has counted and not dispatched
    domain,       \* domain events the reactor has not taken
    runtime,      \* runtime events the reactor has not taken
    worker,       \* what the reactor's fiber is doing
    budget,
    torn,         \* ghost: a revert was cut short once it deleted refs
    edited,       \* ghost: turns that have changed their file
    blurred       \* ghost: turns whose diff may be more or less than their own changes

readModel == <<checkpoints, session>>
streams == <<domain, runtime>>
ingestion == <<ingest, placeholder>>
ghosts == <<torn, edited, blurred>>
vars == <<workspace, refs, readModel, provider, waiting, ingestion, streams, worker,
          budget, ghosts>>

NoTurn == 0
Turns == 1..MaxTurns

TurnRef(n) == <<"turn", n>>         \* checkpointRefForThreadTurn
StartRef(n) == <<"start", n>>       \* checkpointStartRefForThreadTurn

\* A failed turn ("error") is handled as one that is "ready".
Statuses == {"ready", "missing"}
Idle == [at |-> "idle", count |-> 0, top |-> 0, jobs |-> <<>>, stale |-> {}, exact |-> FALSE,
         seen |-> 0]

\* The highest count of a checkpoint, 0 without one.
Top == Max({0} \cup {checkpoints[t].count : t \in DOMAIN checkpoints})

Init ==
    /\ workspace = {} /\ refs = <<>>
    /\ checkpoints = <<>> /\ session = [status |-> "ready", active |-> NoTurn]
    /\ provider = [live |-> FALSE, running |-> NoTurn,
                   history |-> <<>>, turns |-> 0]
    /\ waiting = 0
    /\ ingest = <<>> /\ placeholder = [turn |-> NoTurn, count |-> 0]
    /\ domain = <<>> /\ runtime = <<>>
    /\ worker = Idle
    /\ budget = [reverts |-> MaxReverts, faults |-> MaxFaults]
    /\ torn = FALSE /\ edited = {} /\ blurred = {}

Spend(what) ==
    /\ budget[what] > 0
    /\ budget' = [budget EXCEPT ![what] = @ - 1]

With(f, x, v) == [y \in DOMAIN f \cup {x} |-> IF y = x THEN v ELSE f[y]]

Publish(event) == domain' = Append(domain, event)

\* Only a settled session is for the reactor.
SetSession(status, active) ==
    /\ session' = [status |-> status, active |-> active]
    /\ IF active = NoTurn THEN Publish([type |-> "settled"]) ELSE UNCHANGED domain

Captured(t) == t \in DOMAIN checkpoints /\ checkpoints[t].status # "missing"
Missing(t) == t \in DOMAIN checkpoints /\ checkpoints[t].status = "missing"

\* Turns a checkpoint may still be captured for.
Open ==
    {t \in 1..provider.turns :
        \/ ~Captured(t) \/ t \in {provider.running, placeholder.turn}
        \/ \E i \in DOMAIN runtime : runtime[i].type = "completed" /\ runtime[i].turn = t
        \/ \E i \in DOMAIN worker.jobs : worker.jobs[i].turn = t}

\* Turns whose start the reactor has not taken.
Unseen == {t \in Turns : \E i \in DOMAIN runtime : runtime[i] = [type |-> "started", turn |-> t]}

\* The user and the provider wait for the others when too much is on its way.
Paced == Len(ingest) + Len(domain) + Len(runtime) < MaxLag

Blur(turns) == blurred' = blurred \cup turns

(***************************************************************************)
(* The user, the turns and the provider                                    *)
(***************************************************************************)

RequestTurn ==
    /\ provider.turns + waiting < MaxTurns
    /\ Paced
    /\ waiting' = waiting + 1
    /\ Publish([type |-> "start"])
    /\ UNCHANGED <<workspace, refs, readModel, provider, ingestion, runtime, worker, budget,
                   ghosts>>

\* No turn runs, and the ingestion has told everyone.
Settled ==
    /\ provider.running = NoTurn /\ session.active = NoTurn
    /\ ingest = <<>> /\ placeholder.turn = NoTurn

\* The command reactor sends the next turn once the session is free; it binds
\* a session of its own first when there is none.
SendTurn ==
    LET turn == provider.turns + 1
        started == [type |-> "started", turn |-> turn]
    IN  /\ waiting > 0
        /\ Paced
        /\ Settled
        /\ waiting' = waiting - 1
        /\ provider' = [live |-> TRUE, running |-> turn,
                        history |-> Append(provider.history, turn), turns |-> turn]
        /\ IF provider.live
           THEN UNCHANGED <<session, domain>>
           ELSE SetSession("ready", NoTurn)
        /\ ingest' = Append(ingest, started)
        /\ runtime' = Append(runtime, started)
        /\ Blur(IF worker.at \in {"rollback", "delete", "reverted"} THEN Turns ELSE {})
        /\ UNCHANGED <<workspace, refs, checkpoints, placeholder, worker, budget, torn, edited>>

\* A turn changes its file, and the provider may tell with turn.diff.updated.
TurnEdits ==
    LET turn == provider.running
    IN  /\ turn \notin edited \cup {NoTurn}
        /\ Paced
        /\ workspace' = workspace \cup {turn}
        /\ edited' = edited \cup {turn}
        /\ ingest' \in {ingest, Append(ingest, [type |-> "diff", turn |-> turn])}
        /\ Blur(Open \ {turn})
        /\ UNCHANGED <<refs, readModel, provider, waiting, placeholder, streams, worker, budget,
                       torn>>

\* turn.completed, with the status checkpointStatusFromRuntime gives its state.
EndTurn ==
    \E status \in Statuses :
        LET completed == [type |-> "completed", turn |-> provider.running, status |-> status]
        IN  /\ provider.running # NoTurn
            /\ Paced
            /\ provider' = [provider EXCEPT !.running = NoTurn]
            /\ ingest' = Append(ingest, completed)
            /\ runtime' = Append(runtime, completed)
            /\ UNCHANGED <<workspace, refs, readModel, waiting, placeholder, domain, worker,
                           budget, ghosts>>

\* session.exited: the turn's completion never comes.
ProviderExits ==
    /\ provider.live /\ Spend("faults")
    /\ provider' = [provider EXCEPT !.live = FALSE, !.running = NoTurn]
    /\ ingest' = Append(ingest, [type |-> "exited", turn |-> NoTurn])
    /\ UNCHANGED <<workspace, refs, readModel, waiting, placeholder, streams, worker, ghosts>>

\* The client offers a revert to before a turn once the thread has stopped
\* running and what it sent itself has come back.
RequestRevert ==
    \E t \in DOMAIN checkpoints :
        /\ waiting = 0 /\ Settled
        /\ Paced
        /\ Spend("reverts")
        /\ Publish([type |-> "revert", count |-> checkpoints[t].count - 1])
        /\ UNCHANGED <<workspace, refs, readModel, provider, waiting, ingestion, runtime,
                       worker, ghosts>>

(***************************************************************************)
(* The runtime ingestion                                                   *)
(***************************************************************************)

\* thread.turn-diff-completed in the projection: any other turn loses a
\* checkpoint of the same count.
Conflicting(turn, count) ==
    {t \in DOMAIN checkpoints \ {turn} : checkpoints[t].count = count}

\* The count is another turn's, or the turn has another.
Clashes(turn, count) ==
    \/ Conflicting(turn, count) # {}
    \/ turn \in DOMAIN checkpoints /\ checkpoints[turn].count # count

RecordCheckpoint(turn, checkpoint) ==
    checkpoints' = Restrict(With(checkpoints, turn, checkpoint),
                            (DOMAIN checkpoints \cup {turn}) \ Conflicting(turn, checkpoint.count))

\* The reactor passes over events of real checkpoints.
PublishDiff(turn, count, status) ==
    IF status = "missing" THEN Publish([type |-> "diff", turn |-> turn, count |-> count])
    ELSE UNCHANGED domain

IngestLifecycle ==
    LET event == Head(ingest)
    IN  /\ ingest # <<>> /\ placeholder.turn = NoTurn
        /\ event.type # "diff"
        /\ ingest' = Tail(ingest)
        /\ CASE event.type = "exited" -> SetSession("stopped", NoTurn)
             [] session.active \notin {NoTurn, event.turn} -> UNCHANGED <<session, domain>>
             [] event.type = "started" -> SetSession("running", event.turn)
             [] OTHER -> SetSession("ready", NoTurn)
        /\ UNCHANGED <<workspace, refs, checkpoints, provider, waiting, placeholder, runtime,
                       worker, budget, ghosts>>

\* A turn that has a checkpoint already needs no placeholder; the count is
\* taken from what the ingestion reads here.
CountPlaceholder ==
    /\ ingest # <<>> /\ placeholder.turn = NoTurn
    /\ Head(ingest).type = "diff"
    /\ ingest' = Tail(ingest)
    /\ placeholder' = IF Head(ingest).turn \in DOMAIN checkpoints THEN placeholder
                      ELSE [turn |-> Head(ingest).turn, count |-> Top + 1]
    /\ UNCHANGED <<workspace, refs, readModel, provider, waiting, streams, worker, budget,
                   ghosts>>

DispatchPlaceholder ==
    LET turn == placeholder.turn
        count == placeholder.count
    IN  /\ turn # NoTurn
        /\ placeholder' = [turn |-> NoTurn, count |-> 0]
        /\ RecordCheckpoint(turn, [count |-> count, status |-> "missing", real |-> FALSE,
                                   files |-> {}])
        /\ PublishDiff(turn, count, "missing")
        /\ Blur(IF Captured(turn) \/ Clashes(turn, count) THEN Open \cup {turn} ELSE {})
        /\ UNCHANGED <<workspace, refs, session, provider, waiting, ingest, runtime, worker,
                       budget, torn, edited>>

(***************************************************************************)
(* The reactor                                                             *)
(***************************************************************************)

Unaffected == UNCHANGED <<readModel, provider, waiting, ingestion, budget, torn, edited>>

\* captureTurnStartCheckpoint: the first tree of a count is kept, the last one
\* before the next count replaces what was there.
Baseline ==
    IF TurnRef(Top) \in DOMAIN refs THEN refs ELSE With(refs, TurnRef(Top), workspace)

CaptureTurnStart ==
    /\ refs' = With(Baseline, StartRef(Top + 1), workspace)
    /\ worker' = Idle
    /\ Blur(Open \cap edited)
    /\ UNCHANGED workspace

Begin(jobs) ==
    /\ worker' = IF jobs = <<>> THEN Idle ELSE [Idle EXCEPT !.at = "capture", !.jobs = jobs]
    /\ UNCHANGED <<workspace, refs, blurred>>

Job(turn, count, status) == [turn |-> turn, count |-> count, status |-> status]

\* captureCheckpointFromTurnCompletion: not while another turn is active.
BeginCompletion(turn, status) ==
    LET count == IF turn \in DOMAIN checkpoints THEN checkpoints[turn].count ELSE Top + 1
    IN  Begin(IF session.active \in {NoTurn, turn} THEN <<Job(turn, count, status)>> ELSE <<>>)

\* captureCheckpointFromPlaceholder
BeginPlaceholder(turn, count) ==
    LET due == ~Captured(turn) /\ session.active # turn
    IN  Begin(IF due THEN <<Job(turn, count, "ready")>> ELSE <<>>)

BeginSettledWithoutPlaceholders == Begin(<<>>)

\* finalizeMissingCheckpointsFromSettledSession: every placeholder there is,
\* by count; the session is the event's.
BeginSettled ==
    LET missing == {t \in DOMAIN checkpoints : Missing(t)}
    IN  \E order \in [1..Cardinality(missing) -> missing] :
            /\ \A i, j \in DOMAIN order :
                  i < j => checkpoints[order[i]].count < checkpoints[order[j]].count
            /\ Begin([i \in DOMAIN order |->
                         Job(order[i], checkpoints[order[i]].count, "ready")])

Aligned ==
    /\ DOMAIN checkpoints = ToSet(provider.history)
    /\ \A i \in DOMAIN provider.history : checkpoints[provider.history[i]].count = i

RealRefs(turns) == {TurnRef(checkpoints[t].count) : t \in {s \in turns : checkpoints[s].real}}

\* The ref a checkpoint names; a placeholder's is not one of git's.
RefOf(count) ==
    IF count = 0 THEN {TurnRef(0)}
    ELSE RealRefs({t \in DOMAIN checkpoints : checkpoints[t].count = count}) \cap DOMAIN refs

\* Turns a revert to this count removes.
Later(count) == {t \in DOMAIN checkpoints : checkpoints[t].count > count}

StaleRefsFrom(count) == RealRefs(Later(count - 1)) \cup {StartRef(n) : n \in count..Top}

StaleRefs(count) == RealRefs(Later(count)) \cup {StartRef(n) : n \in (count + 1)..Top}

\* handleRevertRequested, up to the restored files.  Without a session, such
\* a checkpoint or its ref, nothing is done.
BeginRevert(count) ==
    IF provider.live /\ count <= Top /\ RefOf(count) # {}
    THEN /\ workspace' = IF TurnRef(count) \in DOMAIN refs THEN refs[TurnRef(count)] ELSE {}
         /\ worker' = [Idle EXCEPT !.at = "rollback", !.count = count, !.top = Top,
                           !.stale = StaleRefs(count),
                           !.exact = Aligned /\ placeholder.turn = NoTurn,
                           !.seen = Len(provider.history)]
         /\ Blur(IF Tail(domain) = <<>> /\ runtime = <<>> /\ ingest = <<>>
                 THEN Open \cup Later(count)
                 ELSE Turns)
         /\ UNCHANGED refs
    ELSE Begin(<<>>)

\* processDomainEvent
TakeDomainEvent ==
    LET event == Head(domain)
    IN  /\ worker.at = "idle" /\ domain # <<>>
        /\ domain' = Tail(domain)
        /\ \/ event.type = "start" /\ CaptureTurnStart
           \/ event.type = "diff" /\ BeginPlaceholder(event.turn, event.count)
           \/ event.type = "settled" /\ BeginSettled
           \/ event.type = "revert" /\ BeginRevert(event.count)
        /\ Unaffected /\ UNCHANGED runtime

\* processRuntimeEvent
TakeRuntimeEvent ==
    LET event == Head(runtime)
    IN  /\ worker.at = "idle" /\ runtime # <<>>
        /\ runtime' = Tail(runtime)
        /\ \/ event.type = "started" /\ CaptureTurnStart
           \/ event.type = "completed" /\ BeginCompletion(event.turn, event.status)
        /\ Unaffected /\ UNCHANGED domain

FromRefOfTurn(count) == TurnRef(count)

FromRef(count) ==
    IF StartRef(count) \in DOMAIN refs THEN StartRef(count) ELSE TurnRef(count - 1)

Differences(tree, other) == (tree \ other) \cup (other \ tree)

\* A diff that cannot be taken is recorded as empty.
TurnDiff(count) ==
    IF FromRef(count) \in DOMAIN refs THEN Differences(refs[FromRef(count)], workspace) ELSE {}

\* captureAndDispatchCheckpoint
CaptureCheckpoint ==
    LET job == Head(worker.jobs)
        left == Tail(worker.jobs)
    IN  /\ worker.at = "capture"
        /\ refs' = With(refs, TurnRef(job.count), workspace)
        /\ RecordCheckpoint(job.turn, [count |-> job.count, status |-> job.status, real |-> TRUE,
                                       files |-> TurnDiff(job.count)])
        /\ PublishDiff(job.turn, job.count, job.status)
        /\ worker' = IF left = <<>> THEN Idle ELSE [worker EXCEPT !.jobs = left]
        /\ Blur(({job.turn} \cap (Unseen \cup {provider.running}))
                \cup (IF Clashes(job.turn, job.count) THEN Open \cup {job.turn}
                      ELSE (Open \cap edited) \ {job.turn}))
        /\ UNCHANGED <<workspace, session, provider, waiting, ingestion, runtime, budget,
                       torn, edited>>

TurnsToRollBackInclusive == worker.top - worker.count + 1
TurnsToRollBack == worker.top - worker.count

\* providerService.rollbackConversation
RollBack ==
    LET left == Max({0, Len(provider.history) - TurnsToRollBack})
        kept == SubSeq(provider.history, 1, left)
    IN  /\ worker.at = "rollback"
        /\ provider' = [provider EXCEPT !.history = kept]
        /\ worker' = [worker EXCEPT !.at = "delete", !.seen = left,
                          !.exact = @ /\ Len(provider.history) = worker.seen]
        /\ Blur(1..provider.turns \ ToSet(kept))
        /\ UNCHANGED <<workspace, refs, readModel, waiting, ingestion, streams, budget, torn,
                       edited>>

Without(names) == Restrict(refs, DOMAIN refs \ names)

DeleteStaleRefs ==
    /\ worker.at = "delete"
    /\ refs' = Without(worker.stale)
    /\ worker' = [worker EXCEPT !.at = "reverted"]
    /\ Unaffected /\ UNCHANGED <<workspace, streams, blurred>>

\* thread.reverted
CompleteRevert ==
    /\ worker.at = "reverted"
    /\ checkpoints' = Restrict(checkpoints, DOMAIN checkpoints \ Later(worker.count))
    /\ worker' = Idle
    /\ UNCHANGED <<workspace, refs, session, provider, waiting, ingestion, streams, budget,
                   ghosts>>

\* Whatever was under way stops where it is: refs are deleted one by one, and
\* a ref is captured before its checkpoint is dispatched.
CutShort ==
    /\ worker' = Idle
    /\ CASE worker.at = "delete" -> \E names \in SUBSET worker.stale : refs' = Without(names)
         [] worker.at = "capture" ->
                refs' \in {refs, With(refs, TurnRef(Head(worker.jobs).count), workspace)}
         [] OTHER -> UNCHANGED refs
    /\ torn' = (torn \/ worker.at \in {"delete", "reverted"})

\* git, the provider or the engine fails: the handler ends with an activity.
HandlerFails ==
    /\ worker.at # "idle" /\ Spend("faults")
    /\ CutShort
    /\ Blur(Open)
    /\ UNCHANGED <<workspace, readModel, provider, waiting, ingestion, streams, edited>>

\* git fails on a turn start, perhaps with the baseline captured.
TurnStartFails ==
    /\ worker.at = "idle" /\ Spend("faults")
    /\ \/ domain # <<>> /\ Head(domain).type = "start"
          /\ domain' = Tail(domain) /\ UNCHANGED runtime
       \/ runtime # <<>> /\ Head(runtime).type = "started"
          /\ runtime' = Tail(runtime) /\ UNCHANGED domain
    /\ refs' \in {refs, Baseline}
    /\ Blur(Open)
    /\ UNCHANGED <<workspace, readModel, provider, waiting, ingestion, worker, torn, edited>>

Worker ==
    \/ TakeDomainEvent \/ TakeRuntimeEvent
    \/ CaptureCheckpoint
    \/ RollBack \/ DeleteStaleRefs \/ CompleteRevert

\* The provider dies with the server.  The startup recovery interrupts the
\* session before the reactor has subscribed to the engine's events.
Restart ==
    /\ Spend("faults")
    /\ CutShort
    /\ Blur(Open)
    /\ provider' = [provider EXCEPT !.live = FALSE, !.running = NoTurn]
    /\ session' = IF session.active = NoTurn THEN session
                  ELSE [status |-> "interrupted", active |-> NoTurn]
    /\ waiting' = 0
    /\ ingest' = <<>> /\ placeholder' = [turn |-> NoTurn, count |-> 0]
    /\ domain' = <<>> /\ runtime' = <<>>
    /\ UNCHANGED <<workspace, checkpoints, edited>>

Ingestion == IngestLifecycle \/ CountPlaceholder \/ DispatchPlaceholder

Next ==
    \/ RequestTurn \/ SendTurn \/ TurnEdits \/ EndTurn
    \/ ProviderExits \/ RequestRevert
    \/ Ingestion
    \/ Worker \/ HandlerFails \/ TurnStartFails
    \/ Restart

\* The fibers of the ingestion and of the reactor go on, and every turn ends.
Spec == Init /\ [][Next]_vars /\ WF_vars(Ingestion) /\ WF_vars(Worker) /\ WF_vars(EndTurn)

(***************************************************************************)
(* Properties                                                              *)
(***************************************************************************)

\* A checkpoint that names a ref of git can be restored: its ref is captured
\* before it is recorded and deleted only on the way to removing it, unless a
\* failure or a restart cut a revert short in between.
RefsBackCheckpoints ==
    torn \/ worker.at = "reverted" \/
        \A t \in DOMAIN checkpoints :
            checkpoints[t].real => TurnRef(checkpoints[t].count) \in DOMAIN refs

\* The diff recorded for a turn is what the turn changed, no more and no less,
\* unless something the ghost names came between: while its checkpoint was
\* open, a change by another turn, the capture of another turn's checkpoint
\* or a start signal handled after its first change, a capture while it ran, a
\* count taken twice, a failure or a restart; or a revert of it, or one that
\* did not find the streams empty.
DiffIsItsTurns ==
    \A t \in DOMAIN checkpoints \ blurred :
        Captured(t) => checkpoints[t].files = {t} \cap edited

\* No two turns have the same place in the thread.
CountsApart ==
    \A s, t \in DOMAIN checkpoints : checkpoints[s].count = checkpoints[t].count => s = t

\* A revert that found one checkpoint for each turn of the conversation, in its
\* order, and no placeholder on its way, and saw no turn start before the
\* provider rolled back, keeps the checkpoints of the turns the provider kept,
\* and no other.
RevertKeepsInStep ==
    [][worker.at = "reverted" /\ worker.exact /\ worker' # worker /\ checkpoints' # checkpoints
          => DOMAIN checkpoints' = ToSet(SubSeq(provider.history, 1, worker.seen))]_vars

Hurt == budget.faults < MaxFaults

\* A placeholder is replaced by a real checkpoint, or reverted with its turn.
PlaceholdersFinalized == \A t \in Turns : Missing(t) ~> (~Missing(t) \/ Hurt)
=============================================================================
