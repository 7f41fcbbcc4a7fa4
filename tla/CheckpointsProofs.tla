--------------------------- MODULE CheckpointsProofs ---------------------------
(***************************************************************************)
(* Checkpoints proved for any number of turns, reverts and failures: what  *)
(* the projection offers to restore is in git, no two turns share a place  *)
(* in the thread, and a revert leaves the checkpoints of exactly the turns *)
(* that the provider kept.                                                 *)
(***************************************************************************)
EXTENDS Checkpoints, SequenceTheorems, FiniteSetTheorems, NaturalsInduction, TLAPS

IsWorker ==
    \E at, count, top, jobs, stale, exact, seen :
        worker = [at |-> at, count |-> count, top |-> top, jobs |-> jobs, stale |-> stale,
                  exact |-> exact, seen |-> seen]

\* A revert only deletes refs of checkpoints it removes.
StaleRefsAreLater ==
    worker.at \in {"rollback", "delete"} =>
        \A t \in DOMAIN checkpoints :
            checkpoints[t].real /\ TurnRef(checkpoints[t].count) \in worker.stale
                => t \in Later(worker.count)

\* Between the deletion and thread.reverted, only those are without a ref.
OnlyLaterUnbacked ==
    torn \/ \A t \in DOMAIN checkpoints :
        checkpoints[t].real =>
            \/ TurnRef(checkpoints[t].count) \in DOMAIN refs
            \/ worker.at = "reverted" /\ t \in Later(worker.count)

RefsInv == IsWorker /\ StaleRefsAreLater /\ OnlyLaterUnbacked

\* What the library operators do.
LEMMA Restricted ==
    ASSUME NEW f, NEW S
    PROVE  /\ DOMAIN Restrict(f, S) = S
           /\ \A x \in S : Restrict(f, S)[x] = f[x]
  BY DEF Restrict

LEMMA Added ==
    ASSUME NEW f, NEW x, NEW v
    PROVE  /\ DOMAIN With(f, x, v) = DOMAIN f \cup {x}
           /\ With(f, x, v)[x] = v
           /\ \A y \in DOMAIN f \ {x} : With(f, x, v)[y] = f[y]
  BY DEF With

\* A recorded checkpoint replaces the turn's own and any other of its count.
LEMMA Recorded ==
    ASSUME NEW turn, NEW checkpoint, RecordCheckpoint(turn, checkpoint)
    PROVE  \A t \in DOMAIN checkpoints' :
              \/ t = turn /\ checkpoints'[t] = checkpoint
              \/ /\ t # turn /\ t \in DOMAIN checkpoints
                 /\ checkpoints'[t] = checkpoints[t]
                 /\ checkpoints[t].count # checkpoint.count
  <1> DEFINE wide == With(checkpoints, turn, checkpoint)
             kept == (DOMAIN checkpoints \cup {turn}) \ Conflicting(turn, checkpoint.count)
  <1>1. checkpoints' = Restrict(wide, kept)
    BY DEF RecordCheckpoint
  <1>2. DOMAIN checkpoints' = kept /\ \A t \in kept : checkpoints'[t] = wide[t]
    BY <1>1, Restricted
  <1>3. wide[turn] = checkpoint /\ \A t \in DOMAIN checkpoints \ {turn} : wide[t] = checkpoints[t]
    BY DEF With
  <1> QED
    BY <1>2, <1>3 DEF Conflicting

\* A completed revert removes checkpoints and changes none.
LEMMA Reverted ==
    ASSUME CompleteRevert
    PROVE  \A t \in DOMAIN checkpoints' :
              /\ t \in DOMAIN checkpoints /\ t \notin Later(worker.count)
              /\ checkpoints'[t] = checkpoints[t]
  BY Restricted DEF CompleteRevert

\* Only these steps change the checkpoints.
LEMMA CheckpointSteps ==
    ASSUME [Next]_vars
    PROVE  \/ UNCHANGED checkpoints
           \/ DispatchPlaceholder \/ CaptureCheckpoint \/ CompleteRevert
  <1> SUFFICES ASSUME ~DispatchPlaceholder, ~CaptureCheckpoint, ~CompleteRevert
               PROVE  UNCHANGED checkpoints
    OBVIOUS
  <1>1. CASE UNCHANGED vars
    BY <1>1 DEF vars, readModel
  <1>2. CASE RequestTurn \/ SendTurn \/ TurnEdits \/ EndTurn \/ ProviderExits \/ RequestRevert
    BY <1>2 DEF RequestTurn, SendTurn, TurnEdits, EndTurn, ProviderExits, RequestRevert, readModel
  <1>3. CASE Ingestion
    BY <1>3 DEF Ingestion, IngestLifecycle, CountPlaceholder, readModel
  <1>4. CASE Worker
    BY <1>4 DEF Worker, TakeDomainEvent, TakeRuntimeEvent, RollBack, DeleteStaleRefs, Unaffected,
        readModel
  <1>5. CASE HandlerFails \/ TurnStartFails \/ Restart
    BY <1>5 DEF HandlerFails, TurnStartFails, Restart, readModel
  <1> QED
    BY <1>1, <1>2, <1>3, <1>4, <1>5 DEF Next

\* No two turns of the thread have a checkpoint of the same count, whoever
\* recorded them: clearCheckpointTurnConflict and the revert keep them apart.
THEOREM TurnCountsApart == Spec => []CountsApart
  <1>1. Init => CountsApart
    BY DEF Init, CountsApart
  <1>2. CountsApart /\ [Next]_vars => CountsApart'
    <2> SUFFICES ASSUME CountsApart, [Next]_vars
                 PROVE  CountsApart'
      OBVIOUS
    <2>1. CASE UNCHANGED checkpoints
      BY <2>1 DEF CountsApart
    <2>2. CASE DispatchPlaceholder
      <3> DEFINE new == [count |-> placeholder.count, status |-> "missing", real |-> FALSE,
                         files |-> {}]
      <3>1. RecordCheckpoint(placeholder.turn, new)
        BY <2>2 DEF DispatchPlaceholder
      <3> QED
        BY <3>1, Recorded DEF CountsApart
    <2>3. CASE CaptureCheckpoint
      <3>1. \E turn, new : RecordCheckpoint(turn, new)
        BY <2>3 DEF CaptureCheckpoint
      <3> QED
        BY <3>1, Recorded DEF CountsApart
    <2>4. CASE CompleteRevert
      BY <2>4, Reverted DEF CountsApart
    <2> QED
      BY <2>1, <2>2, <2>3, <2>4, CheckpointSteps
  <1> QED
    BY <1>1, <1>2, PTL DEF Spec

LEMMA IdleIsWorker == worker = Idle => IsWorker /\ worker.at = "idle"
  <1> SUFFICES ASSUME worker = Idle PROVE IsWorker /\ worker.at = "idle"
    OBVIOUS
  <1>1. worker.at = "idle"
    BY DEF Idle
  <1>2. IsWorker
    BY Zenon DEF IsWorker, Idle
  <1> QED
    BY <1>1, <1>2

LEMMA RefsInvInit == Init => RefsInv
  <1> SUFFICES ASSUME Init PROVE RefsInv
    OBVIOUS
  <1>1. checkpoints = <<>> /\ worker = Idle
    BY DEF Init
  <1>2. DOMAIN checkpoints = {}
    BY <1>1
  <1> QED
    BY <1>1, <1>2, IdleIsWorker DEF RefsInv, StaleRefsAreLater, OnlyLaterUnbacked

\* A capture only adds a ref; the handlers that start one leave the reactor
\* idle or about to capture.
LEMMA RefsGrow ==
    ASSUME RefsInv, UNCHANGED checkpoints, DOMAIN refs \subseteq DOMAIN refs', IsWorker',
           worker'.at \in {"idle", "capture"},
           torn => torn', worker.at # "reverted"
    PROVE  RefsInv'
  BY DEF RefsInv, StaleRefsAreLater, OnlyLaterUnbacked

LEMMA TurnStartGrows ==
    ASSUME CaptureTurnStart
    PROVE  /\ DOMAIN refs \subseteq DOMAIN refs'
           /\ worker' = Idle
  <1>1. DOMAIN refs \subseteq DOMAIN Baseline
    BY DEF Baseline, With
  <1>2. DOMAIN Baseline \subseteq DOMAIN With(Baseline, StartRef(Top + 1), workspace)
    BY DEF With
  <1> QED
    BY <1>1, <1>2 DEF CaptureTurnStart

LEMMA BeginKeepsRefs ==
    ASSUME NEW jobs, Begin(jobs)
    PROVE  refs' = refs /\ IsWorker' /\ worker'.at \in {"idle", "capture"}
  BY DEF Begin, IsWorker, Idle

LEMMA BaselineGrows == DOMAIN refs \subseteq DOMAIN Baseline
  BY DEF Baseline, With

\* A revert is begun with the refs of the checkpoints after its count.
LEMMA BeginRevertRefs ==
    ASSUME NEW count, RefsInv, worker.at = "idle", UNCHANGED <<checkpoints, torn>>,
           BeginRevert(count)
    PROVE  RefsInv'
  <1>1. CASE Begin(<<>>)
    BY <1>1, BeginKeepsRefs, RefsGrow
  <1>2. CASE ~Begin(<<>>)
    <2>1. /\ worker' = [Idle EXCEPT !.at = "rollback", !.count = count, !.top = Top,
                                    !.stale = StaleRefs(count),
                                    !.exact = Aligned /\ placeholder.turn = NoTurn,
                                    !.seen = Len(provider.history)]
          /\ refs' = refs
      BY <1>2 DEF BeginRevert
    <2>2. worker' = [at |-> "rollback", count |-> count, top |-> Top, jobs |-> <<>>,
                     stale |-> StaleRefs(count),
                     exact |-> (Aligned /\ placeholder.turn = NoTurn),
                     seen |-> Len(provider.history)]
      BY <2>1 DEF Idle
    <2>3. IsWorker'
      BY Zenon, <2>2 DEF IsWorker
    <2>4. worker'.at = "rollback" /\ worker'.count = count /\ worker'.stale = StaleRefs(count)
      BY <2>2
    <2>5. \A t \in DOMAIN checkpoints :
             TurnRef(checkpoints[t].count) \in StaleRefs(count) => t \in Later(count)
      BY DEF StaleRefs, RealRefs, Later, TurnRef, StartRef
    <2>6. StaleRefsAreLater'
      BY <2>4, <2>5 DEF StaleRefsAreLater, Later
    <2>7. OnlyLaterUnbacked'
      BY <2>1 DEF OnlyLaterUnbacked, RefsInv
    <2> QED
      BY <2>3, <2>6, <2>7 DEF RefsInv
  <1> QED
    BY <1>1, <1>2

LEMMA DomainEventRefs ==
    ASSUME RefsInv, TakeDomainEvent
    PROVE  RefsInv'
  <1>1. worker.at = "idle" /\ UNCHANGED <<checkpoints, torn>>
    BY DEF TakeDomainEvent, Unaffected, readModel
  <1>2. CASE CaptureTurnStart
    BY <1>1, <1>2, TurnStartGrows, IdleIsWorker, RefsGrow DEF IsWorker, Idle
  <1>3. CASE \E jobs : Begin(jobs)
    BY <1>1, <1>3, BeginKeepsRefs, RefsGrow
  <1>4. CASE \E count : BeginRevert(count)
    BY <1>1, <1>4, BeginRevertRefs
  <1>5. \/ CaptureTurnStart \/ BeginPlaceholder(Head(domain).turn, Head(domain).count)
        \/ BeginSettled \/ BeginRevert(Head(domain).count)
    BY DEF TakeDomainEvent
  <1> QED
    BY <1>2, <1>3, <1>4, <1>5 DEF BeginPlaceholder, BeginSettled

LEMMA RuntimeEventRefs ==
    ASSUME RefsInv, TakeRuntimeEvent
    PROVE  RefsInv'
  <1>1. worker.at = "idle" /\ UNCHANGED <<checkpoints, torn>>
    BY DEF TakeRuntimeEvent, Unaffected, readModel
  <1>2. CASE CaptureTurnStart
    BY <1>1, <1>2, TurnStartGrows, IdleIsWorker, RefsGrow DEF IsWorker, Idle
  <1>3. CASE \E jobs : Begin(jobs)
    BY <1>1, <1>3, BeginKeepsRefs, RefsGrow
  <1>4. CaptureTurnStart \/ BeginCompletion(Head(runtime).turn, Head(runtime).status)
    BY DEF TakeRuntimeEvent
  <1> QED
    BY <1>2, <1>3, <1>4 DEF BeginCompletion

LEMMA PlaceholderRefs ==
    ASSUME RefsInv, DispatchPlaceholder
    PROVE  RefsInv'
  <1> DEFINE new == [count |-> placeholder.count, status |-> "missing", real |-> FALSE,
                     files |-> {}]
  <1>1. RecordCheckpoint(placeholder.turn, new) /\ UNCHANGED <<refs, worker, torn>>
    BY DEF DispatchPlaceholder
  <1>2. \A t \in DOMAIN checkpoints' :
           checkpoints'[t].real => t \in DOMAIN checkpoints /\ checkpoints'[t] = checkpoints[t]
    BY <1>1, Recorded
  <1>3. IsWorker'
    BY <1>1 DEF RefsInv, IsWorker
  <1>4. StaleRefsAreLater'
    BY <1>1, <1>2 DEF RefsInv, StaleRefsAreLater, Later
  <1>5. OnlyLaterUnbacked'
    BY <1>1, <1>2 DEF RefsInv, OnlyLaterUnbacked, Later
  <1> QED
    BY <1>3, <1>4, <1>5 DEF RefsInv

LEMMA CaptureLeaves ==
    ASSUME RefsInv, CaptureCheckpoint
    PROVE  IsWorker' /\ worker'.at \in {"idle", "capture"}
  <1>1. CASE worker' = Idle
    BY <1>1 DEF IsWorker, Idle
  <1>2. CASE worker' = [worker EXCEPT !.jobs = Tail(worker.jobs)]
    <2>1. PICK at, count, top, jobs, stale, exact, seen :
             worker = [at |-> at, count |-> count, top |-> top, jobs |-> jobs,
                       stale |-> stale, exact |-> exact, seen |-> seen]
      BY DEF RefsInv, IsWorker
    <2>2. worker' = [at |-> at, count |-> count, top |-> top, jobs |-> Tail(worker.jobs),
                     stale |-> stale, exact |-> exact, seen |-> seen]
      BY <1>2, <2>1
    <2>3. IsWorker'
      BY Zenon, <2>2 DEF IsWorker
    <2>4. worker'.at = worker.at
      BY <2>1, <2>2
    <2> QED
      BY <2>3, <2>4 DEF CaptureCheckpoint
  <1> QED
    BY <1>1, <1>2 DEF CaptureCheckpoint

LEMMA CaptureRefs ==
    ASSUME RefsInv, CaptureCheckpoint
    PROVE  RefsInv'
  <1> DEFINE job == Head(worker.jobs)
             new == [count |-> job.count, status |-> job.status, real |-> TRUE,
                     files |-> TurnDiff(job.count)]
  <1>1. /\ worker.at = "capture" /\ torn' = torn
        /\ refs' = With(refs, TurnRef(job.count), workspace)
        /\ RecordCheckpoint(job.turn, new)
    BY DEF CaptureCheckpoint
  <1>2. IsWorker' /\ worker'.at \in {"idle", "capture"}
    BY CaptureLeaves
  <1>3. DOMAIN refs' = DOMAIN refs \cup {TurnRef(job.count)}
    BY <1>1, Added
  <1>4. \A t \in DOMAIN checkpoints' :
           \/ checkpoints'[t].count = job.count
           \/ t \in DOMAIN checkpoints /\ checkpoints'[t] = checkpoints[t]
    BY <1>1, Recorded
  <1>5. OnlyLaterUnbacked'
    BY <1>1, <1>2, <1>3, <1>4 DEF RefsInv, OnlyLaterUnbacked
  <1>6. StaleRefsAreLater'
    BY <1>2 DEF StaleRefsAreLater
  <1> QED
    BY <1>2, <1>5, <1>6 DEF RefsInv

LEMMA RollBackRefs ==
    ASSUME RefsInv, RollBack
    PROVE  RefsInv'
  <1> DEFINE left == Max({0, Len(provider.history) - TurnsToRollBack})
  <1>1. PICK at, count, top, jobs, stale, exact, seen :
           worker = [at |-> at, count |-> count, top |-> top, jobs |-> jobs,
                     stale |-> stale, exact |-> exact, seen |-> seen]
    BY DEF RefsInv, IsWorker
  <1>2. /\ worker.at = "rollback" /\ UNCHANGED <<refs, checkpoints, torn>>
        /\ worker' = [worker EXCEPT !.at = "delete", !.seen = left,
                          !.exact = @ /\ Len(provider.history) = worker.seen]
    BY DEF RollBack, readModel
  <1>3. worker' = [at |-> "delete", count |-> count, top |-> top, jobs |-> jobs, stale |-> stale,
                   exact |-> (exact /\ Len(provider.history) = seen), seen |-> left]
    BY <1>1, <1>2
  <1>4. IsWorker'
    BY Zenon, <1>3 DEF IsWorker
  <1>5. worker'.at = "delete" /\ worker'.count = worker.count /\ worker'.stale = worker.stale
    BY <1>1, <1>3
  <1>6. StaleRefsAreLater'
    BY <1>2, <1>5 DEF RefsInv, StaleRefsAreLater, Later
  <1>7. OnlyLaterUnbacked'
    BY <1>2 DEF RefsInv, OnlyLaterUnbacked
  <1> QED
    BY <1>4, <1>6, <1>7 DEF RefsInv

LEMMA DeleteRefs ==
    ASSUME RefsInv, DeleteStaleRefs
    PROVE  RefsInv'
  <1>1. PICK at, count, top, jobs, stale, exact, seen :
           worker = [at |-> at, count |-> count, top |-> top, jobs |-> jobs,
                     stale |-> stale, exact |-> exact, seen |-> seen]
    BY DEF RefsInv, IsWorker
  <1>2. /\ worker.at = "delete" /\ UNCHANGED <<checkpoints, torn>>
        /\ refs' = Restrict(refs, DOMAIN refs \ worker.stale)
        /\ worker' = [worker EXCEPT !.at = "reverted"]
    BY DEF DeleteStaleRefs, Without, Unaffected, readModel
  <1>3. worker' = [at |-> "reverted", count |-> count, top |-> top, jobs |-> jobs,
                   stale |-> stale, exact |-> exact, seen |-> seen]
    BY <1>1, <1>2
  <1>4. IsWorker'
    BY Zenon, <1>3 DEF IsWorker
  <1>5. worker'.at = "reverted" /\ worker'.count = worker.count
    BY <1>1, <1>3
  <1>6. DOMAIN refs' = DOMAIN refs \ worker.stale
    BY <1>2, Restricted
  <1>7. OnlyLaterUnbacked'
    BY <1>2, <1>5, <1>6 DEF RefsInv, StaleRefsAreLater, OnlyLaterUnbacked, Later
  <1> QED
    BY <1>4, <1>5, <1>7 DEF RefsInv, StaleRefsAreLater

LEMMA CompleteRefs ==
    ASSUME RefsInv, CompleteRevert
    PROVE  RefsInv'
  <1>1. worker' = Idle /\ UNCHANGED <<refs, torn>>
    BY DEF CompleteRevert, ghosts
  <1>2. IsWorker' /\ worker'.at = "idle"
    BY <1>1 DEF IsWorker, Idle
  <1>3. OnlyLaterUnbacked'
    BY <1>1, Reverted DEF RefsInv, OnlyLaterUnbacked
  <1> QED
    BY <1>2, <1>3 DEF RefsInv, StaleRefsAreLater

\* A failure or a crash in the middle of a revert is what the ghost records.
LEMMA CutShortRefs ==
    ASSUME RefsInv, CutShort, UNCHANGED checkpoints
    PROVE  RefsInv'
  <1>1. worker' = Idle /\ torn' = (torn \/ worker.at \in {"delete", "reverted"})
    BY DEF CutShort
  <1>2. IsWorker' /\ worker'.at = "idle"
    BY <1>1 DEF IsWorker, Idle
  <1>3. CASE worker.at \in {"delete", "reverted"}
    BY <1>1, <1>2, <1>3 DEF RefsInv, StaleRefsAreLater, OnlyLaterUnbacked
  <1>4. CASE worker.at \notin {"delete", "reverted"}
    <2> DEFINE caught == With(refs, TurnRef(Head(worker.jobs).count), workspace)
    <2>1. refs' = refs \/ refs' = caught
      BY <1>4 DEF CutShort
    <2>2. DOMAIN refs \subseteq DOMAIN caught
      BY DEF With
    <2>3. DOMAIN refs \subseteq DOMAIN refs'
      BY <2>1, <2>2
    <2>4. torn => torn'
      BY <1>1
    <2> QED
      BY <1>2, <1>4, <2>3, <2>4, RefsGrow
  <1> QED
    BY <1>3, <1>4

LEMMA RefsInvStep == RefsInv /\ [Next]_vars => RefsInv'
  <1> SUFFICES ASSUME RefsInv, [Next]_vars
               PROVE  RefsInv'
    OBVIOUS
  <1>1. CASE UNCHANGED <<refs, checkpoints, worker, torn>>
    BY <1>1 DEF RefsInv, IsWorker, StaleRefsAreLater, OnlyLaterUnbacked, Later
  <1>2. CASE UNCHANGED vars
    BY <1>1, <1>2 DEF vars, readModel, ghosts
  <1>3. CASE RequestTurn \/ SendTurn \/ TurnEdits \/ EndTurn \/ ProviderExits \/ RequestRevert
    BY <1>1, <1>3 DEF RequestTurn, SendTurn, TurnEdits, EndTurn, ProviderExits, RequestRevert,
        readModel, ghosts
  <1>4. CASE Ingestion
    BY <1>1, <1>4, PlaceholderRefs DEF Ingestion, IngestLifecycle, CountPlaceholder, readModel,
        ghosts
  <1>5. CASE Worker
    BY <1>5, DomainEventRefs, RuntimeEventRefs, CaptureRefs, RollBackRefs, DeleteRefs,
        CompleteRefs DEF Worker
  <1>6. CASE HandlerFails \/ Restart
    BY <1>6, CutShortRefs DEF HandlerFails, Restart, readModel
  <1>7. CASE TurnStartFails
    <2>1. /\ worker.at = "idle" /\ UNCHANGED <<checkpoints, worker, torn>>
          /\ DOMAIN refs \subseteq DOMAIN refs'
      BY <1>7, BaselineGrows DEF TurnStartFails, readModel
    <2>2. IsWorker'
      BY <2>1 DEF RefsInv, IsWorker
    <2> QED
      BY <2>1, <2>2, RefsGrow
  <1> QED
    BY <1>2, <1>3, <1>4, <1>5, <1>6, <1>7 DEF Next

\* Whatever the user, the provider and the ingestion do between the steps of
\* the reactor, and whatever fails, a checkpoint that names a ref of git has it
\* there, unless a revert was cut short after it had begun to delete refs.
THEOREM CheckpointsAreBacked == Spec => []RefsBackCheckpoints
  <1>1. RefsInv => RefsBackCheckpoints
    BY DEF RefsInv, OnlyLaterUnbacked, RefsBackCheckpoints
  <1> QED
    BY <1>1, RefsInvInit, RefsInvStep, PTL DEF Spec

-----------------------------------------------------------------------------
(* A revert keeps the conversation and the checkpoints in step. *)

Positive == Nat \ {0}
Jobs == [turn : Nat, count : Positive, status : Statuses]
DomainEvents ==
    [type : {"start", "settled"}] \cup [type : {"diff"}, turn : Nat, count : Positive]
        \cup [type : {"revert"}, count : Nat]
TurnEvents ==
    [type : {"started", "diff", "exited"}, turn : Nat]
        \cup [type : {"completed"}, turn : Nat, status : Statuses]

CheckpointsTyped ==
    /\ DOMAIN checkpoints \subseteq Nat /\ IsFiniteSet(DOMAIN checkpoints)
    /\ \A t \in DOMAIN checkpoints : checkpoints[t].count \in Positive
    /\ \E n \in Nat : \A t \in DOMAIN checkpoints : checkpoints[t].count <= n

ProviderTyped == provider \in [live : BOOLEAN, running : Nat, history : Seq(Nat), turns : Nat]

IngestionTyped ==
    /\ placeholder \in [turn : Nat, count : Nat]
    /\ placeholder.turn # NoTurn => placeholder.count \in Positive
    /\ ingest \in Seq(TurnEvents)

StreamsTyped == domain \in Seq(DomainEvents) /\ runtime \in Seq(TurnEvents)

WorkerTyped ==
    /\ worker.count \in Nat /\ worker.top \in Nat /\ worker.seen \in Nat
    /\ worker.count <= worker.top
    /\ worker.jobs \in Seq(Jobs)
    /\ worker.at = "capture" => worker.jobs # <<>>

TypeInv == CheckpointsTyped /\ ProviderTyped /\ IngestionTyped /\ StreamsTyped /\ WorkerTyped

\* The first n turns of a conversation have the counts 1 to n, and no other
\* turn has one of these.
InOrder(record, history, n) ==
    /\ n <= Len(history)
    /\ \A i \in 1..n : history[i] \in DOMAIN record /\ record[history[i]].count = i
    /\ \A t \in DOMAIN record : record[t].count <= n => \E i \in 1..n : t = history[i]

Reverting == worker.at \in {"rollback", "delete", "reverted"} /\ worker.exact

\* What is to be kept stays in order while the provider rolls back and the
\* reactor deletes refs; a placeholder counted meanwhile comes after it.
KeptInOrder ==
    Reverting =>
        /\ InOrder(checkpoints, provider.history, worker.count)
        /\ placeholder.turn # NoTurn =>
              /\ placeholder.turn \notin DOMAIN checkpoints /\ placeholder.count > worker.count
              /\ \A t \in DOMAIN checkpoints : placeholder.count > checkpoints[t].count
        /\ IF worker.at = "rollback" THEN worker.top = worker.seen /\ worker.count <= worker.seen
           ELSE worker.seen = worker.count

\* A non-empty set of naturals with a bound has a greatest element.
LEMMA GreatestOf ==
    ASSUME NEW n \in Nat, NEW S, S \subseteq 0..n, S # {}
    PROVE  Max(S) \in S /\ \A x \in S : x <= Max(S)
  <1> DEFINE Less == OpToRel(<, Nat)
             T == {k \in 0..n : n - k \in S}
  <1>1. \A x \in S : x \in Nat /\ n - x \in T /\ n - (n - x) = x
    OBVIOUS
  <1>2. \A k \in T : k \in Nat /\ n - k \in S
    OBVIOUS
  <1>3. T \subseteq Nat /\ T # {}
    BY <1>1, <1>2
  <1> HIDE DEF T
  <1>4. PICK t \in T : \A u \in T : <<u, t>> \notin Less
    BY <1>3, NatLessThanWellFounded, WFMin, Zenon
  <1>5. \A u \in T : ~(u < t)
    BY <1>2, <1>4, Zenon DEF OpToRel
  <1>6. n - t \in S /\ \A x \in S : n - t >= x
    <2>1. t \in Nat /\ n - t \in S
      BY <1>2
    <2>2. ASSUME NEW x \in S PROVE n - t >= x
      <3>1. x \in Nat /\ n - x \in Nat /\ ~(n - x < t)
        BY <1>1, <1>2, <1>5
      <3> QED
        BY <2>1, <3>1
    <2> QED
      BY <2>1, <2>2
  <1>7. Max(S) \in S /\ \A x \in S : Max(S) >= x
    BY <1>6 DEF Max
  <1>8. \A x \in S : x \in Int
    OBVIOUS
  <1> QED
    BY <1>7, <1>8

\* Top is the highest count.
LEMMA TopOf ==
    ASSUME CheckpointsTyped
    PROVE  /\ Top \in Nat /\ \A t \in DOMAIN checkpoints : checkpoints[t].count <= Top
           /\ Top = 0 \/ \E t \in DOMAIN checkpoints : checkpoints[t].count = Top
  <1> DEFINE S == {0} \cup {checkpoints[t].count : t \in DOMAIN checkpoints}
  <1>1. PICK n \in Nat : \A t \in DOMAIN checkpoints : checkpoints[t].count <= n
    BY DEF CheckpointsTyped
  <1>2. S \subseteq 0..n /\ S # {}
    BY <1>1 DEF CheckpointsTyped, Positive
  <1>3. Max(S) \in S /\ \A x \in S : x <= Max(S)
    BY <1>2, GreatestOf, Zenon
  <1>4. Top = Max(S)
    BY DEF Top
  <1>5. Top \in S /\ \A x \in S : x <= Top
    BY <1>3, <1>4
  <1> QED
    BY <1>2, <1>5, SMTT(30)

\* A checkpoint of a legal count may be recorded, and a revert completed.
LEMMA RecordedTyped ==
    ASSUME CheckpointsTyped, NEW turn \in Nat, NEW new, new.count \in Positive,
           RecordCheckpoint(turn, new)
    PROVE  CheckpointsTyped'
  <1>1. DOMAIN checkpoints' \subseteq DOMAIN checkpoints \cup {turn}
    BY Recorded
  <1>2. IsFiniteSet(DOMAIN checkpoints \cup {turn})
    BY FS_AddElement DEF CheckpointsTyped
  <1>3. DOMAIN checkpoints' \subseteq Nat /\ IsFiniteSet(DOMAIN checkpoints')
    BY <1>1, <1>2, FS_Subset DEF CheckpointsTyped
  <1>4. \A t \in DOMAIN checkpoints' : checkpoints'[t].count \in Positive
    BY Recorded DEF CheckpointsTyped
  <1>5. \E n \in Nat : \A t \in DOMAIN checkpoints' : checkpoints'[t].count <= n
    <2>1. PICK n \in Nat : \A t \in DOMAIN checkpoints : checkpoints[t].count <= n
      BY DEF CheckpointsTyped
    <2>2. n + new.count \in Nat /\ new.count \in Nat
      BY DEF Positive
    <2>3. \A t \in DOMAIN checkpoints' : checkpoints'[t].count <= n + new.count
      BY <1>4, <2>1, <2>2, Recorded DEF Positive
    <2> QED
      BY <2>2, <2>3
  <1> QED
    BY <1>3, <1>4, <1>5 DEF CheckpointsTyped

LEMMA CheckpointsTypedStep ==
    ASSUME TypeInv, [Next]_vars
    PROVE  CheckpointsTyped'
  <1>1. CASE UNCHANGED checkpoints
    BY <1>1 DEF TypeInv, CheckpointsTyped
  <1>2. CASE DispatchPlaceholder
    <2> DEFINE new == [count |-> placeholder.count, status |-> "missing", real |-> FALSE,
                       files |-> {}]
    <2>1. RecordCheckpoint(placeholder.turn, new) /\ placeholder.turn # NoTurn
      BY <1>2 DEF DispatchPlaceholder
    <2>2. placeholder.turn \in Nat /\ new.count \in Positive
      BY <2>1 DEF TypeInv, IngestionTyped
    <2> HIDE DEF new
    <2> QED
      BY <2>1, <2>2, RecordedTyped DEF TypeInv
  <1>3. CASE CaptureCheckpoint
    <2> DEFINE job == Head(worker.jobs)
               new == [count |-> job.count, status |-> job.status, real |-> TRUE,
                       files |-> TurnDiff(job.count)]
    <2>1. RecordCheckpoint(job.turn, new) /\ worker.at = "capture"
      BY <1>3 DEF CaptureCheckpoint
    <2>2. worker.jobs \in Seq(Jobs) /\ worker.jobs # <<>>
      BY <2>1 DEF TypeInv, WorkerTyped
    <2>3. job \in Jobs
      BY <2>2, HeadTailProperties
    <2>4. job.turn \in Nat /\ new.count \in Positive
      BY <2>3 DEF Jobs
    <2> HIDE DEF new, job
    <2> QED
      BY <2>1, <2>4, RecordedTyped DEF TypeInv
  <1>4. CASE CompleteRevert
    <2>1. DOMAIN checkpoints' \subseteq DOMAIN checkpoints
      BY <1>4, Reverted
    <2>2. IsFiniteSet(DOMAIN checkpoints')
      BY <2>1, FS_Subset DEF TypeInv, CheckpointsTyped
    <2> QED
      BY <1>4, <2>1, <2>2, Reverted DEF TypeInv, CheckpointsTyped
  <1> QED
    BY <1>1, <1>2, <1>3, <1>4, CheckpointSteps

\* The rollback keeps a prefix of the conversation.
LEMMA RollBackKeeps ==
    ASSUME TypeInv, RollBack
    PROVE  \E left \in 0..Len(provider.history) :
              /\ provider' = [provider EXCEPT !.history = SubSeq(provider.history, 1, left)]
              /\ worker' = [worker EXCEPT !.at = "delete", !.seen = left,
                                !.exact = @ /\ Len(provider.history) = worker.seen]
              /\ Len(provider.history) = worker.top => left = worker.count
  <1> DEFINE excess == Len(provider.history) - TurnsToRollBack
             left == Max({0, excess})
  <1>1. /\ worker.count \in Nat /\ worker.top \in Nat /\ worker.count <= worker.top
        /\ Len(provider.history) \in Nat
    BY LenProperties DEF TypeInv, WorkerTyped, ProviderTyped
  <1>2. TurnsToRollBack = worker.top - worker.count
    BY DEF TurnsToRollBack
  <1>3. excess \in Int /\ excess <= Len(provider.history)
        /\ (Len(provider.history) = worker.top => excess = worker.count)
    BY <1>1, <1>2
  <1>4. /\ provider' = [provider EXCEPT !.history = SubSeq(provider.history, 1, left)]
        /\ worker' = [worker EXCEPT !.at = "delete", !.seen = left,
                          !.exact = @ /\ Len(provider.history) = worker.seen]
    BY DEF RollBack
  <1> HIDE DEF excess
  <1>5. left = IF excess > 0 THEN excess ELSE 0
    <2>1. \E m \in {0, excess} : \A x \in {0, excess} : m >= x
      BY <1>3
    <2>2. left \in {0, excess} /\ \A x \in {0, excess} : left >= x
      BY <2>1 DEF Max
    <2> HIDE DEF left
    <2> QED
      BY <1>3, <2>2
  <1> HIDE DEF left
  <1>6. left \in 0..Len(provider.history) /\ (Len(provider.history) = worker.top => left = worker.count)
    BY <1>1, <1>3, <1>5
  <1> QED
    BY <1>4, <1>6

LEMMA ProviderTypedStep ==
    ASSUME TypeInv, [Next]_vars
    PROVE  ProviderTyped'
  <1>1. CASE UNCHANGED provider
    BY <1>1 DEF TypeInv, ProviderTyped
  <1>2. CASE SendTurn
    <2> DEFINE turn == provider.turns + 1
               history == Append(provider.history, turn)
    <2>1. provider' = [live |-> TRUE, running |-> turn, history |-> history, turns |-> turn]
      BY <1>2 DEF SendTurn
    <2>2. turn \in Nat /\ provider.history \in Seq(Nat)
      BY DEF TypeInv, ProviderTyped
    <2>3. history \in Seq(Nat)
      BY <2>2, AppendProperties
    <2> HIDE DEF turn, history
    <2> QED
      BY <2>1, <2>2, <2>3 DEF ProviderTyped
  <1>3. CASE EndTurn \/ ProviderExits \/ Restart
    <2>1. \/ provider' = [provider EXCEPT !.running = NoTurn]
          \/ provider' = [provider EXCEPT !.live = FALSE, !.running = NoTurn]
      BY <1>3 DEF EndTurn, ProviderExits, Restart
    <2>2. PICK live \in BOOLEAN :
             provider' = [live |-> live, running |-> NoTurn, history |-> provider.history,
                          turns |-> provider.turns]
      BY <2>1, Zenon DEF TypeInv, ProviderTyped
    <2>3. provider.history \in Seq(Nat) /\ provider.turns \in Nat
      BY DEF TypeInv, ProviderTyped
    <2> QED
      BY <2>2, <2>3 DEF ProviderTyped, NoTurn
  <1>4. CASE RollBack
    <2>1. PICK left \in 0..Len(provider.history) :
             provider' = [provider EXCEPT !.history = SubSeq(provider.history, 1, left)]
      BY <1>4, RollBackKeeps
    <2>2. provider.history \in Seq(Nat) /\ Len(provider.history) \in Nat
      BY LenProperties DEF TypeInv, ProviderTyped
    <2>3. \A i \in 1..left : provider.history[i] \in Nat
      BY <2>2, ElementOfSeq
    <2>4. SubSeq(provider.history, 1, left) \in Seq(Nat)
      BY <2>2, <2>3, SubSeqProperties
    <2>5. PICK kept \in Seq(Nat) : provider' = [provider EXCEPT !.history = kept]
      BY <2>1, <2>4
    <2> QED
      BY <2>5 DEF TypeInv, ProviderTyped
  <1>5. \/ UNCHANGED provider \/ SendTurn \/ EndTurn \/ ProviderExits \/ Restart \/ RollBack
    BY DEF Next, vars, RequestTurn, TurnEdits, RequestRevert, Ingestion, IngestLifecycle,
        CountPlaceholder, DispatchPlaceholder, Worker, TakeDomainEvent, TakeRuntimeEvent,
        CaptureCheckpoint, DeleteStaleRefs, CompleteRevert, HandlerFails, TurnStartFails,
        Unaffected
  <1> QED
    BY <1>1, <1>2, <1>3, <1>4, <1>5

\* Appending and taking keep a stream typed.
LEMMA StreamSteps ==
    ASSUME NEW S, NEW s \in Seq(S)
    PROVE  /\ \A e \in S : Append(s, e) \in Seq(S)
           /\ s # <<>> => Head(s) \in S /\ Tail(s) \in Seq(S)
           /\ <<>> \in Seq(S)
  BY AppendProperties, HeadTailProperties, EmptySeq

LEMMA SettlingPublishes ==
    ASSUME domain \in Seq(DomainEvents), NEW status, NEW active, SetSession(status, active)
    PROVE  domain' \in Seq(DomainEvents)
  <1> DEFINE event == [type |-> "settled"]
  <1>1. event \in DomainEvents
    BY DEF DomainEvents
  <1>2. domain' = Append(domain, event) \/ domain' = domain
    BY DEF SetSession, Publish
  <1> HIDE DEF event
  <1> QED
    BY <1>1, <1>2, StreamSteps

LEMMA DiffPublishes ==
    ASSUME domain \in Seq(DomainEvents), NEW turn \in Nat, NEW count \in Positive, NEW status,
           PublishDiff(turn, count, status)
    PROVE  domain' \in Seq(DomainEvents)
  <1> DEFINE event == [type |-> "diff", turn |-> turn, count |-> count]
  <1>1. event \in DomainEvents
    BY DEF DomainEvents
  <1>2. domain' = Append(domain, event) \/ domain' = domain
    BY DEF PublishDiff, Publish
  <1> HIDE DEF event
  <1> QED
    BY <1>1, <1>2, StreamSteps

LEMMA DomainTypedStep ==
    ASSUME TypeInv, [Next]_vars
    PROVE  domain' \in Seq(DomainEvents)
  <1>0. domain \in Seq(DomainEvents)
    BY DEF TypeInv, StreamsTyped
  <1>1. CASE UNCHANGED domain
    BY <1>0, <1>1
  <1>2. CASE RequestTurn
    <2> DEFINE event == [type |-> "start"]
    <2>1. domain' = Append(domain, event) /\ event \in DomainEvents
      BY <1>2 DEF RequestTurn, Publish, DomainEvents
    <2> HIDE DEF event
    <2> QED
      BY <1>0, <2>1, StreamSteps
  <1>3. CASE SendTurn \/ IngestLifecycle
    <2>1. UNCHANGED domain \/ \E status, active : SetSession(status, active)
      BY <1>3 DEF SendTurn, IngestLifecycle
    <2> QED
      BY <1>0, <2>1, SettlingPublishes
  <1>4. CASE RequestRevert
    <2>1. PICK t \in DOMAIN checkpoints :
             domain' = Append(domain, [type |-> "revert", count |-> checkpoints[t].count - 1])
      BY <1>4 DEF RequestRevert, Publish
    <2> DEFINE event == [type |-> "revert", count |-> checkpoints[t].count - 1]
    <2>2. checkpoints[t].count - 1 \in Nat
      BY DEF TypeInv, CheckpointsTyped, Positive
    <2>3. domain' = Append(domain, event) /\ event \in DomainEvents
      BY <2>1, <2>2 DEF DomainEvents
    <2> HIDE DEF event
    <2> QED
      BY <1>0, <2>3, StreamSteps
  <1>5. CASE DispatchPlaceholder
    <2>1. placeholder.turn \in Nat /\ placeholder.count \in Positive
          /\ PublishDiff(placeholder.turn, placeholder.count, "missing")
      BY <1>5 DEF DispatchPlaceholder, TypeInv, IngestionTyped
    <2> QED
      BY <1>0, <2>1, DiffPublishes
  <1>6. CASE CaptureCheckpoint
    <2> DEFINE job == Head(worker.jobs)
    <2>1. worker.jobs \in Seq(Jobs) /\ worker.jobs # <<>>
      BY <1>6 DEF CaptureCheckpoint, TypeInv, WorkerTyped
    <2>2. job \in Jobs /\ PublishDiff(job.turn, job.count, job.status)
      BY <1>6, <2>1, HeadTailProperties DEF CaptureCheckpoint
    <2>3. job.turn \in Nat /\ job.count \in Positive
      BY <2>2 DEF Jobs
    <2> HIDE DEF job
    <2> QED
      BY <1>0, <2>2, <2>3, DiffPublishes
  <1>7. CASE TakeDomainEvent \/ TurnStartFails \/ Restart
    <2>1. UNCHANGED domain \/ (domain # <<>> /\ domain' = Tail(domain)) \/ domain' = <<>>
      BY <1>7 DEF TakeDomainEvent, TurnStartFails, Restart
    <2> QED
      BY <1>0, <2>1, StreamSteps
  <1>8. \/ UNCHANGED domain \/ RequestTurn \/ SendTurn \/ IngestLifecycle \/ RequestRevert
        \/ DispatchPlaceholder \/ CaptureCheckpoint \/ TakeDomainEvent \/ TurnStartFails
        \/ Restart
    BY DEF Next, vars, streams, TurnEdits, EndTurn, ProviderExits, Ingestion, CountPlaceholder,
        Worker, TakeRuntimeEvent, RollBack, DeleteStaleRefs, CompleteRevert, HandlerFails
  <1> QED
    BY <1>1, <1>2, <1>3, <1>4, <1>5, <1>6, <1>7, <1>8

\* The provider tells the ingestion and the reactor the same.
LEMMA ProviderTells ==
    ASSUME TypeInv, [Next]_vars
    PROVE  /\ \/ UNCHANGED ingest \/ \E e \in TurnEvents : ingest' = Append(ingest, e)
              \/ (ingest # <<>> /\ ingest' = Tail(ingest)) \/ ingest' = <<>>
           /\ \/ UNCHANGED runtime \/ \E e \in TurnEvents : runtime' = Append(runtime, e)
              \/ (runtime # <<>> /\ runtime' = Tail(runtime)) \/ runtime' = <<>>
  <1>1. CASE SendTurn
    <2> DEFINE event == [type |-> "started", turn |-> provider.turns + 1]
    <2>1. event \in TurnEvents
      BY DEF TurnEvents, TypeInv, ProviderTyped
    <2>2. ingest' = Append(ingest, event) /\ runtime' = Append(runtime, event)
      BY <1>1 DEF SendTurn
    <2> HIDE DEF event
    <2> QED
      BY <2>1, <2>2
  <1>2. CASE TurnEdits
    <2> DEFINE event == [type |-> "diff", turn |-> provider.running]
    <2>1. event \in TurnEvents
      BY DEF TurnEvents, TypeInv, ProviderTyped
    <2>2. ingest' \in {ingest, Append(ingest, event)} /\ UNCHANGED runtime
      BY <1>2 DEF TurnEdits, streams
    <2> HIDE DEF event
    <2> QED
      BY <2>1, <2>2
  <1>3. CASE EndTurn
    <2>1. PICK status \in Statuses :
             LET event == [type |-> "completed", turn |-> provider.running, status |-> status]
             IN  ingest' = Append(ingest, event) /\ runtime' = Append(runtime, event)
      BY <1>3 DEF EndTurn
    <2> DEFINE event == [type |-> "completed", turn |-> provider.running, status |-> status]
    <2>2. event \in TurnEvents
      BY DEF TurnEvents, TypeInv, ProviderTyped
    <2>3. ingest' = Append(ingest, event) /\ runtime' = Append(runtime, event)
      BY <2>1
    <2> HIDE DEF event
    <2> QED
      BY <2>2, <2>3
  <1>4. CASE ProviderExits
    <2> DEFINE event == [type |-> "exited", turn |-> NoTurn]
    <2>1. event \in TurnEvents
      BY DEF TurnEvents, NoTurn
    <2>2. ingest' = Append(ingest, event) /\ UNCHANGED runtime
      BY <1>4 DEF ProviderExits, streams
    <2> HIDE DEF event
    <2> QED
      BY <2>1, <2>2
  <1>5. CASE TakeRuntimeEvent \/ TurnStartFails \/ Restart
    BY <1>5 DEF TakeRuntimeEvent, TurnStartFails, Restart, Unaffected, ingestion
  <1>6. CASE IngestLifecycle \/ CountPlaceholder
    BY <1>6 DEF IngestLifecycle, CountPlaceholder, streams
  <1>7. \/ UNCHANGED <<ingest, runtime>> \/ SendTurn \/ TurnEdits \/ EndTurn \/ ProviderExits
        \/ TakeRuntimeEvent \/ TurnStartFails \/ Restart \/ IngestLifecycle \/ CountPlaceholder
    BY DEF Next, vars, ingestion, streams, RequestTurn, RequestRevert, Ingestion,
        DispatchPlaceholder, Worker, TakeDomainEvent, CaptureCheckpoint, RollBack,
        DeleteStaleRefs, CompleteRevert, HandlerFails, Unaffected
  <1> QED
    BY <1>1, <1>2, <1>3, <1>4, <1>5, <1>6, <1>7

LEMMA StreamsTypedStep ==
    ASSUME TypeInv, [Next]_vars
    PROVE  StreamsTyped' /\ ingest' \in Seq(TurnEvents)
  <1>1. ingest \in Seq(TurnEvents) /\ runtime \in Seq(TurnEvents)
    BY DEF TypeInv, IngestionTyped, StreamsTyped
  <1>2. ingest' \in Seq(TurnEvents)
    BY <1>1, ProviderTells, StreamSteps
  <1>3. runtime' \in Seq(TurnEvents)
    BY <1>1, ProviderTells, StreamSteps
  <1> QED
    BY <1>2, <1>3, DomainTypedStep DEF StreamsTyped

LEMMA PlaceholderTypedStep ==
    ASSUME TypeInv, [Next]_vars
    PROVE  IngestionTyped'
  <1>1. CASE UNCHANGED placeholder
    BY <1>1, StreamsTypedStep DEF TypeInv, IngestionTyped
  <1>2. CASE placeholder' = [turn |-> NoTurn, count |-> 0]
    BY <1>2, StreamsTypedStep DEF IngestionTyped, NoTurn
  <1>3. CASE CountPlaceholder
    <2>1. ingest \in Seq(TurnEvents) /\ ingest # <<>>
      BY <1>3 DEF CountPlaceholder, TypeInv, IngestionTyped
    <2>2. Head(ingest) \in TurnEvents
      BY <2>1, StreamSteps
    <2>3. Head(ingest).turn \in Nat /\ Top + 1 \in Positive /\ Top + 1 \in Nat
      BY <2>2, TopOf DEF TurnEvents, Positive, TypeInv
    <2>4. UNCHANGED placeholder
          \/ placeholder' = [turn |-> Head(ingest).turn, count |-> Top + 1]
      BY <1>3 DEF CountPlaceholder
    <2> QED
      BY <1>1, <2>3, <2>4, StreamsTypedStep DEF IngestionTyped
  <1>4. UNCHANGED placeholder \/ CountPlaceholder \/ placeholder' = [turn |-> NoTurn, count |-> 0]
    BY DEF Next, vars, ingestion, RequestTurn, SendTurn, TurnEdits, EndTurn, ProviderExits,
        RequestRevert, Ingestion, IngestLifecycle, DispatchPlaceholder, Worker, TakeDomainEvent,
        TakeRuntimeEvent, CaptureCheckpoint, RollBack, DeleteStaleRefs, CompleteRevert,
        HandlerFails, TurnStartFails, Restart, Unaffected
  <1> QED
    BY <1>1, <1>2, <1>3, <1>4

\* What the reactor does next.
LEMMA IdleTyped == worker = Idle => WorkerTyped
  BY EmptySeq DEF WorkerTyped, Idle

LEMMA BeginTyped ==
    ASSUME NEW jobs \in Seq(Jobs), Begin(jobs)
    PROVE  WorkerTyped' /\ worker'.at \in {"idle", "capture"}
  <1>1. CASE worker' = Idle
    BY <1>1, EmptySeq DEF WorkerTyped, Idle
  <1>2. CASE jobs # <<>> /\ worker' = [Idle EXCEPT !.at = "capture", !.jobs = jobs]
    BY <1>2 DEF WorkerTyped, Idle
  <1> QED
    BY <1>1, <1>2 DEF Begin

LEMMA OneJob ==
    ASSUME NEW turn \in Nat, NEW count \in Positive, NEW status \in Statuses
    PROVE  <<Job(turn, count, status)>> \in Seq(Jobs)
  BY DEF Job, Jobs

LEMMA BeginRevertTyped ==
    ASSUME TypeInv, NEW count \in Nat, BeginRevert(count)
    PROVE  WorkerTyped'
  <1>1. CASE Begin(<<>>)
    BY <1>1, BeginTyped, EmptySeq
  <1>2. CASE ~Begin(<<>>)
    <2>1. /\ count <= Top
          /\ worker' = [Idle EXCEPT !.at = "rollback", !.count = count, !.top = Top,
                                    !.stale = StaleRefs(count),
                                    !.exact = Aligned /\ placeholder.turn = NoTurn,
                                    !.seen = Len(provider.history)]
      BY <1>2 DEF BeginRevert
    <2>2. /\ worker'.at = "rollback" /\ worker'.count = count /\ worker'.top = Top
          /\ worker'.seen = Len(provider.history) /\ worker'.jobs = <<>>
      BY <2>1 DEF Idle
    <2>3. Top \in Nat /\ Len(provider.history) \in Nat
      BY TopOf, LenProperties DEF TypeInv, ProviderTyped
    <2> QED
      BY <2>1, <2>2, <2>3, EmptySeq DEF WorkerTyped
  <1> QED
    BY <1>1, <1>2

LEMMA BeginSettledTyped ==
    ASSUME TypeInv, BeginSettled
    PROVE  WorkerTyped'
  <1> DEFINE missing == {t \in DOMAIN checkpoints : Missing(t)}
             n == Cardinality(missing)
  <1>1. PICK order \in [1..n -> missing] :
           Begin([i \in DOMAIN order |-> Job(order[i], checkpoints[order[i]].count, "ready")])
    BY DEF BeginSettled
  <1>2. n \in Nat
    BY FS_Subset, FS_CardinalityType DEF TypeInv, CheckpointsTyped
  <1>3. \A i \in 1..n : Job(order[i], checkpoints[order[i]].count, "ready") \in Jobs
    BY DEF Job, Jobs, Statuses, TypeInv, CheckpointsTyped
  <1> DEFINE jobs == [i \in DOMAIN order |-> Job(order[i], checkpoints[order[i]].count, "ready")]
  <1>4. jobs \in [1..n -> Jobs]
    BY <1>3
  <1> HIDE DEF n
  <1>5. jobs \in Seq(Jobs)
    BY <1>2, <1>4, SeqDef
  <1> QED
    BY <1>1, <1>5, BeginTyped

LEMMA DomainEventTyped ==
    ASSUME TypeInv, TakeDomainEvent
    PROVE  WorkerTyped'
  <1> DEFINE event == Head(domain)
  <1>1. domain \in Seq(DomainEvents) /\ domain # <<>>
    BY DEF TakeDomainEvent, TypeInv, StreamsTyped
  <1>2. event \in DomainEvents
    BY <1>1, StreamSteps
  <1>3. CASE CaptureTurnStart
    BY <1>3, EmptySeq DEF CaptureTurnStart, WorkerTyped, Idle
  <1>4. CASE event.type = "diff" /\ BeginPlaceholder(event.turn, event.count)
    <2>1. event.turn \in Nat /\ event.count \in Positive
      BY <1>2, <1>4 DEF DomainEvents
    <2>2. PICK jobs \in Seq(Jobs) : Begin(jobs)
      BY <1>4, <2>1, OneJob, EmptySeq DEF BeginPlaceholder, Statuses
    <2> QED
      BY <2>2, BeginTyped
  <1>5. CASE BeginSettled
    BY <1>5, BeginSettledTyped
  <1>6. CASE event.type = "revert" /\ BeginRevert(event.count)
    <2>1. event.count \in Nat
      BY <1>2, <1>6 DEF DomainEvents
    <2> HIDE DEF event
    <2> QED
      BY <1>6, <2>1, BeginRevertTyped
  <1> QED
    BY <1>3, <1>4, <1>5, <1>6 DEF TakeDomainEvent

LEMMA RuntimeEventTyped ==
    ASSUME TypeInv, TakeRuntimeEvent
    PROVE  WorkerTyped'
  <1> DEFINE event == Head(runtime)
  <1>1. runtime \in Seq(TurnEvents) /\ runtime # <<>>
    BY DEF TakeRuntimeEvent, TypeInv, StreamsTyped
  <1>2. event \in TurnEvents
    BY <1>1, StreamSteps
  <1>3. CASE CaptureTurnStart
    BY <1>3, EmptySeq DEF CaptureTurnStart, WorkerTyped, Idle
  <1>4. CASE event.type = "completed" /\ BeginCompletion(event.turn, event.status)
    <2> DEFINE count == IF event.turn \in DOMAIN checkpoints THEN checkpoints[event.turn].count
                        ELSE Top + 1
    <2>1. event.turn \in Nat /\ event.status \in Statuses
      BY <1>2, <1>4 DEF TurnEvents
    <2>2. count \in Positive
      BY TopOf DEF Positive, TypeInv, CheckpointsTyped
    <2>3. \/ Begin(<<Job(event.turn, count, event.status)>>)
          \/ Begin(<<>>)
      BY <1>4 DEF BeginCompletion
    <2> HIDE DEF count, event
    <2> QED
      BY <2>1, <2>2, <2>3, OneJob, EmptySeq, BeginTyped
  <1> QED
    BY <1>3, <1>4 DEF TakeRuntimeEvent

LEMMA WorkerTypedStep ==
    ASSUME RefsInv, TypeInv, [Next]_vars
    PROVE  WorkerTyped'
  <1>1. CASE UNCHANGED worker
    BY <1>1 DEF TypeInv, WorkerTyped
  <1>2. CASE worker' = Idle
    BY <1>2, EmptySeq DEF WorkerTyped, Idle
  <1>3. CASE TakeDomainEvent
    BY <1>3, DomainEventTyped
  <1>4. CASE TakeRuntimeEvent
    BY <1>4, RuntimeEventTyped
  <1> USE DEF RefsInv
  <1>5. PICK at, count, top, jobs, stale, exact, seen :
           worker = [at |-> at, count |-> count, top |-> top, jobs |-> jobs, stale |-> stale,
                     exact |-> exact, seen |-> seen]
    BY DEF IsWorker
  <1>6. CASE CaptureCheckpoint /\ worker' # Idle
    <2>1. /\ worker.at = "capture" /\ Tail(worker.jobs) # <<>>
          /\ worker' = [worker EXCEPT !.jobs = Tail(worker.jobs)]
      BY <1>6 DEF CaptureCheckpoint
    <2>2. worker' = [at |-> at, count |-> count, top |-> top, jobs |-> Tail(jobs),
                     stale |-> stale, exact |-> exact, seen |-> seen]
      BY <1>5, <2>1
    <2>3. Tail(jobs) \in Seq(Jobs) /\ Tail(jobs) # <<>>
      BY <1>5, <2>1, StreamSteps DEF TypeInv, WorkerTyped
    <2>4. count \in Nat /\ top \in Nat /\ seen \in Nat /\ count <= top
      BY <1>5 DEF TypeInv, WorkerTyped
    <2> QED
      BY <2>2, <2>3, <2>4 DEF WorkerTyped
  <1>7. CASE RollBack
    <2>1. PICK left \in 0..Len(provider.history) :
             worker' = [worker EXCEPT !.at = "delete", !.seen = left,
                                !.exact = @ /\ Len(provider.history) = worker.seen]
      BY <1>7, RollBackKeeps
    <2>2. worker'.count = count /\ worker'.top = top /\ worker'.jobs = jobs
          /\ worker'.seen = left /\ worker'.at = "delete"
      BY <1>5, <2>1
    <2>3. left \in Nat
      BY LenProperties DEF TypeInv, ProviderTyped
    <2> QED
      BY <1>5, <2>2, <2>3 DEF TypeInv, WorkerTyped
  <1>8. CASE DeleteStaleRefs
    <2>1. worker'.count = count /\ worker'.top = top /\ worker'.jobs = jobs
          /\ worker'.seen = seen /\ worker'.at = "reverted"
      BY <1>5, <1>8 DEF DeleteStaleRefs
    <2> QED
      BY <1>5, <2>1 DEF TypeInv, WorkerTyped
  <1>9. \/ UNCHANGED worker \/ worker' = Idle \/ TakeDomainEvent \/ TakeRuntimeEvent
        \/ CaptureCheckpoint \/ RollBack \/ DeleteStaleRefs
    BY DEF Next, vars, RequestTurn, SendTurn, TurnEdits, EndTurn, ProviderExits, RequestRevert,
        Ingestion, IngestLifecycle, CountPlaceholder, DispatchPlaceholder, Worker,
        CompleteRevert, HandlerFails, TurnStartFails, Restart, CutShort
  <1> QED
    BY <1>1, <1>2, <1>3, <1>4, <1>6, <1>7, <1>8, <1>9

LEMMA TypeInvInit == Init => TypeInv
  <1> SUFFICES ASSUME Init PROVE TypeInv
    OBVIOUS
  <1>1. CheckpointsTyped
    <2>1. DOMAIN checkpoints = {} /\ 0 \in Nat
      BY DEF Init
    <2> QED
      BY <2>1, FS_EmptySet DEF CheckpointsTyped
  <1>2. ProviderTyped
    BY EmptySeq DEF Init, ProviderTyped, NoTurn
  <1>3. IngestionTyped /\ StreamsTyped
    BY EmptySeq DEF Init, IngestionTyped, StreamsTyped, NoTurn
  <1>4. WorkerTyped
    BY IdleTyped DEF Init
  <1> QED
    BY <1>1, <1>2, <1>3, <1>4 DEF TypeInv

LEMMA TypeInvStep ==
    ASSUME RefsInv, TypeInv, [Next]_vars
    PROVE  TypeInv'
  BY CheckpointsTypedStep, ProviderTypedStep, PlaceholderTypedStep, StreamsTypedStep,
      WorkerTypedStep DEF TypeInv

\* A turn sent meanwhile, a rollback to the first n, a later checkpoint: the
\* first n turns stay in order.
LEMMA AppendInOrder ==
    ASSUME NEW record, NEW history \in Seq(Nat), NEW turn \in Nat, NEW n \in Nat,
           InOrder(record, history, n)
    PROVE  InOrder(record, Append(history, turn), n)
  <1> DEFINE longer == Append(history, turn)
  <1>1. Len(longer) = Len(history) + 1 /\ \A i \in 1..Len(history) : longer[i] = history[i]
    BY AppendProperties
  <1>2. Len(history) \in Nat /\ n <= Len(history)
    BY LenProperties DEF InOrder
  <1> HIDE DEF longer
  <1>3. \A i \in 1..n : longer[i] = history[i]
    BY <1>1, <1>2
  <1>4. n <= Len(longer)
    BY <1>1, <1>2
  <1>5. InOrder(record, longer, n)
    BY <1>3, <1>4, SMTT(30) DEF InOrder
  <1> QED
    BY <1>5 DEF longer

LEMMA PrefixOf ==
    ASSUME NEW history \in Seq(Nat), NEW n \in Nat, n <= Len(history)
    PROVE  /\ SubSeq(history, 1, n) \in Seq(Nat) /\ Len(SubSeq(history, 1, n)) = n
           /\ \A i \in 1..n : SubSeq(history, 1, n)[i] = history[i]
  <1>1. Len(history) \in Nat
    BY LenProperties
  <1>2. \A i \in 1..n : history[i] \in Nat
    BY <1>1, ElementOfSeq
  <1> QED
    BY <1>2, SubSeqProperties

LEMMA PrefixInOrder ==
    ASSUME NEW record, NEW history \in Seq(Nat), NEW n \in Nat, InOrder(record, history, n)
    PROVE  InOrder(record, SubSeq(history, 1, n), n)
  <1> DEFINE kept == SubSeq(history, 1, n)
  <1>1. Len(kept) = n /\ \A i \in 1..n : kept[i] = history[i]
    BY PrefixOf DEF InOrder
  <1> HIDE DEF kept
  <1>2. InOrder(record, kept, n)
    BY <1>1 DEF InOrder
  <1> QED
    BY <1>2 DEF kept

LEMMA LaterInOrder ==
    ASSUME NEW record, NEW wider, NEW history, NEW n \in Nat, InOrder(record, history, n),
           \A t \in DOMAIN record : t \in DOMAIN wider /\ wider[t] = record[t],
           \A t \in DOMAIN wider : t \in DOMAIN record \/ ~(wider[t].count <= n)
    PROVE  InOrder(wider, history, n)
  BY DEF InOrder

\* A recorded checkpoint of a count no other turn has removes none.
LEMMA RecordedKeeps ==
    ASSUME NEW turn, NEW checkpoint, RecordCheckpoint(turn, checkpoint),
           NEW t \in DOMAIN checkpoints, t # turn, checkpoints[t].count # checkpoint.count
    PROVE  t \in DOMAIN checkpoints' /\ checkpoints'[t] = checkpoints[t]
  <1> DEFINE wide == With(checkpoints, turn, checkpoint)
             kept == (DOMAIN checkpoints \cup {turn}) \ Conflicting(turn, checkpoint.count)
  <1>1. checkpoints' = Restrict(wide, kept)
    BY DEF RecordCheckpoint
  <1>2. wide[t] = checkpoints[t]
    BY DEF With
  <1>3. t \in kept
    BY DEF Conflicting
  <1> HIDE DEF wide, kept
  <1> QED
    BY <1>1, <1>2, <1>3, Restricted

\* One checkpoint for each turn: the highest count is the last turn's.
LEMMA AlignedInOrder ==
    ASSUME TypeInv, Aligned, NEW n \in Nat, n <= Top
    PROVE  Top = Len(provider.history) /\ InOrder(checkpoints, provider.history, n)
  <1> DEFINE history == provider.history
             last == Len(history)
  <1>1. last \in Nat /\ DOMAIN history = 1..last
    BY LenProperties DEF TypeInv, ProviderTyped
  <1>2. \A i \in 1..last : history[i] \in DOMAIN checkpoints /\ checkpoints[history[i]].count = i
    BY <1>1 DEF Aligned, ToSet
  <1>3. \A t \in DOMAIN checkpoints : \E i \in 1..last : t = history[i]
    BY <1>1 DEF Aligned, ToSet
  <1>4. Top \in Nat
    BY TopOf DEF TypeInv
  <1>5. Top <= last
    <2>1. CASE Top = 0
      BY <1>1, <2>1
    <2>2. CASE Top # 0
      <3>1. PICK t \in DOMAIN checkpoints : checkpoints[t].count = Top
        BY <2>2, TopOf DEF TypeInv
      <3>2. PICK i \in 1..last : t = history[i]
        BY <1>3, <3>1
      <3>3. Top = i
        BY <1>2, <3>1, <3>2
      <3> QED
        BY <1>1, <3>3
    <2> QED
      BY <2>1, <2>2
  <1>6. last <= Top
    <2>1. CASE last = 0
      BY <1>4, <2>1
    <2>2. CASE last # 0
      <3>1. last \in 1..last
        BY <1>1, <2>2
      <3>2. history[last] \in DOMAIN checkpoints /\ checkpoints[history[last]].count = last
        BY <1>2, <3>1
      <3> QED
        BY <3>2, TopOf DEF TypeInv
    <2> QED
      BY <2>1, <2>2
  <1> HIDE DEF history, last
  <1>7. Top = last
    BY <1>1, <1>4, <1>5, <1>6
  <1>8. \A i \in 1..n : i \in 1..last
    BY <1>1, <1>7
  <1>9. \A t \in DOMAIN checkpoints :
           checkpoints[t].count <= n => \E i \in 1..n : t = history[i]
    <2> SUFFICES ASSUME NEW t \in DOMAIN checkpoints, checkpoints[t].count <= n
                 PROVE  \E i \in 1..n : t = history[i]
      OBVIOUS
    <2>1. PICK i \in 1..last : t = history[i]
      BY <1>3
    <2>2. checkpoints[t].count = i
      BY <1>2, <2>1
    <2> QED
      BY <2>1, <2>2
  <1> QED
    BY <1>2, <1>7, <1>8, <1>9 DEF InOrder, history, last

KeptInv == RefsInv /\ TypeInv /\ KeptInOrder

LEMMA BeginRevertInOrder ==
    ASSUME KeptInv, NEW count \in Nat, BeginRevert(count),
           UNCHANGED <<checkpoints, provider, placeholder>>
    PROVE  KeptInOrder'
  <1>1. CASE Begin(<<>>)
    BY <1>1, BeginKeepsRefs DEF KeptInOrder, Reverting
  <1>2. CASE ~Begin(<<>>)
    <2> DEFINE exact == Aligned /\ placeholder.turn = NoTurn
    <2>1. /\ count <= Top
          /\ worker' = [Idle EXCEPT !.at = "rollback", !.count = count, !.top = Top,
                                    !.stale = StaleRefs(count), !.exact = exact,
                                    !.seen = Len(provider.history)]
      BY <1>2 DEF BeginRevert
    <2> HIDE DEF exact
    <2>2. /\ worker'.at = "rollback" /\ worker'.count = count /\ worker'.top = Top
          /\ worker'.seen = Len(provider.history)
      BY <2>1 DEF Idle
    <2>3. worker'.exact = exact
      BY <2>1 DEF Idle
    <2>4. SUFFICES ASSUME Reverting' PROVE KeptInOrder'
      BY DEF KeptInOrder
    <2>5. exact
      BY Zenon, <2>3, <2>4 DEF Reverting
    <2>6. Aligned /\ placeholder.turn = NoTurn
      BY <2>5 DEF exact
    <2>7. Top = Len(provider.history) /\ InOrder(checkpoints, provider.history, count)
      BY <2>1, <2>6, AlignedInOrder DEF KeptInv
    <2> QED
      BY <2>1, <2>2, <2>6, <2>7 DEF KeptInOrder, InOrder
  <1> QED
    BY <1>1, <1>2

\* The provider goes on while the reactor reverts.
LEMMA SendTurnInOrder ==
    ASSUME KeptInv, SendTurn
    PROVE  KeptInOrder'
  <1> DEFINE turn == provider.turns + 1
             longer == Append(provider.history, turn)
  <1>1. /\ provider' = [live |-> TRUE, running |-> turn, history |-> longer, turns |-> turn]
        /\ UNCHANGED <<worker, checkpoints, placeholder>>
    BY DEF SendTurn
  <1>2. provider'.history = longer
    BY <1>1
  <1>3. turn \in Nat /\ provider.history \in Seq(Nat) /\ worker.count \in Nat
    BY DEF KeptInv, TypeInv, ProviderTyped, WorkerTyped
  <1>4. SUFFICES ASSUME Reverting PROVE KeptInOrder'
    BY <1>1 DEF KeptInOrder, Reverting
  <1> HIDE DEF turn
  <1>5. InOrder(checkpoints, longer, worker.count)
    BY <1>3, <1>4, AppendInOrder DEF KeptInv, KeptInOrder
  <1> HIDE DEF longer
  <1> QED
    BY <1>1, <1>2, <1>4, <1>5 DEF KeptInv, KeptInOrder, InOrder

LEMMA CountPlaceholderInOrder ==
    ASSUME KeptInv, CountPlaceholder
    PROVE  KeptInOrder'
  <1>1. UNCHANGED <<worker, checkpoints, provider>>
    BY DEF CountPlaceholder, readModel
  <1>2. SUFFICES ASSUME Reverting PROVE KeptInOrder'
    BY <1>1 DEF KeptInOrder, Reverting
  <1>3. worker.count <= Top
    <2>1. CASE worker.count = 0
      BY <2>1, TopOf DEF KeptInv, TypeInv
    <2>2. CASE worker.count # 0
      <3>1. worker.count \in 1..worker.count
        BY <2>2 DEF KeptInv, TypeInv, WorkerTyped
      <3>2. \E t \in DOMAIN checkpoints : checkpoints[t].count = worker.count
        BY <1>2, <3>1 DEF KeptInv, KeptInOrder, InOrder
      <3> QED
        BY <3>2, TopOf DEF KeptInv, TypeInv
    <2> QED
      BY <2>1, <2>2
  <1>4. /\ Top + 1 > worker.count /\ \A t \in DOMAIN checkpoints : Top + 1 > checkpoints[t].count
    <2>1. /\ Top \in Nat /\ worker.count \in Nat
          /\ \A t \in DOMAIN checkpoints :
                checkpoints[t].count \in Nat /\ checkpoints[t].count <= Top
      BY TopOf DEF KeptInv, TypeInv, WorkerTyped, CheckpointsTyped, Positive
    <2> QED
      BY <1>3, <2>1
  <1>5. \/ UNCHANGED placeholder
        \/ /\ placeholder' = [turn |-> Head(ingest).turn, count |-> Top + 1]
           /\ Head(ingest).turn \notin DOMAIN checkpoints
    BY DEF CountPlaceholder
  <1>6. \/ UNCHANGED placeholder
        \/ placeholder'.count = Top + 1 /\ placeholder'.turn \notin DOMAIN checkpoints
    BY <1>5
  <1> QED
    BY <1>1, <1>2, <1>4, <1>6 DEF KeptInv, KeptInOrder, InOrder

LEMMA PlaceholderInOrder ==
    ASSUME KeptInv, DispatchPlaceholder
    PROVE  KeptInOrder'
  <1> DEFINE turn == placeholder.turn
             new == [count |-> placeholder.count, status |-> "missing", real |-> FALSE,
                     files |-> {}]
  <1>1. /\ RecordCheckpoint(turn, new) /\ turn # NoTurn
        /\ placeholder' = [turn |-> NoTurn, count |-> 0]
        /\ UNCHANGED <<worker, provider>>
    BY DEF DispatchPlaceholder
  <1>2. SUFFICES ASSUME Reverting PROVE KeptInOrder'
    BY <1>1 DEF KeptInOrder, Reverting
  <1>3. /\ turn \notin DOMAIN checkpoints /\ new.count > worker.count
        /\ \A t \in DOMAIN checkpoints : new.count > checkpoints[t].count
        /\ InOrder(checkpoints, provider.history, worker.count)
    BY <1>1, <1>2 DEF KeptInv, KeptInOrder
  <1>4. /\ worker.count \in Nat /\ new.count \in Nat
        /\ \A t \in DOMAIN checkpoints : checkpoints[t].count \in Nat
    BY DEF KeptInv, TypeInv, WorkerTyped, IngestionTyped, CheckpointsTyped, Positive
  <1> HIDE DEF turn, new
  <1>5. \A t \in DOMAIN checkpoints : t # turn /\ checkpoints[t].count # new.count
    BY <1>3, <1>4
  <1>6. \A t \in DOMAIN checkpoints : t \in DOMAIN checkpoints' /\ checkpoints'[t] = checkpoints[t]
    BY <1>1, <1>5, RecordedKeeps
  <1>7. \A t \in DOMAIN checkpoints' :
           t \in DOMAIN checkpoints \/ ~(checkpoints'[t].count <= worker.count)
    BY <1>1, <1>3, <1>4, Recorded
  <1>8. InOrder(checkpoints', provider.history, worker.count)
    BY <1>3, <1>4, <1>6, <1>7, LaterInOrder
  <1>9. placeholder'.turn = NoTurn
    BY <1>1
  <1> QED
    BY <1>1, <1>2, <1>8, <1>9 DEF KeptInv, KeptInOrder, InOrder

LEMMA RollBackInOrder ==
    ASSUME KeptInv, RollBack
    PROVE  KeptInOrder'
  <1>1. PICK left \in 0..Len(provider.history) :
           /\ provider' = [provider EXCEPT !.history = SubSeq(provider.history, 1, left)]
           /\ worker' = [worker EXCEPT !.at = "delete", !.seen = left,
                              !.exact = @ /\ Len(provider.history) = worker.seen]
           /\ Len(provider.history) = worker.top => left = worker.count
    BY RollBackKeeps DEF KeptInv
  <1>2. worker.at = "rollback" /\ UNCHANGED <<checkpoints, placeholder>>
    BY DEF RollBack, readModel, ingestion
  <1>3. PICK at, count, top, jobs, stale, exact, seen :
           worker = [at |-> at, count |-> count, top |-> top, jobs |-> jobs, stale |-> stale,
                     exact |-> exact, seen |-> seen]
    BY DEF KeptInv, RefsInv, IsWorker
  <1>4. worker' = [at |-> "delete", count |-> count, top |-> top, jobs |-> jobs, stale |-> stale,
                   exact |-> (exact /\ Len(provider.history) = seen), seen |-> left]
    BY <1>1, <1>3
  <1>5. worker'.at = "delete" /\ worker'.count = worker.count /\ worker'.seen = left
    BY <1>3, <1>4
  <1>6. worker'.exact = (exact /\ Len(provider.history) = seen)
    BY <1>4
  <1>7. worker.exact = exact /\ worker.seen = seen
    BY <1>3
  <1>8. SUFFICES ASSUME Reverting' PROVE KeptInOrder'
    BY DEF KeptInOrder
  <1>9. worker.exact /\ Len(provider.history) = worker.seen
    BY Zenon, <1>6, <1>7, <1>8 DEF Reverting
  <1>10. Reverting /\ worker.top = worker.seen
         /\ InOrder(checkpoints, provider.history, worker.count)
    BY <1>2, <1>9 DEF KeptInv, KeptInOrder, Reverting
  <1>11. left = worker.count
    BY <1>1, <1>9, <1>10
  <1>12. provider.history \in Seq(Nat) /\ worker.count \in Nat
    BY DEF KeptInv, TypeInv, ProviderTyped, WorkerTyped
  <1>13. provider'.history = SubSeq(provider.history, 1, worker.count)
    BY <1>1, <1>11 DEF KeptInv, TypeInv, ProviderTyped
  <1>14. InOrder(checkpoints, provider'.history, worker.count)
    BY <1>10, <1>12, <1>13, PrefixInOrder
  <1> QED
    BY <1>2, <1>5, <1>10, <1>11, <1>14 DEF KeptInv, KeptInOrder, InOrder

LEMMA DeleteInOrder ==
    ASSUME KeptInv, DeleteStaleRefs
    PROVE  KeptInOrder'
  <1>1. worker.at = "delete" /\ UNCHANGED <<checkpoints, placeholder, provider>>
        /\ worker' = [worker EXCEPT !.at = "reverted"]
    BY DEF DeleteStaleRefs, Unaffected, readModel, ingestion
  <1>2. PICK at, count, top, jobs, stale, exact, seen :
           worker = [at |-> at, count |-> count, top |-> top, jobs |-> jobs, stale |-> stale,
                     exact |-> exact, seen |-> seen]
    BY DEF KeptInv, RefsInv, IsWorker
  <1>3. /\ worker'.at = "reverted" /\ worker'.count = worker.count /\ worker'.seen = worker.seen
        /\ worker'.exact = worker.exact
    BY <1>1, <1>2
  <1>4. SUFFICES ASSUME Reverting' PROVE KeptInOrder'
    BY DEF KeptInOrder
  <1>5. Reverting
    BY <1>1, <1>3, <1>4 DEF Reverting
  <1> QED
    BY <1>1, <1>3, <1>5 DEF KeptInv, KeptInOrder, InOrder

\* Of the other steps, none touches a revert under way but to end it.
LEMMA KeptInOrderStep ==
    ASSUME KeptInv, [Next]_vars
    PROVE  KeptInOrder'
  <1>1. CASE UNCHANGED <<worker, checkpoints, placeholder>> /\ provider'.history = provider.history
    BY <1>1 DEF KeptInv, KeptInOrder, Reverting, InOrder
  <1>2. CASE worker'.at \in {"idle", "capture"}
    BY <1>2 DEF KeptInOrder, Reverting
  <1>3. CASE SendTurn \/ CountPlaceholder \/ DispatchPlaceholder \/ RollBack \/ DeleteStaleRefs
    BY <1>3, SendTurnInOrder, CountPlaceholderInOrder, PlaceholderInOrder, RollBackInOrder,
        DeleteInOrder
  <1>4. CASE TakeDomainEvent
    <2> DEFINE event == Head(domain)
    <2>1. UNCHANGED <<checkpoints, provider, placeholder>>
      BY <1>4 DEF TakeDomainEvent, Unaffected, readModel, ingestion
    <2>2. domain \in Seq(DomainEvents) /\ domain # <<>>
      BY <1>4 DEF TakeDomainEvent, KeptInv, TypeInv, StreamsTyped
    <2>3. event \in DomainEvents
      BY <2>2, StreamSteps
    <2>4. CASE event.type = "revert" /\ BeginRevert(event.count)
      <3>1. event.count \in Nat
        BY <2>3, <2>4 DEF DomainEvents
      <3> HIDE DEF event
      <3> QED
        BY <2>1, <2>4, <3>1, BeginRevertInOrder
    <2>5. CASE CaptureTurnStart
      BY <1>2, <2>5 DEF CaptureTurnStart, Idle
    <2>6. CASE \E jobs : Begin(jobs)
      BY <1>2, <2>6, BeginKeepsRefs
    <2> QED
      BY <1>4, <2>4, <2>5, <2>6 DEF TakeDomainEvent, BeginPlaceholder, BeginSettled
  <1>5. CASE TakeRuntimeEvent
    <2>1. CASE CaptureTurnStart
      BY <1>2, <2>1 DEF CaptureTurnStart, Idle
    <2>2. CASE \E jobs : Begin(jobs)
      BY <1>2, <2>2, BeginKeepsRefs
    <2> QED
      BY <1>5, <2>1, <2>2 DEF TakeRuntimeEvent, BeginCompletion
  <1>6. CASE CaptureCheckpoint
    <2>1. worker.at = "capture"
      BY <1>6 DEF CaptureCheckpoint
    <2>2. worker'.at \in {"idle", "capture"}
      BY <1>6, <2>1, CaptureLeaves DEF KeptInv
    <2> QED
      BY <1>2, <2>2
  <1>7. CASE worker' = Idle
    BY <1>2, <1>7 DEF Idle
  <1>8. CASE EndTurn \/ ProviderExits
    <2>1. \/ provider' = [provider EXCEPT !.running = NoTurn]
          \/ provider' = [provider EXCEPT !.live = FALSE, !.running = NoTurn]
      BY <1>8 DEF EndTurn, ProviderExits
    <2>2. provider'.history = provider.history
      BY <2>1 DEF KeptInv, TypeInv, ProviderTyped
    <2> QED
      BY <1>1, <1>8, <2>2 DEF EndTurn, ProviderExits, readModel, ingestion
  <1>9. CASE UNCHANGED <<worker, checkpoints, placeholder, provider>>
    BY <1>1, <1>9
  <1>10. \/ UNCHANGED <<worker, checkpoints, placeholder, provider>> \/ worker' = Idle
         \/ SendTurn \/ CountPlaceholder \/ DispatchPlaceholder \/ RollBack \/ DeleteStaleRefs
         \/ TakeDomainEvent \/ TakeRuntimeEvent \/ CaptureCheckpoint \/ EndTurn \/ ProviderExits
    BY DEF Next, vars, ingestion, readModel, RequestTurn, TurnEdits, RequestRevert, Ingestion,
        IngestLifecycle, Worker, CompleteRevert, HandlerFails, CutShort, TurnStartFails, Restart
  <1> QED
    BY <1>3, <1>4, <1>5, <1>6, <1>7, <1>8, <1>9, <1>10

\* What a completed revert leaves.
LEMMA RevertLeaves ==
    ASSUME KeptInv, worker.at = "reverted", worker.exact, CompleteRevert
    PROVE  DOMAIN checkpoints' = ToSet(SubSeq(provider.history, 1, worker.seen))
  <1> DEFINE n == worker.count
             kept == SubSeq(provider.history, 1, n)
  <1>1. InOrder(checkpoints, provider.history, n) /\ worker.seen = n
    BY DEF KeptInv, KeptInOrder, Reverting
  <1>2. n \in Nat /\ provider.history \in Seq(Nat)
        /\ \A t \in DOMAIN checkpoints : checkpoints[t].count \in Nat
    BY DEF KeptInv, TypeInv, WorkerTyped, ProviderTyped, CheckpointsTyped, Positive
  <1>3. DOMAIN checkpoints' = DOMAIN checkpoints \ Later(n)
    BY Restricted DEF CompleteRevert
  <1> HIDE DEF n
  <1>4. DOMAIN checkpoints' = {provider.history[i] : i \in 1..n}
    BY <1>1, <1>2, <1>3 DEF InOrder, Later
  <1>5. DOMAIN kept = 1..n /\ \A i \in 1..n : kept[i] = provider.history[i]
    BY <1>1, <1>2, PrefixOf, LenProperties DEF InOrder
  <1>6. ToSet(kept) = {provider.history[i] : i \in 1..n}
    BY <1>5 DEF ToSet
  <1> QED
    BY <1>1, <1>4, <1>6

\* Whatever the provider and the ingestion do while a revert is under way, a
\* revert that found the checkpoints and the conversation in step leaves the
\* checkpoints of the turns the provider kept and no other: turns it sends or
\* counts meanwhile come after what is kept.
THEOREM RevertsKeepInStep == Spec => RevertKeepsInStep
  <1>1. Init => KeptInv
    <2> SUFFICES ASSUME Init PROVE KeptInv
      OBVIOUS
    <2>1. KeptInOrder
      BY IdleIsWorker DEF Init, KeptInOrder, Reverting
    <2> QED
      BY <2>1, RefsInvInit, TypeInvInit DEF KeptInv
  <1>2. KeptInv /\ [Next]_vars => KeptInv'
    BY RefsInvStep, TypeInvStep, KeptInOrderStep DEF KeptInv
  <1>3. KeptInv /\ [Next]_vars =>
           [worker.at = "reverted" /\ worker.exact /\ worker' # worker
              /\ checkpoints' # checkpoints
                => DOMAIN checkpoints' = ToSet(SubSeq(provider.history, 1, worker.seen))]_vars
    <2> SUFFICES ASSUME KeptInv, [Next]_vars, worker.at = "reverted", worker.exact,
                        worker' # worker, checkpoints' # checkpoints
                 PROVE  DOMAIN checkpoints' = ToSet(SubSeq(provider.history, 1, worker.seen))
      OBVIOUS
    <2>1. ~DispatchPlaceholder /\ ~CaptureCheckpoint
      BY DEF DispatchPlaceholder, CaptureCheckpoint
    <2> QED
      BY <2>1, CheckpointSteps, RevertLeaves
  <1> QED
    BY <1>1, <1>2, <1>3, PTL DEF Spec, RevertKeepsInStep
==============================================================================
