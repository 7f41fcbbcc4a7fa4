------------------------ MODULE OrchestrationEngine ------------------------
(***************************************************************************)
(* The orchestration engine of apps/server: a queue of commands, one       *)
(* worker that decides each of them against an in-memory read model and    *)
(* commits its events, projections and receipt in one SQL transaction,     *)
(* and a PubSub on which committed events are published.                   *)
(*                                                                         *)
(* The module is parametric in what commands mean: Decide, Project,        *)
(* ApplyProjector and LoadReadModel are constant operators, given their    *)
(* meaning by the decider, the in-memory projector and the projection      *)
(* pipeline (modules Decider, Projector and ProjectionTables).             *)
(*                                                                         *)
(* Durable state is the record db; tx is the working copy of an open       *)
(* transaction and is lost on rollback and on a crash.                     *)
(***************************************************************************)
EXTENDS Naturals, Sequences, FiniteSets

CONSTANTS
    CommandId,      \* identifiers callers choose; a retry reuses its identifier
    Command,        \* what a command asks for
    Event,          \* event payloads
    ReadModel,      \* values of the in-memory command read model
    EmptyReadModel, \* createEmptyReadModel
    Projectors,     \* the projectors of the pipeline, in the order they run
    File,           \* attachment files on disk
    NoCommand,      \* "this identifier has not been used yet"
    Decide(_, _),          \* command, read model -> planned events; <<>> rejects
    Project(_, _),         \* read model, event -> read model
    Table(_),              \* projector -> the values its SQL table can have
    EmptyTable(_),         \* projector -> its SQL table before any event
    ApplyProjector(_, _, _), \* projector, table, event -> table
    LoadReadModel(_),      \* tables of all projectors -> read model
    FilesPrunedBy(_, _),   \* projector, event -> files it removes from disk
    RequiredProjectors,    \* those whose cursors make the snapshot sequence
    ReplayLimit,    \* how many events one readFromSequence returns (1000 in the code)
    MaxDispatches,  \* bound: dispatches, in all
    MaxFaults,      \* bound: failed store calls, in all
    MaxLostReads,   \* bound: failed reads of the reconciliation, in all
    MaxCrashes,     \* bound: crashes of the server, in all
    MaxUpgrades     \* bound: releases that add a projector, in all

Projector == {Projectors[i] : i \in DOMAIN Projectors}
Tables == {tables \in [Projector -> UNION {Table(p) : p \in Projector}] :
              \A p \in Projector : tables[p] \in Table(p)}
EmptyTables == [p \in Projector |-> EmptyTable(p)]
ApplyAll(tables, e) == [p \in Projector |-> ApplyProjector(p, tables[p], e)]

ASSUME BoundsAssumption ==
    /\ MaxDispatches \in Nat /\ MaxFaults \in Nat /\ MaxLostReads \in Nat
    /\ MaxCrashes \in Nat /\ MaxUpgrades \in Nat
    /\ ReplayLimit \in Nat \ {0}
    /\ NoCommand \notin Command

ASSUME TypingAssumption ==
    /\ Projectors \in Seq(Projector) /\ Len(Projectors) > 0
    /\ \A i, j \in DOMAIN Projectors : Projectors[i] = Projectors[j] => i = j
    /\ RequiredProjectors \subseteq Projector /\ RequiredProjectors # {}
    /\ EmptyReadModel \in ReadModel
    /\ \A p \in Projector : EmptyTable(p) \in Table(p)
    /\ \A c \in Command, m \in ReadModel : Decide(c, m) \in Seq(Event)
    /\ \A m \in ReadModel, e \in Event : Project(m, e) \in ReadModel
    /\ \A p \in Projector : \A t \in Table(p), e \in Event :
          ApplyProjector(p, t, e) \in Table(p)
    /\ \A tables \in Tables : LoadReadModel(tables) \in ReadModel
    /\ \A p \in Projector, e \in Event : FilesPrunedBy(p, e) \subseteq File

\* The in-memory projector and the SQL projectors agree: what is loaded after
\* an event is what projecting the event in memory gives.
ASSUME SimulationAssumption ==
    /\ LoadReadModel(EmptyTables) = EmptyReadModel
    /\ \A tables \in Tables, e \in Event :
          LoadReadModel(ApplyAll(tables, e)) = Project(LoadReadModel(tables), e)

VARIABLES
    db,               \* committed rows: events, receipts, each projector's tables and
                      \* cursor, and (history) trace: the tables after every event
    prunedFiles,      \* attachment files removed from disk so far
    commandQueue,     \* envelopes offered and not yet taken
    commandReadModel, \* the read model commands are decided against
    phase,            \* where the worker is in processEnvelope
    worker,           \* locals of processEnvelope; tx is the open transaction's db
    published,        \* sequence numbers published since the process started
    issued,           \* the command each identifier stands for
    dispatches,       \* how many dispatches there were
    awaiting,         \* dispatches of this process that are unanswered
    acks,             \* acknowledgements given, across restarts
    life,             \* this life of the process: where each projector's replay ends;
                      \* (history) the log's length at boot, and whether a
                      \* reconciliation could not read the store
    spent             \* how much of each bound is used up; (history) whether a read of
                      \* the log stopped at ReplayLimit with events left to read

durable == <<db, prunedFiles>>
callers == <<issued, dispatches, awaiting, acks>>
vars == <<durable, commandQueue, commandReadModel, phase, worker, published, callers,
          life, spent>>

NoReceipt == [status |-> "none", resultSequence |-> 0]
Receipt(status, n) == [status |-> status, resultSequence |-> n]
Result(kind, n) == [kind |-> kind, sequence |-> n]

Resting(rows, model) ==
    [commandId |-> NoCommand, startSequence |-> 0, tx |-> rows, planned |-> <<>>,
     nextReadModel |-> model, projectorIndex |-> 1, outbox |-> <<>>,
     result |-> Result("none", 0)]

NewLife == [replayTo |-> [p \in Projector |-> 0], bootSequence |-> 0, lostRead |-> FALSE]

\* The last event that readFromSequence(n) returns: it stops at its limit.
LastRead(n) == IF n + ReplayLimit < Len(db.events) THEN n + ReplayLimit ELSE Len(db.events)

\* The log is read after each of the positions; a read may stop at the limit.
ReadAfter(positions) ==
    spent' = [spent EXCEPT !.cutOff = @ \/ \E n \in positions : LastRead(n) < Len(db.events)]

Init ==
    /\ db = [events |-> <<>>, cursor |-> [p \in Projector |-> 0], tables |-> EmptyTables,
             receipts |-> [id \in CommandId |-> NoReceipt], trace |-> <<EmptyTables>>]
    /\ prunedFiles = {}
    /\ commandQueue = <<>>
    /\ commandReadModel = [snapshotSequence |-> 0, state |-> EmptyReadModel]
    /\ phase = "down"
    /\ worker = Resting(db, commandReadModel)
    /\ published = <<>>
    /\ issued = [id \in CommandId |-> NoCommand]
    /\ dispatches = 0
    /\ awaiting = [id \in CommandId |-> 0]
    /\ acks = {}
    /\ life = NewLife
    /\ spent = [faults |-> 0, lostReads |-> 0, crashes |-> 0, upgrades |-> 0,
                cutOff |-> FALSE]

-----------------------------------------------------------------------------
(* Callers *)

\* dispatch: an envelope is offered to the unbounded queue and the caller
\* waits for its Deferred.  A caller that got no answer, or an error, may
\* dispatch the same identifier again, with the same command.
Dispatch(id, c) ==
    /\ phase \notin {"down", "bootstrap"}
    /\ dispatches < MaxDispatches
    /\ issued[id] \in {NoCommand, c}
    /\ issued' = [issued EXCEPT ![id] = c]
    /\ dispatches' = dispatches + 1
    /\ awaiting' = [awaiting EXCEPT ![id] = @ + 1]
    /\ commandQueue' = Append(commandQueue, id)
    /\ UNCHANGED <<durable, commandReadModel, phase, worker, published, acks, life, spent>>

-----------------------------------------------------------------------------
(* The worker: processEnvelope *)

\* Steps that move only the worker's locals.
LocalStep == UNCHANGED <<db, commandQueue, commandReadModel, published, callers, life>>

TakeEnvelope ==
    /\ phase = "idle"
    /\ commandQueue # <<>>
    /\ commandQueue' = Tail(commandQueue)
    /\ worker' = [worker EXCEPT !.commandId = Head(commandQueue),
                                !.startSequence = commandReadModel.snapshotSequence]
    /\ phase' = "receipt"
    /\ UNCHANGED <<durable, commandReadModel, published, callers, life, spent>>

\* Mutant: a repeated command is answered with the head of the log.
AnswerFromReceiptAtHead ==
    /\ phase = "receipt"
    /\ db.receipts[worker.commandId].status = "accepted"
    /\ worker' = [worker EXCEPT !.result = Result("accepted", worker.startSequence)]
    /\ phase' = "answer"
    /\ UNCHANGED <<prunedFiles, spent>>
    /\ LocalStep

\* The receipt of an earlier dispatch of the identifier answers this one.
AnswerFromReceipt ==
    /\ phase = "receipt"
    /\ LET receipt == db.receipts[worker.commandId] IN
          /\ receipt.status # "none"
          /\ worker' = [worker EXCEPT !.result =
                 IF receipt.status = "accepted" THEN Result("accepted", receipt.resultSequence)
                                                ELSE Result("previouslyRejected", 0)]
    /\ phase' = "answer"
    /\ UNCHANGED <<prunedFiles, spent>>
    /\ LocalStep

\* Leave the attempt with an error: the transaction is rolled back and
\* processEnvelope goes on to reconcile.
FailWith(kind, rows) ==
    /\ worker' = [worker EXCEPT !.result = Result(kind, 0), !.planned = <<>>, !.tx = rows,
                                !.projectorIndex = 1, !.nextReadModel = commandReadModel]
    /\ phase' = "reconcile"

\* Mutant: the receipt is not looked up.
DecideCommandUnchecked ==
    /\ phase = "receipt"
    /\ LET events == Decide(issued[worker.commandId], commandReadModel.state) IN
          \/ events = <<>> /\ FailWith("invariant", db)
          \/ /\ events # <<>>
             /\ worker' = [worker EXCEPT !.planned = events, !.tx = db,
                                         !.nextReadModel = commandReadModel]
             /\ phase' = "append"
    /\ UNCHANGED <<prunedFiles, spent>>
    /\ LocalStep

\* decideOrchestrationCommand against the in-memory read model: a rejection
\* is an invariant error, anything else opens the transaction.
DecideCommand ==
    /\ phase = "receipt"
    /\ db.receipts[worker.commandId].status = "none"
    /\ LET events == Decide(issued[worker.commandId], commandReadModel.state) IN
          \/ events = <<>> /\ FailWith("invariant", db)
          \/ /\ events # <<>>
             /\ worker' = [worker EXCEPT !.planned = events, !.tx = db,
                                         !.nextReadModel = commandReadModel]
             /\ phase' = "append"
    /\ UNCHANGED <<prunedFiles, spent>>
    /\ LocalStep

\* eventStore.append, then projectEvent on the local read model.
AppendEvent ==
    /\ phase = "append"
    /\ worker.planned # <<>>
    /\ LET e == Head(worker.planned)
           tx == worker.tx
       IN worker' = [worker EXCEPT
             !.tx = [tx EXCEPT
                 !.events = Append(@, [commandId |-> worker.commandId, event |-> e]),
                 !.trace = Append(@, ApplyAll(@[Len(@)], e))],
             !.nextReadModel = [snapshotSequence |-> Len(tx.events) + 1,
                                state |-> Project(@.state, e)],
             !.planned = Tail(@),
             !.projectorIndex = 1]
    /\ phase' = "project"
    /\ UNCHANGED <<prunedFiles, spent>>
    /\ LocalStep

\* Mutant: the cursor is not saved.
ProjectedWithoutCursor(rows, p, n) ==
    [rows EXCEPT !.tables[p] = ApplyProjector(p, @, rows.events[n].event)]

\* The rows after projector p has applied the event at position n.
Projected(rows, p, n) ==
    [rows EXCEPT !.tables[p] = ApplyProjector(p, @, rows.events[n].event), !.cursor[p] = n]

\* runProjectorForEvent: the tables and the cursor move in a savepoint of the
\* open transaction; the files the event drops are removed at once, before
\* the transaction commits.
RunProjector ==
    /\ phase = "project"
    /\ LET p == Projectors[worker.projectorIndex]
           n == Len(worker.tx.events)
           last == worker.projectorIndex = Len(Projectors)
       IN /\ worker' = [worker EXCEPT !.tx = Projected(@, p, n),
                                      !.projectorIndex = IF last THEN 1 ELSE @ + 1]
          /\ prunedFiles' = prunedFiles \cup FilesPrunedBy(p, worker.tx.events[n].event)
          /\ phase' = IF last THEN "append" ELSE "project"
    /\ UNCHANGED spent
    /\ LocalStep

\* The accepted receipt is written in the same transaction.
RecordAcceptance ==
    /\ phase = "append"
    /\ worker.planned = <<>>
    /\ worker' = [worker EXCEPT
          !.tx.receipts[worker.commandId] = Receipt("accepted", Len(worker.tx.events))]
    /\ phase' = "commit"
    /\ UNCHANGED <<prunedFiles, spent>>
    /\ LocalStep

SpendFault == spent.faults < MaxFaults /\ spent' = [spent EXCEPT !.faults = @ + 1]

\* Mutant: a failed attempt keeps the rows it has written.
AttemptFailsPartway ==
    /\ SpendFault
    /\ phase \in {"receipt", "append", "project", "commit"}
    /\ db' = worker.tx
    /\ FailWith("persistence", worker.tx)
    /\ UNCHANGED <<prunedFiles, commandQueue, commandReadModel, published, callers, life>>

\* The attempt fails before its transaction commits: a store call fails (the
\* receipt cannot be read, or anything inside the transaction), or no random
\* identifier can be had for an event, which is mapped to an invariant error.
AttemptFails ==
    /\ SpendFault
    /\ \/ phase \in {"receipt", "append", "project", "commit"} /\ FailWith("persistence", db)
       \/ /\ phase = "receipt"
          /\ db.receipts[worker.commandId].status = "none"
          /\ FailWith("invariant", db)
    /\ UNCHANGED prunedFiles
    /\ LocalStep

\* The sequence numbers from..to, in order.
Sequences(from, to) == [i \in 1..(to - from + 1) |-> from + i - 1]

\* Mutant: the read model is not adopted.
CommitKeepsReadModel ==
    /\ phase = "commit"
    /\ db' = worker.tx
    /\ worker' = [worker EXCEPT
          !.outbox = Sequences(Len(db.events) + 1, Len(worker.tx.events)),
          !.result = Result("accepted", Len(worker.tx.events))]
    /\ phase' = "publish"
    /\ UNCHANGED <<prunedFiles, commandQueue, commandReadModel, published, callers, life, spent>>

Commit ==
    /\ phase = "commit"
    /\ db' = worker.tx
    /\ commandReadModel' = worker.nextReadModel
    /\ worker' = [worker EXCEPT
          !.outbox = Sequences(Len(db.events) + 1, Len(worker.tx.events)),
          !.result = Result("accepted", Len(worker.tx.events))]
    /\ phase' = "publish"
    /\ UNCHANGED <<prunedFiles, commandQueue, published, callers, life, spent>>

\* The commit takes effect but the worker is told that it failed.
CommitReportsFailure ==
    /\ phase = "commit"
    /\ SpendFault
    /\ db' = worker.tx
    /\ FailWith("persistence", worker.tx)
    /\ UNCHANGED <<prunedFiles, commandQueue, commandReadModel, published, callers, life>>

\* PubSub.publish, one event after the other.
PublishEvent ==
    /\ phase = "publish"
    /\ published' = Append(published, Head(worker.outbox))
    /\ worker' = [worker EXCEPT !.outbox = Tail(@)]
    /\ phase' = IF Tail(worker.outbox) # <<>> THEN "publish"
                ELSE IF worker.result.kind = "accepted" THEN "answer" ELSE "reject"
    /\ UNCHANGED <<durable, commandQueue, commandReadModel, callers, life, spent>>

\* reconcileReadModelAfterDispatchFailure: events persisted since the dispatch
\* began are projected onto the read model, one by one ...
ReconcileEvent ==
    /\ phase = "reconcile"
    /\ worker.nextReadModel.snapshotSequence < LastRead(worker.startSequence)
    /\ LET n == worker.nextReadModel.snapshotSequence + 1 IN
          worker' = [worker EXCEPT !.nextReadModel =
              [snapshotSequence |-> n, state |-> Project(@.state, db.events[n].event)]]
    /\ UNCHANGED <<prunedFiles, phase, spent>>
    /\ LocalStep

\* Mutants: the read model stays, or the events are not published.
FinishReconcilePublishing ==
    /\ phase = "reconcile"
    /\ worker.nextReadModel.snapshotSequence = LastRead(worker.startSequence)
    /\ worker' = [worker EXCEPT
          !.outbox = Sequences(worker.startSequence + 1, LastRead(worker.startSequence))]
    /\ phase' = IF worker.startSequence < Len(db.events) THEN "publish" ELSE "reject"
    /\ ReadAfter({worker.startSequence})
    /\ UNCHANGED <<durable, commandReadModel, commandQueue, published, callers, life>>
FinishReconcileSilently ==
    /\ phase = "reconcile"
    /\ worker.nextReadModel.snapshotSequence = LastRead(worker.startSequence)
    /\ commandReadModel' = worker.nextReadModel
    /\ phase' = "reject"
    /\ ReadAfter({worker.startSequence})
    /\ UNCHANGED <<durable, worker, commandQueue, published, callers, life>>

\* ... and then the read model is replaced and the events are published.
FinishReconcile ==
    /\ phase = "reconcile"
    /\ worker.nextReadModel.snapshotSequence = LastRead(worker.startSequence)
    /\ commandReadModel' = worker.nextReadModel
    /\ worker' = [worker EXCEPT
          !.outbox = Sequences(worker.startSequence + 1, LastRead(worker.startSequence))]
    /\ phase' = IF worker.startSequence < Len(db.events) THEN "publish" ELSE "reject"
    /\ ReadAfter({worker.startSequence})
    /\ UNCHANGED <<durable, commandQueue, published, callers, life>>

\* Mutant: the failure escapes and ends the worker's fiber.
ReconcileFailsFatally ==
    /\ phase = "reconcile"
    /\ spent.lostReads < MaxLostReads
    /\ spent' = [spent EXCEPT !.lostReads = @ + 1]
    /\ phase' = "ended"
    /\ UNCHANGED <<durable, worker, commandQueue, commandReadModel, published, callers, life>>

\* The store cannot be read: a warning is logged and the read model stays.
ReconcileFails ==
    /\ phase = "reconcile"
    /\ spent.lostReads < MaxLostReads
    /\ spent' = [spent EXCEPT !.lostReads = @ + 1]
    /\ life' = [life EXCEPT
          !.lostRead = @ \/ commandReadModel.snapshotSequence < Len(db.events)]
    /\ worker' = [worker EXCEPT !.nextReadModel = commandReadModel]
    /\ phase' = "reject"
    /\ UNCHANGED <<durable, commandQueue, commandReadModel, published, callers>>

\* Only an invariant error leaves a rejected receipt; other errors may be
\* retried.  When the receipt cannot be written the failure is swallowed, and
\* the caller hears of a rejection that nothing remembers.
RecordRejection ==
    /\ phase = "reject"
    /\ \/ /\ worker.result.kind = "invariant"
          /\ db' = [db EXCEPT !.receipts[worker.commandId] =
                       Receipt("rejected", commandReadModel.snapshotSequence)]
          /\ UNCHANGED spent
       \/ worker.result.kind = "invariant" /\ SpendFault /\ UNCHANGED db
       \/ worker.result.kind = "persistence" /\ UNCHANGED <<db, spent>>
    /\ phase' = "answer"
    /\ UNCHANGED <<prunedFiles, commandQueue, commandReadModel, worker, published, callers, life>>

\* The Deferred completes and the worker takes the next envelope.
Answer ==
    /\ phase = "answer"
    /\ awaiting' = [awaiting EXCEPT ![worker.commandId] = @ - 1]
    /\ acks' = IF worker.result.kind = "accepted"
               THEN acks \cup {[commandId |-> worker.commandId,
                                sequence |-> worker.result.sequence]}
               ELSE acks
    /\ phase' = "idle"
    /\ worker' = Resting(db, commandReadModel)
    /\ UNCHANGED <<durable, commandQueue, commandReadModel, published, issued, dispatches,
                   life, spent>>

-----------------------------------------------------------------------------
(* The process *)

\* The server dies: whatever is not committed is gone, and so are the queue,
\* the waiting callers and the PubSub.
Crash ==
    /\ phase # "down"
    /\ spent.crashes < MaxCrashes
    /\ spent' = [spent EXCEPT !.crashes = @ + 1]
    /\ phase' = "down"
    /\ commandQueue' = <<>>
    /\ commandReadModel' = [snapshotSequence |-> 0, state |-> EmptyReadModel]
    /\ worker' = Resting(db, commandReadModel')
    /\ published' = <<>>
    /\ awaiting' = [id \in CommandId |-> 0]
    /\ life' = NewLife
    /\ UNCHANGED <<durable, issued, dispatches, acks>>

\* A release adds a projector: it has no cursor row and empty tables.
Upgrade(p) ==
    /\ phase = "down"
    /\ spent.upgrades < MaxUpgrades
    /\ spent' = [spent EXCEPT !.upgrades = @ + 1]
    /\ db' = [db EXCEPT !.tables[p] = EmptyTable(p), !.cursor[p] = 0]
    /\ worker' = Resting(db', commandReadModel)
    /\ UNCHANGED <<prunedFiles, commandQueue, commandReadModel, phase, published, callers, life>>

\* bootstrap: each projector reads the events after its cursor, up to the limit.
Start ==
    /\ phase = "down"
    /\ phase' = "bootstrap"
    /\ life' = [life EXCEPT !.replayTo = [p \in Projector |-> LastRead(db.cursor[p])]]
    /\ ReadAfter({db.cursor[p] : p \in Projector})
    /\ UNCHANGED <<durable, commandQueue, commandReadModel, worker, published, callers>>

\* One projector after the other applies what it read, each event in a
\* transaction of its own.
BootstrapEvent ==
    /\ phase = "bootstrap"
    /\ \E i \in DOMAIN Projectors :
          LET p == Projectors[i]
              n == db.cursor[p] + 1
          IN /\ \A j \in 1..(i - 1) : db.cursor[Projectors[j]] = life.replayTo[Projectors[j]]
             /\ n <= life.replayTo[p]
             /\ db' = Projected(db, p, n)
             /\ prunedFiles' = prunedFiles \cup FilesPrunedBy(p, db.events[n].event)
    /\ worker' = Resting(db', commandReadModel)
    /\ UNCHANGED <<commandQueue, commandReadModel, phase, published, callers, life, spent>>

\* computeSnapshotSequence: the least cursor of the required projectors.
SnapshotSequence(cursor) ==
    CHOOSE n \in {cursor[p] : p \in RequiredProjectors} :
        \A p \in RequiredProjectors : n <= cursor[p]

\* getCommandReadModel, and the worker is forked.
FinishBootstrap ==
    /\ phase = "bootstrap"
    /\ \A p \in Projector : db.cursor[p] = life.replayTo[p]
    /\ commandReadModel' = [snapshotSequence |-> SnapshotSequence(db.cursor),
                            state |-> LoadReadModel(db.tables)]
    /\ worker' = Resting(db, commandReadModel')
    /\ life' = [life EXCEPT !.bootSequence = Len(db.events)]
    /\ phase' = "idle"
    /\ UNCHANGED <<durable, commandQueue, published, callers, spent>>

ProcessEnvelope ==
    \/ TakeEnvelope \/ AnswerFromReceipt \/ DecideCommand \/ AppendEvent \/ RunProjector
    \/ RecordAcceptance \/ AttemptFails \/ Commit \/ CommitReportsFailure \/ PublishEvent
    \/ ReconcileEvent \/ FinishReconcile \/ ReconcileFails \/ RecordRejection \/ Answer

Next ==
    \/ \E id \in CommandId, c \in Command : Dispatch(id, c)
    \/ ProcessEnvelope
    \/ Crash
    \/ \E p \in Projector : Upgrade(p)
    \/ Start
    \/ BootstrapEvent
    \/ FinishBootstrap

\* The worker is a fiber that runs forever; nothing makes callers dispatch,
\* the process crash or the server start again.
Spec == Init /\ [][Next]_vars /\ WF_vars(ProcessEnvelope)

-----------------------------------------------------------------------------
(* Properties *)

PhaseName ==
    {"down", "bootstrap", "idle", "receipt", "append", "project", "commit", "publish",
     "reconcile", "reject", "answer"}
Rows ==
    [events : Seq([commandId : CommandId, event : Event]), cursor : [Projector -> Nat],
     tables : Tables, trace : Seq(Tables),
     receipts : [CommandId -> [status : {"none", "accepted", "rejected"},
                               resultSequence : Nat]]]
Model == [snapshotSequence : Nat, state : ReadModel]
Life == [replayTo : [Projector -> Nat], bootSequence : Nat, lostRead : BOOLEAN]
Spending ==
    [faults : Nat, lostReads : Nat, crashes : Nat, upgrades : Nat, cutOff : BOOLEAN]
Worker ==
    [commandId : CommandId \cup {NoCommand}, startSequence : Nat, tx : Rows,
     planned : Seq(Event), nextReadModel : Model, projectorIndex : DOMAIN Projectors,
     outbox : Seq(Nat),
     result : [kind : {"none", "accepted", "previouslyRejected", "invariant", "persistence"},
               sequence : Nat]]

\* Every variable holds a value of its kind; in particular no caller is
\* answered more often than it dispatched, whatever crashes in between.
TypeOK ==
    /\ db \in Rows
    /\ prunedFiles \subseteq File
    /\ commandQueue \in Seq(CommandId)
    /\ commandReadModel \in Model
    /\ phase \in PhaseName
    /\ worker \in Worker
    /\ published \in Seq(Nat)
    /\ issued \in [CommandId -> Command \cup {NoCommand}]
    /\ dispatches \in Nat
    /\ awaiting \in [CommandId -> Nat]
    /\ acks \subseteq [commandId : CommandId, sequence : Nat]
    /\ life \in Life
    /\ spent \in Spending

Serving == phase \notin {"down", "bootstrap"}

\* After any interleaving of failures, rollbacks, crashes and replays, each
\* projector's committed table is exactly what the events up to its cursor
\* produce: no event is skipped and none is applied twice.  And no command is
\* taken before every projector has seen the whole log.  (A bootstrap that is
\* cut off leaves a gap that the next event jumps over.)
ProjectionsReplayLog ==
    \A p \in Projector :
        /\ db.cursor[p] <= Len(db.events)
        /\ ~spent.cutOff =>
              /\ db.tables[p] = db.trace[db.cursor[p] + 1][p]
              /\ Serving => db.cursor[p] = Len(db.events)

\* Between two commands the in-memory read model is what a restart would load
\* from the committed tables, also after a failed attempt and after a commit
\* that was reported as failed, unless the log could not be read to its end.
ReadModelCurrent ==
    phase = "idle" /\ ~life.lostRead /\ ~spent.cutOff =>
        commandReadModel = [snapshotSequence |-> Len(db.events),
                            state |-> LoadReadModel(db.tables)]

EventsOf(id) == {i \in DOMAIN db.events : db.events[i].commandId = id}
FirstEventOf(id) == CHOOSE i \in EventsOf(id) : \A j \in EventsOf(id) : i <= j

\* A command identifier takes effect at most once and all at once, whatever
\* is retried: its events are one block of the log, present exactly when its
\* receipt says accepted, and the receipt names the last of them.
ReceiptsMatchLog ==
    \A id \in CommandId :
        LET receipt == db.receipts[id] IN
        /\ (receipt.status = "accepted") = (EventsOf(id) # {})
        /\ receipt.status = "accepted" =>
              EventsOf(id) = FirstEventOf(id)..receipt.resultSequence

\* Commands are decided one after the other against the committed state: the
\* block of an accepted command is what the decider plans on the read model a
\* restart just before the block would have loaded.
DecidedOnCommittedState ==
    spent.lostReads = 0 /\ ~spent.cutOff =>
        \A id \in CommandId :
            db.receipts[id].status = "accepted" =>
                LET first == FirstEventOf(id)
                    count == db.receipts[id].resultSequence - first + 1
                IN [i \in 1..count |-> db.events[first + i - 1].event]
                      = Decide(issued[id], LoadReadModel(db.trace[first]))

\* A caller that was told "accepted at n" can rely on it after any crash.
AcksAreDurable ==
    \A ack \in acks : db.receipts[ack.commandId] = Receipt("accepted", ack.sequence)

\* Subscribers see committed events only, each once, in the order of the log;
\* and between two commands every event committed since the process started
\* has been published, those of a commit reported as failed included, unless
\* the log could not be read to its end.
PublishedWithoutGaps ==
    /\ \A i \in DOMAIN published : published[i] <= Len(db.events)
    /\ \A i, j \in DOMAIN published : i < j => published[i] < published[j]
    /\ phase = "idle" /\ ~life.lostRead /\ ~spent.cutOff =>
          published = Sequences(life.bootSequence + 1, Len(db.events))

Verdict(receipt) ==
    [status |-> IF receipt.status = "none" THEN "open" ELSE receipt.status,
     sequence |-> IF receipt.status = "accepted" THEN receipt.resultSequence ELSE 0]

Log == INSTANCE CommandLog WITH
    log <- db.events,
    verdict <- [id \in CommandId |-> Verdict(db.receipts[id])]

\* The engine is an append-only log with one final verdict per command
\* identifier, whatever fails in between.
ImplementsCommandLog == Log!Spec

\* Every caller that dispatched a command hears of its outcome, unless the
\* process dies first.
EveryDispatchAnswered ==
    \A id \in CommandId : awaiting[id] > 0 ~> awaiting[id] = 0
=============================================================================
