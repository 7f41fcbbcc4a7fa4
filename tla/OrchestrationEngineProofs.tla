--------------------- MODULE OrchestrationEngineProofs ---------------------
(***************************************************************************)
(* Theorems about OrchestrationEngine, for any commands, events, read      *)
(* model, projectors and bounds that satisfy its assumptions.              *)
(***************************************************************************)
EXTENDS OrchestrationEngine, FiniteSetTheorems, SequenceTheorems,
        FunctionTheorems, WellFoundedInduction, TLAPS

-----------------------------------------------------------------------------
(* Lemmas about the operators of the engine *)

\* A projector that applies an event leaves every table of its kind.
LEMMA ApplyToTables ==
    ASSUME NEW tables \in Tables, NEW p \in Projector, NEW e \in Event
    PROVE  [tables EXCEPT ![p] = ApplyProjector(p, @, e)] \in Tables
BY TypingAssumption DEF Tables

\* Applying an event in every projector keeps the tables well-typed.
LEMMA ApplyAllType ==
    ASSUME NEW tables \in Tables, NEW e \in Event
    PROVE  ApplyAll(tables, e) \in Tables
BY TypingAssumption DEF Tables, ApplyAll

\* So are the tables of a new database.
LEMMA EmptyTablesType == EmptyTables \in Tables
BY TypingAssumption DEF Tables, EmptyTables

\* What rows hold, one column at a time.
LEMMA RowsType ==
    ASSUME NEW rows \in Rows
    PROVE  /\ rows.events \in Seq([commandId : CommandId, event : Event])
           /\ Len(rows.events) \in Nat
           /\ \A n \in 1..Len(rows.events) : /\ rows.events[n].commandId \in CommandId
                                            /\ rows.events[n].event \in Event
           /\ rows.tables \in Tables
           /\ rows.cursor \in [Projector -> Nat]
           /\ rows.trace \in Seq(Tables)
<1>1. /\ rows.events \in Seq([commandId : CommandId, event : Event])
      /\ rows.tables \in Tables /\ rows.cursor \in [Projector -> Nat]
      /\ rows.trace \in Seq(Tables)
  BY DEF Rows
<1>2. ASSUME NEW n \in 1..Len(rows.events)
      PROVE  rows.events[n] \in [commandId : CommandId, event : Event]
  BY <1>1, ElementOfSeq
<1> QED
  BY <1>1, <1>2

\* Applying an event moves one table and one cursor and nothing else.
LEMMA ProjectedRows ==
    ASSUME NEW rows \in Rows, NEW p \in Projector, NEW n \in 1..Len(rows.events)
    PROVE  /\ Projected(rows, p, n) \in Rows
           /\ Projected(rows, p, n).events = rows.events
           /\ Projected(rows, p, n).trace = rows.trace
           /\ Projected(rows, p, n).receipts = rows.receipts
           /\ Projected(rows, p, n).cursor = [rows.cursor EXCEPT ![p] = n]
<1> DEFINE e == rows.events[n].event
           newTables == [rows.tables EXCEPT ![p] = ApplyProjector(p, rows.tables[p], e)]
           newCursor == [rows.cursor EXCEPT ![p] = n]
<1>1. e \in Event /\ rows.tables \in Tables
  BY RowsType
<1>2. newTables \in Tables
  BY <1>1, ApplyToTables
<1>3. newCursor \in [Projector -> Nat]
  BY DEF Rows
<1>4. Projected(rows, p, n) = [rows EXCEPT !.tables = newTables, !.cursor = newCursor]
  BY DEF Projected, Rows
<1> HIDE DEF newTables, newCursor
<1>5. Projected(rows, p, n) \in Rows /\ Projected(rows, p, n).events = rows.events
      /\ Projected(rows, p, n).trace = rows.trace /\ Projected(rows, p, n).cursor = newCursor
      /\ Projected(rows, p, n).receipts = rows.receipts
  BY <1>2, <1>3, <1>4 DEF Rows
<1> QED
  BY <1>5 DEF newCursor

\* A worker that waits for an envelope is well-typed.
LEMMA RestingType ==
    ASSUME NEW rows \in Rows, NEW model \in Model
    PROVE  Resting(rows, model) \in Worker
BY TypingAssumption DEF Resting, Worker, Result, Rows, Model

\* A non-empty set of natural numbers has a least element.
LEMMA LeastNatural ==
    ASSUME NEW S, S \subseteq Nat, S # {}
    PROVE  \E n \in S : \A m \in S : n <= m
<1> DEFINE Less == {ss \in Nat \X Nat : ss[1] < ss[2]}
<1>1. IsWellFoundedOn(Less, Nat)
  BY NatLessThanWellFounded, Zenon DEF OpToRel
<1>2. PICK n \in S : \A m \in S : <<m, n>> \notin Less
  BY <1>1, WFMin, Zenon
<1>3. ASSUME NEW m \in S PROVE n <= m
  <2>1. m \in Nat /\ n \in Nat /\ <<m, n>> \notin Less
    BY <1>2
  <2>2. m < n => <<m, n>> \in Less
    BY <2>1
  <2> QED
    BY <2>1, <2>2
<1> QED
  BY <1>3

\* The sequence a snapshot claims is a natural number.
LEMMA SnapshotSequenceType ==
    ASSUME NEW cursor \in [Projector -> Nat]
    PROVE  SnapshotSequence(cursor) \in Nat
<1> DEFINE S == {cursor[p] : p \in RequiredProjectors}
<1>1. S \subseteq Nat /\ S # {}
  BY TypingAssumption
<1>2. \E n \in S : \A m \in S : n <= m
  BY <1>1, LeastNatural
<1> QED
  BY <1>1, <1>2 DEF SnapshotSequence

\* The sequences of a range of events are a sequence of naturals.
LEMMA SequencesType ==
    ASSUME NEW from \in Nat, NEW to \in Nat
    PROVE  /\ Sequences(from, to) \in Seq(Nat)
           /\ from <= to => Sequences(from, to) # <<>>
<1>1. \A i \in 1..(to - from + 1) : from + i - 1 \in Nat
  OBVIOUS
<1>2. to - from + 1 \in Int
  OBVIOUS
<1>3. CASE from <= to
  BY <1>1, <1>3 DEF Sequences
<1>4. CASE from > to
  BY <1>4 DEF Sequences
<1> QED
  BY <1>3, <1>4

\* What LastRead returns from a position of the log is a position of the log,
\* and a later one unless the log ends there.
LEMMA LastReadType ==
    ASSUME TypeOK, NEW n \in Nat
    PROVE  /\ LastRead(n) \in Nat
           /\ LastRead(n) <= Len(db.events)
           /\ n < Len(db.events) => n < LastRead(n)
<1>1. db.events \in Seq([commandId : CommandId, event : Event])
  BY DEF TypeOK, Rows
<1> QED
  BY <1>1, BoundsAssumption DEF LastRead

\* Reading the log only notes whether it was cut off.
LEMMA ReadAfterType ==
    ASSUME TypeOK, NEW positions, ReadAfter(positions)
    PROVE  /\ spent' \in Spending
           /\ spent'.lostReads = spent.lostReads
           /\ spent.cutOff => spent'.cutOff
           /\ ~spent'.cutOff => \A n \in positions : ~(LastRead(n) < Len(db.events))
<1> DEFINE cut == spent.cutOff \/ \E n \in positions : LastRead(n) < Len(db.events)
<1>1. spent \in Spending
  BY DEF TypeOK
<1>2. cut \in BOOLEAN
  BY Zenon DEF TypeOK
<1>3. spent' = [spent EXCEPT !.cutOff = cut]
  BY DEF ReadAfter
<1> HIDE DEF cut
<1>4. spent' \in Spending /\ spent'.lostReads = spent.lostReads /\ spent'.cutOff = cut
  BY <1>1, <1>2, <1>3 DEF Spending
<1> USE DEF cut
<1> QED
  BY <1>4, Zenon

-----------------------------------------------------------------------------
(* Type correctness.  TypeOK is not inductive: that the head of a queue is *)
(* a command that was issued, that there is a last table to apply an event *)
(* to, an event to publish, or a waiting caller to answer, follows from    *)
(* where the worker is.                                                    *)

Busy ==
    phase \in {"receipt", "append", "project", "commit", "publish", "reconcile", "reject",
               "answer"}

\* Only identifiers that stand for a command are queued and processed.
QueueIssued ==
    /\ \A i \in DOMAIN commandQueue : issued[commandQueue[i]] # NoCommand
    /\ Busy => worker.commandId \in CommandId /\ issued[worker.commandId] # NoCommand

\* The history of the tables keeps up with the log.
TraceMatchesLog ==
    /\ Len(db.trace) = Len(db.events) + 1
    /\ Len(worker.tx.trace) = Len(worker.tx.events) + 1

\* A transaction extends the log by events of its command, which has no
\* receipt yet, and at its end writes the receipt.
TxExtendsLog ==
    phase \in {"append", "project", "commit"} =>
        LET tx == worker.tx
            id == worker.commandId
        IN
        /\ Len(tx.events) >= Len(db.events)
        /\ \A i \in 1..Len(db.events) : tx.events[i] = db.events[i]
        /\ \A i \in (Len(db.events) + 1)..Len(tx.events) : tx.events[i].commandId = id
        /\ db.receipts[id].status = "none"
        /\ tx.receipts = IF phase = "commit"
                         THEN [db.receipts EXCEPT ![id] = Receipt("accepted", Len(tx.events))]
                         ELSE db.receipts

\* What is left to do where the worker is.
WorkAhead ==
    /\ phase = "append" => worker.planned # <<>> \/ Len(worker.tx.events) > Len(db.events)
    /\ phase \in {"project", "commit"} => Len(worker.tx.events) > Len(db.events)
    /\ phase = "publish" => worker.outbox # <<>>
    /\ phase = "bootstrap" => \A p \in Projector : life.replayTo[p] <= Len(db.events)

\* Who waits is queued or being processed.
Positions(queue, id) == {i \in DOMAIN queue : queue[i] = id}
WaitingIsQueued ==
    \A id \in CommandId :
        awaiting[id] = Cardinality(Positions(commandQueue, id))
                       + (IF Busy /\ worker.commandId = id THEN 1 ELSE 0)

TypeInv == TypeOK /\ QueueIssued /\ TraceMatchesLog /\ TxExtendsLog /\ WorkAhead
           /\ WaitingIsQueued

\* An identifier stands at finitely many places of the queue.
LEMMA PositionsFinite ==
    ASSUME NEW queue \in Seq(CommandId), NEW id
    PROVE  IsFiniteSet(Positions(queue, id))
<1>1. Len(queue) \in Nat /\ DOMAIN queue = 1..Len(queue)
  BY LenProperties
<1>2. IsFiniteSet(1..Len(queue))
  BY <1>1, FS_Interval
<1> QED
  BY <1>1, <1>2, FS_Subset DEF Positions

\* Offering an identifier adds one position, taking one removes one.
LEMMA PositionsAppend ==
    ASSUME NEW queue \in Seq(CommandId), NEW x \in CommandId, NEW id \in CommandId
    PROVE  Cardinality(Positions(Append(queue, x), id))
             = Cardinality(Positions(queue, id)) + (IF x = id THEN 1 ELSE 0)
<1> DEFINE n == Len(queue) + 1
<1>1. n \in Nat /\ DOMAIN queue = 1..(n - 1) /\ DOMAIN Append(queue, x) = 1..n
      /\ Append(queue, x)[n] = x /\ \A i \in 1..(n - 1) : Append(queue, x)[i] = queue[i]
  BY AppendProperties, LenProperties
<1>2. IsFiniteSet(Positions(queue, id))
  BY PositionsFinite
<1>5. n \notin Positions(queue, id)
  BY <1>1 DEF Positions
<1>3. Positions(Append(queue, x), id)
        = IF x = id THEN Positions(queue, id) \cup {n} ELSE Positions(queue, id)
  BY <1>1 DEF Positions
<1>4. Cardinality(Positions(queue, id)) \in Nat
      /\ Cardinality(Positions(queue, id) \cup {n}) = Cardinality(Positions(queue, id)) + 1
  BY <1>2, <1>5, FS_CardinalityType, FS_AddElement
<1> QED
  BY <1>3, <1>4

\* An identifier stands at as many places of a queue as of its tail, and at one
\* more if it is the head.
LEMMA PositionsTail ==
    ASSUME NEW queue \in Seq(CommandId), queue # <<>>, NEW id \in CommandId
    PROVE  Cardinality(Positions(queue, id))
             = Cardinality(Positions(Tail(queue), id)) + (IF Head(queue) = id THEN 1 ELSE 0)
<1> DEFINE later == Positions(queue, id) \ {1}
             shift == [i \in Positions(Tail(queue), id) |-> i + 1]
<1>1. Len(queue) \in Nat \ {0} /\ DOMAIN queue = 1..Len(queue)
      /\ DOMAIN Tail(queue) = 1..(Len(queue) - 1) /\ Head(queue) = queue[1]
      /\ \A i \in 1..(Len(queue) - 1) : Tail(queue)[i] = queue[i + 1]
  BY HeadTailProperties, LenProperties, EmptySeq
<1>2. shift \in [Positions(Tail(queue), id) -> later]
  BY <1>1 DEF Positions
<1>3. \A i, j \in Positions(Tail(queue), id) : shift[i] = shift[j] => i = j
  BY <1>1 DEF Positions
<1>4. ASSUME NEW k \in later PROVE \E i \in Positions(Tail(queue), id) : shift[i] = k
  <2>1. k - 1 \in Positions(Tail(queue), id)
    BY <1>1 DEF Positions
  <2>2. k - 1 + 1 = k
    BY <1>1 DEF Positions
  <2> QED
    BY <2>1, <2>2
<1>5. shift \in Bijection(Positions(Tail(queue), id), later)
  <2> HIDE DEF shift, later
  <2> QED
    BY <1>2, <1>3, <1>4, Fun_IsBij
<1>6. IsFiniteSet(Positions(queue, id)) /\ IsFiniteSet(Positions(Tail(queue), id))
  <2>1. Tail(queue) \in Seq(CommandId)
    OBVIOUS
  <2> QED
    BY <2>1, PositionsFinite
<1>7. Cardinality(later) = Cardinality(Positions(Tail(queue), id))
  BY <1>5, <1>6, FS_Bijection, Zenon DEF ExistsBijection
<1>8. Cardinality(Positions(queue, id)) \in Nat
      /\ Cardinality(later) = IF 1 \in Positions(queue, id)
                              THEN Cardinality(Positions(queue, id)) - 1
                              ELSE Cardinality(Positions(queue, id))
  BY <1>6, FS_CardinalityType, FS_RemoveElement
<1>9. 1 \in Positions(queue, id) <=> Head(queue) = id
  BY <1>1 DEF Positions
<1> HIDE DEF later
<1> QED
  BY <1>7, <1>8, <1>9

\* The invariant holds before anything happened.
LEMMA TypeInit == Init => TypeInv
<1> SUFFICES ASSUME Init PROVE TypeInv
  OBVIOUS
<1>1. db \in Rows /\ db.events = <<>> /\ db.trace = <<EmptyTables>>
  BY EmptyTablesType DEF Init, Rows, NoReceipt
<1>2. commandReadModel \in Model
  BY TypingAssumption DEF Init, Model
<1>3. worker \in Worker /\ worker.tx = db
  BY <1>1, <1>2, RestingType DEF Init, Resting
<1>4. TypeOK
  BY <1>1, <1>2, <1>3 DEF Init, TypeOK, PhaseName, NewLife, Life, Spending
<1>5. TraceMatchesLog
  <2>1. Len(db.events) = 0 /\ Len(db.trace) = 1
    BY <1>1
  <2> QED
    BY <1>3, <2>1 DEF TraceMatchesLog
<1>6. QueueIssued /\ TxExtendsLog /\ WorkAhead
  BY DEF Init, QueueIssued, TxExtendsLog, WorkAhead, Busy
<1>7. WaitingIsQueued
  <2>1. \A id \in CommandId : Positions(commandQueue, id) = {}
    BY DEF Init, Positions
  <2>2. Cardinality({}) = 0
    BY FS_EmptySet
  <2>3. ~Busy /\ \A id \in CommandId : awaiting[id] = 0
    BY DEF Init, Busy
  <2> QED
    BY <2>1, <2>2, <2>3 DEF WaitingIsQueued
<1> QED
  BY <1>4, <1>5, <1>6, <1>7 DEF TypeInv

\* Leaving an attempt keeps the worker's locals of their kinds.
LEMMA FailWithType ==
    ASSUME TypeOK, NEW kind \in {"invariant", "persistence"}, NEW rows \in Rows,
           FailWith(kind, rows)
    PROVE  worker' \in Worker /\ phase' = "reconcile"
<1>1. worker \in Worker /\ commandReadModel \in Model
  BY DEF TypeOK
<1>2. 1 \in DOMAIN Projectors /\ <<>> \in Seq(Event)
  BY TypingAssumption
<1>3. Result(kind, 0) \in [kind : {"none", "accepted", "previouslyRejected", "invariant",
                                   "persistence"}, sequence : Nat]
  BY DEF Result
<1> QED
  BY <1>1, <1>2, <1>3 DEF FailWith, Worker

\* The command a busy worker works on is one that was dispatched.
LEMMA BusyCommand ==
    ASSUME TypeInv, Busy
    PROVE  /\ worker.commandId \in CommandId
           /\ issued[worker.commandId] \in Command
           /\ db.receipts[worker.commandId].resultSequence \in Nat
BY DEF TypeInv, TypeOK, QueueIssued, Rows

\* Every step, whole or stuttering, keeps the state well-typed.
LEMMA TypeStep == TypeInv /\ [Next]_vars => TypeOK'
<1> SUFFICES ASSUME TypeInv, [Next]_vars PROVE TypeOK'
  OBVIOUS
<1> USE DEF TypeInv
<1>0. /\ db \in Rows /\ worker \in Worker /\ worker.tx \in Rows /\ commandReadModel \in Model
      /\ worker.nextReadModel \in Model /\ worker.planned \in Seq(Event)
      /\ worker.outbox \in Seq(Nat) /\ worker.startSequence \in Nat
      /\ life \in Life /\ spent \in Spending
  BY DEF TypeOK, Worker
<1>1. CASE \E id \in CommandId, c \in Command : Dispatch(id, c)
  <2>1. PICK id \in CommandId, c \in Command : Dispatch(id, c)
    BY <1>1
  <2>2. commandQueue' \in Seq(CommandId)
    BY <2>1 DEF TypeOK, Dispatch
  <2>3. issued' \in [CommandId -> Command \cup {NoCommand}]
    BY <2>1 DEF TypeOK, Dispatch
  <2>4. dispatches' \in Nat /\ awaiting' \in [CommandId -> Nat]
    BY <2>1 DEF TypeOK, Dispatch
  <2> QED
    BY <2>1, <2>2, <2>3, <2>4 DEF TypeOK, Dispatch, durable
<1>2. CASE TakeEnvelope
  <2>1. Head(commandQueue) \in CommandId /\ Tail(commandQueue) \in Seq(CommandId)
    BY <1>2 DEF TypeOK, TakeEnvelope
  <2>2. commandReadModel.snapshotSequence \in Nat
    BY <1>0 DEF Model
  <2>3. worker' \in Worker
    BY <1>0, <1>2, <2>1, <2>2 DEF TakeEnvelope, Worker
  <2> QED
    BY <1>2, <2>1, <2>3 DEF TypeOK, TakeEnvelope, PhaseName, durable, callers
<1>3. CASE AnswerFromReceipt
  <2>1. db.receipts[worker.commandId].resultSequence \in Nat
    BY <1>3, BusyCommand DEF AnswerFromReceipt, Busy
  <2>2. worker' \in Worker
    BY <1>0, <1>3, <2>1 DEF AnswerFromReceipt, Worker, Result
  <2> QED
    BY <1>3, <2>2 DEF TypeOK, AnswerFromReceipt, PhaseName, LocalStep, callers
<1>4. CASE DecideCommand
  <2> DEFINE events == Decide(issued[worker.commandId], commandReadModel.state)
  <2>1. events \in Seq(Event)
    BY <1>0, <1>4, BusyCommand, TypingAssumption DEF DecideCommand, Busy, Model
  <2>2. CASE FailWith("invariant", db)
    BY <1>0, <1>4, <2>2, FailWithType
    DEF TypeOK, DecideCommand, PhaseName, LocalStep, callers
  <2>3. CASE /\ worker' = [worker EXCEPT !.planned = events, !.tx = db,
                                        !.nextReadModel = commandReadModel]
             /\ phase' = "append"
    <3>1. worker' \in Worker
      BY <1>0, <2>1, <2>3 DEF Worker
    <3> QED
      BY <1>4, <2>3, <3>1 DEF TypeOK, DecideCommand, PhaseName, LocalStep, callers
  <2> QED
    BY <1>4, <2>2, <2>3 DEF DecideCommand
<1>5. CASE AppendEvent
  <2> DEFINE e == Head(worker.planned)
             row == [commandId |-> worker.commandId, event |-> e]
             newTx == [worker.tx EXCEPT !.events = Append(@, row),
                                        !.trace = Append(@, ApplyAll(@[Len(@)], e))]
             newModel == [snapshotSequence |-> Len(worker.tx.events) + 1,
                          state |-> Project(worker.nextReadModel.state, e)]
  <2>1. e \in Event /\ Tail(worker.planned) \in Seq(Event)
    BY <1>0, <1>5 DEF AppendEvent
  <2>2. row \in [commandId : CommandId, event : Event]
    BY <1>5, <2>1, BusyCommand DEF AppendEvent, Busy
  <2>3. worker.tx.trace[Len(worker.tx.trace)] \in Tables
    BY <1>0, RowsType, ElementOfSeq DEF TraceMatchesLog
  <2>4. newTx \in Rows
    <3>1. Append(worker.tx.events, row) \in Seq([commandId : CommandId, event : Event])
      BY <1>0, <2>2, RowsType, AppendProperties
    <3>2. Append(worker.tx.trace, ApplyAll(worker.tx.trace[Len(worker.tx.trace)], e))
            \in Seq(Tables)
      BY <1>0, <2>1, <2>3, RowsType, ApplyAllType, AppendProperties
    <3> QED
      BY <1>0, <3>1, <3>2 DEF Rows
  <2>5. newModel \in Model
    <3>1. Len(worker.tx.events) + 1 \in Nat
      BY <1>0, RowsType
    <3>2. Project(worker.nextReadModel.state, e) \in ReadModel
      BY <1>0, <2>1, TypingAssumption DEF Model
    <3> QED
      BY <3>1, <3>2 DEF Model
  <2>6. worker' = [worker EXCEPT !.tx = newTx, !.nextReadModel = newModel,
                                 !.planned = Tail(worker.planned), !.projectorIndex = 1]
    BY <1>5, <1>0 DEF AppendEvent, Worker
  <2>7. 1 \in DOMAIN Projectors
    BY TypingAssumption
  <2> HIDE DEF newTx, newModel
  <2>8. worker' \in Worker
    BY <1>0, <2>1, <2>4, <2>5, <2>6, <2>7 DEF Worker
  <2> QED
    BY <1>5, <2>8 DEF TypeOK, AppendEvent, PhaseName, LocalStep, callers
<1>6. CASE RunProjector
  <2> DEFINE p == Projectors[worker.projectorIndex]
             n == Len(worker.tx.events)
             newTx == Projected(worker.tx, p, n)
             newIndex == IF worker.projectorIndex = Len(Projectors) THEN 1
                         ELSE worker.projectorIndex + 1
  <2>1. worker.projectorIndex \in DOMAIN Projectors
    BY <1>0 DEF Worker
  <2>2. p \in Projector /\ newIndex \in DOMAIN Projectors
    BY <2>1, TypingAssumption DEF Projector
  <2>3. n \in 1..Len(worker.tx.events)
    BY <1>0, <1>6 DEF RunProjector, WorkAhead, Rows
  <2>4. newTx \in Rows
    BY <1>0, <2>2, <2>3, ProjectedRows
  <2>5. FilesPrunedBy(p, worker.tx.events[n].event) \subseteq File
    <3>1. worker.tx.events[n].event \in Event
      BY <1>0, <2>3, RowsType
    <3> QED
      BY <2>2, <3>1, TypingAssumption
  <2>6. worker' = [worker EXCEPT !.tx = newTx, !.projectorIndex = newIndex]
    BY <1>6, <1>0 DEF RunProjector, Worker
  <2>7. prunedFiles' \subseteq File
    BY <1>6, <2>5 DEF RunProjector, TypeOK
  <2> HIDE DEF newTx, newIndex
  <2>8. worker' \in Worker
    BY <1>0, <2>2, <2>4, <2>6 DEF Worker
  <2> QED
    BY <1>6, <2>7, <2>8 DEF TypeOK, RunProjector, PhaseName, LocalStep, callers
<1>7. CASE RecordAcceptance
  <2> DEFINE receipt == Receipt("accepted", Len(worker.tx.events))
             newTx == [worker.tx EXCEPT !.receipts =
                          [worker.tx.receipts EXCEPT ![worker.commandId] = receipt]]
  <2>1. receipt \in [status : {"none", "accepted", "rejected"}, resultSequence : Nat]
    BY <1>0, RowsType DEF Receipt
  <2>4. newTx \in Rows
    BY <1>0, <2>1 DEF Rows
  <2>2. worker' = [worker EXCEPT !.tx = newTx]
    BY <1>7 DEF RecordAcceptance
  <2> HIDE DEF newTx
  <2>3. worker' \in Worker
    BY <1>0, <2>2, <2>4 DEF Worker
  <2> QED
    BY <1>7, <2>3 DEF TypeOK, RecordAcceptance, PhaseName, LocalStep, callers
<1>8. CASE AttemptFails
  <2>1. worker' \in Worker /\ phase' = "reconcile"
    BY <1>0, <1>8, FailWithType DEF AttemptFails
  <2>2. spent' \in Spending
    BY <1>0, <1>8 DEF AttemptFails, SpendFault, Spending
  <2> QED
    BY <1>8, <2>1, <2>2 DEF TypeOK, AttemptFails, PhaseName, LocalStep, callers
<1>9. CASE Commit
  <2>1. Len(db.events) + 1 \in Nat /\ Len(worker.tx.events) \in Nat
    BY <1>0 DEF Rows
  <2>2. Sequences(Len(db.events) + 1, Len(worker.tx.events)) \in Seq(Nat)
    BY <2>1, SequencesType
  <2>3. worker' \in Worker
    BY <1>0, <1>9, <2>1, <2>2 DEF Commit, Worker, Result
  <2> QED
    BY <1>0, <1>9, <2>3 DEF TypeOK, Commit, PhaseName, callers
<1>10. CASE CommitReportsFailure
  <2>1. worker' \in Worker /\ phase' = "reconcile"
    BY <1>0, <1>10, FailWithType DEF CommitReportsFailure
  <2>2. spent' \in Spending
    BY <1>0, <1>10, SMTT(30) DEF CommitReportsFailure, SpendFault, Spending
  <2> QED
    BY <1>0, <1>10, <2>1, <2>2 DEF TypeOK, CommitReportsFailure, PhaseName, callers
<1>11. CASE PublishEvent
  <2>1. Head(worker.outbox) \in Nat /\ Tail(worker.outbox) \in Seq(Nat)
    BY <1>0, <1>11 DEF PublishEvent, WorkAhead
  <2>2. worker' \in Worker
    BY <1>0, <1>11, <2>1 DEF PublishEvent, Worker
  <2>3. published' \in Seq(Nat)
    BY <1>11, <2>1 DEF PublishEvent, TypeOK
  <2> QED
    BY <1>11, <2>2, <2>3 DEF TypeOK, PublishEvent, PhaseName, durable, callers
<1>12. CASE ReconcileEvent
  <2> DEFINE n == worker.nextReadModel.snapshotSequence + 1
             newModel == [snapshotSequence |-> n,
                          state |-> Project(worker.nextReadModel.state, db.events[n].event)]
  <2>1. n \in 1..Len(db.events)
    <3>1. worker.nextReadModel.snapshotSequence \in Nat
      BY <1>0 DEF Model
    <3>2. LastRead(worker.startSequence) \in Nat /\ Len(db.events) \in Nat
          /\ LastRead(worker.startSequence) <= Len(db.events)
      BY <1>0, LastReadType, RowsType
    <3>3. worker.nextReadModel.snapshotSequence < LastRead(worker.startSequence)
      BY <1>12 DEF ReconcileEvent
    <3> QED
      BY <3>1, <3>2, <3>3
  <2>2. db.events[n].event \in Event
    BY <1>0, <2>1, RowsType
  <2>3. newModel \in Model
    BY <1>0, <2>1, <2>2, TypingAssumption DEF Model
  <2>4. worker' = [worker EXCEPT !.nextReadModel = newModel]
    BY <1>12 DEF ReconcileEvent
  <2> HIDE DEF newModel
  <2>5. worker' \in Worker
    BY <1>0, <2>3, <2>4 DEF Worker
  <2> QED
    BY <1>12, <2>5 DEF TypeOK, ReconcileEvent, LocalStep, callers
<1>13. CASE FinishReconcile
  <2>1. Sequences(worker.startSequence + 1, LastRead(worker.startSequence)) \in Seq(Nat)
    <3>1. worker.startSequence + 1 \in Nat
      BY <1>0
    <3>2. LastRead(worker.startSequence) \in Nat
      BY <1>0, LastReadType
    <3> QED
      BY <3>1, <3>2, SequencesType
  <2>2. worker' \in Worker
    BY <1>0, <1>13, <2>1 DEF FinishReconcile, Worker
  <2>3. spent' \in Spending
    BY <1>13, ReadAfterType DEF FinishReconcile
  <2> QED
    BY <1>0, <1>13, <2>2, <2>3 DEF TypeOK, FinishReconcile, PhaseName, durable, callers
<1>14. CASE ReconcileFails
  <2>1. worker' \in Worker
    BY <1>0, <1>14 DEF ReconcileFails, Worker
  <2>2. spent' \in Spending
    BY <1>0, <1>14 DEF ReconcileFails, Spending
  <2>3. life' \in Life
    <3>1. (life.lostRead \/ commandReadModel.snapshotSequence < Len(db.events)) \in BOOLEAN
      BY Zenon DEF TypeOK
    <3> QED
      BY <1>0, <1>14, <3>1 DEF ReconcileFails, Life
  <2> QED
    BY <1>14, <2>1, <2>2, <2>3 DEF TypeOK, ReconcileFails, PhaseName, durable, callers
<1>15. CASE RecordRejection
  <2> DEFINE receipt == Receipt("rejected", commandReadModel.snapshotSequence)
             newRows == [db EXCEPT !.receipts =
                           [db.receipts EXCEPT ![worker.commandId] = receipt]]
  <2>1. newRows \in Rows
    BY <1>0 DEF Rows, Receipt, Model
  <2>2. db' \in Rows
    BY <1>0, <1>15, <2>1 DEF RecordRejection
  <2>3. spent' \in Spending
    <3>1. UNCHANGED spent \/ spent' = [spent EXCEPT !.faults = @ + 1]
      BY <1>15 DEF RecordRejection, SpendFault
    <3> QED
      BY <1>0, <3>1 DEF Spending
  <2> QED
    BY <1>15, <2>2, <2>3 DEF TypeOK, RecordRejection, PhaseName, callers
<1>16. CASE Answer
  <2>1. worker' \in Worker
    BY <1>0, <1>16, RestingType DEF Answer
  <2>2. worker.commandId \in CommandId
    BY <1>16, BusyCommand DEF Answer, Busy
  <2>3. awaiting' \in [CommandId -> Nat]
    <3>1. awaiting \in [CommandId -> Nat] /\ awaiting[worker.commandId] \in Nat
      BY <2>2 DEF TypeOK
    <3>2. Cardinality(Positions(commandQueue, worker.commandId)) \in Nat
      BY PositionsFinite, FS_CardinalityType DEF TypeOK
    <3>3. awaiting[worker.commandId]
            = Cardinality(Positions(commandQueue, worker.commandId)) + 1
      BY <1>16, <2>2 DEF Answer, WaitingIsQueued, Busy
    <3>4. awaiting[worker.commandId] - 1 \in Nat
      BY <3>2, <3>3
    <3> QED
      BY <1>16, <3>1, <3>4 DEF Answer
  <2>4. acks' \subseteq [commandId : CommandId, sequence : Nat]
    BY <1>0, <1>16, <2>2 DEF Answer, TypeOK, Worker
  <2> QED
    BY <1>16, <2>1, <2>3, <2>4 DEF TypeOK, Answer, PhaseName, durable
<1>17. CASE Crash
  <2>1. commandReadModel' \in Model
    BY <1>17, TypingAssumption DEF Crash, Model
  <2>2. worker' \in Worker
    BY <1>0, <1>17, <2>1, RestingType DEF Crash
  <2>3. life' \in Life
    BY <1>17 DEF Crash, NewLife, Life
  <2>4. spent' \in Spending
    BY <1>0, <1>17 DEF Crash, Spending
  <2>5. commandQueue' \in Seq(CommandId) /\ published' \in Seq(Nat)
        /\ awaiting' \in [CommandId -> Nat]
    BY <1>17 DEF Crash
  <2> QED
    BY <1>17, <2>1, <2>2, <2>3, <2>4, <2>5 DEF TypeOK, Crash, PhaseName, durable
<1>18. CASE Start
  <2>1. \A p \in Projector : LastRead(db.cursor[p]) \in Nat
    BY <1>0, LastReadType DEF Rows
  <2>2. life' \in Life
    BY <1>0, <1>18, <2>1 DEF Start, Life
  <2>3. spent' \in Spending
    BY <1>18, ReadAfterType DEF Start
  <2> QED
    BY <1>18, <2>2, <2>3 DEF TypeOK, Start, PhaseName, durable, callers
<1>19. CASE BootstrapEvent
  <2>1. PICK i \in DOMAIN Projectors :
             LET p == Projectors[i]
                 n == db.cursor[p] + 1
             IN /\ n <= life.replayTo[p]
                /\ db' = Projected(db, p, n)
                /\ prunedFiles' = prunedFiles \cup FilesPrunedBy(p, db.events[n].event)
    BY <1>19 DEF BootstrapEvent
  <2> DEFINE p == Projectors[i]
             n == db.cursor[p] + 1
  <2>2. p \in Projector
    BY DEF Projector
  <2>3. n \in 1..Len(db.events)
    <3>1. n \in Nat \ {0} /\ life.replayTo[p] \in Nat /\ Len(db.events) \in Nat
      BY <1>0, <2>2, RowsType DEF Life
    <3>2. n <= life.replayTo[p] /\ life.replayTo[p] <= Len(db.events)
      BY <1>19, <2>1, <2>2 DEF BootstrapEvent, WorkAhead
    <3> QED
      BY <3>1, <3>2
  <2>4. db' \in Rows
    BY <1>0, <2>1, <2>2, <2>3, ProjectedRows
  <2>5. db.events[n].event \in Event
    BY <1>0, <2>3, RowsType
  <2>6. prunedFiles' \subseteq File
    BY <2>1, <2>2, <2>5, TypingAssumption DEF TypeOK
  <2>7. worker' \in Worker
    BY <1>0, <1>19, <2>4, RestingType DEF BootstrapEvent
  <2> QED
    BY <1>19, <2>4, <2>6, <2>7 DEF TypeOK, BootstrapEvent, callers
<1>20. CASE FinishBootstrap
  <2>1. SnapshotSequence(db.cursor) \in Nat /\ LoadReadModel(db.tables) \in ReadModel
    BY <1>0, SnapshotSequenceType, TypingAssumption DEF Rows
  <2>2. commandReadModel' \in Model
    BY <1>20, <2>1 DEF FinishBootstrap, Model
  <2>3. worker' \in Worker
    BY <1>0, <1>20, <2>2, RestingType DEF FinishBootstrap
  <2>4. life' \in Life
    BY <1>0, <1>20, RowsType DEF FinishBootstrap, Life
  <2> QED
    BY <1>20, <2>2, <2>3, <2>4 DEF TypeOK, FinishBootstrap, PhaseName, durable, callers
<1>21. CASE \E p \in Projector : Upgrade(p)
  <2>1. PICK p \in Projector : Upgrade(p)
    BY <1>21
  <2> DEFINE newTables == [db.tables EXCEPT ![p] = EmptyTable(p)]
             newCursor == [db.cursor EXCEPT ![p] = 0]
  <2>2. newTables \in Tables
    <3>1. db.tables \in Tables
      BY <1>0 DEF Rows
    <3> QED
      BY <3>1, TypingAssumption DEF Tables
  <2>3. newCursor \in [Projector -> Nat]
    BY <1>0 DEF Rows
  <2>4. db' = [db EXCEPT !.tables = newTables, !.cursor = newCursor]
    BY <1>0, <2>1 DEF Upgrade, Rows
  <2> HIDE DEF newTables, newCursor
  <2>5. db' \in Rows
    BY <1>0, <2>2, <2>3, <2>4 DEF Rows
  <2>6. worker' \in Worker
    BY <1>0, <2>1, <2>5, RestingType DEF Upgrade
  <2>7. spent' \in Spending
    BY <1>0, <2>1 DEF Upgrade, Spending
  <2> QED
    BY <2>1, <2>5, <2>6, <2>7 DEF TypeOK, Upgrade, callers
<1>22. CASE UNCHANGED vars
  BY <1>22 DEF TypeOK, vars, durable, callers
<1> QED
  BY <1>1, <1>2, <1>3, <1>4, <1>5, <1>6, <1>7, <1>8, <1>9, <1>10, <1>11, <1>12, <1>13, <1>14, <1>15,
     <1>16, <1>17, <1>18, <1>19, <1>20, <1>21, <1>22 DEF Next, ProcessEnvelope

-----------------------------------------------------------------------------
(* Footprints: which step may change what. *)

\* Only offering, taking and answering an envelope, and a crash, change who
\* waits for what.
LEMMA CallersFootprint ==
    ASSUME TypeInv, [Next]_vars
    PROVE  \/ \E id \in CommandId, c \in Command : Dispatch(id, c)
           \/ TakeEnvelope \/ Answer \/ Crash
           \/ /\ UNCHANGED <<commandQueue, issued, awaiting>>
              /\ Busy' <=> Busy
              /\ Busy => worker'.commandId = worker.commandId
<1> DEFINE Goal == /\ UNCHANGED <<commandQueue, issued, awaiting>>
                   /\ Busy' <=> Busy
                   /\ Busy => worker'.commandId = worker.commandId
<1>0. worker \in Worker
  BY DEF TypeInv, TypeOK
<1>1. worker \in [commandId : CommandId \cup {NoCommand}, startSequence : Nat, tx : Rows,
                  planned : Seq(Event), nextReadModel : Model,
                  projectorIndex : DOMAIN Projectors, outbox : Seq(Nat),
                  result : [kind : {"none", "accepted", "previouslyRejected", "invariant",
                                    "persistence"}, sequence : Nat]]
  BY <1>0 DEF Worker
<1>2. CASE AnswerFromReceipt
  BY <1>2, <1>1 DEF AnswerFromReceipt, LocalStep, callers, FailWith, Busy, SpendFault
<1>3. CASE DecideCommand
  BY <1>3, <1>1 DEF DecideCommand, LocalStep, callers, FailWith, Busy, SpendFault
<1>4. CASE AppendEvent
  BY <1>4, <1>1 DEF AppendEvent, LocalStep, callers, FailWith, Busy, SpendFault
<1>5. CASE RunProjector
  BY <1>5, <1>1 DEF RunProjector, LocalStep, callers, FailWith, Busy, SpendFault
<1>6. CASE RecordAcceptance
  BY <1>6, <1>1 DEF RecordAcceptance, LocalStep, callers, FailWith, Busy, SpendFault
<1>7. CASE AttemptFails
  BY <1>7, <1>1 DEF AttemptFails, LocalStep, callers, FailWith, Busy, SpendFault
<1>8. CASE Commit
  BY <1>8, <1>1 DEF Commit, LocalStep, callers, FailWith, Busy, SpendFault
<1>9. CASE CommitReportsFailure
  BY <1>9, <1>1 DEF CommitReportsFailure, LocalStep, callers, FailWith, Busy, SpendFault
<1>10. CASE PublishEvent
  BY <1>10, <1>1 DEF PublishEvent, LocalStep, callers, FailWith, Busy, SpendFault
<1>11. CASE ReconcileEvent
  BY <1>11, <1>1 DEF ReconcileEvent, LocalStep, callers, FailWith, Busy, SpendFault
<1>12. CASE FinishReconcile
  BY <1>12, <1>1 DEF FinishReconcile, LocalStep, callers, FailWith, Busy, SpendFault
<1>13. CASE ReconcileFails
  BY <1>13, <1>1 DEF ReconcileFails, LocalStep, callers, FailWith, Busy, SpendFault
<1>14. CASE RecordRejection
  BY <1>14, <1>1 DEF RecordRejection, LocalStep, callers, FailWith, Busy, SpendFault
<1>15. CASE Start \/ BootstrapEvent \/ FinishBootstrap \/ \E p \in Projector : Upgrade(p)
  BY <1>15 DEF Start, BootstrapEvent, FinishBootstrap, Upgrade, callers, Busy
<1>16. CASE UNCHANGED vars
  BY <1>16 DEF vars, callers, Busy
<1> QED
  BY <1>2, <1>3, <1>4, <1>5, <1>6, <1>7, <1>8, <1>9, <1>10, <1>11, <1>12, <1>13, <1>14, <1>15, <1>16 DEF Next, ProcessEnvelope

\* What is queued or being processed stays a dispatched identifier.
LEMMA QueueIssuedStep == TypeInv /\ [Next]_vars => QueueIssued'
<1> SUFFICES ASSUME TypeInv, [Next]_vars PROVE QueueIssued'
  OBVIOUS
<1>0. commandQueue \in Seq(CommandId) /\ issued \in [CommandId -> Command \cup {NoCommand}]
      /\ QueueIssued
  BY DEF TypeInv, TypeOK
<1>1. CASE \E id \in CommandId, c \in Command : Dispatch(id, c)
  <2>1. PICK id \in CommandId, c \in Command : Dispatch(id, c)
    BY <1>1
  <2>2. commandQueue' = Append(commandQueue, id) /\ issued' = [issued EXCEPT ![id] = c]
        /\ worker' = worker /\ phase' = phase
    BY <2>1 DEF Dispatch
  <2>3. c # NoCommand
    BY BoundsAssumption
  <2>4. \A x \in CommandId : issued[x] # NoCommand => issued'[x] # NoCommand
    BY <1>0, <2>2, <2>3
  <2>5. issued'[id] # NoCommand
    BY <1>0, <2>2, <2>3
  <2>6. ASSUME NEW i \in DOMAIN commandQueue' PROVE issued'[commandQueue'[i]] # NoCommand
    <3>1. CASE i \in DOMAIN commandQueue
      <4>1. commandQueue'[i] = commandQueue[i] /\ commandQueue[i] \in CommandId
        BY <1>0, <2>2, <3>1
      <4> QED
        BY <1>0, <2>4, <3>1, <4>1 DEF QueueIssued
    <3>2. CASE i \notin DOMAIN commandQueue
      <4>1. commandQueue'[i] = id
        BY <1>0, <2>2, <2>6, <3>2
      <4> QED
        BY <2>5, <4>1
    <3> QED
      BY <3>1, <3>2
  <2>7. Busy' => worker'.commandId \in CommandId /\ issued'[worker'.commandId] # NoCommand
    BY <1>0, <2>2, <2>4 DEF QueueIssued, Busy
  <2> QED
    BY <2>6, <2>7 DEF QueueIssued
<1>2. CASE TakeEnvelope
  <2>1. commandQueue' = Tail(commandQueue) /\ commandQueue # <<>> /\ issued' = issued
        /\ worker'.commandId = Head(commandQueue)
    BY <1>2 DEF TakeEnvelope, callers, TypeInv, TypeOK, Worker
  <2>2. \A i \in DOMAIN commandQueue' :
            i + 1 \in DOMAIN commandQueue /\ commandQueue'[i] = commandQueue[i + 1]
    BY <1>0, <2>1
  <2>3. Head(commandQueue) = commandQueue[1] /\ 1 \in DOMAIN commandQueue
        /\ commandQueue[1] \in CommandId
    BY <1>0, <2>1
  <2> QED
    BY <1>0, <2>1, <2>2, <2>3 DEF QueueIssued
<1>3. CASE Answer
  BY <1>0, <1>3 DEF Answer, QueueIssued, Busy
<1>4. CASE Crash
  BY <1>0, <1>4 DEF Crash, QueueIssued, Busy
<1>5. CASE /\ UNCHANGED <<commandQueue, issued, awaiting>>
           /\ Busy' <=> Busy
           /\ Busy => worker'.commandId = worker.commandId
  BY <1>0, <1>5 DEF QueueIssued
<1> QED
  BY <1>1, <1>2, <1>3, <1>4, <1>5, CallersFootprint

\* Callers wait for exactly the envelopes that are queued or processed.
LEMMA WaitingIsQueuedStep == TypeInv /\ [Next]_vars => WaitingIsQueued'
<1> SUFFICES ASSUME TypeInv, [Next]_vars, NEW id \in CommandId
             PROVE  awaiting'[id] = Cardinality(Positions(commandQueue', id))
                                    + (IF Busy' /\ worker'.commandId = id THEN 1 ELSE 0)
  BY DEF WaitingIsQueued
<1>0. commandQueue \in Seq(CommandId) /\ awaiting \in [CommandId -> Nat]
      /\ awaiting[id] = Cardinality(Positions(commandQueue, id))
                        + (IF Busy /\ worker.commandId = id THEN 1 ELSE 0)
      /\ Cardinality(Positions(commandQueue, id)) \in Nat
  BY PositionsFinite, FS_CardinalityType DEF TypeInv, TypeOK, WaitingIsQueued
<1>1. CASE \E x \in CommandId, c \in Command : Dispatch(x, c)
  <2>1. PICK x \in CommandId, c \in Command : Dispatch(x, c)
    BY <1>1
  <2>2. commandQueue' = Append(commandQueue, x) /\ awaiting' = [awaiting EXCEPT ![x] = @ + 1]
        /\ worker' = worker /\ (Busy' <=> Busy)
    BY <2>1 DEF Dispatch, Busy
  <2>3. Cardinality(Positions(commandQueue', id))
          = Cardinality(Positions(commandQueue, id)) + (IF x = id THEN 1 ELSE 0)
    BY <1>0, <2>2, PositionsAppend
  <2>4. awaiting'[id] = IF x = id THEN awaiting[id] + 1 ELSE awaiting[id]
    BY <1>0, <2>2
  <2> QED
    BY <1>0, <2>2, <2>3, <2>4
<1>2. CASE TakeEnvelope
  <2>1. commandQueue' = Tail(commandQueue) /\ commandQueue # <<>> /\ awaiting' = awaiting
        /\ worker'.commandId = Head(commandQueue) /\ ~Busy /\ Busy'
    BY <1>2 DEF TakeEnvelope, callers, TypeInv, TypeOK, Worker, Busy
  <2>2. Cardinality(Positions(commandQueue, id))
          = Cardinality(Positions(commandQueue', id))
            + (IF Head(commandQueue) = id THEN 1 ELSE 0)
    BY <1>0, <2>1, PositionsTail
  <2> QED
    BY <1>0, <2>1, <2>2
<1>3. CASE Answer
  <2>1. commandQueue' = commandQueue /\ Busy /\ ~Busy'
        /\ awaiting' = [awaiting EXCEPT ![worker.commandId] = @ - 1]
    BY <1>3 DEF Answer, Busy
  <2>2. awaiting'[id] = IF worker.commandId = id THEN awaiting[id] - 1 ELSE awaiting[id]
    BY <1>0, <2>1
  <2> QED
    BY <1>0, <2>1, <2>2
<1>4. CASE Crash
  <2>1. commandQueue' = <<>> /\ ~Busy' /\ awaiting'[id] = 0
    BY <1>4 DEF Crash, Busy
  <2>2. Positions(commandQueue', id) = {}
    BY <2>1 DEF Positions
  <2> QED
    BY <2>1, <2>2, FS_EmptySet
<1>5. CASE /\ UNCHANGED <<commandQueue, issued, awaiting>>
           /\ Busy' <=> Busy
           /\ Busy => worker'.commandId = worker.commandId
  BY <1>0, <1>5
<1> QED
  BY <1>1, <1>2, <1>3, <1>4, <1>5, CallersFootprint

\* Only a commit changes the log, and only a commit and a recorded rejection
\* change the receipts.
LEMMA LogFootprint ==
    ASSUME TypeInv, [Next]_vars
    PROVE  \/ phase = "commit" /\ db' = worker.tx
           \/ RecordRejection
           \/ /\ db'.events = db.events
              /\ db'.trace = db.trace
              /\ db'.receipts = db.receipts
<1>0. db \in Rows
  BY DEF TypeInv, TypeOK
<1>1. CASE Commit \/ CommitReportsFailure
  BY <1>1 DEF Commit, CommitReportsFailure
<1>2. CASE RecordRejection
  BY <1>2
<1>3. CASE BootstrapEvent
  <2>1. PICK i \in DOMAIN Projectors : db' = Projected(db, Projectors[i], db.cursor[Projectors[i]] + 1)
    BY <1>3 DEF BootstrapEvent
  <2> QED
    BY <1>0, <2>1 DEF Projected, Rows
<1>4. CASE \E p \in Projector : Upgrade(p)
  BY <1>0, <1>4 DEF Upgrade, Rows
<1>5. CASE \/ \E id \in CommandId, c \in Command : Dispatch(id, c)
           \/ TakeEnvelope \/ AnswerFromReceipt \/ DecideCommand \/ AppendEvent \/ RunProjector
           \/ RecordAcceptance \/ AttemptFails \/ PublishEvent \/ ReconcileEvent
           \/ FinishReconcile \/ ReconcileFails \/ Answer \/ Crash \/ Start \/ FinishBootstrap
           \/ UNCHANGED vars
  <2>1. db' = db
    BY <1>5 DEF Dispatch, TakeEnvelope, AnswerFromReceipt, DecideCommand, AppendEvent,
      RunProjector, RecordAcceptance, AttemptFails, PublishEvent, ReconcileEvent,
      FinishReconcile, ReconcileFails, Answer, Crash, Start, FinishBootstrap, vars, LocalStep,
      durable
  <2> QED
    BY <2>1
<1> QED
  BY <1>1, <1>2, <1>3, <1>4, <1>5 DEF Next, ProcessEnvelope

\* The working copy is the committed rows but for three steps of a transaction.
LEMMA TxFootprint ==
    ASSUME TypeInv, [Next]_vars
    PROVE  \/ AppendEvent \/ RunProjector \/ RecordAcceptance
           \/ worker'.tx = worker.tx
           \/ worker'.tx = db'
<1>0. worker \in Worker
  BY DEF TypeInv, TypeOK
<1>1. CASE \/ Answer \/ Crash \/ BootstrapEvent \/ FinishBootstrap
           \/ \E p \in Projector : Upgrade(p)
  <2>1. ASSUME NEW rows, NEW model PROVE Resting(rows, model).tx = rows
    BY DEF Resting
  <2>2. CASE Answer \/ Crash \/ FinishBootstrap
    <3>1. db' = db /\ \E model : worker' = Resting(db, model)
      BY <2>2, Zenon DEF Answer, Crash, FinishBootstrap, durable
    <3> QED
      BY <2>1, <3>1
  <2>3. CASE BootstrapEvent \/ \E p \in Projector : Upgrade(p)
    <3>1. worker' = Resting(db', commandReadModel)
      BY <2>3 DEF BootstrapEvent, Upgrade
    <3> QED
      BY <2>1, <3>1
  <2> QED
    BY <1>1, <2>2, <2>3
<1>2. CASE AttemptFails \/ CommitReportsFailure
  BY <1>0, <1>2 DEF AttemptFails, CommitReportsFailure, FailWith, LocalStep, Worker
<1>3. CASE DecideCommand
  BY <1>0, <1>3 DEF DecideCommand, FailWith, LocalStep, Worker
<1>4. CASE TakeEnvelope \/ AnswerFromReceipt \/ Commit \/ PublishEvent \/ ReconcileEvent
           \/ FinishReconcile \/ ReconcileFails
  <2>1. worker'.tx = worker.tx
    BY <1>0, <1>4 DEF TakeEnvelope, AnswerFromReceipt, Commit, PublishEvent, ReconcileEvent,
      FinishReconcile, ReconcileFails, Worker
  <2> QED
    BY <2>1
<1>5. CASE \/ \E id \in CommandId, c \in Command : Dispatch(id, c)
           \/ RecordRejection \/ Start \/ UNCHANGED vars
  <2>1. worker' = worker
    BY <1>5 DEF Dispatch, RecordRejection, Start, vars
  <2> QED
    BY <2>1
<1> QED
  BY <1>1, <1>2, <1>3, <1>4, <1>5 DEF Next, ProcessEnvelope

\* What AppendEvent, RunProjector and RecordAcceptance do to the working copy.
LEMMA TxSteps ==
    ASSUME TypeInv
    PROVE  /\ AppendEvent =>
                /\ worker'.tx.events =
                      Append(worker.tx.events, [commandId |-> worker.commandId,
                                                event |-> Head(worker.planned)])
                /\ worker'.tx.trace =
                      Append(worker.tx.trace,
                             ApplyAll(worker.tx.trace[Len(worker.tx.trace)],
                                      Head(worker.planned)))
                /\ worker'.tx.receipts = worker.tx.receipts
                /\ worker'.tx.tables = worker.tx.tables
                /\ worker'.tx.cursor = worker.tx.cursor
           /\ RunProjector =>
                /\ worker'.tx = Projected(worker.tx, Projectors[worker.projectorIndex],
                                          Len(worker.tx.events))
                /\ worker'.tx.events = worker.tx.events
                /\ worker'.tx.trace = worker.tx.trace
                /\ worker'.tx.receipts = worker.tx.receipts
           /\ RecordAcceptance =>
                /\ worker'.tx.events = worker.tx.events
                /\ worker'.tx.trace = worker.tx.trace
                /\ worker'.tx.tables = worker.tx.tables
                /\ worker'.tx.cursor = worker.tx.cursor
                /\ worker'.tx.receipts =
                      [worker.tx.receipts EXCEPT ![worker.commandId] =
                          Receipt("accepted", Len(worker.tx.events))]
<1>0. worker \in Worker /\ worker.tx \in Rows
  BY DEF TypeInv, TypeOK, Worker
<1>1. ASSUME RunProjector
      PROVE  worker'.tx = Projected(worker.tx, Projectors[worker.projectorIndex],
                                    Len(worker.tx.events))
  BY <1>0, <1>1 DEF RunProjector, Worker
<1>2. ASSUME NEW p, NEW n
      PROVE  /\ Projected(worker.tx, p, n).events = worker.tx.events
             /\ Projected(worker.tx, p, n).trace = worker.tx.trace
             /\ Projected(worker.tx, p, n).receipts = worker.tx.receipts
  BY <1>0 DEF Projected, Rows
<1>3. ASSUME AppendEvent
      PROVE  worker'.tx =
               [worker.tx EXCEPT
                 !.events = Append(worker.tx.events, [commandId |-> worker.commandId,
                                                      event |-> Head(worker.planned)]),
                 !.trace = Append(worker.tx.trace,
                             ApplyAll(worker.tx.trace[Len(worker.tx.trace)],
                                      Head(worker.planned)))]
  BY <1>0, <1>3 DEF AppendEvent, Worker
<1>4. ASSUME RecordAcceptance
      PROVE  worker'.tx =
               [worker.tx EXCEPT !.receipts =
                  [worker.tx.receipts EXCEPT ![worker.commandId] =
                      Receipt("accepted", Len(worker.tx.events))]]
  BY <1>0, <1>4 DEF RecordAcceptance, Worker
<1>5. AppendEvent =>
        /\ worker'.tx.events =
              Append(worker.tx.events, [commandId |-> worker.commandId,
                                        event |-> Head(worker.planned)])
        /\ worker'.tx.trace =
              Append(worker.tx.trace, ApplyAll(worker.tx.trace[Len(worker.tx.trace)],
                                               Head(worker.planned)))
        /\ worker'.tx.receipts = worker.tx.receipts
        /\ worker'.tx.tables = worker.tx.tables
        /\ worker'.tx.cursor = worker.tx.cursor
  BY <1>0, <1>3 DEF Rows
<1>6. RecordAcceptance =>
        /\ worker'.tx.events = worker.tx.events
        /\ worker'.tx.trace = worker.tx.trace
        /\ worker'.tx.tables = worker.tx.tables
        /\ worker'.tx.cursor = worker.tx.cursor
        /\ worker'.tx.receipts =
              [worker.tx.receipts EXCEPT ![worker.commandId] =
                  Receipt("accepted", Len(worker.tx.events))]
  BY <1>0, <1>4 DEF Rows
<1> QED
  BY <1>1, <1>2, <1>5, <1>6

\* The history of the tables grows with the log.
LEMMA TraceMatchesLogStep == TypeInv /\ [Next]_vars => TraceMatchesLog'
<1> SUFFICES ASSUME TypeInv, [Next]_vars PROVE TraceMatchesLog'
  OBVIOUS
<1>0. db \in Rows /\ worker.tx \in Rows /\ TraceMatchesLog
  BY DEF TypeInv, TypeOK, Worker
<1>1. Len(db'.trace) = Len(db'.events) + 1
  <2>1. RecordRejection => db'.events = db.events /\ db'.trace = db.trace
    BY <1>0 DEF RecordRejection, Rows
  <2> QED
    BY <1>0, <2>1, LogFootprint DEF TraceMatchesLog
<1>2. Len(worker'.tx.trace) = Len(worker'.tx.events) + 1
  <2>1. CASE AppendEvent
    <3> DEFINE row == [commandId |-> worker.commandId, event |-> Head(worker.planned)]
               next == ApplyAll(worker.tx.trace[Len(worker.tx.trace)], Head(worker.planned))
    <3>1. worker'.tx.events = Append(worker.tx.events, row)
          /\ worker'.tx.trace = Append(worker.tx.trace, next)
      BY <2>1, TxSteps
    <3>2. worker.tx.events \in Seq([commandId : CommandId, event : Event])
          /\ worker.tx.trace \in Seq(Tables)
      BY <1>0, RowsType
    <3> HIDE DEF row, next
    <3>3. Len(worker'.tx.events) = Len(worker.tx.events) + 1
          /\ Len(worker'.tx.trace) = Len(worker.tx.trace) + 1
      BY <3>1, <3>2
    <3> QED
      BY <1>0, <3>3 DEF TraceMatchesLog
  <2>2. CASE RunProjector \/ RecordAcceptance
    BY <1>0, <2>2, TxSteps DEF TraceMatchesLog
  <2>3. CASE worker'.tx = worker.tx \/ worker'.tx = db'
    BY <1>0, <1>1, <2>3 DEF TraceMatchesLog
  <2> QED
    BY <2>1, <2>2, <2>3, TxFootprint
<1> QED
  BY <1>1, <1>2 DEF TraceMatchesLog

\* An open transaction extends the committed log by events of its command.
LEMMA TxExtendsLogStep == TypeInv /\ [Next]_vars => TxExtendsLog'
<1> SUFFICES ASSUME TypeInv, [Next]_vars PROVE TxExtendsLog'
  OBVIOUS
<1>0. /\ db \in Rows /\ worker \in Worker /\ worker.tx \in Rows /\ TxExtendsLog
      /\ Len(db.events) \in Nat /\ Len(worker.tx.events) \in Nat
  BY RowsType DEF TypeInv, TypeOK, Worker
<1>1. CASE DecideCommand
  <2>1. CASE phase' = "reconcile"
    BY <2>1 DEF TxExtendsLog
  <2>2. CASE phase' # "reconcile"
    <3>1. phase' = "append" /\ db' = db /\ worker'.tx = db
          /\ worker'.commandId = worker.commandId
          /\ db.receipts[worker.commandId].status = "none"
      BY <1>0, <1>1, <2>2 DEF DecideCommand, FailWith, LocalStep, Worker
    <3> QED
      BY <1>0, <3>1 DEF TxExtendsLog
  <2> QED
    BY <2>1, <2>2
<1>2. CASE AppendEvent
  <2> DEFINE row == [commandId |-> worker.commandId, event |-> Head(worker.planned)]
  <2>1. phase = "append" /\ phase' = "project" /\ db' = db
        /\ worker'.commandId = worker.commandId
    BY <1>0, <1>2 DEF AppendEvent, LocalStep, Worker
  <2>2. worker'.tx.events = Append(worker.tx.events, row)
        /\ worker'.tx.receipts = worker.tx.receipts
    BY <1>2, TxSteps
  <2>3. worker.tx.events \in Seq([commandId : CommandId, event : Event])
        /\ row.commandId = worker.commandId
    BY <1>0, RowsType
  <2> HIDE DEF row
  <2>4. /\ Len(worker'.tx.events) = Len(worker.tx.events) + 1
        /\ \A i \in 1..Len(worker.tx.events) : worker'.tx.events[i] = worker.tx.events[i]
        /\ worker'.tx.events[Len(worker.tx.events) + 1] = row
    BY <2>2, <2>3
  <2> QED
    BY <1>0, <2>1, <2>2, <2>3, <2>4 DEF TxExtendsLog
<1>3. CASE RunProjector
  <2>1. phase' \in {"append", "project"} /\ phase = "project" /\ db' = db
        /\ worker'.commandId = worker.commandId
    BY <1>0, <1>3 DEF RunProjector, LocalStep, Worker
  <2>2. worker'.tx.events = worker.tx.events /\ worker'.tx.receipts = worker.tx.receipts
    BY <1>3, TxSteps
  <2> QED
    BY <1>0, <2>1, <2>2 DEF TxExtendsLog
<1>4. CASE RecordAcceptance
  <2>1. phase' = "commit" /\ phase = "append" /\ db' = db
        /\ worker'.commandId = worker.commandId
    BY <1>0, <1>4 DEF RecordAcceptance, LocalStep, Worker
  <2>2. worker'.tx.events = worker.tx.events
        /\ worker'.tx.receipts = [worker.tx.receipts EXCEPT ![worker.commandId] =
                                     Receipt("accepted", Len(worker.tx.events))]
    BY <1>4, TxSteps
  <2> QED
    BY <1>0, <2>1, <2>2 DEF TxExtendsLog
<1>5. CASE (\E id \in CommandId, c \in Command : Dispatch(id, c)) \/ UNCHANGED vars
  <2>1. phase' = phase /\ db' = db /\ worker' = worker
    BY <1>5 DEF Dispatch, vars, durable
  <2> QED
    BY <1>0, <2>1 DEF TxExtendsLog
<1>6. CASE TakeEnvelope \/ AnswerFromReceipt \/ AttemptFails \/ Commit \/ CommitReportsFailure
           \/ PublishEvent \/ ReconcileEvent \/ FinishReconcile \/ ReconcileFails
           \/ RecordRejection \/ Answer \/ Crash \/ Start \/ BootstrapEvent \/ FinishBootstrap
           \/ \E p \in Projector : Upgrade(p)
  <2>1. phase' \in {"down", "bootstrap", "idle", "receipt", "publish", "reconcile", "reject",
                    "answer"}
    BY <1>6 DEF TakeEnvelope, AnswerFromReceipt, AttemptFails, Commit, CommitReportsFailure,
      PublishEvent, ReconcileEvent, FinishReconcile, ReconcileFails, RecordRejection, Answer,
      Crash, Start, BootstrapEvent, FinishBootstrap, Upgrade, FailWith
  <2> QED
    BY <2>1 DEF TxExtendsLog
<1> QED
  BY <1>1, <1>2, <1>3, <1>4, <1>5, <1>6 DEF Next, ProcessEnvelope

\* A transaction that appends or commits has events, a publication has an outbox,
\* and a bootstrap replays up to positions of the log.
LEMMA WorkAheadStep == TypeInv /\ [Next]_vars => WorkAhead'
<1> SUFFICES ASSUME TypeInv, [Next]_vars PROVE WorkAhead'
  OBVIOUS
<1>0. /\ db \in Rows /\ worker \in Worker /\ worker.tx \in Rows /\ worker.outbox \in Seq(Nat)
      /\ worker.startSequence \in Nat /\ life \in Life /\ WorkAhead
      /\ Len(db.events) \in Nat /\ Len(worker.tx.events) \in Nat
  BY RowsType DEF TypeInv, TypeOK, Worker
<1>1. CASE DecideCommand
  <2>1. phase' = "reconcile" \/ (phase' = "append" /\ worker'.planned # <<>>)
    BY <1>0, <1>1 DEF DecideCommand, FailWith, Worker
  <2> QED
    BY <2>1 DEF WorkAhead
<1>2. CASE AppendEvent
  <2>1. phase' = "project" /\ db' = db
    BY <1>2 DEF AppendEvent, LocalStep
  <2>2. Len(worker'.tx.events) = Len(worker.tx.events) + 1
    <3> DEFINE row == [commandId |-> worker.commandId, event |-> Head(worker.planned)]
    <3>1. worker'.tx.events = Append(worker.tx.events, row)
      BY <1>2, TxSteps
    <3>2. worker.tx.events \in Seq([commandId : CommandId, event : Event])
      BY <1>0, RowsType
    <3> HIDE DEF row
    <3> QED
      BY <3>1, <3>2
  <2>3. Len(worker.tx.events) >= Len(db.events)
    BY <1>2 DEF AppendEvent, TypeInv, TxExtendsLog
  <2> QED
    BY <1>0, <2>1, <2>2, <2>3 DEF WorkAhead
<1>3. CASE RunProjector
  <2>1. phase' \in {"append", "project"} /\ db' = db /\ worker'.tx.events = worker.tx.events
        /\ phase = "project"
    BY <1>3, TxSteps DEF RunProjector, LocalStep
  <2> QED
    BY <1>0, <2>1 DEF WorkAhead
<1>4. CASE RecordAcceptance
  <2>1. phase' = "commit" /\ db' = db /\ worker'.tx.events = worker.tx.events
        /\ phase = "append" /\ worker.planned = <<>>
    BY <1>4, TxSteps DEF RecordAcceptance, LocalStep
  <2> QED
    BY <1>0, <2>1 DEF WorkAhead
<1>5. CASE Commit
  <2>1. phase' = "publish"
        /\ worker'.outbox = Sequences(Len(db.events) + 1, Len(worker.tx.events))
    BY <1>0, <1>5 DEF Commit, Worker
  <2>2. Len(db.events) + 1 \in Nat /\ Len(db.events) + 1 <= Len(worker.tx.events)
    BY <1>0, <1>5 DEF Commit, WorkAhead
  <2>3. worker'.outbox # <<>>
    BY <1>0, <2>1, <2>2, SequencesType
  <2> QED
    BY <2>1, <2>3 DEF WorkAhead
<1>6. CASE PublishEvent
  <2>1. phase' \in {"publish", "answer", "reject"}
        /\ (phase' = "publish" => Tail(worker.outbox) # <<>>)
        /\ worker'.outbox = Tail(worker.outbox)
    BY <1>0, <1>6 DEF PublishEvent, Worker
  <2> QED
    BY <2>1 DEF WorkAhead
<1>7. CASE FinishReconcile
  <2>1. phase' \in {"publish", "reject"}
        /\ (phase' = "publish" => worker.startSequence < Len(db.events))
        /\ worker'.outbox = Sequences(worker.startSequence + 1, LastRead(worker.startSequence))
    BY <1>0, <1>7 DEF FinishReconcile, Worker
  <2>2. worker.startSequence < Len(db.events) => worker.startSequence < LastRead(worker.startSequence)
        /\ LastRead(worker.startSequence) \in Nat
    BY <1>0, LastReadType DEF TypeInv
  <2>3. phase' = "publish" => worker'.outbox # <<>>
    <3> SUFFICES ASSUME phase' = "publish" PROVE worker'.outbox # <<>>
      OBVIOUS
    <3>1. worker.startSequence + 1 \in Nat
          /\ worker.startSequence + 1 <= LastRead(worker.startSequence)
      BY <1>0, <2>1, <2>2
    <3> QED
      BY <2>1, <2>2, <3>1, SequencesType
  <2> QED
    BY <2>1, <2>3 DEF WorkAhead
<1>8. CASE Start
  <2>1. phase' = "bootstrap" /\ db' = db
        /\ \A p \in Projector : life'.replayTo[p] = LastRead(db.cursor[p])
    BY <1>0, <1>8 DEF Start, durable, Life
  <2>2. \A p \in Projector : LastRead(db.cursor[p]) <= Len(db.events)
    BY <1>0, LastReadType, RowsType DEF TypeInv
  <2> QED
    BY <2>1, <2>2 DEF WorkAhead
<1>9. CASE BootstrapEvent
  <2>1. phase' = "bootstrap" /\ phase = "bootstrap" /\ life' = life
    BY <1>9 DEF BootstrapEvent
  <2>2. db'.events = db.events
    BY <1>0, <1>9, <2>1, LogFootprint DEF RecordRejection
  <2> QED
    BY <1>0, <2>1, <2>2 DEF WorkAhead
<1>10. CASE TakeEnvelope \/ AnswerFromReceipt \/ AttemptFails \/ CommitReportsFailure
            \/ ReconcileEvent \/ ReconcileFails \/ RecordRejection \/ Answer \/ Crash
            \/ FinishBootstrap \/ \E p \in Projector : Upgrade(p)
  <2>1. phase' \in {"down", "idle", "receipt", "reconcile", "reject", "answer"}
    BY <1>10 DEF TakeEnvelope, AnswerFromReceipt, AttemptFails, CommitReportsFailure,
      ReconcileEvent, ReconcileFails, RecordRejection, Answer, Crash, FinishBootstrap, Upgrade,
      FailWith
  <2> QED
    BY <2>1 DEF WorkAhead
<1>11. CASE (\E id \in CommandId, c \in Command : Dispatch(id, c)) \/ UNCHANGED vars
  <2>1. phase' = phase /\ db' = db /\ worker' = worker /\ life' = life
    BY <1>11 DEF Dispatch, vars, durable
  <2> QED
    BY <1>0, <2>1 DEF WorkAhead
<1> QED
  BY <1>1, <1>2, <1>3, <1>4, <1>5, <1>6, <1>7, <1>8, <1>9, <1>10, <1>11 DEF Next, ProcessEnvelope

\* The whole invariant is inductive ...
LEMMA TypeInvStep == TypeInv /\ [Next]_vars => TypeInv'
BY TypeStep, QueueIssuedStep, TraceMatchesLogStep, TxExtendsLogStep, WorkAheadStep,
   WaitingIsQueuedStep DEF TypeInv

\* ... and so holds in every reachable state.
LEMMA TypeInvAlways == Spec => []TypeInv
<1>1. Init => TypeInv
  BY TypeInit
<1>2. TypeInv /\ [Next]_vars => TypeInv'
  BY TypeInvStep
<1> QED
  BY <1>1, <1>2, PTL DEF Spec

\* Type correctness of the engine: whatever fails, crashes or is retried,
\* every variable keeps a value of its kind; in particular processEnvelope
\* never answers a caller that is not waiting.
THEOREM TypeCorrect == Spec => []TypeOK
<1>1. TypeInv => TypeOK
  BY DEF TypeInv
<1> QED
  BY <1>1, TypeInvAlways, PTL

-----------------------------------------------------------------------------
(* What callers of the engine can rely on: a command identifier takes      *)
(* effect at most once and all at once, an acknowledged command stays, and *)
(* the engine implements CommandLog.  These need to know what              *)
(* processEnvelope is about to tell its caller and what the receipts say   *)
(* at that moment: OutcomeMatchesReceipt.                                  *)

\* The outcome the worker carries is open until the command is decided; an
\* acceptance repeats the receipt, a rejection has no receipt yet.
OutcomeMatchesReceipt ==
    /\ phase \in {"down", "bootstrap", "idle", "receipt", "append", "project", "commit"} =>
          worker.result.kind = "none"
    /\ worker.result.kind = "accepted" =>
          db.receipts[worker.commandId] = Receipt("accepted", worker.result.sequence)
    /\ worker.result.kind = "invariant" /\ phase \in {"reconcile", "publish", "reject"} =>
          db.receipts[worker.commandId].status = "none"

SafetyInv == TypeInv /\ OutcomeMatchesReceipt /\ ReceiptsMatchLog /\ AcksAreDurable

\* The parts of the state these proofs look at.
LEMMA Parts ==
    ASSUME TypeInv
    PROVE  /\ db \in Rows /\ worker \in Worker /\ worker.tx \in Rows
           /\ db.receipts \in [CommandId -> [status : {"none", "accepted", "rejected"},
                                             resultSequence : Nat]]
           /\ worker.result \in [kind : {"none", "accepted", "previouslyRejected", "invariant",
                                         "persistence"}, sequence : Nat]
           /\ Len(db.events) \in Nat /\ Len(worker.tx.events) \in Nat
           /\ Busy => worker.commandId \in CommandId
BY RowsType DEF TypeInv, TypeOK, Worker, Rows, QueueIssued

\* A commit adds the receipt of its command, a recorded rejection another.
LEMMA CommitRows ==
    ASSUME TypeInv, phase = "commit", db' = worker.tx
    PROVE  /\ worker.commandId \in CommandId
           /\ db.receipts[worker.commandId].status = "none"
           /\ db'.receipts = [db.receipts EXCEPT ![worker.commandId] =
                                 Receipt("accepted", Len(db'.events))]
           /\ Len(db'.events) > Len(db.events)
           /\ \A i \in 1..Len(db.events) : db'.events[i] = db.events[i]
           /\ \A i \in (Len(db.events) + 1)..Len(db'.events) :
                 db'.events[i].commandId = worker.commandId
BY Parts DEF TypeInv, TxExtendsLog, WorkAhead, Busy

\* A recorded rejection changes the receipt of its command only, or nothing.
LEMMA RejectionRows ==
    ASSUME TypeInv, OutcomeMatchesReceipt, RecordRejection
    PROVE  /\ worker.commandId \in CommandId
           /\ db'.events = db.events /\ db'.trace = db.trace
           /\ \/ db' = db
              \/ /\ db.receipts[worker.commandId].status = "none"
                 /\ db'.receipts = [db.receipts EXCEPT ![worker.commandId] =
                                       Receipt("rejected", commandReadModel.snapshotSequence)]
<1>1. worker.commandId \in CommandId
  BY Parts DEF RecordRejection, Busy
<1>2. CASE db' = db
  BY <1>1, <1>2
<1>3. CASE db' # db
  <2>1. worker.result.kind = "invariant" /\ phase = "reject"
        /\ db' = [db EXCEPT !.receipts = [db.receipts EXCEPT ![worker.commandId] =
                     Receipt("rejected", commandReadModel.snapshotSequence)]]
    BY <1>3 DEF RecordRejection
  <2>2. db.receipts[worker.commandId].status = "none"
    BY <2>1 DEF OutcomeMatchesReceipt
  <2> QED
    BY <1>1, <2>1, <2>2, Parts DEF Rows
<1> QED
  BY <1>2, <1>3

\* An accepted receipt is never touched again.
LEMMA AcceptanceStays ==
    ASSUME TypeInv, OutcomeMatchesReceipt, [Next]_vars, NEW id \in CommandId,
           db.receipts[id].status = "accepted"
    PROVE  db'.receipts[id] = db.receipts[id]
<1>1. CASE phase = "commit" /\ db' = worker.tx
  BY <1>1, CommitRows, Parts
<1>2. CASE RecordRejection
  BY <1>2, RejectionRows, Parts
<1>3. CASE db'.receipts = db.receipts
  BY <1>3
<1> QED
  BY <1>1, <1>2, <1>3, LogFootprint

\* Every step keeps outcome and receipt of the current command in agreement.
LEMMA OutcomeStep == TypeInv /\ OutcomeMatchesReceipt /\ [Next]_vars => OutcomeMatchesReceipt'
<1> SUFFICES ASSUME TypeInv, OutcomeMatchesReceipt, [Next]_vars
             PROVE  OutcomeMatchesReceipt'
  OBVIOUS
<1>0. /\ db \in Rows /\ worker \in Worker
      /\ db.receipts \in [CommandId -> [status : {"none", "accepted", "rejected"},
                                        resultSequence : Nat]]
      /\ Busy => worker.commandId \in CommandId
  BY Parts
<1>1. CASE TakeEnvelope
  BY <1>0, <1>1 DEF TakeEnvelope, durable, OutcomeMatchesReceipt, Worker
<1>2. CASE AnswerFromReceipt
  <2> DEFINE receipt == db.receipts[worker.commandId]
  <2>1. phase' = "answer" /\ db' = db /\ worker'.commandId = worker.commandId
        /\ worker'.result = IF receipt.status = "accepted"
                            THEN Result("accepted", receipt.resultSequence)
                            ELSE Result("previouslyRejected", 0)
    BY <1>0, <1>2 DEF AnswerFromReceipt, LocalStep, Worker
  <2>2. receipt \in [status : {"none", "accepted", "rejected"}, resultSequence : Nat]
    BY <1>0, <1>2 DEF AnswerFromReceipt, Busy
  <2>3. receipt.status = "accepted" => receipt = Receipt("accepted", receipt.resultSequence)
    BY <2>2 DEF Receipt
  <2> QED
    BY <2>1, <2>3 DEF OutcomeMatchesReceipt, Result
<1>3. CASE DecideCommand
  <2>1. db' = db /\ worker'.commandId = worker.commandId
        /\ db.receipts[worker.commandId].status = "none"
        /\ \/ phase' = "reconcile" /\ worker'.result = Result("invariant", 0)
           \/ phase' = "append" /\ worker'.result = worker.result
    BY <1>0, <1>3 DEF DecideCommand, FailWith, LocalStep, Worker
  <2>2. worker.result.kind = "none"
    BY <1>3 DEF DecideCommand, OutcomeMatchesReceipt
  <2> QED
    BY <2>1, <2>2 DEF OutcomeMatchesReceipt, Result
<1>4. CASE AppendEvent \/ RunProjector \/ RecordAcceptance
  <2>1. phase' \in {"append", "project", "commit"} /\ worker'.result = worker.result
        /\ phase \in {"append", "project"}
    BY <1>0, <1>4 DEF AppendEvent, RunProjector, RecordAcceptance, Worker
  <2> QED
    BY <2>1 DEF OutcomeMatchesReceipt
<1>5. CASE AttemptFails
  <2>1. db' = db /\ phase' = "reconcile" /\ worker'.commandId = worker.commandId
        /\ \/ worker'.result = Result("persistence", 0)
           \/ /\ worker'.result = Result("invariant", 0)
              /\ db.receipts[worker.commandId].status = "none"
    BY <1>0, <1>5 DEF AttemptFails, FailWith, LocalStep, Worker
  <2> QED
    BY <2>1 DEF OutcomeMatchesReceipt, Result
<1>6. CASE Commit
  <2>1. phase = "commit" /\ db' = worker.tx /\ phase' = "publish"
        /\ worker'.commandId = worker.commandId
        /\ worker'.result = Result("accepted", Len(worker.tx.events))
    BY <1>0, <1>6 DEF Commit, Worker
  <2>2. db'.receipts[worker.commandId] = Receipt("accepted", Len(worker.tx.events))
    BY <1>0, <2>1, CommitRows
  <2> QED
    BY <2>1, <2>2 DEF OutcomeMatchesReceipt, Result
<1>7. CASE CommitReportsFailure
  <2>1. phase' = "reconcile" /\ worker'.result = Result("persistence", 0)
    BY <1>0, <1>7 DEF CommitReportsFailure, FailWith, Worker
  <2> QED
    BY <2>1 DEF OutcomeMatchesReceipt, Result
<1>8. CASE PublishEvent \/ ReconcileEvent \/ FinishReconcile \/ ReconcileFails
  <2>1. db' = db /\ worker'.result = worker.result /\ worker'.commandId = worker.commandId
        /\ phase \in {"publish", "reconcile"}
        /\ phase' \in {"publish", "reconcile", "reject", "answer"}
    BY <1>0, <1>8 DEF PublishEvent, ReconcileEvent, FinishReconcile, ReconcileFails, LocalStep,
      durable, Worker
  <2> QED
    BY <2>1 DEF OutcomeMatchesReceipt
<1>9. CASE RecordRejection
  <2>1. worker' = worker /\ phase' = "answer"
        /\ worker.result.kind \in {"invariant", "persistence"}
    BY <1>9 DEF RecordRejection
  <2> QED
    BY <2>1 DEF OutcomeMatchesReceipt
<1>10. CASE Answer \/ Crash \/ BootstrapEvent \/ FinishBootstrap
            \/ \E p \in Projector : Upgrade(p)
  <2>1. \E rows, model : worker' = Resting(rows, model)
    BY <1>10, Zenon DEF Answer, Crash, BootstrapEvent, FinishBootstrap, Upgrade
  <2>2. worker'.result.kind = "none"
    BY <2>1 DEF Resting, Result
  <2> QED
    BY <2>2 DEF OutcomeMatchesReceipt
<1>11. CASE (\E id \in CommandId, c \in Command : Dispatch(id, c)) \/ Start \/ UNCHANGED vars
  <2>1. db' = db /\ worker' = worker
        /\ (phase' = phase \/ (phase = "down" /\ phase' = "bootstrap"))
    BY <1>11 DEF Dispatch, Start, vars, durable
  <2> QED
    BY <2>1 DEF OutcomeMatchesReceipt
<1> QED
  BY <1>1, <1>2, <1>3, <1>4, <1>5, <1>6, <1>7, <1>8, <1>9, <1>10, <1>11 DEF Next, ProcessEnvelope

\* What a commit adds to the log is the block of its command, and that of no
\* other.
LEMMA CommittedBlock ==
    ASSUME TypeInv, ReceiptsMatchLog, phase = "commit", db' = worker.tx, NEW id \in CommandId
    PROVE  IF id = worker.commandId
           THEN /\ EventsOf(id)' = FirstEventOf(id)'..Len(db'.events) /\ EventsOf(id)' # {}
                /\ FirstEventOf(id)' = Len(db.events) + 1
                /\ db'.receipts[id] = Receipt("accepted", Len(db'.events))
           ELSE EventsOf(id)' = EventsOf(id) /\ db'.receipts[id] = db.receipts[id]
<1> DEFINE first == Len(db.events) + 1
           last == Len(db'.events)
<1>1. /\ db.receipts[worker.commandId].status = "none" /\ worker.commandId \in CommandId
      /\ db'.receipts = [db.receipts EXCEPT ![worker.commandId] = Receipt("accepted", last)]
      /\ last > Len(db.events)
      /\ \A i \in 1..Len(db.events) : db'.events[i] = db.events[i]
      /\ \A i \in first..last : db'.events[i].commandId = worker.commandId
  BY CommitRows
<1>2. /\ Len(db.events) \in Nat /\ last \in Nat
      /\ DOMAIN db.events = 1..Len(db.events) /\ DOMAIN db'.events = 1..last
  BY Parts, RowsType, LenProperties
<1>3. CASE id = worker.commandId
  <2>1. EventsOf(id) = {}
    BY <1>1, <1>3 DEF ReceiptsMatchLog
  <2>2. EventsOf(id)' = first..last
    BY <1>1, <1>2, <1>3, <2>1 DEF EventsOf
  <2>3. first \in EventsOf(id)' /\ \A j \in EventsOf(id)' : first <= j
    BY <1>1, <1>2, <2>2
  <2>4. FirstEventOf(id)' \in EventsOf(id)'
        /\ \A j \in EventsOf(id)' : FirstEventOf(id)' <= j
    BY <2>3 DEF FirstEventOf
  <2>5. FirstEventOf(id)' = first
    BY <1>2, <2>2, <2>3, <2>4
  <2>6. db'.receipts[id] = Receipt("accepted", last)
    BY <1>1, <1>3, Parts
  <2> QED
    BY <1>3, <2>2, <2>3, <2>5, <2>6
<1>4. CASE id # worker.commandId
  <2>1. EventsOf(id)' = EventsOf(id)
    BY <1>1, <1>2, <1>4 DEF EventsOf
  <2>2. db'.receipts[id] = db.receipts[id]
    BY <1>1, <1>4, Parts
  <2> QED
    BY <1>4, <2>1, <2>2
<1> QED
  BY <1>3, <1>4

\* The block of a command is fixed once its receipt is: a commit writes all of
\* it, and no other step touches the log.
LEMMA ReceiptsMatchLogStep ==
    TypeInv /\ OutcomeMatchesReceipt /\ ReceiptsMatchLog /\ [Next]_vars => ReceiptsMatchLog'
<1> SUFFICES ASSUME TypeInv, OutcomeMatchesReceipt, ReceiptsMatchLog, [Next]_vars,
                    NEW id \in CommandId
             PROVE  LET receipt == db'.receipts[id] IN
                    /\ (receipt.status = "accepted") = (EventsOf(id)' # {})
                    /\ receipt.status = "accepted" =>
                          EventsOf(id)' = FirstEventOf(id)'..receipt.resultSequence
  BY DEF ReceiptsMatchLog
<1> DEFINE receipt == db.receipts[id]
<1>0. /\ (receipt.status = "accepted") <=> (EventsOf(id) # {})
      /\ receipt.status = "accepted" =>
            EventsOf(id) = FirstEventOf(id)..receipt.resultSequence
  BY DEF ReceiptsMatchLog
<1>1. ASSUME EventsOf(id)' = EventsOf(id) PROVE FirstEventOf(id)' = FirstEventOf(id)
  BY <1>1 DEF FirstEventOf
<1>2. ASSUME db'.events = db.events PROVE EventsOf(id)' = EventsOf(id)
  BY <1>2 DEF EventsOf
<1>3. CASE phase = "commit" /\ db' = worker.tx
  <2>1. CASE id = worker.commandId
    <3>1. /\ EventsOf(id)' = FirstEventOf(id)'..Len(db'.events) /\ EventsOf(id)' # {}
          /\ db'.receipts[id] = Receipt("accepted", Len(db'.events))
      BY <1>3, <2>1, CommittedBlock
    <3> QED
      BY <3>1 DEF Receipt
  <2>2. CASE id # worker.commandId
    BY <1>0, <1>1, <1>3, <2>2, CommittedBlock
  <2> QED
    BY <2>1, <2>2
<1>4. CASE RecordRejection
  <2>1. EventsOf(id)' = EventsOf(id)
    BY <1>2, <1>4, RejectionRows
  <2>2. CASE db'.receipts[id] = db.receipts[id]
    BY <1>0, <1>1, <2>1, <2>2
  <2>3. CASE db'.receipts[id] # db.receipts[id]
    <3>1. db.receipts[id].status = "none" /\ db'.receipts[id].status = "rejected"
      BY <1>4, <2>3, RejectionRows, Parts DEF Receipt
    <3> QED
      BY <1>0, <2>1, <3>1
  <2> QED
    BY <2>2, <2>3
<1>5. CASE db'.events = db.events /\ db'.receipts = db.receipts
  BY <1>0, <1>1, <1>2, <1>5
<1> QED
  BY <1>3, <1>4, <1>5, LogFootprint

\* No step contradicts what callers have been told.
LEMMA AcksAreDurableStep ==
    TypeInv /\ OutcomeMatchesReceipt /\ AcksAreDurable /\ [Next]_vars => AcksAreDurable'
<1> SUFFICES ASSUME TypeInv, OutcomeMatchesReceipt, AcksAreDurable, [Next]_vars, NEW ack \in acks'
             PROVE  db'.receipts[ack.commandId] = Receipt("accepted", ack.sequence)
  BY DEF AcksAreDurable
<1>0. \A a \in acks : a.commandId \in CommandId
                      /\ db.receipts[a.commandId] = Receipt("accepted", a.sequence)
  BY DEF TypeInv, TypeOK, AcksAreDurable
<1>1. CASE ack \in acks
  <2>2. db.receipts[ack.commandId] = Receipt("accepted", ack.sequence)
    BY <1>0, <1>1
  <2>1. db.receipts[ack.commandId].status = "accepted"
    BY <2>2 DEF Receipt
  <2> QED
    BY <1>0, <1>1, <2>1, AcceptanceStays
<1>2. CASE ack \notin acks
  <2>1. Answer
    BY <1>2 DEF Next, ProcessEnvelope, Dispatch, TakeEnvelope, AnswerFromReceipt, DecideCommand,
      AppendEvent, RunProjector, RecordAcceptance, AttemptFails, Commit, CommitReportsFailure,
      PublishEvent, ReconcileEvent, FinishReconcile, ReconcileFails, RecordRejection, Crash,
      Upgrade, Start, BootstrapEvent, FinishBootstrap, LocalStep, callers, vars
  <2>2. worker.result.kind = "accepted" /\ db' = db
        /\ ack = [commandId |-> worker.commandId, sequence |-> worker.result.sequence]
    BY <1>2, <2>1 DEF Answer, durable
  <2> QED
    BY <2>2 DEF OutcomeMatchesReceipt
<1> QED
  BY <1>1, <1>2

\* The safety invariant holds in every reachable state.
LEMMA SafetyInvAlways == Spec => []SafetyInv
<1>1. Init => SafetyInv
  <2> SUFFICES ASSUME Init PROVE SafetyInv
    OBVIOUS
  <2>1. worker.result.kind = "none" /\ db.events = <<>> /\ acks = {}
        /\ db.receipts = [id \in CommandId |-> NoReceipt]
    BY DEF Init, Resting, Result
  <2>2. \A id \in CommandId : EventsOf(id) = {}
    BY <2>1 DEF EventsOf
  <2>3. ReceiptsMatchLog
    BY <2>1, <2>2 DEF ReceiptsMatchLog, NoReceipt
  <2> QED
    BY <2>1, <2>3, TypeInit DEF SafetyInv, OutcomeMatchesReceipt, AcksAreDurable
<1>2. SafetyInv /\ [Next]_vars => SafetyInv'
  BY TypeInvStep, OutcomeStep, ReceiptsMatchLogStep, AcksAreDurableStep DEF SafetyInv
<1> QED
  BY <1>1, <1>2, PTL DEF Spec

\* A command identifier takes effect at most once and all at once: its events
\* are one block of the log, there exactly when its receipt says accepted.
\* This is what the receipt look-up of processEnvelope and the one transaction
\* around events, projections and receipt are for.
THEOREM CommandsTakeEffectOnce == Spec => []ReceiptsMatchLog
<1>1. SafetyInv => ReceiptsMatchLog
  BY DEF SafetyInv
<1> QED
  BY <1>1, SafetyInvAlways, PTL

\* What a caller of dispatch was told stays true, across crashes and retries.
THEOREM AcknowledgedCommandsStay == Spec => []AcksAreDurable
<1>1. SafetyInv => AcksAreDurable
  BY DEF SafetyInv
<1> QED
  BY <1>1, SafetyInvAlways, PTL

-----------------------------------------------------------------------------
(* The engine implements CommandLog. *)

\* The verdict a receipt stands for, by its status.
LEMMA VerdictOf ==
    ASSUME NEW receipt \in [status : {"none", "accepted", "rejected"}, resultSequence : Nat]
    PROVE  /\ receipt.status = "none" => Verdict(receipt) = Log!Open
           /\ receipt.status = "rejected" => Verdict(receipt) = Log!Rejected
           /\ receipt.status = "accepted" =>
                 Verdict(receipt) = Log!Accepted(receipt.resultSequence)
BY DEF Verdict, Log!Open, Log!Rejected, Log!Accepted

\* A commit is one Accept, a recorded rejection one Reject, an answer one
\* Acknowledge; every other step of the engine leaves the log as it is.
LEMMA StepRefines == SafetyInv /\ SafetyInv' /\ [Next]_vars => [Log!Next]_(Log!vars)
<1> SUFFICES ASSUME SafetyInv, SafetyInv', [Next]_vars PROVE [Log!Next]_(Log!vars)
  OBVIOUS
<1> DEFINE verdict == [id \in CommandId |-> Verdict(db.receipts[id])]
           id == worker.commandId
<1>0. TypeInv /\ OutcomeMatchesReceipt /\ TypeInv'
  BY DEF SafetyInv
<1>1. db.receipts \in [CommandId -> [status : {"none", "accepted", "rejected"},
                                     resultSequence : Nat]]
  BY <1>0, Parts
<1>2. CASE phase = "commit" /\ db' = worker.tx
  <2>1. /\ id \in CommandId /\ db.receipts[id].status = "none"
        /\ db'.receipts = [db.receipts EXCEPT ![id] = Receipt("accepted", Len(db'.events))]
        /\ Len(db'.events) > Len(db.events)
        /\ \A i \in 1..Len(db.events) : db'.events[i] = db.events[i]
        /\ \A i \in (Len(db.events) + 1)..Len(db'.events) : db'.events[i].commandId = id
    BY <1>0, <1>2, CommitRows
  <2>2. verdict[id] = Log!Open
    BY <1>1, <2>1, VerdictOf
  <2>3. Verdict(Receipt("accepted", Len(db'.events))) = Log!Accepted(Len(db'.events))
    BY DEF Verdict, Receipt, Log!Accepted
  <2>4. verdict' = [verdict EXCEPT ![id] = Log!Accepted(Len(db'.events))]
    BY <1>1, <2>1, <2>3
  <2>5. acks' = acks
    BY <1>2 DEF Next, ProcessEnvelope, Dispatch, TakeEnvelope, AnswerFromReceipt, DecideCommand,
      AppendEvent, RunProjector, RecordAcceptance, AttemptFails, Commit, CommitReportsFailure,
      PublishEvent, ReconcileEvent, FinishReconcile, ReconcileFails, RecordRejection, Crash,
      Upgrade, Start, BootstrapEvent, FinishBootstrap, Answer, LocalStep, callers, vars
  <2>6. Log!ExtendsFor(id, db.events, db'.events)
    BY <2>1 DEF Log!ExtendsFor
  <2>7. Log!Accept(id)
    BY <2>2, <2>4, <2>5, <2>6 DEF Log!Accept
  <2> QED
    BY <2>1, <2>7 DEF Log!Next
<1>3. CASE RecordRejection
  <2>1. /\ id \in CommandId /\ db'.events = db.events
        /\ \/ db' = db
           \/ /\ db.receipts[id].status = "none"
              /\ db'.receipts = [db.receipts EXCEPT ![id] =
                                    Receipt("rejected", commandReadModel.snapshotSequence)]
    BY <1>0, <1>3, RejectionRows
  <2>2. acks' = acks
    BY <1>3 DEF RecordRejection, callers
  <2>3. CASE db' = db
    BY <2>2, <2>3 DEF Log!vars
  <2>4. CASE db' # db
    <3>1. verdict[id] = Log!Open
      BY <1>1, <2>1, <2>4, VerdictOf
    <3>2. Verdict(Receipt("rejected", commandReadModel.snapshotSequence)) = Log!Rejected
      BY DEF Verdict, Receipt, Log!Rejected
    <3>3. verdict' = [verdict EXCEPT ![id] = Log!Rejected]
      BY <1>1, <2>1, <2>4, <3>2
    <3>4. Log!Reject(id)
      BY <2>1, <2>2, <3>1, <3>3 DEF Log!Reject
    <3> QED
      BY <2>1, <3>4 DEF Log!Next
  <2> QED
    BY <2>3, <2>4
<1>4. CASE db'.events = db.events /\ db'.receipts = db.receipts
  <2>1. verdict' = verdict
    BY <1>4
  <2>2. CASE acks' = acks
    BY <1>4, <2>1, <2>2 DEF Log!vars
  <2>3. CASE acks' # acks
    <3>1. Answer
      BY <2>3 DEF Next, ProcessEnvelope, Dispatch, TakeEnvelope, AnswerFromReceipt,
        DecideCommand, AppendEvent, RunProjector, RecordAcceptance, AttemptFails, Commit,
        CommitReportsFailure, PublishEvent, ReconcileEvent, FinishReconcile, ReconcileFails,
        RecordRejection, Crash, Upgrade, Start, BootstrapEvent, FinishBootstrap, LocalStep,
        callers, vars
    <3>2. /\ id \in CommandId /\ worker.result.kind = "accepted"
          /\ acks' = acks \cup {[commandId |-> id, sequence |-> worker.result.sequence]}
      BY <1>0, <2>3, <3>1, Parts DEF Answer, Busy
    <3>3. db.receipts[id] = Receipt("accepted", worker.result.sequence)
      BY <1>0, <3>2 DEF OutcomeMatchesReceipt
    <3>4. Verdict(Receipt("accepted", worker.result.sequence))
            = [status |-> "accepted", sequence |-> worker.result.sequence]
      BY DEF Verdict, Receipt
    <3>5. verdict[id].status = "accepted" /\ verdict[id].sequence = worker.result.sequence
      BY <3>2, <3>3, <3>4
    <3>6. Log!Acknowledge(id)
      BY <1>4, <2>1, <3>2, <3>5 DEF Log!Acknowledge
    <3> QED
      BY <3>2, <3>6 DEF Log!Next
  <2> QED
    BY <2>2, <2>3
<1> QED
  BY <1>0, <1>2, <1>3, <1>4, LogFootprint

\* Whatever the worker, the store and the process do, the engine is an
\* append-only log with one final verdict per command identifier, and its
\* acknowledgements repeat the verdict.
THEOREM EngineImplementsCommandLog == Spec => ImplementsCommandLog
<1>1. Init => Log!Init
  <2> SUFFICES ASSUME Init PROVE Log!Init
    OBVIOUS
  <2>1. db.events = <<>> /\ acks = {} /\ db.receipts = [id \in CommandId |-> NoReceipt]
    BY DEF Init
  <2>2. Verdict(NoReceipt) = Log!Open
    BY DEF Verdict, NoReceipt, Log!Open
  <2> QED
    BY <2>1, <2>2 DEF Log!Init
<1>2. SafetyInv /\ SafetyInv' /\ [Next]_vars => [Log!Next]_(Log!vars)
  BY StepRefines
<1> QED
  BY <1>1, <1>2, SafetyInvAlways, PTL DEF Spec, ImplementsCommandLog, Log!Spec

-----------------------------------------------------------------------------
(***************************************************************************)
(* What the engine keeps in agreement, for any constants: the tables of    *)
(* the projectors with the log, the read model commands are decided        *)
(* against with those tables, what was decided with the state it was       *)
(* decided on, and what was published with what was committed.             *)
(*                                                                         *)
(* CurrencyInv says how the parts relate while a transaction is open, a    *)
(* failed attempt is reconciled, events are published or projectors catch  *)
(* up.  It needs TypeInv and, for whole blocks of events, SafetyInv.       *)
(***************************************************************************)

\* The history of rows is the replay of their log.
TraceReplays(rows) ==
    /\ rows.trace[1] = EmptyTables
    /\ \A n \in 1..Len(rows.events) : rows.trace[n + 1] = ApplyAll(rows.trace[n], rows.events[n].event)

InTransaction == phase \in {"append", "project", "commit"}

\* A transaction keeps the history it found, and no cursor leaves the log.
RowsGrow ==
    /\ TraceReplays(db) /\ TraceReplays(worker.tx)
    /\ \A p \in Projector : db.cursor[p] <= Len(db.events)
                            /\ worker.tx.cursor[p] <= Len(worker.tx.events)
    /\ InTransaction =>
          \A n \in 1..(Len(db.events) + 1) : worker.tx.trace[n] = db.trace[n]

\* Tables are where their cursors say: in a transaction the projectors that
\* have not run yet are one event behind.
TablesFollow(rows) == \A p \in Projector : rows.tables[p] = rows.trace[rows.cursor[p] + 1][p]
ProjectorsInStep ==
    ~spent.cutOff =>
        /\ TablesFollow(db)
        /\ Serving => \A p \in Projector : db.cursor[p] = Len(db.events)
        /\ phase = "bootstrap" => \A p \in Projector : life.replayTo[p] = Len(db.events)
        /\ InTransaction =>
              /\ TablesFollow(worker.tx)
              /\ \A i \in DOMAIN Projectors :
                    worker.tx.cursor[Projectors[i]] =
                        IF phase = "project" /\ i >= worker.projectorIndex
                        THEN Len(worker.tx.events) - 1 ELSE Len(worker.tx.events)

\* The read model that will be adopted is as far as the transaction, or as far
\* as the reconciliation has come.
ModelAdvances ==
    LET snapshot == commandReadModel.snapshotSequence
        next == worker.nextReadModel.snapshotSequence
    IN
    /\ Serving => snapshot <= Len(db.events)
    /\ InTransaction \/ phase \in {"receipt", "reconcile"} => worker.startSequence = snapshot
    /\ InTransaction =>
          IF Len(worker.tx.events) > Len(db.events) THEN next = Len(worker.tx.events)
                                                    ELSE worker.nextReadModel = commandReadModel
    /\ phase = "reconcile" => snapshot <= next /\ next <= Len(db.events)

Informed == ~life.lostRead /\ ~spent.cutOff

\* A model is what a restart would load if the log ended at its sequence.
LoadedFrom(rows, model) == model.state = LoadReadModel(rows.trace[model.snapshotSequence + 1])
ModelFollows ==
    Informed /\ Serving =>
        /\ LoadedFrom(db, commandReadModel)
        /\ phase # "reconcile" => commandReadModel.snapshotSequence = Len(db.events)
        /\ InTransaction => LoadedFrom(worker.tx, worker.nextReadModel)
        /\ phase = "reconcile" => LoadedFrom(db, worker.nextReadModel)

Announced == published \o worker.outbox
Publication ==
    /\ phase # "publish" => worker.outbox = <<>>
    /\ ~Serving => published = <<>>
    /\ \A i \in DOMAIN Announced : Announced[i] <= commandReadModel.snapshotSequence
    /\ \A i, j \in DOMAIN Announced : i < j => Announced[i] < Announced[j]
    /\ Informed /\ Serving =>
          /\ life.bootSequence <= commandReadModel.snapshotSequence
          /\ Announced = Sequences(life.bootSequence + 1, commandReadModel.snapshotSequence)

\* What a transaction has written and what it has still planned are together
\* what the decider returned.
PlanInProgress ==
    InTransaction =>
        LET plan == Decide(issued[worker.commandId], commandReadModel.state)
            written == Len(worker.tx.events) - Len(db.events)
        IN
        /\ Len(plan) = written + Len(worker.planned)
        /\ \A i \in 1..written : worker.tx.events[Len(db.events) + i].event = plan[i]
        /\ \A i \in 1..Len(worker.planned) : worker.planned[i] = plan[written + i]
        /\ phase = "commit" => worker.planned = <<>>
Decisions ==
    /\ \A id \in CommandId : db.receipts[id].status # "none" => issued[id] # NoCommand
    /\ spent.lostReads = 0 => ~life.lostRead
    /\ PlanInProgress

CurrencyInv == RowsGrow /\ ProjectorsInStep /\ ModelAdvances /\ ModelFollows /\ Publication /\ Decisions

-----------------------------------------------------------------------------
(* Effects: what each step does to the parts CurrencyInv looks at. *)

\* A resting worker holds the committed rows and the adopted read model.
LEMMA RestingParts ==
    ASSUME NEW rows, NEW model
    PROVE  /\ Resting(rows, model).tx = rows
           /\ Resting(rows, model).outbox = <<>>
           /\ Resting(rows, model).planned = <<>>
           /\ Resting(rows, model).nextReadModel = model
BY DEF Resting

\* What leaving an attempt does to the worker's locals.
LEMMA FailWithEffect ==
    ASSUME TypeInv, NEW kind, NEW rows, FailWith(kind, rows)
    PROVE  /\ phase' = "reconcile"
           /\ worker'.tx = rows /\ worker'.nextReadModel = commandReadModel
           /\ worker'.startSequence = worker.startSequence
           /\ worker'.outbox = worker.outbox
           /\ worker'.commandId = worker.commandId
BY DEF TypeInv, TypeOK, FailWith, Worker

\* A spent fault leaves what is known of the reads of the log.
LEMMA SpendFaultEffect ==
    ASSUME TypeInv, SpendFault
    PROVE  spent'.lostReads = spent.lostReads /\ spent'.cutOff = spent.cutOff
BY DEF TypeInv, TypeOK, SpendFault, Spending

\* The worker remembers where the read model is when it takes an envelope.
LEMMA TakeEnvelopeEffect ==
    ASSUME TypeInv, TakeEnvelope
    PROVE  /\ phase = "idle" /\ phase' = "receipt"
           /\ UNCHANGED <<db, commandReadModel, published, issued, life, spent>>
           /\ worker'.startSequence = commandReadModel.snapshotSequence
           /\ worker'.tx = worker.tx /\ worker'.outbox = worker.outbox
BY DEF TypeInv, TypeOK, TakeEnvelope, Worker, durable, callers

\* An attempt begins with the committed rows and the adopted read model, or
\* ends at once.
LEMMA DecideCommandEffect ==
    ASSUME TypeInv, DecideCommand
    PROVE  /\ phase = "receipt"
           /\ UNCHANGED <<db, commandReadModel, published, issued, life, spent>>
           /\ worker'.startSequence = worker.startSequence /\ worker'.outbox = worker.outbox
           /\ worker'.commandId = worker.commandId
           /\ worker'.tx = db /\ worker'.nextReadModel = commandReadModel
           /\ \/ phase' = "reconcile"
              \/ /\ phase' = "append"
                 /\ worker'.planned = Decide(issued[worker.commandId], commandReadModel.state)
<1>1. worker \in Worker
  BY DEF TypeInv, TypeOK
<1>2. phase = "receipt"
      /\ UNCHANGED <<db, commandReadModel, published, issued, life, spent>>
  BY DEF DecideCommand, LocalStep, callers
<1>3. CASE FailWith("invariant", db)
  BY <1>2, <1>3, FailWithEffect
<1>4. CASE /\ worker' = [worker EXCEPT
                           !.planned = Decide(issued[worker.commandId], commandReadModel.state),
                           !.tx = db, !.nextReadModel = commandReadModel]
           /\ phase' = "append"
  BY <1>1, <1>2, <1>4 DEF Worker
<1> QED
  BY <1>3, <1>4 DEF DecideCommand

\* Appending projects the event on the model that will be adopted.
LEMMA AppendEventEffect ==
    ASSUME TypeInv, AppendEvent
    PROVE  /\ phase = "append" /\ phase' = "project" /\ worker.planned # <<>>
           /\ UNCHANGED <<db, commandReadModel, published, issued, life, spent>>
           /\ worker'.startSequence = worker.startSequence /\ worker'.outbox = worker.outbox
           /\ worker'.commandId = worker.commandId
           /\ worker'.planned = Tail(worker.planned)
           /\ worker'.projectorIndex = 1
           /\ worker'.nextReadModel.snapshotSequence = Len(worker.tx.events) + 1
           /\ worker'.nextReadModel.state =
                  Project(worker.nextReadModel.state, Head(worker.planned))
BY DEF TypeInv, TypeOK, AppendEvent, Worker, LocalStep, callers

\* A projector moves the working copy and then its successor is due.
LEMMA RunProjectorEffect ==
    ASSUME TypeInv, RunProjector
    PROVE  /\ phase = "project"
           /\ UNCHANGED <<db, commandReadModel, published, issued, life, spent>>
           /\ worker'.startSequence = worker.startSequence /\ worker'.outbox = worker.outbox
           /\ worker'.commandId = worker.commandId
           /\ worker'.planned = worker.planned
           /\ worker'.nextReadModel = worker.nextReadModel
           /\ IF worker.projectorIndex = Len(Projectors)
              THEN phase' = "append"
              ELSE phase' = "project" /\ worker'.projectorIndex = worker.projectorIndex + 1
BY DEF TypeInv, TypeOK, RunProjector, Worker, LocalStep, callers

\* The receipt is written when nothing is planned any more.
LEMMA RecordAcceptanceEffect ==
    ASSUME TypeInv, RecordAcceptance
    PROVE  /\ phase = "append" /\ phase' = "commit" /\ worker.planned = <<>>
           /\ UNCHANGED <<db, commandReadModel, published, issued, life, spent>>
           /\ worker'.startSequence = worker.startSequence /\ worker'.outbox = worker.outbox
           /\ worker'.commandId = worker.commandId
           /\ worker'.planned = worker.planned
           /\ worker'.nextReadModel = worker.nextReadModel
BY DEF TypeInv, TypeOK, RecordAcceptance, Worker, LocalStep, callers

\* An attempt that fails drops what it has written.
LEMMA AttemptFailsEffect ==
    ASSUME TypeInv, AttemptFails
    PROVE  /\ phase \in {"receipt", "append", "project", "commit"} /\ phase' = "reconcile"
           /\ UNCHANGED <<db, commandReadModel, published, issued, life>>
           /\ spent'.lostReads = spent.lostReads /\ spent'.cutOff = spent.cutOff
           /\ worker'.startSequence = worker.startSequence /\ worker'.outbox = worker.outbox
           /\ worker'.tx = db /\ worker'.nextReadModel = commandReadModel
<1>1. SpendFault /\ \E kind : FailWith(kind, db)
      /\ phase \in {"receipt", "append", "project", "commit"}
      /\ UNCHANGED <<db, commandReadModel, published, issued, life>>
  BY DEF AttemptFails, LocalStep, callers
<1> QED
  BY <1>1, FailWithEffect, SpendFaultEffect

\* A commit makes the working copy the database and adopts the model.
LEMMA CommitEffect ==
    ASSUME TypeInv, Commit
    PROVE  /\ phase = "commit" /\ phase' = "publish"
           /\ UNCHANGED <<published, issued, life, spent>>
           /\ db' = worker.tx /\ worker'.tx = worker.tx
           /\ commandReadModel' = worker.nextReadModel
           /\ worker'.outbox = Sequences(Len(db.events) + 1, Len(worker.tx.events))
BY DEF TypeInv, TypeOK, Commit, Worker, callers

\* A commit that reports a failure keeps the model of before.
LEMMA CommitReportsFailureEffect ==
    ASSUME TypeInv, CommitReportsFailure
    PROVE  /\ phase = "commit" /\ phase' = "reconcile"
           /\ UNCHANGED <<commandReadModel, published, issued, life>>
           /\ spent'.lostReads = spent.lostReads /\ spent'.cutOff = spent.cutOff
           /\ db' = worker.tx /\ worker'.tx = worker.tx
           /\ worker'.startSequence = worker.startSequence /\ worker'.outbox = worker.outbox
           /\ worker'.nextReadModel = commandReadModel
<1>1. SpendFault /\ FailWith("persistence", worker.tx) /\ phase = "commit"
      /\ db' = worker.tx /\ UNCHANGED <<commandReadModel, published, issued, life>>
  BY DEF CommitReportsFailure, callers
<1> QED
  BY <1>1, FailWithEffect, SpendFaultEffect

\* Publishing moves the head of the outbox to the subscribers.
LEMMA PublishEventEffect ==
    ASSUME TypeInv, PublishEvent
    PROVE  /\ phase = "publish"
           /\ UNCHANGED <<db, commandReadModel, issued, life, spent>>
           /\ published' = Append(published, Head(worker.outbox))
           /\ worker'.outbox = Tail(worker.outbox)
           /\ worker'.tx = worker.tx
           /\ \/ phase' = "publish"
              \/ phase' \in {"answer", "reject"} /\ worker'.outbox = <<>>
BY DEF TypeInv, TypeOK, PublishEvent, Worker, durable, callers

\* Reconciling projects the next event of the log.
LEMMA ReconcileEventEffect ==
    ASSUME TypeInv, ReconcileEvent
    PROVE  LET n == worker.nextReadModel.snapshotSequence + 1 IN
           /\ phase = "reconcile" /\ phase' = "reconcile"
           /\ UNCHANGED <<db, commandReadModel, published, issued, life, spent>>
           /\ worker'.startSequence = worker.startSequence /\ worker'.outbox = worker.outbox
           /\ worker'.tx = worker.tx
           /\ n \in 1..Len(db.events)
           /\ worker'.nextReadModel.snapshotSequence = n
           /\ worker'.nextReadModel.state =
                  Project(worker.nextReadModel.state, db.events[n].event)
<1> DEFINE n == worker.nextReadModel.snapshotSequence + 1
<1>0. worker \in Worker /\ worker.nextReadModel.snapshotSequence \in Nat
      /\ worker.startSequence \in Nat /\ TypeOK /\ Len(db.events) \in Nat
  BY Parts DEF TypeInv, TypeOK, Worker, Model
<1>1. n \in 1..Len(db.events)
  BY <1>0, LastReadType DEF ReconcileEvent
<1>2. worker' = [worker EXCEPT !.nextReadModel =
          [snapshotSequence |-> n,
           state |-> Project(worker.nextReadModel.state, db.events[n].event)]]
  BY DEF ReconcileEvent
<1>3. /\ phase = "reconcile" /\ phase' = "reconcile"
      /\ UNCHANGED <<db, commandReadModel, published, issued, life, spent>>
  BY DEF ReconcileEvent, LocalStep, callers
<1> QED
  BY <1>0, <1>1, <1>2, <1>3 DEF Worker

\* A reconciliation that ends has read up to where the read model now is, and
\* to the end of the log unless it was cut off.
LEMMA FinishReconcileEffect ==
    ASSUME TypeInv, FinishReconcile
    PROVE  /\ phase = "reconcile" /\ phase' \in {"publish", "reject"}
           /\ UNCHANGED <<db, published, issued, life>>
           /\ commandReadModel' = worker.nextReadModel
           /\ worker'.tx = worker.tx
           /\ worker'.outbox = Sequences(worker.startSequence + 1,
                                         worker.nextReadModel.snapshotSequence)
           /\ phase' = "reject" => ~(worker.startSequence < Len(db.events))
           /\ spent'.lostReads = spent.lostReads
           /\ spent.cutOff => spent'.cutOff
           /\ ~spent'.cutOff => worker.nextReadModel.snapshotSequence = Len(db.events)
<1>0. worker \in Worker /\ worker.startSequence \in Nat /\ TypeOK /\ Len(db.events) \in Nat
  BY Parts DEF TypeInv, TypeOK, Worker
<1>1. /\ phase = "reconcile" /\ phase' \in {"publish", "reject"}
      /\ UNCHANGED <<db, published, issued, life>>
      /\ commandReadModel' = worker.nextReadModel
      /\ worker.nextReadModel.snapshotSequence = LastRead(worker.startSequence)
      /\ phase' = "reject" => ~(worker.startSequence < Len(db.events))
      /\ worker' = [worker EXCEPT !.outbox = Sequences(worker.startSequence + 1,
                                                       LastRead(worker.startSequence))]
  BY DEF FinishReconcile, durable, callers
<1>2. /\ spent'.lostReads = spent.lostReads
      /\ spent.cutOff => spent'.cutOff
      /\ ~spent'.cutOff => ~(LastRead(worker.startSequence) < Len(db.events))
  BY <1>0, ReadAfterType DEF FinishReconcile
<1>3. LastRead(worker.startSequence) \in Nat
      /\ LastRead(worker.startSequence) <= Len(db.events)
  BY <1>0, LastReadType
<1> QED
  BY <1>0, <1>1, <1>2, <1>3 DEF Worker

\* A lost reconciliation is noted when there was something to read.
LEMMA ReconcileFailsEffect ==
    ASSUME TypeInv, ReconcileFails
    PROVE  /\ phase = "reconcile" /\ phase' = "reject"
           /\ UNCHANGED <<db, commandReadModel, published, issued>>
           /\ worker'.tx = worker.tx /\ worker'.outbox = worker.outbox
           /\ spent'.cutOff = spent.cutOff /\ spent'.lostReads # 0
           /\ life'.bootSequence = life.bootSequence
           /\ ~life'.lostRead => /\ ~life.lostRead
                                 /\ ~(commandReadModel.snapshotSequence < Len(db.events))
<1> DEFINE lost == life.lostRead \/ commandReadModel.snapshotSequence < Len(db.events)
<1>0. worker \in Worker /\ life \in Life /\ spent \in Spending
  BY DEF TypeInv, TypeOK
<1>1. /\ phase = "reconcile" /\ phase' = "reject"
      /\ UNCHANGED <<db, commandReadModel, published, issued>>
      /\ worker' = [worker EXCEPT !.nextReadModel = commandReadModel]
      /\ spent' = [spent EXCEPT !.lostReads = @ + 1]
      /\ life' = [life EXCEPT !.lostRead = lost]
  BY DEF ReconcileFails, durable, callers
<1>2. worker'.tx = worker.tx /\ worker'.outbox = worker.outbox
      /\ spent'.cutOff = spent.cutOff /\ spent'.lostReads # 0
  BY <1>0, <1>1 DEF Worker, Spending
<1> HIDE DEF lost
<1>3. life'.bootSequence = life.bootSequence /\ life'.lostRead = lost
  BY <1>0, <1>1 DEF Life
<1> USE DEF lost
<1>4. ~life'.lostRead => /\ ~life.lostRead
                         /\ ~(commandReadModel.snapshotSequence < Len(db.events))
  BY <1>3, Zenon
<1> QED
  BY <1>1, <1>2, <1>3, <1>4

\* Recording a rejection changes no more than the receipt of its command.
LEMMA RecordRejectionEffect ==
    ASSUME TypeInv, RecordRejection
    PROVE  /\ phase = "reject" /\ phase' = "answer"
           /\ UNCHANGED <<commandReadModel, worker, published, issued, life>>
           /\ db'.events = db.events /\ db'.trace = db.trace
           /\ db'.tables = db.tables /\ db'.cursor = db.cursor
           /\ \A id \in CommandId : id # worker.commandId => db'.receipts[id] = db.receipts[id]
           /\ spent'.lostReads = spent.lostReads /\ spent'.cutOff = spent.cutOff
<1>0. db \in Rows
  BY DEF TypeInv, TypeOK
<1>1. /\ phase = "reject" /\ phase' = "answer"
      /\ UNCHANGED <<commandReadModel, worker, published, issued, life>>
  BY DEF RecordRejection, callers
<1>2. /\ db'.events = db.events /\ db'.trace = db.trace
      /\ db'.tables = db.tables /\ db'.cursor = db.cursor
      /\ \A id \in CommandId : id # worker.commandId => db'.receipts[id] = db.receipts[id]
  BY <1>0 DEF RecordRejection, Rows
<1>3. spent'.lostReads = spent.lostReads /\ spent'.cutOff = spent.cutOff
  BY SpendFaultEffect DEF RecordRejection
<1> QED
  BY <1>1, <1>2, <1>3

\* An answered worker rests on the committed rows.
LEMMA AnswerEffect ==
    ASSUME TypeInv, Answer
    PROVE  /\ phase = "answer" /\ phase' = "idle"
           /\ UNCHANGED <<db, commandReadModel, published, issued, life, spent>>
           /\ worker'.tx = db /\ worker'.outbox = <<>>
BY RestingParts DEF Answer, durable

\* A crash keeps the database and forgets the rest.
LEMMA CrashEffect ==
    ASSUME TypeInv, Crash
    PROVE  /\ phase' = "down" /\ UNCHANGED <<db, issued>>
           /\ worker'.tx = db /\ worker'.outbox = <<>> /\ published' = <<>>
           /\ spent'.lostReads = spent.lostReads /\ spent'.cutOff = spent.cutOff
           /\ commandReadModel' = [snapshotSequence |-> 0, state |-> EmptyReadModel]
           /\ ~life'.lostRead
BY RestingParts DEF Crash, durable, TypeInv, TypeOK, Spending, NewLife

\* A new projector starts with an empty table before the first event.
LEMMA UpgradeEffect ==
    ASSUME TypeInv, NEW p \in Projector, Upgrade(p)
    PROVE  /\ phase = "down" /\ phase' = "down"
           /\ UNCHANGED <<commandReadModel, published, issued, life>>
           /\ db'.events = db.events /\ db'.trace = db.trace /\ db'.receipts = db.receipts
           /\ db'.tables = [db.tables EXCEPT ![p] = EmptyTable(p)]
           /\ db'.cursor = [db.cursor EXCEPT ![p] = 0]
           /\ worker'.tx = db' /\ worker'.outbox = <<>>
           /\ spent'.lostReads = spent.lostReads /\ spent'.cutOff = spent.cutOff
<1>1. spent \in Spending /\ db \in Rows
  BY DEF TypeInv, TypeOK
<1>2. spent'.lostReads = spent.lostReads /\ spent'.cutOff = spent.cutOff
  BY <1>1 DEF Upgrade, Spending
<1>3. /\ db'.events = db.events /\ db'.trace = db.trace /\ db'.receipts = db.receipts
      /\ db'.tables = [db.tables EXCEPT ![p] = EmptyTable(p)]
      /\ db'.cursor = [db.cursor EXCEPT ![p] = 0]
  BY <1>1 DEF Upgrade, Rows
<1> QED
  BY <1>2, <1>3, RestingParts DEF Upgrade, callers

\* A bootstrap means to replay to the end of the log, unless it is cut off.
LEMMA StartEffect ==
    ASSUME TypeInv, Start
    PROVE  /\ phase = "down" /\ phase' = "bootstrap"
           /\ UNCHANGED <<db, commandReadModel, worker, published, issued>>
           /\ life'.lostRead = life.lostRead
           /\ spent'.lostReads = spent.lostReads
           /\ spent.cutOff => spent'.cutOff
           /\ ~spent'.cutOff => \A p \in Projector : life'.replayTo[p] = Len(db.events)
<1>0. TypeOK /\ life \in Life /\ db \in Rows /\ db.cursor \in [Projector -> Nat]
      /\ Len(db.events) \in Nat
  BY Parts, RowsType DEF TypeInv, TypeOK
<1>1. /\ phase = "down" /\ phase' = "bootstrap"
      /\ UNCHANGED <<db, commandReadModel, worker, published, issued>>
      /\ life' = [life EXCEPT !.replayTo = [p \in Projector |-> LastRead(db.cursor[p])]]
  BY DEF Start, durable, callers
<1>2. /\ life'.lostRead = life.lostRead
      /\ \A p \in Projector : life'.replayTo[p] = LastRead(db.cursor[p])
  BY <1>0, <1>1 DEF Life
<1>3. /\ spent'.lostReads = spent.lostReads
      /\ spent.cutOff => spent'.cutOff
      /\ ~spent'.cutOff => \A n \in {db.cursor[p] : p \in Projector} :
                               ~(LastRead(n) < Len(db.events))
  BY <1>0, ReadAfterType DEF Start
<1>4. \A p \in Projector : LastRead(db.cursor[p]) \in Nat
                           /\ LastRead(db.cursor[p]) <= Len(db.events)
  BY <1>0, LastReadType
<1>5. ~spent'.cutOff => \A p \in Projector : life'.replayTo[p] = Len(db.events)
  <2> SUFFICES ASSUME ~spent'.cutOff, NEW p \in Projector
               PROVE  life'.replayTo[p] = Len(db.events)
    OBVIOUS
  <2>1. ~(LastRead(db.cursor[p]) < Len(db.events))
    BY <1>3
  <2> QED
    BY <1>0, <1>2, <1>4, <2>1
<1> QED
  BY <1>1, <1>2, <1>3, <1>5

\* One projector applies the event after its cursor.
LEMMA BootstrapEventEffect ==
    ASSUME TypeInv, BootstrapEvent
    PROVE  /\ phase = "bootstrap" /\ phase' = "bootstrap"
           /\ UNCHANGED <<commandReadModel, published, issued, life, spent>>
           /\ worker'.tx = db' /\ worker'.outbox = <<>>
           /\ \E p \in Projector :
                 LET n == db.cursor[p] + 1 IN
                 n \in 1..Len(db.events) /\ db' = Projected(db, p, n)
<1>0. db \in Rows /\ life \in Life /\ WorkAhead
  BY DEF TypeInv, TypeOK
<1>1. PICK i \in DOMAIN Projectors :
           LET p == Projectors[i]
               n == db.cursor[p] + 1
           IN n <= life.replayTo[p] /\ db' = Projected(db, p, n)
  BY DEF BootstrapEvent
<1> DEFINE p == Projectors[i]
           n == db.cursor[p] + 1
<1>2. p \in Projector
  BY DEF Projector
<1>3. n \in 1..Len(db.events)
  <2>1. n \in Nat \ {0} /\ life.replayTo[p] \in Nat /\ Len(db.events) \in Nat
    BY <1>0, <1>2, RowsType DEF Life
  <2>2. life.replayTo[p] <= Len(db.events)
    BY <1>0, <1>2 DEF BootstrapEvent, WorkAhead
  <2> QED
    BY <1>1, <2>1, <2>2
<1>4. \E q \in Projector : LET k == db.cursor[q] + 1 IN
          k \in 1..Len(db.events) /\ db' = Projected(db, q, k)
  BY <1>1, <1>2, <1>3
<1> QED
  BY <1>4, RestingParts DEF BootstrapEvent, callers

\* The read model is loaded when every projector has replayed.
LEMMA FinishBootstrapEffect ==
    ASSUME TypeInv, FinishBootstrap
    PROVE  /\ phase = "bootstrap" /\ phase' = "idle"
           /\ UNCHANGED <<db, published, issued, spent>>
           /\ worker'.tx = db /\ worker'.outbox = <<>>
           /\ \A p \in Projector : db.cursor[p] = life.replayTo[p]
           /\ commandReadModel' = [snapshotSequence |-> SnapshotSequence(db.cursor),
                                   state |-> LoadReadModel(db.tables)]
           /\ life'.lostRead = life.lostRead
           /\ life'.bootSequence = Len(db.events)
BY RestingParts DEF FinishBootstrap, durable, callers, TypeInv, TypeOK, Life

\* Which steps move tables and cursors of the database.
LEMMA TablesFootprint ==
    ASSUME TypeInv, [Next]_vars
    PROVE  \/ phase = "commit" /\ db' = worker.tx
           \/ BootstrapEvent
           \/ \E p \in Projector : Upgrade(p)
           \/ /\ db'.events = db.events /\ db'.trace = db.trace
              /\ db'.tables = db.tables /\ db'.cursor = db.cursor
<1>1. CASE Commit \/ CommitReportsFailure
  BY <1>1, CommitEffect, CommitReportsFailureEffect
<1>2. CASE RecordRejection
  BY <1>2, RecordRejectionEffect
<1>3. CASE \/ \E id \in CommandId, c \in Command : Dispatch(id, c)
           \/ TakeEnvelope \/ AnswerFromReceipt \/ DecideCommand \/ AppendEvent \/ RunProjector
           \/ RecordAcceptance \/ AttemptFails \/ PublishEvent \/ ReconcileEvent
           \/ FinishReconcile \/ ReconcileFails \/ Answer \/ Crash \/ Start \/ FinishBootstrap
           \/ UNCHANGED vars
  <2>1. db' = db
    BY <1>3 DEF Dispatch, TakeEnvelope, AnswerFromReceipt, DecideCommand, AppendEvent,
      RunProjector, RecordAcceptance, AttemptFails, PublishEvent, ReconcileEvent,
      FinishReconcile, ReconcileFails, Answer, Crash, Start, FinishBootstrap, vars, LocalStep,
      durable
  <2> QED
    BY <2>1
<1>4. CASE BootstrapEvent \/ \E p \in Projector : Upgrade(p)
  BY <1>4
<1> QED
  BY <1>1, <1>2, <1>3, <1>4 DEF Next, ProcessEnvelope

\* Which steps lead into a transaction.
LEMMA TransactionFootprint ==
    ASSUME TypeInv, [Next]_vars, InTransaction'
    PROVE  \/ DecideCommand /\ phase' = "append"
           \/ AppendEvent \/ RunProjector \/ RecordAcceptance
           \/ (\E id \in CommandId, c \in Command : Dispatch(id, c)) \/ UNCHANGED vars
<1>1. ASSUME \/ TakeEnvelope \/ AnswerFromReceipt \/ AttemptFails \/ Commit
             \/ CommitReportsFailure \/ PublishEvent \/ ReconcileEvent \/ FinishReconcile
             \/ ReconcileFails \/ RecordRejection \/ Answer \/ Crash \/ Start \/ BootstrapEvent
             \/ FinishBootstrap \/ \E p \in Projector : Upgrade(p)
      PROVE  FALSE
  BY <1>1 DEF InTransaction, TakeEnvelope, AnswerFromReceipt, AttemptFails, Commit,
    CommitReportsFailure, PublishEvent, ReconcileEvent, FinishReconcile, ReconcileFails,
    RecordRejection, Answer, Crash, Start, BootstrapEvent, FinishBootstrap, Upgrade, FailWith
<1>2. DecideCommand => phase' = "append"
  BY DecideCommandEffect DEF InTransaction
<1> QED
  BY <1>1, <1>2 DEF Next, ProcessEnvelope

-----------------------------------------------------------------------------
(* The steps of CurrencyInv *)

\* Two rows with the same log and history replay alike.
LEMMA SameReplay ==
    ASSUME NEW a, NEW b, a.events = b.events, a.trace = b.trace, TraceReplays(a)
    PROVE  TraceReplays(b)
BY DEF TraceReplays

\* The log, the trace and the cursors of the working copy after an append.
LEMMA AppendedRows ==
    ASSUME TypeInv, AppendEvent
    PROVE  LET n == Len(worker.tx.events) + 1 IN
           /\ Len(worker'.tx.events) = n
           /\ \A i \in 1..(n - 1) : worker'.tx.events[i] = worker.tx.events[i]
           /\ worker'.tx.events[n] = [commandId |-> worker.commandId,
                                      event |-> Head(worker.planned)]
           /\ \A i \in 1..n : worker'.tx.trace[i] = worker.tx.trace[i]
           /\ worker'.tx.trace[n + 1] = ApplyAll(worker.tx.trace[n], Head(worker.planned))
           /\ worker'.tx.tables = worker.tx.tables /\ worker'.tx.cursor = worker.tx.cursor
<1> DEFINE n == Len(worker.tx.events) + 1
           row == [commandId |-> worker.commandId, event |-> Head(worker.planned)]
           next == ApplyAll(worker.tx.trace[Len(worker.tx.trace)], Head(worker.planned))
<1>a. worker.tx \in Rows
  BY Parts
<1>b. worker.tx.events \in Seq([commandId : CommandId, event : Event])
      /\ worker.tx.trace \in Seq(Tables) /\ Len(worker.tx.events) \in Nat
  BY <1>a, RowsType
<1>0. n \in Nat /\ Len(worker.tx.trace) = n
  BY <1>b DEF TypeInv, TraceMatchesLog
<1>1. /\ worker'.tx.events = Append(worker.tx.events, row)
      /\ worker'.tx.trace = Append(worker.tx.trace, next)
      /\ worker'.tx.tables = worker.tx.tables /\ worker'.tx.cursor = worker.tx.cursor
  BY TxSteps
<1> HIDE DEF row, next
<1>2. /\ Len(worker'.tx.events) = n
      /\ \A i \in 1..(n - 1) : worker'.tx.events[i] = worker.tx.events[i]
      /\ worker'.tx.events[n] = row
  BY <1>b, <1>1
<1>3. /\ \A i \in 1..Len(worker.tx.trace) : worker'.tx.trace[i] = worker.tx.trace[i]
      /\ worker'.tx.trace[Len(worker.tx.trace) + 1] = next
  BY <1>b, <1>1
<1> QED
  BY <1>0, <1>1, <1>2, <1>3 DEF row, next

\* The projector that runs moves its own table and cursor.
LEMMA ProjectedTx ==
    ASSUME TypeInv, RunProjector
    PROVE  LET p == Projectors[worker.projectorIndex]
               n == Len(worker.tx.events)
           IN
           /\ p \in Projector /\ worker.projectorIndex \in DOMAIN Projectors
           /\ n \in 1..Len(worker.tx.events)
           /\ worker'.tx.events = worker.tx.events /\ worker'.tx.trace = worker.tx.trace
           /\ worker'.tx.receipts = worker.tx.receipts
           /\ worker'.tx.tables = [worker.tx.tables EXCEPT ![p] =
                  ApplyProjector(p, worker.tx.tables[p], worker.tx.events[n].event)]
           /\ worker'.tx.cursor = [worker.tx.cursor EXCEPT ![p] = n]
<1> DEFINE p == Projectors[worker.projectorIndex]
           n == Len(worker.tx.events)
<1>1. worker.tx \in Rows /\ n \in Nat /\ Len(db.events) \in Nat
      /\ worker.projectorIndex \in DOMAIN Projectors
  BY Parts DEF Worker
<1>2. p \in Projector
  BY <1>1 DEF Projector
<1>3. n > Len(db.events)
  BY DEF TypeInv, WorkAhead, RunProjector
<1>4. worker'.tx = Projected(worker.tx, p, n)
      /\ worker'.tx.events = worker.tx.events /\ worker'.tx.trace = worker.tx.trace
      /\ worker'.tx.receipts = worker.tx.receipts
  BY TxSteps
<1>5. /\ Projected(worker.tx, p, n).tables = [worker.tx.tables EXCEPT ![p] =
                  ApplyProjector(p, worker.tx.tables[p], worker.tx.events[n].event)]
      /\ Projected(worker.tx, p, n).cursor = [worker.tx.cursor EXCEPT ![p] = n]
  BY <1>1 DEF Projected, Rows
<1> QED
  BY <1>1, <1>2, <1>3, <1>4, <1>5

\* The database after a projector has caught up by one event.
LEMMA BootstrappedRows ==
    ASSUME TypeInv, NEW p \in Projector, NEW n \in 1..Len(db.events), db' = Projected(db, p, n)
    PROVE  /\ db'.events = db.events /\ db'.trace = db.trace
           /\ db'.tables = [db.tables EXCEPT ![p] =
                  ApplyProjector(p, db.tables[p], db.events[n].event)]
           /\ db'.cursor = [db.cursor EXCEPT ![p] = n]
BY Parts DEF Projected, Rows

\* Every step keeps the history a replay of the log and the cursors inside it.
LEMMA RowsGrowStep == TypeInv /\ RowsGrow /\ [Next]_vars => RowsGrow'
<1> SUFFICES ASSUME TypeInv, RowsGrow, [Next]_vars PROVE RowsGrow'
  OBVIOUS
<1>0. /\ db \in Rows /\ worker.tx \in Rows
      /\ Len(db.events) \in Nat /\ Len(worker.tx.events) \in Nat
      /\ db.cursor \in [Projector -> Nat] /\ worker.tx.cursor \in [Projector -> Nat]
      /\ TraceReplays(db) /\ TraceReplays(worker.tx)
      /\ \A p \in Projector : db.cursor[p] <= Len(db.events)
                              /\ worker.tx.cursor[p] <= Len(worker.tx.events)
  BY Parts, RowsType DEF RowsGrow
<1>1. TraceReplays(db') /\ \A p \in Projector : db'.cursor[p] <= Len(db'.events)
  <2>1. CASE phase = "commit" /\ db' = worker.tx
    <3>1. TraceReplays(db')
      BY <1>0, <2>1, SameReplay
    <3> QED
      BY <1>0, <2>1, <3>1
  <2>2. CASE BootstrapEvent
    <3>1. PICK p \in Projector : LET n == db.cursor[p] + 1 IN
              n \in 1..Len(db.events) /\ db' = Projected(db, p, n)
      BY <2>2, BootstrapEventEffect
    <3>2. /\ db'.events = db.events /\ db'.trace = db.trace
          /\ db'.cursor = [db.cursor EXCEPT ![p] = db.cursor[p] + 1]
      BY <3>1, BootstrappedRows
    <3>3. TraceReplays(db')
      BY <1>0, <3>2, SameReplay
    <3>5. db.cursor[p] + 1 <= Len(db.events)
      BY <1>0, <3>1
    <3>4. \A q \in Projector : db'.cursor[q] <= Len(db'.events)
      BY <1>0, <3>2, <3>5
    <3> QED
      BY <3>3, <3>4
  <2>3. CASE \E p \in Projector : Upgrade(p)
    <3>1. PICK p \in Projector : Upgrade(p)
      BY <2>3
    <3>2. /\ db'.events = db.events /\ db'.trace = db.trace
          /\ db'.cursor = [db.cursor EXCEPT ![p] = 0]
      BY <3>1, UpgradeEffect
    <3>3. TraceReplays(db')
      BY <1>0, <3>2, SameReplay
    <3> QED
      BY <1>0, <3>2, <3>3
  <2>4. CASE db'.events = db.events /\ db'.trace = db.trace /\ db'.cursor = db.cursor
    BY <1>0, <2>4, SameReplay
  <2> QED
    BY <2>1, <2>2, <2>3, <2>4, TablesFootprint
<1>2. /\ TraceReplays(worker'.tx)
      /\ \A p \in Projector : worker'.tx.cursor[p] <= Len(worker'.tx.events)
  <2>1. CASE AppendEvent
    <3> DEFINE n == Len(worker.tx.events) + 1
    <3>1. /\ Len(worker'.tx.events) = n
          /\ \A i \in 1..(n - 1) : worker'.tx.events[i] = worker.tx.events[i]
          /\ worker'.tx.events[n].event = Head(worker.planned)
          /\ \A i \in 1..n : worker'.tx.trace[i] = worker.tx.trace[i]
          /\ worker'.tx.trace[n + 1] = ApplyAll(worker.tx.trace[n], Head(worker.planned))
          /\ worker'.tx.cursor = worker.tx.cursor
      BY <2>1, AppendedRows
    <3>2. ASSUME NEW i \in 1..n
          PROVE  worker'.tx.trace[i + 1] = ApplyAll(worker'.tx.trace[i], worker'.tx.events[i].event)
      <4>1. CASE i = n
        BY <1>0, <3>1, <4>1
      <4>2. CASE i # n
        <5>1. i \in 1..(n - 1) /\ i + 1 \in 1..n
          BY <1>0, <4>2
        <5> QED
          BY <1>0, <3>1, <5>1 DEF TraceReplays
      <4> QED
        BY <4>1, <4>2
    <3>3. worker'.tx.trace[1] = EmptyTables
      BY <1>0, <3>1 DEF TraceReplays
    <3> QED
      BY <1>0, <3>1, <3>2, <3>3 DEF TraceReplays
  <2>2. CASE RunProjector
    <3> DEFINE p == Projectors[worker.projectorIndex]
    <3>1. /\ worker'.tx.events = worker.tx.events /\ worker'.tx.trace = worker.tx.trace
          /\ worker'.tx.cursor = [worker.tx.cursor EXCEPT ![p] = Len(worker.tx.events)]
      BY <2>2, ProjectedTx
    <3>2. TraceReplays(worker'.tx)
      BY <1>0, <3>1, SameReplay
    <3>3. \A q \in Projector : worker'.tx.cursor[q] <= Len(worker'.tx.events)
      BY <1>0, <3>1
    <3> QED
      BY <3>2, <3>3
  <2>3. CASE RecordAcceptance
    BY <1>0, <2>3, TxSteps, SameReplay
  <2>4. CASE worker'.tx = worker.tx \/ worker'.tx = db'
    <3>1. TraceReplays(worker'.tx)
      BY <1>0, <1>1, <2>4, SameReplay
    <3> QED
      BY <1>0, <1>1, <2>4, <3>1
  <2> QED
    BY <2>1, <2>2, <2>3, <2>4, TxFootprint
<1>3. InTransaction' =>
          \A n \in 1..(Len(db'.events) + 1) : worker'.tx.trace[n] = db'.trace[n]
  <2> SUFFICES ASSUME InTransaction'
               PROVE  \A n \in 1..(Len(db'.events) + 1) : worker'.tx.trace[n] = db'.trace[n]
    OBVIOUS
  <2>1. CASE DecideCommand /\ phase' = "append"
    BY <2>1, DecideCommandEffect
  <2>2. CASE AppendEvent
    <3>1. db' = db /\ phase = "append" /\ Len(worker.tx.events) >= Len(db.events)
      BY <2>2, AppendEventEffect DEF TypeInv, TxExtendsLog
    <3> QED
      BY <1>0, <2>2, <3>1, AppendedRows DEF RowsGrow, InTransaction
  <2>3. CASE RunProjector
    BY <2>3, RunProjectorEffect, ProjectedTx DEF RowsGrow, InTransaction
  <2>4. CASE RecordAcceptance
    BY <2>4, RecordAcceptanceEffect, TxSteps DEF RowsGrow, InTransaction
  <2>5. CASE (\E id \in CommandId, c \in Command : Dispatch(id, c)) \/ UNCHANGED vars
    BY <2>5 DEF Dispatch, vars, durable, RowsGrow, InTransaction
  <2> QED
    BY <2>1, <2>2, <2>3, <2>4, <2>5, TransactionFootprint
<1> QED
  BY <1>1, <1>2, <1>3 DEF RowsGrow, TraceReplays

\* A cut-off read is never forgotten.
LEMMA CutOffStays ==
    ASSUME TypeInv, [Next]_vars, ~spent'.cutOff
    PROVE  ~spent.cutOff
<1>1. CASE AttemptFails \/ CommitReportsFailure \/ FinishReconcile \/ ReconcileFails
           \/ RecordRejection \/ Crash \/ Start \/ \E p \in Projector : Upgrade(p)
  BY <1>1, AttemptFailsEffect, CommitReportsFailureEffect, FinishReconcileEffect,
     ReconcileFailsEffect, RecordRejectionEffect, CrashEffect, StartEffect, UpgradeEffect
<1>2. CASE \/ \E id \in CommandId, c \in Command : Dispatch(id, c)
           \/ TakeEnvelope \/ AnswerFromReceipt \/ DecideCommand \/ AppendEvent \/ RunProjector
           \/ RecordAcceptance \/ Commit \/ PublishEvent \/ ReconcileEvent \/ Answer
           \/ BootstrapEvent \/ FinishBootstrap \/ UNCHANGED vars
  <2>1. spent' = spent
    BY <1>2 DEF Dispatch, TakeEnvelope, AnswerFromReceipt, DecideCommand, AppendEvent,
      RunProjector, RecordAcceptance, Commit, PublishEvent, ReconcileEvent, Answer,
      BootstrapEvent, FinishBootstrap, vars
  <2> QED
    BY <2>1
<1> QED
  BY <1>1, <1>2 DEF Next, ProcessEnvelope

\* Only the end of a bootstrap begins to serve.
LEMMA ServingFootprint ==
    ASSUME TypeInv, [Next]_vars, Serving'
    PROVE  FinishBootstrap \/ Serving
<1>1. ASSUME Crash \/ Start \/ BootstrapEvent \/ \E p \in Projector : Upgrade(p)
      PROVE  FALSE
  BY <1>1 DEF Crash, Start, BootstrapEvent, Upgrade, Serving
<1>2. ASSUME \/ \E id \in CommandId, c \in Command : Dispatch(id, c)
             \/ ProcessEnvelope \/ UNCHANGED vars
      PROVE  Serving
  BY <1>2 DEF Serving, Dispatch, ProcessEnvelope, TakeEnvelope, AnswerFromReceipt,
    DecideCommand, AppendEvent, RunProjector, RecordAcceptance, AttemptFails, Commit,
    CommitReportsFailure, PublishEvent, ReconcileEvent, FinishReconcile, ReconcileFails,
    RecordRejection, Answer, vars
<1> QED
  BY <1>1, <1>2 DEF Next

\* One event applied by one projector takes its table one entry further.
LEMMA TableAdvances ==
    ASSUME NEW rows \in Rows, TraceReplays(rows), NEW n \in 1..Len(rows.events),
           NEW p \in Projector, rows.tables[p] = rows.trace[n][p]
    PROVE  ApplyProjector(p, rows.tables[p], rows.events[n].event) = rows.trace[n + 1][p]
BY DEF TraceReplays, ApplyAll

\* Every step keeps the tables where their cursors say they are.
LEMMA ProjectorsInStepStep ==
    TypeInv /\ RowsGrow /\ ProjectorsInStep /\ [Next]_vars => ProjectorsInStep'
<1> SUFFICES ASSUME TypeInv, RowsGrow, ProjectorsInStep, [Next]_vars, ~spent'.cutOff
             PROVE  /\ TablesFollow(db')
                    /\ Serving' => \A p \in Projector : db'.cursor[p] = Len(db'.events)
                    /\ phase' = "bootstrap" =>
                          \A p \in Projector : life'.replayTo[p] = Len(db'.events)
                    /\ InTransaction' =>
                          /\ TablesFollow(worker'.tx)
                          /\ \A i \in DOMAIN Projectors :
                                worker'.tx.cursor[Projectors[i]] =
                                    IF phase' = "project" /\ i >= worker'.projectorIndex
                                    THEN Len(worker'.tx.events) - 1
                                    ELSE Len(worker'.tx.events)
  BY DEF ProjectorsInStep, TablesFollow
<1>0. /\ db \in Rows /\ worker.tx \in Rows
      /\ Len(db.events) \in Nat /\ Len(worker.tx.events) \in Nat
      /\ db.cursor \in [Projector -> Nat] /\ worker.tx.cursor \in [Projector -> Nat]
      /\ TraceReplays(db) /\ TraceReplays(worker.tx)
  BY Parts, RowsType DEF RowsGrow
<1>t. db.tables \in [Projector -> UNION {Table(p) : p \in Projector}]
      /\ worker.tx.tables \in [Projector -> UNION {Table(p) : p \in Projector}]
  BY <1>0 DEF Rows, Tables
<1>a. /\ TablesFollow(db)
      /\ Serving => \A p \in Projector : db.cursor[p] = Len(db.events)
      /\ phase = "bootstrap" => \A p \in Projector : life.replayTo[p] = Len(db.events)
      /\ InTransaction =>
            /\ TablesFollow(worker.tx)
            /\ \A i \in DOMAIN Projectors :
                  worker.tx.cursor[Projectors[i]] =
                      IF phase = "project" /\ i >= worker.projectorIndex
                      THEN Len(worker.tx.events) - 1 ELSE Len(worker.tx.events)
  BY CutOffStays DEF ProjectorsInStep
<1>p. /\ Len(Projectors) \in Nat /\ DOMAIN Projectors = 1..Len(Projectors)
      /\ \A i \in DOMAIN Projectors : Projectors[i] \in Projector
      /\ \A p \in Projector : \E i \in DOMAIN Projectors : Projectors[i] = p
      /\ \A i, j \in DOMAIN Projectors : Projectors[i] = Projectors[j] => i = j
  BY TypingAssumption DEF Projector
<1>1. TablesFollow(db')
  <2>1. CASE phase = "commit" /\ db' = worker.tx
    BY <1>a, <2>1 DEF InTransaction, TablesFollow
  <2>2. CASE BootstrapEvent
    <3>1. PICK p \in Projector : LET n == db.cursor[p] + 1 IN
              n \in 1..Len(db.events) /\ db' = Projected(db, p, n)
      BY <2>2, BootstrapEventEffect
    <3> DEFINE n == db.cursor[p] + 1
               moved == ApplyProjector(p, db.tables[p], db.events[n].event)
    <3>2. /\ db'.trace = db.trace /\ db'.tables = [db.tables EXCEPT ![p] = moved]
          /\ db'.cursor = [db.cursor EXCEPT ![p] = n]
      BY <3>1, BootstrappedRows
    <3>3. moved = db.trace[n + 1][p]
      BY <1>0, <1>a, <3>1, TableAdvances DEF TablesFollow
    <3>4. TablesFollow(db)
      BY <1>a
    <3>5. db'.tables[p] = moved /\ db'.cursor[p] = n
          /\ \A q \in Projector \ {p} : db'.tables[q] = db.tables[q] /\ db'.cursor[q] = db.cursor[q]
      BY <1>0, <1>t, <3>2
    <3> HIDE DEF moved, n
    <3> QED
      BY <3>2, <3>3, <3>4, <3>5 DEF TablesFollow
  <2>3. CASE \E p \in Projector : Upgrade(p)
    <3>1. PICK p \in Projector : Upgrade(p)
      BY <2>3
    <3>2. /\ db'.trace = db.trace /\ db'.tables = [db.tables EXCEPT ![p] = EmptyTable(p)]
          /\ db'.cursor = [db.cursor EXCEPT ![p] = 0]
      BY <3>1, UpgradeEffect
    <3>3. db.trace[1][p] = EmptyTable(p)
      BY <1>0 DEF TraceReplays, EmptyTables
    <3>4. db'.tables[p] = EmptyTable(p) /\ db'.cursor[p] = 0
          /\ \A q \in Projector \ {p} : db'.tables[q] = db.tables[q] /\ db'.cursor[q] = db.cursor[q]
      BY <1>0, <1>t, <3>2
    <3>5. TablesFollow(db)
      BY <1>a
    <3> QED
      BY <3>2, <3>3, <3>4, <3>5 DEF TablesFollow
  <2>4. CASE db'.trace = db.trace /\ db'.tables = db.tables /\ db'.cursor = db.cursor
    BY <1>a, <2>4 DEF TablesFollow
  <2> QED
    BY <2>1, <2>2, <2>3, <2>4, TablesFootprint
<1>2. Serving' => \A p \in Projector : db'.cursor[p] = Len(db'.events)
  <2> SUFFICES ASSUME Serving', NEW p \in Projector PROVE db'.cursor[p] = Len(db'.events)
    OBVIOUS
  <2>1. CASE FinishBootstrap
    BY <1>a, <2>1, FinishBootstrapEffect
  <2>2. CASE Serving /\ phase = "commit" /\ db' = worker.tx
    BY <1>a, <1>p, <2>2 DEF InTransaction
  <2>3. CASE Serving /\ db'.events = db.events /\ db'.cursor = db.cursor
    BY <1>a, <2>3
  <2>4. CASE BootstrapEvent \/ \E q \in Projector : Upgrade(q)
    BY <2>4 DEF BootstrapEvent, Upgrade, Serving
  <2> QED
    BY <2>1, <2>2, <2>3, <2>4, TablesFootprint, ServingFootprint
<1>3. phase' = "bootstrap" => \A p \in Projector : life'.replayTo[p] = Len(db'.events)
  <2>1. CASE Start
    BY <2>1, StartEffect
  <2>2. CASE BootstrapEvent
    <3>1. db'.events = db.events
      BY <2>2, BootstrapEventEffect, BootstrappedRows
    <3> QED
      BY <1>a, <2>2, <3>1, BootstrapEventEffect
  <2>3. CASE UNCHANGED vars
    BY <1>a, <2>3 DEF vars, durable
  <2>4. CASE phase' # "bootstrap"
    BY <2>4
  <2>5. Start \/ BootstrapEvent \/ UNCHANGED vars \/ phase' # "bootstrap"
    BY DEF Next, Dispatch, ProcessEnvelope, TakeEnvelope, AnswerFromReceipt, DecideCommand,
      AppendEvent, RunProjector, RecordAcceptance, AttemptFails, Commit, CommitReportsFailure,
      PublishEvent, ReconcileEvent, FinishReconcile, ReconcileFails, RecordRejection, Answer,
      Crash, Upgrade, FinishBootstrap, FailWith
  <2> QED
    BY <2>1, <2>2, <2>3, <2>4, <2>5
<1>4. ASSUME InTransaction'
      PROVE  /\ TablesFollow(worker'.tx)
             /\ \A i \in DOMAIN Projectors :
                   worker'.tx.cursor[Projectors[i]] =
                       IF phase' = "project" /\ i >= worker'.projectorIndex
                       THEN Len(worker'.tx.events) - 1 ELSE Len(worker'.tx.events)
  <2>1. CASE DecideCommand /\ phase' = "append"
    <3>1. worker'.tx = db /\ Serving
      BY <2>1, DecideCommandEffect DEF Serving
    <3>2. TablesFollow(worker'.tx)
      BY <1>a, <3>1 DEF TablesFollow
    <3> QED
      BY <1>a, <1>p, <2>1, <3>1, <3>2
  <2>2. CASE AppendEvent
    <3> DEFINE n == Len(worker.tx.events) + 1
    <3>1. /\ phase = "append" /\ phase' = "project" /\ worker'.projectorIndex = 1
          /\ Len(worker'.tx.events) = n
          /\ \A i \in 1..n : worker'.tx.trace[i] = worker.tx.trace[i]
          /\ worker'.tx.tables = worker.tx.tables /\ worker'.tx.cursor = worker.tx.cursor
      BY <2>2, AppendEventEffect, AppendedRows
    <3>2. \A p \in Projector : worker.tx.cursor[p] + 1 \in 1..n
      BY <1>0 DEF RowsGrow
    <3>3. TablesFollow(worker'.tx)
      BY <1>a, <3>1, <3>2 DEF TablesFollow, InTransaction
    <3>4. \A i \in DOMAIN Projectors : worker'.tx.cursor[Projectors[i]] = n - 1
      BY <1>0, <1>a, <3>1 DEF InTransaction
    <3> QED
      BY <1>p, <3>1, <3>3, <3>4
  <2>3. CASE RunProjector
    <3> DEFINE k == worker.projectorIndex
               p == Projectors[k]
               n == Len(worker.tx.events)
               moved == ApplyProjector(p, worker.tx.tables[p], worker.tx.events[n].event)
    <3>1. /\ p \in Projector /\ k \in DOMAIN Projectors /\ n \in 1..Len(worker.tx.events)
          /\ worker'.tx.events = worker.tx.events /\ worker'.tx.trace = worker.tx.trace
          /\ worker'.tx.tables = [worker.tx.tables EXCEPT ![p] = moved]
          /\ worker'.tx.cursor = [worker.tx.cursor EXCEPT ![p] = n]
      BY <2>3, ProjectedTx
    <3>2. /\ phase = "project" /\ InTransaction
          /\ IF k = Len(Projectors)
             THEN phase' = "append"
             ELSE phase' = "project" /\ worker'.projectorIndex = k + 1
      BY <2>3, RunProjectorEffect DEF InTransaction
    <3>3. worker.tx.cursor[p] = n - 1 /\ worker.tx.tables[p] = worker.tx.trace[n][p]
      <4>1. worker.tx.cursor[p] = n - 1
        BY <1>p, <1>a, <3>1, <3>2
      <4>2. worker.tx.tables[p] = worker.tx.trace[worker.tx.cursor[p] + 1][p]
        BY <1>a, <3>1, <3>2 DEF TablesFollow
      <4> QED
        BY <1>0, <4>1, <4>2
    <3>4. moved = worker.tx.trace[n + 1][p]
      <4>1. /\ p \in Projector /\ n \in 1..Len(worker.tx.events)
            /\ worker.tx \in Rows /\ TraceReplays(worker.tx)
        BY <1>0, <3>1
      <4> HIDE DEF n, p
      <4> QED
        BY <3>3, <4>1, TableAdvances
    <3>5. TablesFollow(worker'.tx)
      <4>1. /\ p \in Projector /\ TablesFollow(worker.tx)
            /\ worker'.tx.trace = worker.tx.trace
            /\ worker'.tx.tables = [worker.tx.tables EXCEPT ![p] = moved]
            /\ worker'.tx.cursor = [worker.tx.cursor EXCEPT ![p] = n]
        BY <1>a, <3>1, <3>2
      <4> HIDE DEF moved, n, p
      <4>2. worker'.tx.tables[p] = moved /\ worker'.tx.cursor[p] = n
            /\ \A q \in Projector \ {p} : /\ worker'.tx.tables[q] = worker.tx.tables[q]
                                          /\ worker'.tx.cursor[q] = worker.tx.cursor[q]
        BY <1>0, <1>t, <4>1
      <4> QED
        BY <3>4, <4>1, <4>2 DEF TablesFollow
    <3>6. ASSUME NEW i \in DOMAIN Projectors
          PROVE  worker'.tx.cursor[Projectors[i]] =
                     IF phase' = "project" /\ i >= worker'.projectorIndex THEN n - 1 ELSE n
      <4>1. CASE i = k
        BY <1>0, <1>p, <3>1, <3>2, <4>1
      <4>2. CASE i # k
        <5>1. Projectors[i] # p
          BY <1>p, <3>1, <4>2
        <5>2. worker'.tx.cursor[Projectors[i]] = IF i >= k THEN n - 1 ELSE n
          BY <1>0, <1>p, <1>a, <3>1, <3>2, <5>1
        <5> QED
          BY <1>p, <3>1, <3>2, <4>2, <5>2
      <4> QED
        BY <4>1, <4>2
    <3> QED
      BY <3>1, <3>5, <3>6
  <2>4. CASE RecordAcceptance
    <3>1. /\ worker'.tx.events = worker.tx.events /\ worker'.tx.trace = worker.tx.trace
          /\ worker'.tx.tables = worker.tx.tables /\ worker'.tx.cursor = worker.tx.cursor
          /\ phase = "append" /\ phase' = "commit"
      BY <2>4, TxSteps, RecordAcceptanceEffect
    <3> QED
      BY <1>a, <3>1 DEF InTransaction, TablesFollow
  <2>5. CASE (\E id \in CommandId, c \in Command : Dispatch(id, c)) \/ UNCHANGED vars
    <3>1. phase' = phase /\ worker' = worker
      BY <2>5 DEF Dispatch, vars
    <3> QED
      BY <1>a, <1>4, <3>1 DEF InTransaction, TablesFollow
  <2> QED
    BY <1>4, <2>1, <2>2, <2>3, <2>4, <2>5, TransactionFootprint
<1> QED
  BY <1>1, <1>2, <1>3, <1>4

\* The least cursor of the required projectors is one of their cursors.
LEMMA SnapshotIsACursor ==
    ASSUME NEW cursor \in [Projector -> Nat]
    PROVE  \E p \in Projector : SnapshotSequence(cursor) = cursor[p]
<1> DEFINE S == {cursor[p] : p \in RequiredProjectors}
<1>1. S \subseteq Nat /\ S # {}
  BY TypingAssumption
<1>2. \E n \in S : \A k \in S : n <= k
  BY <1>1, LeastNatural
<1>3. SnapshotSequence(cursor) \in S
  BY <1>2 DEF SnapshotSequence
<1> QED
  BY <1>3, TypingAssumption

\* The steps that leave the rows, the read model and their relation alone.
Quiet ==
    \/ \E id \in CommandId, c \in Command : Dispatch(id, c)
    \/ AnswerFromReceipt \/ PublishEvent \/ RecordRejection \/ Answer \/ UNCHANGED vars
LEMMA QuietEffect ==
    ASSUME TypeInv, [Next]_vars, Quiet
    PROVE  /\ UNCHANGED <<commandReadModel, life>>
           /\ db'.events = db.events /\ db'.trace = db.trace
           /\ db'.tables = db.tables /\ db'.cursor = db.cursor
           /\ spent'.lostReads = spent.lostReads /\ spent'.cutOff = spent.cutOff
           /\ \/ worker' = worker /\ phase' = phase
              \/ /\ phase \in {"receipt", "publish", "reject", "answer"}
                 /\ phase' \in {"idle", "publish", "reject", "answer"}
<1>1. CASE AnswerFromReceipt
  BY <1>1 DEF AnswerFromReceipt, LocalStep
<1>2. CASE PublishEvent
  BY <1>2, PublishEventEffect
<1>3. CASE RecordRejection
  BY <1>3, RecordRejectionEffect
<1>4. CASE Answer
  BY <1>4, AnswerEffect
<1>5. CASE (\E id \in CommandId, c \in Command : Dispatch(id, c)) \/ UNCHANGED vars
  BY <1>5 DEF Dispatch, vars, durable
<1> QED
  BY <1>1, <1>2, <1>3, <1>4, <1>5 DEF Quiet

\* Every step keeps the read model within the log and the next one ahead of it.
LEMMA ModelAdvancesStep ==
    TypeInv /\ RowsGrow /\ ModelAdvances /\ [Next]_vars => ModelAdvances'
<1> SUFFICES ASSUME TypeInv, RowsGrow, ModelAdvances, [Next]_vars PROVE ModelAdvances'
  OBVIOUS
<1>0. /\ db \in Rows /\ worker.tx \in Rows
      /\ Len(db.events) \in Nat /\ Len(worker.tx.events) \in Nat
      /\ commandReadModel.snapshotSequence \in Nat
      /\ worker.nextReadModel.snapshotSequence \in Nat
  BY Parts DEF TypeInv, TypeOK, Worker, Model
<1>1. CASE Quiet
  BY <1>1, QuietEffect DEF ModelAdvances, InTransaction, Serving
<1>2. CASE TakeEnvelope
  BY <1>2, TakeEnvelopeEffect DEF ModelAdvances, InTransaction, Serving
<1>3. CASE DecideCommand
  BY <1>0, <1>3, DecideCommandEffect DEF ModelAdvances, InTransaction, Serving
<1>4. CASE AppendEvent
  <2>1. Len(worker'.tx.events) = Len(worker.tx.events) + 1
    BY <1>4, AppendedRows
  <2>2. Len(worker.tx.events) >= Len(db.events)
    BY <1>4 DEF AppendEvent, TypeInv, TxExtendsLog
  <2> QED
    BY <1>0, <1>4, <2>1, <2>2, AppendEventEffect DEF ModelAdvances, InTransaction, Serving
<1>5. CASE RunProjector
  BY <1>5, RunProjectorEffect, ProjectedTx DEF ModelAdvances, InTransaction, Serving
<1>6. CASE RecordAcceptance
  BY <1>6, RecordAcceptanceEffect, TxSteps DEF ModelAdvances, InTransaction, Serving
<1>7. CASE AttemptFails
  BY <1>0, <1>7, AttemptFailsEffect DEF ModelAdvances, InTransaction, Serving
<1>8. CASE Commit \/ CommitReportsFailure
  <2>1. phase = "commit" /\ db' = worker.tx /\ Len(worker.tx.events) > Len(db.events)
    BY <1>8, CommitEffect, CommitReportsFailureEffect DEF TypeInv, WorkAhead
  <2> QED
    BY <1>0, <1>8, <2>1, CommitEffect, CommitReportsFailureEffect
    DEF ModelAdvances, InTransaction, Serving
<1>9. CASE ReconcileEvent
  BY <1>0, <1>9, ReconcileEventEffect DEF ModelAdvances, InTransaction, Serving
<1>10. CASE FinishReconcile \/ ReconcileFails
  BY <1>0, <1>10, FinishReconcileEffect, ReconcileFailsEffect
  DEF ModelAdvances, InTransaction, Serving
<1>11. CASE Crash \/ Start \/ BootstrapEvent \/ \E p \in Projector : Upgrade(p)
  <2>1. phase' \in {"down", "bootstrap"}
    BY <1>11 DEF Crash, Start, BootstrapEvent, Upgrade
  <2> QED
    BY <2>1 DEF ModelAdvances, InTransaction, Serving
<1>12. CASE FinishBootstrap
  <2>1. \E p \in Projector : SnapshotSequence(db.cursor) = db.cursor[p]
    BY <1>0, RowsType, SnapshotIsACursor
  <2>2. SnapshotSequence(db.cursor) <= Len(db.events)
    BY <2>1 DEF RowsGrow
  <2> QED
    BY <1>12, <2>2, FinishBootstrapEffect DEF ModelAdvances, InTransaction, Serving
<1> QED
  BY <1>1, <1>2, <1>3, <1>4, <1>5, <1>6, <1>7, <1>8, <1>9, <1>10, <1>11, <1>12
  DEF Next, ProcessEnvelope, Quiet

\* What is not known to be lost was not known to be lost a step before.
LEMMA InformedBefore ==
    ASSUME TypeInv, [Next]_vars, Informed', Serving'
    PROVE  FinishBootstrap \/ (Serving /\ Informed)
<1>1. FinishBootstrap \/ Serving
  BY ServingFootprint
<1>2. ~spent.cutOff
  BY CutOffStays DEF Informed
<1>3. CASE ReconcileFails
  BY <1>1, <1>2, <1>3, ReconcileFailsEffect DEF Informed
<1>4. CASE Serving /\ ~ReconcileFails
  <2>1. life' = life
    BY <1>4 DEF Serving, Next, Dispatch, ProcessEnvelope, TakeEnvelope, AnswerFromReceipt,
      DecideCommand, AppendEvent, RunProjector, RecordAcceptance, AttemptFails, Commit,
      CommitReportsFailure, PublishEvent, ReconcileEvent, FinishReconcile, RecordRejection,
      Answer, Crash, Upgrade, Start, BootstrapEvent, FinishBootstrap, LocalStep, vars
  <2> QED
    BY <1>2, <1>4, <2>1 DEF Informed
<1> QED
  BY <1>1, <1>3, <1>4

\* What is loaded after one more event is the projection of that event.
LEMMA LoadedAfter ==
    ASSUME NEW rows \in Rows, TraceReplays(rows), NEW n \in 1..Len(rows.events),
           Len(rows.trace) = Len(rows.events) + 1
    PROVE  LoadReadModel(rows.trace[n + 1])
             = Project(LoadReadModel(rows.trace[n]), rows.events[n].event)
<1>1. rows.trace[n] \in Tables /\ rows.events[n].event \in Event
  BY RowsType, ElementOfSeq
<1> QED
  BY <1>1, SimulationAssumption DEF TraceReplays

\* Every step keeps the read model what a restart would load: projecting in
\* memory and in the tables commute, for a commit and for a reconciliation.
LEMMA ModelFollowsStep ==
    TypeInv /\ RowsGrow /\ ProjectorsInStep /\ ModelAdvances /\ ModelFollows /\ [Next]_vars
        => ModelFollows'
<1> SUFFICES ASSUME TypeInv, RowsGrow, ProjectorsInStep, ModelAdvances, ModelFollows,
                    [Next]_vars, Informed', Serving'
             PROVE  /\ LoadedFrom(db, commandReadModel)'
                    /\ phase' # "reconcile" =>
                          commandReadModel'.snapshotSequence = Len(db'.events)
                    /\ InTransaction' => LoadedFrom(worker.tx, worker.nextReadModel)'
                    /\ phase' = "reconcile" => LoadedFrom(db, worker.nextReadModel)'
  BY DEF ModelFollows
<1>0. /\ db \in Rows /\ worker.tx \in Rows
      /\ Len(db.events) \in Nat /\ Len(worker.tx.events) \in Nat
      /\ commandReadModel.snapshotSequence \in Nat
      /\ worker.nextReadModel.snapshotSequence \in Nat
      /\ TraceReplays(db) /\ TraceReplays(worker.tx)
      /\ Len(db.trace) = Len(db.events) + 1
      /\ Len(worker.tx.trace) = Len(worker.tx.events) + 1
  BY Parts DEF TypeInv, TypeOK, Worker, Model, RowsGrow, TraceMatchesLog
<1>1. CASE FinishBootstrap
  <2>1. /\ db' = db /\ phase' = "idle"
        /\ commandReadModel' = [snapshotSequence |-> SnapshotSequence(db.cursor),
                                state |-> LoadReadModel(db.tables)]
    BY <1>1, FinishBootstrapEffect
  <2>2. TablesFollow(db) /\ \A p \in Projector : db.cursor[p] = Len(db.events)
    BY <1>1, FinishBootstrapEffect, CutOffStays DEF ProjectorsInStep, Informed
  <2>3. SnapshotSequence(db.cursor) = Len(db.events)
    BY <1>0, <2>2, RowsType, SnapshotIsACursor
  <2>4. db.tables \in Tables /\ db.trace[Len(db.events) + 1] \in Tables
    BY <1>0, RowsType, ElementOfSeq
  <2>5. \A p \in Projector : db.tables[p] = db.trace[Len(db.events) + 1][p]
    BY <2>2 DEF TablesFollow
  <2>6. db.tables = db.trace[Len(db.events) + 1]
    BY <2>4, <2>5 DEF Tables
  <2> QED
    BY <2>1, <2>3, <2>6 DEF LoadedFrom, InTransaction
<1>2. ASSUME Serving /\ Informed
      PROVE  /\ LoadedFrom(db, commandReadModel)'
             /\ phase' # "reconcile" => commandReadModel'.snapshotSequence = Len(db'.events)
             /\ InTransaction' => LoadedFrom(worker.tx, worker.nextReadModel)'
             /\ phase' = "reconcile" => LoadedFrom(db, worker.nextReadModel)'
  <2>a. /\ LoadedFrom(db, commandReadModel)
        /\ phase # "reconcile" => commandReadModel.snapshotSequence = Len(db.events)
        /\ InTransaction => LoadedFrom(worker.tx, worker.nextReadModel)
        /\ phase = "reconcile" => LoadedFrom(db, worker.nextReadModel)
    BY <1>2 DEF ModelFollows
  <2>1. CASE Quiet
    BY <2>a, <2>1, QuietEffect DEF LoadedFrom, InTransaction
  <2>2. CASE TakeEnvelope
    BY <2>a, <2>2, TakeEnvelopeEffect DEF LoadedFrom, InTransaction
  <2>3. CASE DecideCommand
    BY <2>a, <2>3, DecideCommandEffect DEF LoadedFrom, InTransaction
  <2>4. CASE AppendEvent
    <3> DEFINE n == Len(worker.tx.events) + 1
               e == Head(worker.planned)
    <3>1. /\ phase = "append" /\ phase' = "project"
          /\ db' = db /\ commandReadModel' = commandReadModel
          /\ worker'.nextReadModel.snapshotSequence = n
          /\ worker'.nextReadModel.state = Project(worker.nextReadModel.state, e)
          /\ worker'.tx.trace[n + 1] = ApplyAll(worker.tx.trace[n], e)
      BY <2>4, AppendEventEffect, AppendedRows
    <3>2. worker.nextReadModel.snapshotSequence = n - 1
      BY <1>0, <2>a, <3>1 DEF ModelAdvances, InTransaction, TypeInv, TxExtendsLog
    <3>3. worker.nextReadModel.state = LoadReadModel(worker.tx.trace[n])
      BY <1>0, <2>a, <3>1, <3>2 DEF LoadedFrom, InTransaction
    <3>4. worker.tx.trace[n] \in Tables /\ e \in Event
      <4>1. worker.planned \in Seq(Event) /\ worker.planned # <<>>
        BY <2>4 DEF AppendEvent, TypeInv, TypeOK, Worker
      <4>2. worker.tx.trace \in Seq(Tables) /\ n \in 1..Len(worker.tx.trace)
        BY <1>0, RowsType
      <4> QED
        BY <4>1, <4>2, ElementOfSeq
    <3>5. worker'.nextReadModel.state = LoadReadModel(worker'.tx.trace[n + 1])
      BY <3>1, <3>3, <3>4, SimulationAssumption
    <3> QED
      BY <2>a, <3>1, <3>5 DEF LoadedFrom
  <2>5. CASE RunProjector
    BY <2>a, <2>5, RunProjectorEffect, ProjectedTx DEF LoadedFrom, InTransaction
  <2>6. CASE RecordAcceptance
    BY <2>a, <2>6, RecordAcceptanceEffect, TxSteps DEF LoadedFrom, InTransaction
  <2>7. CASE AttemptFails
    BY <2>a, <2>7, AttemptFailsEffect DEF LoadedFrom, InTransaction
  <2>8. CASE Commit
    <3>1. worker.nextReadModel.snapshotSequence = Len(worker.tx.events)
      BY <1>0, <2>8, CommitEffect DEF ModelAdvances, InTransaction, TypeInv, WorkAhead
    <3> QED
      BY <2>a, <2>8, <3>1, CommitEffect DEF LoadedFrom, InTransaction
  <2>9. CASE CommitReportsFailure
    <3>1. /\ phase = "commit" /\ phase' = "reconcile" /\ db' = worker.tx
          /\ commandReadModel' = commandReadModel /\ worker'.nextReadModel = commandReadModel
      BY <2>9, CommitReportsFailureEffect
    <3>2. commandReadModel.snapshotSequence + 1 \in 1..(Len(db.events) + 1)
      BY <1>0, <1>2 DEF ModelAdvances
    <3>3. worker.tx.trace[commandReadModel.snapshotSequence + 1]
            = db.trace[commandReadModel.snapshotSequence + 1]
      BY <3>1, <3>2 DEF RowsGrow, InTransaction
    <3> QED
      BY <2>a, <3>1, <3>3 DEF LoadedFrom, InTransaction
  <2>10. CASE ReconcileEvent
    <3> DEFINE n == worker.nextReadModel.snapshotSequence + 1
    <3>1. /\ phase = "reconcile" /\ phase' = "reconcile" /\ n \in 1..Len(db.events)
          /\ db' = db /\ commandReadModel' = commandReadModel
          /\ worker'.nextReadModel.snapshotSequence = n
          /\ worker'.nextReadModel.state =
                 Project(worker.nextReadModel.state, db.events[n].event)
      BY <2>10, ReconcileEventEffect
    <3>2. LoadReadModel(db.trace[n + 1])
            = Project(LoadReadModel(db.trace[n]), db.events[n].event)
      BY <1>0, <3>1, LoadedAfter
    <3> QED
      BY <2>a, <3>1, <3>2 DEF LoadedFrom, InTransaction
  <2>11. CASE FinishReconcile
    BY <2>a, <2>11, FinishReconcileEffect DEF LoadedFrom, InTransaction, Informed
  <2>12. CASE ReconcileFails
    <3>1. ~(commandReadModel.snapshotSequence < Len(db.events))
          /\ commandReadModel.snapshotSequence <= Len(db.events)
      BY <1>2, <2>12, ReconcileFailsEffect DEF Informed, ModelAdvances
    <3> QED
      BY <1>0, <2>a, <2>12, <3>1, ReconcileFailsEffect DEF LoadedFrom, InTransaction
  <2>13. CASE Crash \/ Start \/ BootstrapEvent \/ \E p \in Projector : Upgrade(p)
    BY <2>13 DEF Crash, Start, BootstrapEvent, Upgrade, Serving
  <2>14. CASE FinishBootstrap
    BY <1>2, <2>14 DEF FinishBootstrap, Serving
  <2> QED
    BY <2>1, <2>2, <2>3, <2>4, <2>5, <2>6, <2>7, <2>8, <2>9, <2>10, <2>11, <2>12, <2>13, <2>14
    DEF Next, ProcessEnvelope, Quiet
<1> QED
  BY <1>1, <1>2, InformedBefore

\* Consecutive ranges of sequence numbers join.
LEMMA SequencesJoin ==
    ASSUME NEW a \in Nat, NEW b \in Nat, NEW c \in Nat, a <= b, b <= c
    PROVE  Sequences(a + 1, b) \o Sequences(b + 1, c) = Sequences(a + 1, c)
<1>1. /\ Sequences(a + 1, b) \in Seq(Nat) /\ Sequences(b + 1, c) \in Seq(Nat)
      /\ Sequences(a + 1, c) \in Seq(Nat)
  <2>1. a + 1 \in Nat /\ b + 1 \in Nat
    OBVIOUS
  <2> QED
    BY <2>1, SequencesType
<1>2. /\ DOMAIN Sequences(a + 1, b) = 1..(b - a) /\ Len(Sequences(a + 1, b)) = b - a
      /\ DOMAIN Sequences(b + 1, c) = 1..(c - b) /\ Len(Sequences(b + 1, c)) = c - b
      /\ DOMAIN Sequences(a + 1, c) = 1..(c - a) /\ Len(Sequences(a + 1, c)) = c - a
  BY <1>1 DEF Sequences
<1>3. /\ \A i \in 1..(b - a) : Sequences(a + 1, b)[i] = a + i
      /\ \A i \in 1..(c - b) : Sequences(b + 1, c)[i] = b + i
      /\ \A i \in 1..(c - a) : Sequences(a + 1, c)[i] = a + i
  BY DEF Sequences
<1> DEFINE early == Sequences(a + 1, b)
           late == Sequences(b + 1, c)
<1> HIDE DEF early, late
<1>4. early \in Seq(Nat) /\ late \in Seq(Nat) /\ Len(early) = b - a /\ Len(late) = c - b
  BY <1>1, <1>2 DEF early, late
<1>5. /\ early \o late \in Seq(Nat)
      /\ Len(early \o late) = Len(early) + Len(late)
      /\ \A i \in 1..(Len(early) + Len(late)) :
            (early \o late)[i] = IF i <= Len(early) THEN early[i] ELSE late[i - Len(early)]
  BY <1>4, ConcatProperties
<1>6. Len(early \o late) = c - a
  BY <1>4, <1>5
<1>7. ASSUME NEW i \in 1..(c - a) PROVE (early \o late)[i] = a + i
  <2>4. i \in 1..(Len(early) + Len(late)) /\ i \in Nat
    BY <1>4
  <2>1. (early \o late)[i] = IF i <= b - a THEN early[i] ELSE late[i - (b - a)]
    BY <1>4, <1>5, <2>4
  <2>2. CASE i <= b - a
    <3>1. i \in 1..(b - a)
      BY <2>2
    <3>2. early[i] = a + i
      BY <1>3, <3>1 DEF early
    <3> QED
      BY <2>1, <2>2, <3>2
  <2>3. CASE ~(i <= b - a)
    <3>1. i - (b - a) \in 1..(c - b)
      BY <2>3
    <3>2. late[i - (b - a)] = b + (i - (b - a))
      BY <1>3, <3>1 DEF late
    <3> QED
      BY <2>1, <2>3, <3>2
  <2> QED
    BY <2>2, <2>3
<1>8. early \o late = Sequences(a + 1, c)
  <2>1. \A i \in 1..Len(early \o late) : (early \o late)[i] = Sequences(a + 1, c)[i]
    BY <1>3, <1>6, <1>7
  <2>2. Len(early \o late) = Len(Sequences(a + 1, c))
    BY <1>2, <1>6
  <2> QED
    BY <1>1, <1>5, <2>1, <2>2, SeqEqual
<1> QED
  BY <1>8 DEF early, late

\* Publishing takes the next of what was to be announced.
LEMMA PublishKeepsAnnounced ==
    ASSUME NEW s \in Seq(Nat), NEW t \in Seq(Nat), t # <<>>
    PROVE  Append(s, Head(t)) \o Tail(t) = s \o t
<1>1. Head(t) \in Nat /\ Tail(t) \in Seq(Nat) /\ <<Head(t)>> \in Seq(Nat)
  OBVIOUS
<1>2. Append(s, Head(t)) = s \o <<Head(t)>>
  BY <1>1, AppendIsConcat
<1>3. <<Head(t)>> \o Tail(t) = t
  OBVIOUS
<1>4. (s \o <<Head(t)>>) \o Tail(t) = s \o (<<Head(t)>> \o Tail(t))
  BY <1>1, ConcatAssociative
<1> QED
  BY <1>2, <1>3, <1>4

\* An empty range, and what it adds.
LEMMA NothingToAnnounce ==
    ASSUME NEW a \in Nat, NEW s \in Seq(Nat)
    PROVE  Sequences(a + 1, a) = <<>> /\ s \o <<>> = s /\ <<>> \o <<>> = <<>>
<1>1. Sequences(a + 1, a) = <<>>
  <2>1. Sequences(a + 1, a) \in Seq(Nat) /\ Len(Sequences(a + 1, a)) = 0
    BY DEF Sequences
  <2> QED
    BY <2>1, EmptySeq
<1>2. s \o <<>> = s /\ <<>> \o <<>> = <<>>
  BY ConcatEmptySeq
<1> QED
  BY <1>1, <1>2

\* Announcing the sequences after b, when all before are at most b, keeps order.
LEMMA AnnounceMore ==
    ASSUME NEW s \in Seq(Nat), NEW b \in Nat, NEW c \in Nat, b <= c,
           \A i \in DOMAIN s : s[i] <= b,
           \A i, j \in DOMAIN s : i < j => s[i] < s[j]
    PROVE  LET t == s \o Sequences(b + 1, c) IN
           /\ \A i \in DOMAIN t : t[i] <= c
           /\ \A i, j \in DOMAIN t : i < j => t[i] < t[j]
<1> DEFINE late == Sequences(b + 1, c)
           t == s \o late
<1>1. late \in Seq(Nat) /\ Len(late) = c - b /\ \A i \in 1..(c - b) : late[i] = b + i
  <2>1. b + 1 \in Nat
    OBVIOUS
  <2>2. late \in Seq(Nat)
    BY <2>1, SequencesType
  <2> QED
    BY <2>2 DEF Sequences
<1> HIDE DEF late
<1>6. /\ t \in Seq(Nat) /\ Len(t) = Len(s) + Len(late)
      /\ \A i \in 1..(Len(s) + Len(late)) :
            t[i] = IF i <= Len(s) THEN s[i] ELSE late[i - Len(s)]
  BY <1>1, ConcatProperties
<1> HIDE DEF t
<1>7. Len(s) \in Nat /\ DOMAIN s = 1..Len(s) /\ DOMAIN t = 1..Len(t)
  BY <1>6, LenProperties
<1>2. /\ DOMAIN t = 1..(Len(s) + (c - b)) /\ Len(s) \in Nat /\ DOMAIN s = 1..Len(s)
      /\ \A i \in 1..(Len(s) + (c - b)) :
            t[i] = IF i <= Len(s) THEN s[i] ELSE late[i - Len(s)]
  BY <1>1, <1>6, <1>7
<1>3. ASSUME NEW i \in DOMAIN t
      PROVE  /\ i <= Len(s) => i \in DOMAIN s /\ t[i] = s[i] /\ t[i] \in Nat /\ t[i] <= b
             /\ ~(i <= Len(s)) => t[i] = b + (i - Len(s)) /\ t[i] <= c
  <2>1. CASE i <= Len(s)
    <3>1. i \in DOMAIN s /\ t[i] = s[i]
      BY <1>2, <2>1
    <3> QED
      BY <2>1, <3>1
  <2>2. CASE ~(i <= Len(s))
    <3>1. i - Len(s) \in 1..(c - b) /\ t[i] = late[i - Len(s)]
      BY <1>2, <2>2
    <3> QED
      BY <1>1, <1>2, <2>2, <3>1, SMTT(30)
  <2> QED
    BY <2>1, <2>2
<1>4. \A i \in DOMAIN t : t[i] <= c
  BY <1>3
<1>5. ASSUME NEW i \in DOMAIN t, NEW j \in DOMAIN t, i < j PROVE t[i] < t[j]
  <2>0. i \in Nat /\ j \in Nat
    BY <1>2
  <2>1. CASE j <= Len(s)
    BY <1>2, <1>3, <1>5, <2>0, <2>1
  <2>2. CASE i <= Len(s) /\ ~(j <= Len(s))
    BY <1>2, <1>3, <2>0, <2>2
  <2>3. CASE ~(i <= Len(s)) /\ ~(j <= Len(s))
    BY <1>2, <1>3, <1>5, <2>0, <2>3
  <2> QED
    BY <1>2, <1>5, <2>0, <2>1, <2>2, <2>3
<1> QED
  BY <1>4, <1>5 DEF t, late

\* Every step keeps what is published, and about to be, the committed events
\* in the order of the log, and all of them when the log could be read.
LEMMA PublicationStep ==
    TypeInv /\ ModelAdvances /\ ModelFollows /\ ModelFollows' /\ Publication /\ [Next]_vars
        => Publication'
<1> SUFFICES ASSUME TypeInv, ModelAdvances, ModelFollows, ModelFollows', Publication, [Next]_vars
             PROVE  Publication'
  OBVIOUS
<1>0. /\ published \in Seq(Nat) /\ worker.outbox \in Seq(Nat)
      /\ commandReadModel.snapshotSequence \in Nat
      /\ worker.nextReadModel.snapshotSequence \in Nat
      /\ life.bootSequence \in Nat
      /\ Len(db.events) \in Nat /\ Len(worker.tx.events) \in Nat
  BY Parts DEF TypeInv, TypeOK, Worker, Model, Life
<1>a. /\ phase # "publish" => worker.outbox = <<>>
      /\ ~Serving => published = <<>>
      /\ \A i \in DOMAIN Announced : Announced[i] <= commandReadModel.snapshotSequence
      /\ \A i, j \in DOMAIN Announced : i < j => Announced[i] < Announced[j]
      /\ Informed /\ Serving =>
            /\ life.bootSequence <= commandReadModel.snapshotSequence
            /\ Announced = Sequences(life.bootSequence + 1, commandReadModel.snapshotSequence)
  BY DEF Publication
<1>b. Informed' /\ Serving' => FinishBootstrap \/ (Informed /\ Serving)
  BY InformedBefore
<1>1. CASE PublishEvent
  <2>1. /\ phase = "publish" /\ worker.outbox # <<>>
        /\ phase' \in {"publish", "answer", "reject"}
        /\ phase' # "publish" => worker'.outbox = <<>>
        /\ published' \o worker'.outbox = published \o worker.outbox
        /\ commandReadModel' = commandReadModel /\ life' = life /\ spent' = spent
    BY <1>0, <1>1, PublishEventEffect, PublishKeepsAnnounced DEF TypeInv, WorkAhead
  <2> QED
    BY <1>a, <2>1 DEF Publication, Announced, Serving, Informed
<1>2. CASE \/ Quiet /\ ~PublishEvent
           \/ TakeEnvelope \/ DecideCommand \/ AppendEvent \/ RunProjector \/ RecordAcceptance
           \/ AttemptFails \/ CommitReportsFailure \/ ReconcileEvent \/ ReconcileFails
  <2>1. /\ published' = published /\ worker'.outbox = worker.outbox
        /\ commandReadModel' = commandReadModel /\ life'.bootSequence = life.bootSequence
        /\ phase = "publish" => phase' = "publish"
        /\ Serving' <=> Serving
        /\ ~FinishBootstrap \/ ~Serving'
    <3>1. CASE Quiet /\ ~PublishEvent
      <4>1. CASE Answer
        BY <1>a, <4>1, AnswerEffect DEF Serving, FinishBootstrap
      <4>2. CASE RecordRejection
        BY <4>2, RecordRejectionEffect DEF Serving, FinishBootstrap
      <4>3. CASE AnswerFromReceipt
        BY <4>3 DEF AnswerFromReceipt, LocalStep, TypeInv, TypeOK, Worker, Serving,
          FinishBootstrap
      <4>4. CASE (\E id \in CommandId, c \in Command : Dispatch(id, c)) \/ UNCHANGED vars
        BY <4>4 DEF Dispatch, vars, Serving, FinishBootstrap
      <4> QED
        BY <3>1, <4>1, <4>2, <4>3, <4>4 DEF Quiet
    <3>2. CASE TakeEnvelope \/ DecideCommand \/ AppendEvent
      BY <3>2, TakeEnvelopeEffect, DecideCommandEffect, AppendEventEffect
      DEF Serving, FinishBootstrap
    <3>3. CASE RunProjector \/ RecordAcceptance \/ AttemptFails
      BY <3>3, RunProjectorEffect, RecordAcceptanceEffect, AttemptFailsEffect
      DEF Serving, FinishBootstrap
    <3>4. CASE CommitReportsFailure \/ ReconcileEvent \/ ReconcileFails
      BY <3>4, CommitReportsFailureEffect, ReconcileEventEffect, ReconcileFailsEffect
      DEF Serving, FinishBootstrap
    <3> QED
      BY <1>2, <3>1, <3>2, <3>3, <3>4
  <2>2. Announced' = Announced
    BY <2>1 DEF Announced
  <2>3. Informed' /\ Serving' => Informed /\ Serving
    BY <1>b, <2>1
  <2> QED
    BY <1>a, <2>1, <2>2, <2>3 DEF Publication
<1>3. CASE Commit
  <2> DEFINE n == Len(worker.tx.events)
  <2>1. /\ phase = "commit" /\ phase' = "publish" /\ Serving /\ Serving'
        /\ published' = published /\ life' = life /\ spent' = spent
        /\ commandReadModel' = worker.nextReadModel
        /\ worker'.outbox = Sequences(Len(db.events) + 1, n)
    BY <1>3, CommitEffect DEF Serving
  <2>2. /\ n > Len(db.events) /\ worker.nextReadModel.snapshotSequence = n
        /\ commandReadModel.snapshotSequence <= Len(db.events)
    BY <2>1 DEF ModelAdvances, InTransaction, TypeInv, WorkAhead
  <2>3. Announced = published
    BY <1>0, <1>a, <2>1, NothingToAnnounce DEF Announced
  <2>4. /\ \A i \in DOMAIN published : published[i] <= Len(db.events)
        /\ \A i, j \in DOMAIN published : i < j => published[i] < published[j]
    BY <1>0, <1>a, <2>2, <2>3
  <2>5. LET t == published \o Sequences(Len(db.events) + 1, n) IN
        /\ \A i \in DOMAIN t : t[i] <= n
        /\ \A i, j \in DOMAIN t : i < j => t[i] < t[j]
    <3>1. n \in Nat /\ Len(db.events) <= n
      BY <1>0, <2>2
    <3> HIDE DEF n
    <3> QED
      BY <1>0, <2>4, <3>1, AnnounceMore
  <2>6. ASSUME Informed
        PROVE  /\ life.bootSequence <= n
               /\ published \o Sequences(Len(db.events) + 1, n)
                    = Sequences(life.bootSequence + 1, n)
    <3>1. commandReadModel.snapshotSequence = Len(db.events)
      BY <2>1, <2>6 DEF ModelFollows
    <3>2. published = Sequences(life.bootSequence + 1, Len(db.events))
          /\ life.bootSequence <= Len(db.events)
      BY <1>a, <2>1, <2>3, <2>6, <3>1
    <3>3. n \in Nat /\ Len(db.events) <= n /\ life.bootSequence <= n
      BY <1>0, <2>2, <3>2
    <3> HIDE DEF n
    <3>4. Sequences(life.bootSequence + 1, Len(db.events)) \o Sequences(Len(db.events) + 1, n)
            = Sequences(life.bootSequence + 1, n)
      BY <1>0, <3>2, <3>3, SequencesJoin
    <3> QED
      BY <3>2, <3>3, <3>4
  <2> QED
    BY <2>1, <2>2, <2>5, <2>6 DEF Publication, Announced, Informed
<1>4. CASE FinishReconcile
  <2> DEFINE b == commandReadModel.snapshotSequence
             c == worker.nextReadModel.snapshotSequence
  <2>1. /\ phase = "reconcile" /\ phase' \in {"publish", "reject"} /\ Serving /\ Serving'
        /\ published' = published /\ life' = life
        /\ commandReadModel' = worker.nextReadModel
        /\ worker'.outbox = Sequences(worker.startSequence + 1, c)
        /\ phase' = "reject" => ~(worker.startSequence < Len(db.events))
    BY <1>4, FinishReconcileEffect DEF Serving
  <2>2. worker.startSequence = b /\ b <= c /\ c <= Len(db.events)
    BY <2>1 DEF ModelAdvances
  <2>3. Announced = published
    BY <1>0, <1>a, <2>1, NothingToAnnounce DEF Announced
  <2>5. LET t == published \o Sequences(b + 1, c) IN
        /\ \A i \in DOMAIN t : t[i] <= c
        /\ \A i, j \in DOMAIN t : i < j => t[i] < t[j]
    BY <1>0, <1>a, <2>2, <2>3, AnnounceMore
  <2>6. ASSUME Informed'
        PROVE  /\ life.bootSequence <= c
               /\ published \o Sequences(b + 1, c) = Sequences(life.bootSequence + 1, c)
    <3>1. Informed
      BY <1>4, <1>b, <2>1, <2>6 DEF FinishBootstrap
    <3>2. published = Sequences(life.bootSequence + 1, b) /\ life.bootSequence <= b
      BY <1>a, <2>1, <2>3, <3>1
    <3>3. b \in Nat /\ c \in Nat /\ b <= c /\ life.bootSequence <= c
      BY <1>0, <2>2, <3>2
    <3> HIDE DEF b, c
    <3>4. Sequences(life.bootSequence + 1, b) \o Sequences(b + 1, c)
            = Sequences(life.bootSequence + 1, c)
      BY <1>0, <3>2, <3>3, SequencesJoin
    <3> QED
      BY <3>2, <3>3, <3>4
  <2>7. phase' = "reject" => worker'.outbox = <<>>
    <3> SUFFICES ASSUME phase' = "reject" PROVE worker'.outbox = <<>>
      OBVIOUS
    <3>1. c = b
      BY <1>0, <2>1, <2>2
    <3> QED
      BY <1>0, <2>1, <2>2, <3>1, NothingToAnnounce
  <2> QED
    BY <2>1, <2>2, <2>5, <2>6, <2>7 DEF Publication, Announced
<1>5. CASE Crash
  <2>1. /\ phase' = "down" /\ ~Serving' /\ published' = <<>> /\ worker'.outbox = <<>>
    BY <1>5, CrashEffect DEF Serving
  <2>2. published' \o worker'.outbox = <<>>
    BY <1>0, <2>1, NothingToAnnounce
  <2> QED
    BY <2>1, <2>2 DEF Publication, Announced
<1>6. CASE Start \/ BootstrapEvent \/ \E p \in Projector : Upgrade(p)
  <2>1. /\ ~Serving /\ ~Serving' /\ phase' # "publish" /\ phase # "publish"
        /\ published' = published /\ commandReadModel' = commandReadModel
        /\ worker'.outbox = <<>>
    BY <1>6, <1>a, StartEffect, BootstrapEventEffect, UpgradeEffect DEF Serving
  <2>2. published' \o worker'.outbox = <<>>
    BY <1>0, <1>a, <2>1, NothingToAnnounce
  <2> QED
    BY <1>a, <2>1, <2>2 DEF Publication, Announced
<1>7. CASE FinishBootstrap
  <2>1. /\ ~Serving /\ Serving' /\ phase' = "idle" /\ db' = db
        /\ published' = published /\ worker'.outbox = <<>>
        /\ life'.bootSequence = Len(db.events)
    BY <1>7, FinishBootstrapEffect DEF Serving
  <2>2. published' \o worker'.outbox = <<>>
    BY <1>0, <1>a, <2>1, NothingToAnnounce
  <2>3. Informed' => commandReadModel'.snapshotSequence = Len(db.events)
    BY <2>1 DEF ModelFollows
  <2> QED
    BY <1>0, <1>a, <2>1, <2>2, <2>3, NothingToAnnounce DEF Publication, Announced
<1> QED
  BY <1>1, <1>2, <1>3, <1>4, <1>5, <1>6, <1>7 DEF Next, ProcessEnvelope, Quiet

\* What an identifier stands for never changes.
LEMMA IssuedStays ==
    ASSUME TypeInv, [Next]_vars, NEW id \in CommandId, issued[id] # NoCommand
    PROVE  issued'[id] = issued[id]
<1>1. CASE \E x \in CommandId, c \in Command : Dispatch(x, c)
  <2>1. PICK x \in CommandId, c \in Command : Dispatch(x, c)
    BY <1>1
  <2>2. issued' = [issued EXCEPT ![x] = c] /\ issued[x] \in {NoCommand, c}
    BY <2>1 DEF Dispatch
  <2> QED
    BY <2>2 DEF TypeInv, TypeOK
<1>2. CASE issued' = issued
  <2> QED
    BY <1>2
<1>3. (\E x \in CommandId, c \in Command : Dispatch(x, c)) \/ issued' = issued
  BY DEF Next, ProcessEnvelope, TakeEnvelope, AnswerFromReceipt, DecideCommand, AppendEvent,
    RunProjector, RecordAcceptance, AttemptFails, Commit, CommitReportsFailure, PublishEvent,
    ReconcileEvent, FinishReconcile, ReconcileFails, RecordRejection, Answer, Crash, Upgrade,
    Start, BootstrapEvent, FinishBootstrap, LocalStep, callers, vars
<1> QED
  BY <1>1, <1>2, <1>3

\* While no read was lost, none was lost before, in this life or another.
LEMMA NothingLost ==
    ASSUME TypeInv, [Next]_vars, spent'.lostReads = 0
    PROVE  spent.lostReads = 0 /\ (~life.lostRead => ~life'.lostRead)
<1>1. CASE ReconcileFails
  BY <1>1, ReconcileFailsEffect
<1>2. CASE \/ \E id \in CommandId, c \in Command : Dispatch(id, c)
           \/ TakeEnvelope \/ AnswerFromReceipt \/ DecideCommand \/ AppendEvent \/ RunProjector
           \/ RecordAcceptance \/ Commit \/ PublishEvent \/ ReconcileEvent \/ Answer
           \/ BootstrapEvent \/ UNCHANGED vars
  <2>1. spent' = spent /\ life' = life
    BY <1>2 DEF Dispatch, TakeEnvelope, AnswerFromReceipt, DecideCommand, AppendEvent,
      RunProjector, RecordAcceptance, Commit, PublishEvent, ReconcileEvent, Answer,
      BootstrapEvent, LocalStep, vars
  <2> QED
    BY <2>1
<1>3. CASE AttemptFails \/ CommitReportsFailure \/ FinishReconcile \/ RecordRejection
           \/ \E p \in Projector : Upgrade(p)
  BY <1>3, AttemptFailsEffect, CommitReportsFailureEffect, FinishReconcileEffect,
     RecordRejectionEffect, UpgradeEffect
<1>4. CASE Crash \/ Start \/ FinishBootstrap
  BY <1>4, CrashEffect, StartEffect, FinishBootstrapEffect
<1> QED
  BY <1>1, <1>2, <1>3, <1>4 DEF Next, ProcessEnvelope

\* Every step keeps a transaction the execution of one plan.
LEMMA PlanStep == TypeInv /\ PlanInProgress /\ [Next]_vars => PlanInProgress'
<1> SUFFICES ASSUME TypeInv, PlanInProgress, [Next]_vars, InTransaction'
             PROVE  LET plan == Decide(issued'[worker'.commandId], commandReadModel'.state)
                        written == Len(worker'.tx.events) - Len(db'.events)
                    IN
                    /\ Len(plan) = written + Len(worker'.planned)
                    /\ \A i \in 1..written :
                          worker'.tx.events[Len(db'.events) + i].event = plan[i]
                    /\ \A i \in 1..Len(worker'.planned) :
                          worker'.planned[i] = plan[written + i]
                    /\ phase' = "commit" => worker'.planned = <<>>
  BY DEF PlanInProgress
<1> DEFINE plan == Decide(issued[worker.commandId], commandReadModel.state)
           written == Len(worker.tx.events) - Len(db.events)
<1>0. Len(db.events) \in Nat /\ Len(worker.tx.events) \in Nat /\ worker.planned \in Seq(Event)
  BY Parts DEF TypeInv, TypeOK, Worker
<1>b. InTransaction => /\ written \in Nat
                       /\ Len(worker.tx.events) = Len(db.events) + written
  BY <1>0 DEF TypeInv, TxExtendsLog, InTransaction
<1>a. InTransaction => /\ Len(plan) = written + Len(worker.planned)
                       /\ \A i \in 1..written :
                             worker.tx.events[Len(db.events) + i].event = plan[i]
                       /\ \A i \in 1..Len(worker.planned) : worker.planned[i] = plan[written + i]
                       /\ phase = "commit" => worker.planned = <<>>
  BY DEF PlanInProgress
<1> HIDE DEF plan, written
<1>1. CASE DecideCommand /\ phase' = "append"
  <2>1. /\ phase' = "append" /\ db' = db /\ worker'.tx = db
        /\ issued' = issued /\ commandReadModel' = commandReadModel
        /\ worker'.commandId = worker.commandId
        /\ worker'.planned = plan
    BY <1>1, DecideCommandEffect DEF plan
  <2>2. plan \in Seq(Event)
    BY <1>1, BusyCommand, TypingAssumption
       DEF plan, DecideCommand, Busy, TypeInv, TypeOK, Model
  <2>3. Len(plan) \in Nat
    BY <2>2
  <2>4. Len(worker'.tx.events) - Len(db'.events) = 0
    BY <1>0, <2>1
  <2> QED
    BY <2>1, <2>3, <2>4 DEF plan
<1>2. CASE AppendEvent
  <2> DEFINE n == Len(worker.tx.events) + 1
             rest == Len(Tail(worker.planned))
             base == Len(db.events)
  <2>1. /\ phase = "append" /\ phase' = "project" /\ db' = db
        /\ issued' = issued /\ commandReadModel' = commandReadModel
        /\ worker'.commandId = worker.commandId
        /\ worker.planned # <<>> /\ worker'.planned = Tail(worker.planned)
    BY <1>2, AppendEventEffect
  <2>2. /\ Len(worker'.tx.events) = n
        /\ \A i \in 1..(n - 1) : worker'.tx.events[i] = worker.tx.events[i]
        /\ worker'.tx.events[n].event = Head(worker.planned)
    BY <1>2, AppendedRows
  <2>3. /\ rest \in Nat /\ Len(worker.planned) = rest + 1
        /\ Head(worker.planned) = worker.planned[1]
        /\ \A i \in 1..rest : Tail(worker.planned)[i] = worker.planned[i + 1]
    BY <1>0, <2>1
  <2>4. /\ Len(plan) = written + Len(worker.planned)
        /\ \A i \in 1..written : worker.tx.events[base + i].event = plan[i]
        /\ \A i \in 1..Len(worker.planned) : worker.planned[i] = plan[written + i]
    BY <1>a, <2>1 DEF InTransaction
  <2>5. written \in Nat /\ base \in Nat /\ n = base + (written + 1)
    <3>1. written \in Nat /\ base \in Nat /\ Len(worker.tx.events) = base + written
      BY <1>0, <1>b, <2>1 DEF InTransaction
    <3> HIDE DEF base
    <3>2. n = base + (written + 1)
      BY <3>1
    <3> QED
      BY <3>1, <3>2
  <2> HIDE DEF n, rest, base
  <2>6. Len(plan) = (written + 1) + rest
    BY <2>3, <2>4, <2>5
  <2>7. ASSUME NEW i \in 1..(written + 1)
        PROVE  worker'.tx.events[base + i].event = plan[i]
    <3>1. CASE i = written + 1
      <4>1. 1 \in 1..Len(worker.planned)
        BY <2>3
      <4>2. worker.planned[1] = plan[written + 1]
        BY <2>4, <4>1
      <4> QED
        BY <2>2, <2>3, <2>5, <3>1, <4>2
    <3>2. CASE i # written + 1
      <4>1. i \in 1..written /\ base + i \in 1..(n - 1)
        BY <2>5, <3>2
      <4> QED
        BY <2>2, <2>4, <4>1
    <3> QED
      BY <3>1, <3>2
  <2>8. ASSUME NEW i \in 1..rest
        PROVE  Tail(worker.planned)[i] = plan[(written + 1) + i]
    <3>1. i + 1 \in 1..Len(worker.planned) /\ written + (i + 1) = (written + 1) + i
      BY <2>3, <2>5
    <3>2. worker.planned[i + 1] = plan[written + (i + 1)]
      BY <2>4, <3>1
    <3> QED
      BY <2>3, <3>1, <3>2
  <2>9. Len(worker'.tx.events) - base = written + 1
    BY <2>2, <2>5
  <2>10. /\ Decide(issued'[worker'.commandId], commandReadModel'.state) = plan
         /\ Len(db'.events) = base /\ Len(worker'.planned) = rest
    BY <2>1 DEF plan, base, rest
  <2> QED
    BY <2>1, <2>6, <2>7, <2>8, <2>9, <2>10
<1>3. CASE RunProjector \/ RecordAcceptance
  <2>1. /\ InTransaction /\ db' = db /\ worker'.tx.events = worker.tx.events
        /\ issued' = issued /\ commandReadModel' = commandReadModel
        /\ worker'.commandId = worker.commandId /\ worker'.planned = worker.planned
        /\ phase' = "commit" => worker.planned = <<>>
    BY <1>3, RunProjectorEffect, RecordAcceptanceEffect, TxSteps DEF InTransaction
  <2> QED
    BY <1>a, <2>1 DEF plan, written
<1>4. CASE (\E id \in CommandId, c \in Command : Dispatch(id, c)) \/ UNCHANGED vars
  <2>1. /\ worker' = worker /\ db' = db /\ commandReadModel' = commandReadModel
        /\ phase' = phase /\ InTransaction
    BY <1>4 DEF Dispatch, vars, durable, InTransaction
  <2>2. issued'[worker.commandId] = issued[worker.commandId]
    BY <2>1, IssuedStays DEF TypeInv, QueueIssued, Busy, InTransaction
  <2> QED
    BY <1>a, <2>1, <2>2 DEF plan, written
<1> QED
  BY <1>1, <1>2, <1>3, <1>4, TransactionFootprint

\* Every step keeps receipts to identifiers that stand for a command, and a
\* transaction the execution of its plan.
LEMMA DecisionsStep ==
    TypeInv /\ OutcomeMatchesReceipt /\ ReceiptsMatchLog /\ Decisions /\ [Next]_vars
        => Decisions'
<1> SUFFICES ASSUME TypeInv, OutcomeMatchesReceipt, ReceiptsMatchLog, Decisions, [Next]_vars
             PROVE  Decisions'
  OBVIOUS
<1>1. ASSUME NEW id \in CommandId, db'.receipts[id].status # "none"
      PROVE  issued'[id] # NoCommand
  <2>1. issued[id] # NoCommand
    <3>1. CASE db'.receipts[id] = db.receipts[id]
      BY <1>1, <3>1 DEF Decisions
    <3>2. CASE phase = "commit" /\ db' = worker.tx /\ db'.receipts[id] # db.receipts[id]
      <4>1. id = worker.commandId
        BY <3>2, CommittedBlock
      <4> QED
        BY <3>2, <4>1 DEF TypeInv, QueueIssued, Busy
    <3>3. CASE RecordRejection /\ db'.receipts[id] # db.receipts[id]
      <4>1. id = worker.commandId /\ phase = "reject"
        BY <3>3, RecordRejectionEffect
      <4> QED
        BY <4>1 DEF TypeInv, QueueIssued, Busy
    <3> QED
      BY <3>1, <3>2, <3>3, LogFootprint
  <2> QED
    BY <2>1, IssuedStays
<1>2. ASSUME spent'.lostReads = 0 PROVE ~life'.lostRead
  BY <1>2, NothingLost DEF Decisions
<1>3. PlanInProgress'
  BY PlanStep DEF Decisions
<1> QED
  BY <1>1, <1>2, <1>3 DEF Decisions

\* What was decided for a block that is already in the log does not change.
LEMMA DecidedBefore ==
    ASSUME TypeInv, ReceiptsMatchLog, Decisions, DecidedOnCommittedState, [Next]_vars,
           spent'.lostReads = 0, ~spent'.cutOff, NEW id \in CommandId,
           db'.receipts[id] = db.receipts[id], EventsOf(id)' = EventsOf(id),
           db'.receipts[id].status = "accepted",
           \A n \in 1..Len(db.events) : db'.events[n] = db.events[n],
           \A n \in 1..Len(db.events) : db'.trace[n] = db.trace[n]
    PROVE  LET first == FirstEventOf(id)'
               count == db'.receipts[id].resultSequence - first + 1
           IN [i \in 1..count |-> db'.events[first + i - 1].event]
                 = Decide(issued'[id], LoadReadModel(db'.trace[first]))
<1> DEFINE first == FirstEventOf(id)
           last == db.receipts[id].resultSequence
<1>1. FirstEventOf(id)' = first
  BY DEF FirstEventOf
<1>2. issued'[id] = issued[id]
  BY IssuedStays DEF Decisions
<1>3. spent.lostReads = 0 /\ ~spent.cutOff
  BY NothingLost, CutOffStays
<1>4. [i \in 1..(last - first + 1) |-> db.events[first + i - 1].event]
         = Decide(issued[id], LoadReadModel(db.trace[first]))
  BY <1>3 DEF DecidedOnCommittedState
<1>5. EventsOf(id) = first..last /\ EventsOf(id) # {}
  BY DEF ReceiptsMatchLog
<1>6. EventsOf(id) \subseteq 1..Len(db.events) /\ Len(db.events) \in Nat /\ last \in Nat
  BY Parts, RowsType, LenProperties DEF EventsOf
<1>7. first \in EventsOf(id)
  <2>1. EventsOf(id) \subseteq Nat /\ EventsOf(id) # {}
    BY <1>5, <1>6
  <2>2. \E i \in EventsOf(id) : \A j \in EventsOf(id) : i <= j
    BY <2>1, LeastNatural
  <2> QED
    BY <2>2 DEF FirstEventOf
<1> HIDE DEF first, last
<1>8. ASSUME NEW i \in 1..(last - first + 1)
      PROVE  db'.events[first + i - 1] = db.events[first + i - 1]
  <2>1. first + i - 1 \in first..last
    BY <1>6, <1>7
  <2> QED
    BY <1>5, <1>6, <2>1
<1>9. db'.trace[first] = db.trace[first]
  BY <1>6, <1>7
<1>10. [i \in 1..(last - first + 1) |-> db'.events[first + i - 1].event]
         = [i \in 1..(last - first + 1) |-> db.events[first + i - 1].event]
  BY <1>8
<1>11. db'.receipts[id].resultSequence = last
  BY DEF last
<1> QED
  BY <1>1, <1>2, <1>4, <1>9, <1>10, <1>11

\* Every step keeps the blocks of the log what was decided on the state before
\* them: a commit adds the block of its command.
LEMMA DecidedStep ==
    SafetyInv /\ CurrencyInv /\ DecidedOnCommittedState /\ [Next]_vars
        => DecidedOnCommittedState'
<1> SUFFICES ASSUME SafetyInv, CurrencyInv, DecidedOnCommittedState, [Next]_vars,
                    spent'.lostReads = 0, ~spent'.cutOff, NEW id \in CommandId,
                    db'.receipts[id].status = "accepted"
             PROVE  LET first == FirstEventOf(id)'
                        count == db'.receipts[id].resultSequence - first + 1
                    IN [i \in 1..count |-> db'.events[first + i - 1].event]
                          = Decide(issued'[id], LoadReadModel(db'.trace[first]))
  BY DEF DecidedOnCommittedState
<1> USE DEF SafetyInv, CurrencyInv
<1>1. CASE phase = "commit" /\ db' = worker.tx /\ id = worker.commandId
  <2> DEFINE plan == Decide(issued[id], commandReadModel.state)
             base == Len(db.events)
             last == Len(db'.events)
  <2>1. /\ FirstEventOf(id)' = base + 1
        /\ db'.receipts[id] = Receipt("accepted", last)
        /\ base \in Nat /\ last \in Nat
    BY <1>1, CommittedBlock, Parts
  <2>2. issued'[id] = issued[id]
    BY <1>1, IssuedStays DEF TypeInv, QueueIssued, Busy
  <2>3. /\ Len(plan) = last - base + Len(worker.planned)
        /\ \A i \in 1..(last - base) : db'.events[base + i].event = plan[i]
        /\ worker.planned = <<>>
    BY <1>1 DEF Decisions, PlanInProgress, InTransaction
  <2>4. plan \in Seq(Event)
    BY <1>1, BusyCommand, TypingAssumption DEF Busy, TypeInv, TypeOK, Model
  <2>5. commandReadModel.snapshotSequence = base
        /\ commandReadModel.state = LoadReadModel(db.trace[base + 1])
    <3>1. Informed /\ Serving /\ phase # "reconcile"
      BY <1>1, NothingLost, CutOffStays DEF Decisions, Informed, Serving
    <3> QED
      BY <3>1 DEF ModelFollows, LoadedFrom
  <2>6. db'.trace[base + 1] = db.trace[base + 1]
    BY <1>1, <2>1 DEF RowsGrow, InTransaction
  <2> HIDE DEF plan, base, last
  <2>7. plan \in [1..(last - base) -> Event]
    <3>1. Len(plan) = last - base
      BY <2>1, <2>3
    <3> QED
      BY <2>4, <3>1, LenProperties
  <2>8. [i \in 1..(last - base) |-> db'.events[base + i].event] = plan
    BY <2>3, <2>4, <2>7
  <2>9. last - (base + 1) + 1 = last - base
        /\ \A i \in 1..(last - base) : base + 1 + i - 1 = base + i
    BY <2>1
  <2>10. [i \in 1..(last - (base + 1) + 1) |-> db'.events[base + 1 + i - 1].event] = plan
    BY <2>8, <2>9
  <2>11. plan = Decide(issued'[id], LoadReadModel(db'.trace[base + 1]))
    BY <2>2, <2>5, <2>6 DEF plan
  <2>12. db'.receipts[id].resultSequence = last
    BY <2>1 DEF Receipt
  <2> QED
    BY <2>1, <2>10, <2>11, <2>12
<1>2. CASE phase = "commit" /\ db' = worker.tx /\ id # worker.commandId
  <2>1. EventsOf(id)' = EventsOf(id) /\ db'.receipts[id] = db.receipts[id]
    BY <1>2, CommittedBlock
  <2>2. \A n \in 1..Len(db.events) : db'.events[n] = db.events[n]
    BY <1>2, CommitRows
  <2>3. \A n \in 1..Len(db.events) : db'.trace[n] = db.trace[n]
    BY <1>2, Parts DEF RowsGrow, InTransaction
  <2> QED
    BY <2>1, <2>2, <2>3, DecidedBefore
<1>3. CASE db'.events = db.events /\ db'.trace = db.trace /\ db'.receipts[id] = db.receipts[id]
  <2>1. EventsOf(id)' = EventsOf(id)
    BY <1>3 DEF EventsOf
  <2> QED
    BY <1>3, <2>1, DecidedBefore
<1>4. CASE RecordRejection /\ db'.receipts[id] # db.receipts[id]
  BY <1>4, RejectionRows, Parts DEF Receipt
<1> QED
  BY <1>1, <1>2, <1>3, <1>4, LogFootprint, RecordRejectionEffect

-----------------------------------------------------------------------------
(* The invariant and the theorems. *)

\* The invariant holds when the log is empty and the process is down.
LEMMA CurrencyInit == Init => CurrencyInv /\ DecidedOnCommittedState
<1> SUFFICES ASSUME Init PROVE CurrencyInv /\ DecidedOnCommittedState
  OBVIOUS
<1>1. /\ db.events = <<>> /\ db.trace = <<EmptyTables>> /\ db.tables = EmptyTables
      /\ db.cursor = [p \in Projector |-> 0]
      /\ db.receipts = [id \in CommandId |-> NoReceipt]
      /\ worker.tx = db /\ worker.outbox = <<>> /\ published = <<>>
      /\ phase = "down" /\ life.lostRead = FALSE
  BY RestingParts DEF Init, NewLife
<1>2. Len(db.events) = 0
  BY <1>1
<1>3. TraceReplays(db)
  BY <1>1, <1>2 DEF TraceReplays
<1>4. RowsGrow
  BY <1>1, <1>2, <1>3 DEF RowsGrow, InTransaction
<1>5. ProjectorsInStep
  BY <1>1 DEF ProjectorsInStep, TablesFollow, Serving, InTransaction, EmptyTables
<1>6. ModelAdvances /\ ModelFollows
  BY <1>1 DEF ModelAdvances, ModelFollows, Serving, InTransaction
<1>7. Announced = <<>>
  BY <1>1 DEF Announced
<1>8. Publication
  BY <1>1, <1>7 DEF Publication, Serving
<1>9. Decisions /\ DecidedOnCommittedState
  BY <1>1 DEF Decisions, PlanInProgress, InTransaction, DecidedOnCommittedState, NoReceipt
<1> QED
  BY <1>4, <1>5, <1>6, <1>8, <1>9 DEF CurrencyInv

\* The invariant holds in every reachable state.
LEMMA CurrencyInvAlways == Spec => [](SafetyInv /\ CurrencyInv /\ DecidedOnCommittedState)
<1>1. Init => CurrencyInv /\ DecidedOnCommittedState
  BY CurrencyInit
<1>2. SafetyInv /\ SafetyInv' /\ CurrencyInv /\ DecidedOnCommittedState /\ [Next]_vars
        => (CurrencyInv /\ DecidedOnCommittedState)'
  <2> SUFFICES ASSUME SafetyInv, CurrencyInv, DecidedOnCommittedState, [Next]_vars
               PROVE  CurrencyInv' /\ DecidedOnCommittedState'
    OBVIOUS
  <2>1. /\ TypeInv /\ OutcomeMatchesReceipt /\ ReceiptsMatchLog
        /\ RowsGrow /\ ProjectorsInStep /\ ModelAdvances /\ ModelFollows /\ Publication
        /\ Decisions
    BY DEF SafetyInv, CurrencyInv
  <2>2. RowsGrow' /\ ProjectorsInStep' /\ ModelAdvances'
    BY <2>1, RowsGrowStep, ProjectorsInStepStep, ModelAdvancesStep
  <2>3. ModelFollows'
    BY <2>1, ModelFollowsStep
  <2>4. Publication' /\ Decisions'
    BY <2>1, <2>3, PublicationStep, DecisionsStep
  <2>5. DecidedOnCommittedState'
    BY DecidedStep
  <2> QED
    BY <2>2, <2>3, <2>4, <2>5 DEF CurrencyInv
<1> QED
  BY <1>1, <1>2, SafetyInvAlways, PTL DEF Spec

\* Each projector's committed table is what the events up to its cursor
\* produce, whatever fails, crashes or is replayed, and no command is taken
\* before every projector has seen the whole log: the savepoint, the cursor
\* row and the bootstrap of ProjectionPipeline are for this.
THEOREM ProjectionsFollowTheLog == Spec => []ProjectionsReplayLog
<1>1. CurrencyInv => ProjectionsReplayLog
  BY DEF CurrencyInv, RowsGrow, ProjectorsInStep, TablesFollow, ProjectionsReplayLog
<1> QED
  BY <1>1, CurrencyInvAlways, PTL

\* Between two commands the in-memory read model is what a restart would load
\* from the committed tables, after a failed attempt and after a commit that
\* was reported as failed too: what reconcileReadModelAfterDispatchFailure
\* promises when it can read the log.
THEOREM ReadModelStaysCurrent == Spec => []ReadModelCurrent
<1>1. SafetyInv /\ CurrencyInv => ReadModelCurrent
  <2> SUFFICES ASSUME SafetyInv, CurrencyInv, phase = "idle", Informed
               PROVE  commandReadModel = [snapshotSequence |-> Len(db.events),
                                          state |-> LoadReadModel(db.tables)]
    BY DEF ReadModelCurrent, Informed
  <2>1. /\ TypeInv /\ Serving /\ ModelFollows
        /\ TablesFollow(db) /\ \A p \in Projector : db.cursor[p] = Len(db.events)
    BY DEF SafetyInv, CurrencyInv, ProjectorsInStep, Serving, Informed
  <2>2. commandReadModel.snapshotSequence = Len(db.events)
        /\ commandReadModel.state = LoadReadModel(db.trace[Len(db.events) + 1])
    BY <2>1 DEF ModelFollows, LoadedFrom
  <2>3. db.tables = db.trace[Len(db.events) + 1]
    <3>1. db.tables \in Tables /\ db.trace[Len(db.events) + 1] \in Tables
      BY <2>1, Parts, RowsType, ElementOfSeq DEF TypeInv, TraceMatchesLog
    <3> DEFINE loaded == db.trace[Len(db.events) + 1]
    <3>2. \A p \in Projector : db.tables[p] = loaded[p]
      BY <2>1 DEF TablesFollow
    <3>3. db.tables = [p \in Projector |-> db.tables[p]] /\ loaded = [p \in Projector |-> loaded[p]]
      BY <3>1 DEF Tables
    <3> HIDE DEF loaded
    <3>4. db.tables = loaded
      BY <3>2, <3>3
    <3> QED
      BY <3>4 DEF loaded
  <2>4. commandReadModel \in Model
    BY <2>1 DEF TypeInv, TypeOK
  <2> QED
    BY <2>2, <2>3, <2>4 DEF Model
<1> QED
  BY <1>1, CurrencyInvAlways, PTL

\* The block of an accepted command is what the decider plans on the state just
\* before the block, through failures, restarts and commands of other callers.
THEOREM CommandsSeeCommittedState == Spec => []DecidedOnCommittedState
BY CurrencyInvAlways, PTL

\* Subscribers see committed events only, each once and in the order of the
\* log, and between two commands all of those committed since the process
\* started, the ones of a commit that was reported as failed included.
THEOREM PublicationHasNoGaps == Spec => []PublishedWithoutGaps
<1>1. SafetyInv /\ CurrencyInv => PublishedWithoutGaps
  <2> SUFFICES ASSUME SafetyInv, CurrencyInv PROVE PublishedWithoutGaps
    OBVIOUS
  <2>1. /\ TypeInv /\ ModelAdvances /\ ModelFollows /\ Publication
        /\ published \in Seq(Nat) /\ worker.outbox \in Seq(Nat)
        /\ commandReadModel.snapshotSequence \in Nat /\ Len(db.events) \in Nat
    BY Parts DEF SafetyInv, CurrencyInv, TypeInv, TypeOK, Worker, Model
  <2>2. ASSUME NEW i \in DOMAIN published
        PROVE  i \in DOMAIN Announced /\ Announced[i] = published[i]
    <3>1. /\ Len(published) \in Nat /\ Len(worker.outbox) \in Nat
          /\ DOMAIN published = 1..Len(published)
          /\ Announced \in Seq(Nat)
          /\ Len(Announced) = Len(published) + Len(worker.outbox)
          /\ \A j \in 1..Len(published) : Announced[j] = published[j]
      BY <2>1, LenProperties, ConcatProperties DEF Announced
    <3>2. DOMAIN Announced = 1..Len(Announced)
      BY <3>1, LenProperties
    <3> QED
      BY <3>1, <3>2
  <2>3. ASSUME NEW i \in DOMAIN published PROVE published[i] <= Len(db.events)
    <3>1. Serving
      BY <2>1, <2>3 DEF Publication
    <3>2. published[i] \in Nat /\ published[i] <= commandReadModel.snapshotSequence
      BY <2>1, <2>2, <2>3 DEF Publication
    <3>3. commandReadModel.snapshotSequence <= Len(db.events)
      BY <2>1, <3>1 DEF ModelAdvances
    <3> QED
      BY <2>1, <3>2, <3>3
  <2>4. \A i, j \in DOMAIN published : i < j => published[i] < published[j]
    BY <2>1, <2>2 DEF Publication
  <2>5. ASSUME phase = "idle", Informed
        PROVE  published = Sequences(life.bootSequence + 1, Len(db.events))
    <3>1. Serving /\ worker.outbox = <<>>
          /\ commandReadModel.snapshotSequence = Len(db.events)
      BY <2>1, <2>5 DEF Publication, ModelFollows, Serving
    <3>2. Announced = published
      BY <2>1, <3>1 DEF Announced
    <3> QED
      BY <2>1, <2>5, <3>1, <3>2 DEF Publication
  <2> QED
    BY <2>3, <2>4, <2>5 DEF PublishedWithoutGaps, Informed
<1> QED
  BY <1>1, CurrencyInvAlways, PTL
=============================================================================
