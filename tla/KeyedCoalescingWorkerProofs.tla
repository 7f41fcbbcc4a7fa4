-------------------- MODULE KeyedCoalescingWorkerProofs --------------------
(***************************************************************************)
(* For every set of keys and all bounds: no value is stranded, and a       *)
(* drainKey that returns vouches for work that is done.                    *)
(***************************************************************************)
EXTENDS KeyedCoalescingWorker, SequenceTheorems, TLAPS

USE WorkerAssumption

\* Every ticket of a key has been settled, waits in latestByKey or is in the
\* hands of the process effect.
Accounted ==
    \A k \in Key :
        enqueued[k] \subseteq settled \cup latestByKey[k]
            \cup (IF worker.at = "process" /\ worker.key = k THEN worker.value ELSE {})

\* A waiting drainKey asks about tickets of its key.
DrainsAskOfKey == \A d \in drains : d.before \subseteq enqueued[d.key]

WorkerInv ==
    /\ TypeOK
    /\ NoValueStranded
    /\ Accounted
    /\ DrainsAskOfKey
    /\ DrainWaitsForWork

\* The entries of a queue after an offer.
LEMMA EntriesAppend ==
    ASSUME NEW s \in Seq(Key), NEW k \in Key
    PROVE  /\ Append(s, k) \in Seq(Key)
           /\ Entries(Append(s, k)) = Entries(s) \cup {k}
           /\ /\ k \notin Entries(s)
              /\ \A i, j \in DOMAIN s : s[i] = s[j] => i = j
              => \A i, j \in DOMAIN Append(s, k) :
                    Append(s, k)[i] = Append(s, k)[j] => i = j
<1>1. /\ Append(s, k) \in Seq(Key)
      /\ DOMAIN Append(s, k) = DOMAIN s \cup {Len(s) + 1}
      /\ Append(s, k)[Len(s) + 1] = k
      /\ Len(s) + 1 \notin DOMAIN s
      /\ \A i \in DOMAIN s : Append(s, k)[i] = s[i]
  OBVIOUS
<1>2. Entries(Append(s, k)) = Entries(s) \cup {k}
  <2>1. \A i \in DOMAIN Append(s, k) : Append(s, k)[i] \in Entries(s) \cup {k}
    BY <1>1, Zenon DEF Entries
  <2>2. \A x \in Entries(s) \cup {k} : \E i \in DOMAIN Append(s, k) : Append(s, k)[i] = x
    BY <1>1, Zenon DEF Entries
  <2> QED BY <2>1, <2>2, Zenon DEF Entries
<1>3. ASSUME k \notin Entries(s), \A i, j \in DOMAIN s : s[i] = s[j] => i = j
      PROVE  \A i, j \in DOMAIN Append(s, k) : Append(s, k)[i] = Append(s, k)[j] => i = j
  BY <1>1, <1>3, Zenon DEF Entries
<1> QED BY <1>1, <1>2, <1>3

\* The entries of a queue after a take.
LEMMA EntriesTail ==
    ASSUME NEW s \in Seq(Key), s # <<>>,
           \A i, j \in DOMAIN s : s[i] = s[j] => i = j
    PROVE  /\ Head(s) \in Key
           /\ Tail(s) \in Seq(Key)
           /\ Entries(Tail(s)) = Entries(s) \ {Head(s)}
           /\ Head(s) \in Entries(s)
           /\ \A i, j \in DOMAIN Tail(s) : Tail(s)[i] = Tail(s)[j] => i = j
<1>1. /\ Head(s) \in Key /\ Head(s) = s[1] /\ 1 \in DOMAIN s
      /\ Tail(s) \in Seq(Key)
      /\ \A i \in DOMAIN Tail(s) : i + 1 \in DOMAIN s /\ i + 1 # 1 /\ Tail(s)[i] = s[i + 1]
      /\ \A i \in DOMAIN s : i # 1 => i - 1 \in DOMAIN Tail(s) /\ i = (i - 1) + 1
      /\ \A i, j \in DOMAIN Tail(s) : i + 1 = j + 1 => i = j
  OBVIOUS
<1>2. Entries(Tail(s)) \subseteq Entries(s) \ {Head(s)}
  BY <1>1 DEF Entries
<1>3. ASSUME NEW x \in Entries(s) \ {Head(s)}
      PROVE  x \in Entries(Tail(s))
  <2>1. PICK i \in DOMAIN s : x = s[i]
    BY DEF Entries
  <2>2. i - 1 \in DOMAIN Tail(s) /\ Tail(s)[i - 1] = s[i]
    BY <1>1, <2>1
  <2> QED BY <2>1, <2>2 DEF Entries
<1>4. \A i, j \in DOMAIN Tail(s) : Tail(s)[i] = Tail(s)[j] => i = j
  BY <1>1
<1> QED BY <1>1, <1>2, <1>3, <1>4 DEF Entries

\* Initially nothing waits.
LEMMA InitWorker == Init => WorkerInv
<1> SUFFICES ASSUME Init PROVE WorkerInv
  OBVIOUS
<1> USE DEF Init, AtTake, OnTheirWay, Entries
<1>1. TypeOK
  BY DEF TypeOK
<1>2. NoValueStranded
  BY DEF NoValueStranded
<1>3. Accounted /\ DrainsAskOfKey /\ DrainWaitsForWork
  BY DEF Accounted, DrainsAskOfKey, DrainWaitsForWork
<1> QED BY <1>1, <1>2, <1>3 DEF WorkerInv

\* Steps that only add to what is settled or waits to be vouched for.
LEMMA HistoryStep ==
    ASSUME WorkerInv, UNCHANGED <<state, queue, enqueued>>,
           \/ \E k \in Key : DrainKey(k)
           \/ \E d \in drains : ResolveDrain(d)
           \/ ProcessReturns
           \/ ProcessFails
    PROVE  WorkerInv'
<1> USE DEF state
<1>1. CASE \E k \in Key : DrainKey(k)
  <2>1. PICK k \in Key : DrainKey(k)
    BY <1>1
  <2>2. TypeOK'
    BY <2>1 DEF WorkerInv, TypeOK, DrainKey
  <2>3. NoValueStranded'
    BY <2>1 DEF WorkerInv, NoValueStranded, OnTheirWay, DrainKey
  <2>4. Accounted' /\ DrainsAskOfKey' /\ DrainWaitsForWork'
    BY <2>1 DEF WorkerInv, Accounted, DrainsAskOfKey, DrainWaitsForWork, DrainKey
  <2> QED BY <2>2, <2>3, <2>4 DEF WorkerInv
<1>2. CASE \E d \in drains : ResolveDrain(d)
  <2>1. PICK d \in drains : ResolveDrain(d)
    BY <1>2
  <2>2. d.before \in SUBSET Ticket /\ d.key \in Key
    BY DEF WorkerInv, TypeOK
  <2>3. TypeOK'
    BY <2>1, <2>2 DEF WorkerInv, TypeOK, ResolveDrain
  <2>4. NoValueStranded'
    BY <2>1 DEF WorkerInv, NoValueStranded, OnTheirWay, ResolveDrain
  <2>5. Accounted' /\ DrainsAskOfKey'
    BY <2>1 DEF WorkerInv, Accounted, DrainsAskOfKey, ResolveDrain
  <2>6. d.before \subseteq settled
    <3>1. latestByKey[d.key] = {} /\ d.key \notin activeKeys
      BY <2>1 DEF ResolveDrain, Quiet
    <3>2. ~(worker.at = "process" /\ worker.key = d.key)
      BY <3>1 DEF WorkerInv, NoValueStranded
    <3>3. enqueued[d.key] \subseteq settled
      BY <2>2, <3>1, <3>2 DEF WorkerInv, Accounted
    <3> QED BY <3>3 DEF WorkerInv, DrainsAskOfKey
  <2>7. DrainWaitsForWork'
    BY <2>1, <2>6 DEF WorkerInv, DrainWaitsForWork, ResolveDrain
  <2> QED BY <2>3, <2>4, <2>5, <2>7 DEF WorkerInv
<1>3. CASE ProcessReturns \/ ProcessFails
  <2>1. /\ worker.at = "process" /\ worker'.at \in {"next", "cleanup"}
        /\ worker' = [worker EXCEPT !.at = worker'.at]
        /\ settled' = settled \cup worker.value
        /\ UNCHANGED <<latestByKey, queuedKeys, activeKeys, queue, enqueued, handed, drains,
                       promised>>
        /\ spent' \in [enqueues : 0..MaxEnqueues, drains : 0..MaxDrains,
                       failures : 0..MaxFailures]
    BY <1>3 DEF WorkerInv, TypeOK, ProcessReturns, ProcessFails
  <2>2. worker'.key = worker.key /\ worker'.value = worker.value
    BY <2>1 DEF WorkerInv, TypeOK
  <2>3. TypeOK'
    BY <2>1 DEF WorkerInv, TypeOK
  <2>4. NoValueStranded'
    BY <2>1, <2>2 DEF WorkerInv, NoValueStranded, OnTheirWay
  <2>5. Accounted'
    BY <2>1, <2>2 DEF WorkerInv, Accounted
  <2>6. DrainsAskOfKey' /\ DrainWaitsForWork'
    BY <2>1 DEF WorkerInv, DrainsAskOfKey, DrainWaitsForWork
  <2> QED BY <2>3, <2>4, <2>5, <2>6 DEF WorkerInv
<1> QED BY <1>1, <1>2, <1>3

\* An enqueued value joins what waits, and its key is queued if need be.
LEMMA EnqueueStep ==
    ASSUME WorkerInv, NEW k \in Key, Enqueue(k)
    PROVE  WorkerInv'
<1>0. /\ latestByKey \in [Key -> SUBSET Ticket] /\ enqueued \in [Key -> SUBSET Ticket]
      /\ queuedKeys \subseteq Key /\ queue \in Seq(Key)
      /\ spent \in [enqueues : 0..MaxEnqueues, drains : 0..MaxDrains,
                    failures : 0..MaxFailures]
  BY DEF WorkerInv, TypeOK
<1> DEFINE ticket == spent.enqueues + 1
<1>1. ticket \in Ticket
  BY <1>0 DEF Enqueue, Ticket
<1>2. /\ latestByKey' = [latestByKey EXCEPT ![k] = @ \cup {ticket}]
      /\ enqueued' = [enqueued EXCEPT ![k] = @ \cup {ticket}]
      /\ spent' = [spent EXCEPT !.enqueues = ticket]
      /\ UNCHANGED <<activeKeys, worker, handed, settled, drains, promised>>
  BY DEF Enqueue
<1> HIDE DEF ticket
<1>3. \/ k \in queuedKeys \cup activeKeys /\ UNCHANGED <<queuedKeys, queue>>
      \/ /\ k \notin queuedKeys /\ k \notin activeKeys
         /\ queuedKeys' = queuedKeys \cup {k} /\ queue' = Append(queue, k)
  BY DEF Enqueue
<1>4. /\ latestByKey' \in [Key -> SUBSET Ticket] /\ enqueued' \in [Key -> SUBSET Ticket]
      /\ latestByKey'[k] = latestByKey[k] \cup {ticket}
      /\ enqueued'[k] = enqueued[k] \cup {ticket}
      /\ \A j \in Key \ {k} : latestByKey'[j] = latestByKey[j] /\ enqueued'[j] = enqueued[j]
  BY <1>0, <1>1, <1>2
<1>5. TypeOK'
  <2>1. queuedKeys' \subseteq Key /\ queue' \in Seq(Key)
    BY <1>0, <1>3, EntriesAppend, ZenonT(30)
  <2>2. spent' \in [enqueues : 0..MaxEnqueues, drains : 0..MaxDrains,
                    failures : 0..MaxFailures]
    BY <1>0, <1>1, <1>2 DEF Ticket
  <2> QED BY <1>2, <1>4, <2>1, <2>2 DEF WorkerInv, TypeOK
<1>6. NoValueStranded'
  <2> DEFINE Held == IF worker.at \in {"activate", "requeue"} THEN {worker.key} ELSE {}
  <2>1. queuedKeys = Entries(queue) \cup Held
    BY DEF WorkerInv, NoValueStranded, OnTheirWay
  <2>2. /\ queuedKeys' = Entries(queue') \cup Held
        /\ \A i, j \in DOMAIN queue' : queue'[i] = queue'[j] => i = j
    <3>1. CASE UNCHANGED <<queuedKeys, queue>>
      BY <2>1, <3>1 DEF WorkerInv, NoValueStranded
    <3>2. CASE /\ k \notin queuedKeys
               /\ queuedKeys' = queuedKeys \cup {k} /\ queue' = Append(queue, k)
      <4>1. k \notin Entries(queue)
        BY <2>1, <3>2
      <4>2. \A i, j \in DOMAIN queue : queue[i] = queue[j] => i = j
        BY DEF WorkerInv, NoValueStranded
      <4>3. /\ Entries(queue') = Entries(queue) \cup {k}
            /\ \A i, j \in DOMAIN queue' : queue'[i] = queue'[j] => i = j
        BY <1>0, <3>2, <4>1, <4>2, EntriesAppend
      <4> QED BY <2>1, <3>2, <4>3
    <3> QED BY <1>3, <3>1, <3>2
  <2>3. \A j \in Key : latestByKey'[j] # {} => j \in queuedKeys' \cup activeKeys'
    BY <1>2, <1>3, <1>4 DEF WorkerInv, NoValueStranded
  <2>4. \A j \in queuedKeys' : latestByKey'[j] # {}
    BY <1>0, <1>3, <1>4 DEF WorkerInv, NoValueStranded
  <2>5. OnTheirWay' = Entries(queue') \cup Held
    BY <1>2 DEF OnTheirWay
  <2>6. activeKeys' =
          IF worker'.at \in {"process", "next", "cleanup"} THEN {worker'.key} ELSE {}
    BY <1>2 DEF WorkerInv, NoValueStranded
  <2>7. worker'.at \in {"activate", "requeue"} => worker'.key \notin Entries(queue')
    <3> SUFFICES ASSUME worker.at \in {"activate", "requeue"}
                 PROVE  worker.key \notin Entries(queue')
      BY <1>2
    <3>1. worker.key \in queuedKeys /\ worker.key \notin Entries(queue)
      BY <2>1 DEF WorkerInv, NoValueStranded
    <3>2. queue' = queue \/ (Entries(queue') = Entries(queue) \cup {k} /\ k # worker.key)
      BY <1>0, <1>3, <3>1, EntriesAppend
    <3> QED BY <3>1, <3>2
  <2>8. queuedKeys' \cap activeKeys' = {}
    BY <1>2, <1>3 DEF WorkerInv, NoValueStranded
  <2> QED BY <2>2, <2>3, <2>4, <2>5, <2>6, <2>7, <2>8 DEF NoValueStranded
<1>7. Accounted'
  BY <1>2, <1>4 DEF WorkerInv, Accounted
<1>8. DrainsAskOfKey'
  <2>1. \A d \in drains : d.key \in Key /\ d.before \subseteq enqueued[d.key]
    BY DEF WorkerInv, TypeOK, DrainsAskOfKey
  <2> QED BY <1>2, <1>4, <2>1 DEF DrainsAskOfKey
<1>9. DrainWaitsForWork'
  BY <1>2 DEF WorkerInv, DrainWaitsForWork
<1> QED BY <1>5, <1>6, <1>7, <1>8, <1>9 DEF WorkerInv

\* Steps that move keys and leave what is settled, asked and promised alone.
LEMMA QuietHistory ==
    ASSUME WorkerInv, UNCHANGED <<enqueued, settled, drains, promised, spent>>
    PROVE  /\ DrainsAskOfKey' /\ DrainWaitsForWork'
           /\ enqueued' \in [Key -> SUBSET Ticket]
           /\ settled' \subseteq Ticket
           /\ drains' \subseteq [call : 1..MaxDrains, key : Key, before : SUBSET Ticket]
           /\ promised' \subseteq Ticket
           /\ spent' \in [enqueues : 0..MaxEnqueues, drains : 0..MaxDrains,
                          failures : 0..MaxFailures]
BY DEF WorkerInv, TypeOK, DrainsAskOfKey, DrainWaitsForWork

\* A key moves from the queue to the worker, or back.
LEMMA QueueStep == ASSUME WorkerInv, Take \/ Requeue PROVE WorkerInv'
<1>0. /\ queue \in Seq(Key) /\ queuedKeys = OnTheirWay
      /\ \A i, j \in DOMAIN queue : queue[i] = queue[j] => i = j
      /\ worker.at # "take" => worker.key \in Key
      /\ UNCHANGED <<latestByKey, queuedKeys, activeKeys, enqueued, handed, settled, drains,
                     promised, spent>>
  BY DEF WorkerInv, TypeOK, NoValueStranded, Take, Requeue, state
<1>1. CASE Take
  <2>1. /\ worker.at = "take" /\ worker'.at = "activate" /\ worker'.key = Head(queue)
        /\ worker'.value = {} /\ queue # <<>> /\ queue' = Tail(queue)
        /\ worker' \in [at : {"activate"}, key : Key, value : SUBSET Ticket]
    BY <1>0, <1>1 DEF Take
  <2>2. /\ queue' \in Seq(Key)
        /\ Entries(queue') = Entries(queue) \ {worker'.key}
        /\ worker'.key \in Entries(queue)
        /\ \A i, j \in DOMAIN queue' : queue'[i] = queue'[j] => i = j
    BY <1>0, <2>1, EntriesTail
  <2>3. TypeOK'
    BY <1>0, <2>1, <2>2 DEF WorkerInv, TypeOK
  <2>4. NoValueStranded'
    BY <1>0, <2>1, <2>2 DEF WorkerInv, NoValueStranded, OnTheirWay
  <2>5. Accounted'
    BY <1>0, <2>1 DEF WorkerInv, Accounted
  <2> QED BY <1>0, <2>3, <2>4, <2>5, QuietHistory DEF WorkerInv
<1>2. CASE Requeue
  <2>1. /\ worker.at = "requeue" /\ worker' = AtTake /\ queue' = Append(queue, worker.key)
    BY <1>2 DEF Requeue
  <2>2. worker.key \in queuedKeys
    BY <1>0, <2>1 DEF OnTheirWay
  <2>3. worker.key \notin Entries(queue)
    BY <1>0, <2>1 DEF WorkerInv, NoValueStranded
  <2>4. /\ queue' \in Seq(Key)
        /\ Entries(queue') = Entries(queue) \cup {worker.key}
        /\ \A i, j \in DOMAIN queue' : queue'[i] = queue'[j] => i = j
    BY <1>0, <2>1, <2>3, EntriesAppend
  <2>5. TypeOK'
    BY <1>0, <2>1, <2>4 DEF WorkerInv, TypeOK, AtTake
  <2>6. NoValueStranded'
    BY <1>0, <2>1, <2>4 DEF WorkerInv, NoValueStranded, OnTheirWay, AtTake
  <2>7. Accounted'
    BY <1>0, <2>1 DEF WorkerInv, Accounted, AtTake
  <2> QED BY <1>0, <2>5, <2>6, <2>7, QuietHistory DEF WorkerInv
<1> QED BY <1>1, <1>2

\* The worker takes the value of a key in hand, or puts the key down.
LEMMA HandStep == ASSUME WorkerInv, Activate \/ NextValue PROVE WorkerInv'
<1> DEFINE k == worker.key
           value == latestByKey[k]
<1>0. /\ k \in Key /\ value \in SUBSET Ticket
      /\ latestByKey \in [Key -> SUBSET Ticket] /\ queue \in Seq(Key)
      /\ handed \in Seq([key : Key, value : SUBSET Ticket])
      /\ queuedKeys \subseteq Key /\ activeKeys \subseteq Key
      /\ worker.at \in {"activate", "next"}
      /\ queuedKeys' = queuedKeys \ (IF worker.at = "activate" THEN {k} ELSE {})
      /\ UNCHANGED <<queue, enqueued, settled, drains, promised, spent>>
  BY DEF WorkerInv, TypeOK, Activate, NextValue
<1>1. /\ queuedKeys' = Entries(queue)
      /\ worker.at = "activate" => value # {}
      /\ activeKeys = (IF worker.at = "next" THEN {k} ELSE {})
      /\ queuedKeys \cap activeKeys = {}
      /\ \A j \in Key : latestByKey[j] # {} => j \in queuedKeys \cup activeKeys
      /\ \A j \in queuedKeys : latestByKey[j] # {}
      /\ \A i, j \in DOMAIN queue : queue[i] = queue[j] => i = j
  BY <1>0 DEF WorkerInv, NoValueStranded, OnTheirWay
<1>2. CASE value = {}
  <2>1. /\ worker.at = "next" /\ worker' = AtTake /\ activeKeys' = activeKeys \ {k}
        /\ UNCHANGED <<latestByKey, handed>>
    BY <1>0, <1>1, <1>2 DEF NextValue, Activate
  <2>2. TypeOK'
    BY <1>0, <2>1 DEF WorkerInv, TypeOK, AtTake
  <2>3. NoValueStranded'
    BY <1>0, <1>1, <1>2, <2>1 DEF NoValueStranded, OnTheirWay, AtTake
  <2>4. Accounted'
    BY <1>0, <2>1 DEF WorkerInv, Accounted, AtTake
  <2> QED BY <1>0, <2>2, <2>3, <2>4, QuietHistory DEF WorkerInv
<1>3. CASE value # {}
  <2>1. /\ worker' = [at |-> "process", key |-> k, value |-> value]
        /\ handed' = Append(handed, [key |-> k, value |-> value])
        /\ latestByKey' = [latestByKey EXCEPT ![k] = {}]
        /\ activeKeys' = activeKeys \cup {k}
    BY <1>0, <1>1, <1>3 DEF NextValue, Activate, Hand
  <2>2. TypeOK'
    <3>1. handed' \in Seq([key : Key, value : SUBSET Ticket])
      BY <1>0, <2>1
    <3> QED BY <1>0, <2>1, <3>1 DEF WorkerInv, TypeOK
  <2>3. NoValueStranded'
    <3>1. k \notin queuedKeys'
      BY <1>0, <1>1 DEF WorkerInv, NoValueStranded, OnTheirWay
    <3>2. latestByKey'[k] = {} /\ \A j \in Key \ {k} : latestByKey'[j] = latestByKey[j]
      BY <1>0, <2>1
    <3> QED BY <1>0, <1>1, <2>1, <3>1, <3>2 DEF NoValueStranded, OnTheirWay
  <2>4. Accounted'
    <3>1. \A j \in Key : enqueued[j] \subseteq settled \cup latestByKey[j]
      BY <1>0 DEF WorkerInv, Accounted
    <3>2. /\ worker'.at = "process" /\ worker'.key = k /\ worker'.value = value
          /\ \A j \in Key \ {k} : latestByKey'[j] = latestByKey[j]
      BY <1>0, <2>1
    <3> QED BY <1>0, <3>1, <3>2 DEF Accounted
  <2> QED BY <1>0, <2>2, <2>3, <2>4, QuietHistory DEF WorkerInv
<1> QED BY <1>2, <1>3

\* A failed key is put down, or marked as queued again for what waits.
LEMMA CleanupStep == ASSUME WorkerInv, CleanupFailedKey PROVE WorkerInv'
<1>0. /\ worker.at = "cleanup" /\ worker.key \in Key
      /\ activeKeys = {worker.key} /\ activeKeys' = {} /\ queuedKeys \cap activeKeys = {}
      /\ queuedKeys = Entries(queue)
      /\ queuedKeys \subseteq Key
      /\ UNCHANGED <<latestByKey, queue, enqueued, handed, settled, drains, promised, spent>>
  BY DEF WorkerInv, TypeOK, NoValueStranded, OnTheirWay, CleanupFailedKey
<1>1. \/ /\ latestByKey[worker.key] # {} /\ worker.key \notin queuedKeys
         /\ queuedKeys' = queuedKeys \cup {worker.key}
         /\ worker' = [worker EXCEPT !.at = "requeue"]
         /\ worker'.at = "requeue" /\ worker'.key = worker.key
      \/ /\ ~(latestByKey[worker.key] # {} /\ worker.key \notin queuedKeys)
         /\ worker' = AtTake /\ worker'.at = "take" /\ UNCHANGED queuedKeys
  BY DEF CleanupFailedKey, WorkerInv, TypeOK, AtTake
<1>2. TypeOK'
  BY <1>0, <1>1 DEF WorkerInv, TypeOK, AtTake
<1>3. NoValueStranded'
  BY <1>0, <1>1 DEF WorkerInv, NoValueStranded, OnTheirWay
<1>4. Accounted'
  BY <1>0, <1>1 DEF WorkerInv, Accounted
<1> QED BY <1>0, <1>2, <1>3, <1>4, QuietHistory DEF WorkerInv

\* Every step of callers and worker preserves the invariant.
LEMMA WorkerInvStep == WorkerInv /\ [Next]_vars => WorkerInv'
<1> SUFFICES ASSUME WorkerInv, [Next]_vars PROVE WorkerInv'
  OBVIOUS
<1>1. CASE \E k \in Key : Enqueue(k)
  BY <1>1, EnqueueStep
<1>2. CASE \E k \in Key : DrainKey(k)
  BY <1>2, HistoryStep DEF DrainKey, state
<1>3. CASE \E d \in drains : ResolveDrain(d)
  BY <1>3, HistoryStep DEF ResolveDrain, state
<1>4. CASE ProcessReturns \/ ProcessFails
  BY <1>4, HistoryStep DEF ProcessReturns, ProcessFails, state
<1>5. CASE Take \/ Requeue
  BY <1>5, QueueStep
<1>6. CASE Activate \/ NextValue
  BY <1>6, HandStep
<1>7. CASE CleanupFailedKey
  BY <1>7, CleanupStep
<1>8. CASE UNCHANGED vars
  BY <1>8 DEF vars, state, WorkerInv, TypeOK, NoValueStranded, OnTheirWay, Accounted,
              DrainsAskOfKey, DrainWaitsForWork
<1> QED BY <1>1, <1>2, <1>3, <1>4, <1>5, <1>6, <1>7, <1>8 DEF Next, WorkerStep

\* The invariant holds in every reachable state.
LEMMA WorkerInvAlways == Spec => []WorkerInv
BY InitWorker, WorkerInvStep, PTL DEF Spec

\* drainKey keeps its promise: when it returns, every value enqueued for the
\* key before the call has been processed, whatever was merged into others,
\* failed, or was put back in the queue meanwhile.
THEOREM DrainIsSound == Spec => []DrainWaitsForWork
<1>1. WorkerInv => DrainWaitsForWork
  BY DEF WorkerInv
<1> QED BY <1>1, WorkerInvAlways, PTL

\* No enqueued value is forgotten: its key is on its way to the worker or in
\* its hands, also between the two transactions that put a failed key back.
THEOREM NothingIsStranded == Spec => []NoValueStranded
<1>1. WorkerInv => NoValueStranded
  BY DEF WorkerInv
<1> QED BY <1>1, WorkerInvAlways, PTL

\* Every reachable state is well-typed; the worker never ends.
THEOREM WorkerTypeCorrect == Spec => []TypeOK
<1>1. WorkerInv => TypeOK
  BY DEF WorkerInv
<1> QED BY <1>1, WorkerInvAlways, PTL

-----------------------------------------------------------------------------
(* The order in which values are handed over *)

\* What waits for a key was enqueued after all that was handed over for it,
\* and the next ticket is later than both.
HandedBeforeWaiting ==
    /\ \A k \in Key : \A n \in latestByKey[k] : n <= spent.enqueues
    /\ \A i \in DOMAIN handed : \A m \in handed[i].value :
          /\ m <= spent.enqueues
          /\ \A n \in latestByKey[handed[i].key] : m < n

OrderInv == HandedBeforeWaiting /\ HandedInOrder

\* An element of a sequence is of the sequence's set.
LEMMA SequenceElement ==
    ASSUME NEW S, NEW seq \in Seq(S), NEW i \in DOMAIN seq
    PROVE  seq[i] \in S
OBVIOUS

\* What was handed over is a value of a key, made of tickets.
LEMMA HandedElements ==
    ASSUME WorkerInv, NEW i \in DOMAIN handed
    PROVE  /\ handed[i].key \in Key
           /\ handed[i].value \subseteq Ticket
           /\ \A m \in handed[i].value : m \in Nat
<1>1. handed \in Seq([key : Key, value : SUBSET Ticket])
  BY DEF WorkerInv, TypeOK
<1>2. handed[i] \in [key : Key, value : SUBSET Ticket]
  BY <1>1, SequenceElement
<1>3. handed[i].key \in Key /\ handed[i].value \subseteq Ticket
  BY <1>2
<1>4. Ticket \subseteq Nat
  BY DEF Ticket
<1> QED BY <1>3, <1>4

\* A new ticket joins what waits, and is later than any other.
LEMMA EnqueueKeepsOrder ==
    ASSUME WorkerInv, OrderInv, NEW k \in Key, Enqueue(k)
    PROVE  OrderInv'
<1> USE DEF WorkerInv, TypeOK, Ticket
<1>1. /\ handed' = handed
      /\ spent'.enqueues = spent.enqueues + 1
      /\ latestByKey' = [latestByKey EXCEPT ![k] = @ \cup {spent.enqueues + 1}]
      /\ spent.enqueues \in Nat
  BY DEF Enqueue
<1>2. HandedInOrder'
  BY <1>1 DEF OrderInv, HandedInOrder
<1>3. ASSUME NEW j \in Key, NEW n \in latestByKey'[j]
      PROVE  n <= spent'.enqueues
  <2>1. n \in latestByKey[j] \/ n = spent.enqueues + 1
    BY <1>1
  <2>2. n \in latestByKey[j] => n \in Nat /\ n <= spent.enqueues
    BY DEF OrderInv, HandedBeforeWaiting
  <2> QED BY <1>1, <2>1, <2>2
<1>4. ASSUME NEW i \in DOMAIN handed, NEW m \in handed[i].value
      PROVE  /\ m <= spent'.enqueues
             /\ \A n \in latestByKey'[handed[i].key] : m < n
  <2>1. handed[i].key \in Key /\ m \in Nat
    BY HandedElements
  <2>3. m <= spent.enqueues
    BY DEF OrderInv, HandedBeforeWaiting
  <2>2. ASSUME NEW n \in latestByKey'[handed[i].key]
        PROVE  m < n
    <3>1. n \in latestByKey[handed[i].key] \/ n = spent.enqueues + 1
      BY <1>1, <2>1
    <3>2. n \in latestByKey[handed[i].key] => m < n
      BY DEF OrderInv, HandedBeforeWaiting
    <3> QED BY <1>1, <2>1, <2>3, <3>1, <3>2
  <2> QED BY <1>1, <2>1, <2>2, <2>3
<1> QED BY <1>1, <1>2, <1>3, <1>4 DEF OrderInv, HandedBeforeWaiting

\* What waits for a key is handed over last, and nothing waits for it then.
LEMMA HandKeepsOrder ==
    ASSUME WorkerInv, OrderInv, NEW k \in Key, Hand(k, latestByKey[k]),
           latestByKey' = [latestByKey EXCEPT ![k] = {}], UNCHANGED spent
    PROVE  OrderInv'
<1> DEFINE last == [key |-> k, value |-> latestByKey[k]]
<1>1. /\ handed \in Seq([key : Key, value : SUBSET Ticket])
      /\ latestByKey \in [Key -> SUBSET Ticket]
      /\ last \in [key : Key, value : SUBSET Ticket]
  BY DEF WorkerInv, TypeOK
<1>2. handed' = Append(handed, last)
  BY DEF Hand
<1>3. /\ DOMAIN handed' = DOMAIN handed \cup {Len(handed) + 1}
      /\ handed'[Len(handed) + 1] = last
      /\ \A i \in DOMAIN handed : handed'[i] = handed[i] /\ i <= Len(handed)
      /\ DOMAIN handed' \subseteq Nat
      /\ Len(handed) \in Nat
  BY <1>1, <1>2
<1>4. \A j \in Key : latestByKey'[j] \subseteq latestByKey[j] /\ latestByKey'[k] = {}
  BY <1>1
<1>5. HandedBeforeWaiting'
  <2>1. \A j \in Key : \A n \in latestByKey'[j] : n <= spent'.enqueues
    BY <1>4 DEF OrderInv, HandedBeforeWaiting
  <2>2. ASSUME NEW i \in DOMAIN handed', NEW m \in handed'[i].value
        PROVE  /\ m <= spent'.enqueues
               /\ \A n \in latestByKey'[handed'[i].key] : m < n
    <3>1. CASE i = Len(handed) + 1
      <4>1. handed'[i].key = k /\ m \in latestByKey[k]
        BY <1>3, <2>2, <3>1
      <4> QED BY <4>1, <1>4 DEF OrderInv, HandedBeforeWaiting
    <3>2. CASE i \in DOMAIN handed
      <4>1. handed'[i] = handed[i] /\ handed[i].key \in Key
        BY <1>3, <3>2, HandedElements
      <4> QED BY <4>1, <1>4, <2>2, <3>2 DEF OrderInv, HandedBeforeWaiting
    <3> QED BY <1>3, <3>1, <3>2
  <2> QED BY <2>1, <2>2 DEF HandedBeforeWaiting
<1>6. ASSUME NEW i \in DOMAIN handed', NEW j \in DOMAIN handed', i < j,
             handed'[i].key = handed'[j].key,
             NEW m \in handed'[i].value, NEW n \in handed'[j].value
      PROVE  m < n
  <2>1. i \in DOMAIN handed
    BY <1>3, <1>6
  <2>2. CASE j = Len(handed) + 1
    <3>1. handed[i].key = k /\ m \in handed[i].value /\ n \in latestByKey[handed[i].key]
      BY <1>3, <1>6, <2>1, <2>2
    <3> QED BY <2>1, <3>1 DEF OrderInv, HandedBeforeWaiting
  <2>3. CASE j \in DOMAIN handed
    BY <1>3, <1>6, <2>1, <2>3 DEF OrderInv, HandedInOrder
  <2> QED BY <1>3, <2>2, <2>3
<1> QED BY <1>5, <1>6 DEF OrderInv, HandedInOrder

LEMMA OrderInvStep == WorkerInv /\ OrderInv /\ [Next]_vars => OrderInv'
<1> SUFFICES ASSUME WorkerInv, OrderInv, [Next]_vars PROVE OrderInv'
  OBVIOUS
<1>1. CASE \E k \in Key : Enqueue(k)
  BY <1>1, EnqueueKeepsOrder
<1>2. CASE Activate \/ NextValue
  <2>1. worker.key \in Key
    BY <1>2 DEF Activate, NextValue, WorkerInv, TypeOK
  <2>2. \/ UNCHANGED <<latestByKey, handed, spent>>
        \/ /\ Hand(worker.key, latestByKey[worker.key])
           /\ latestByKey' = [latestByKey EXCEPT ![worker.key] = {}]
           /\ UNCHANGED spent
    BY <1>2 DEF Activate, NextValue
  <2>3. CASE UNCHANGED <<latestByKey, handed, spent>>
    BY <2>3 DEF OrderInv, HandedBeforeWaiting, HandedInOrder
  <2> QED BY <2>1, <2>2, <2>3, HandKeepsOrder
<1>3. ASSUME UNCHANGED <<latestByKey, handed>>, spent'.enqueues = spent.enqueues
      PROVE  OrderInv'
  BY <1>3 DEF OrderInv, HandedBeforeWaiting, HandedInOrder
<1>4. CASE \/ (\E k \in Key : DrainKey(k))
           \/ (\E d \in drains : ResolveDrain(d))
           \/ Take \/ ProcessReturns \/ ProcessFails \/ CleanupFailedKey \/ Requeue
           \/ UNCHANGED vars
  <2>1. UNCHANGED <<latestByKey, handed>> /\ spent'.enqueues = spent.enqueues
    BY <1>4 DEF DrainKey, ResolveDrain, Take, ProcessReturns, ProcessFails, CleanupFailedKey,
                Requeue, vars, state, WorkerInv, TypeOK
  <2> QED BY <2>1, <1>3
<1> QED BY <1>1, <1>2, <1>4 DEF Next, WorkerStep

\* The values of a key are handed to process in the order they were enqueued,
\* each once, whatever is merged, fails or is put back in the queue.
THEOREM ValuesKeepTheirOrder == Spec => []HandedInOrder
<1>1. Init => OrderInv
  BY DEF Init, OrderInv, HandedBeforeWaiting, HandedInOrder
<1>2. OrderInv => HandedInOrder
  BY DEF OrderInv
<1> QED BY <1>1, <1>2, OrderInvStep, WorkerInvAlways, PTL DEF Spec
=============================================================================
