----------------------- MODULE KeyedCoalescingWorker -----------------------
(***************************************************************************)
(* makeKeyedCoalescingWorker of packages/shared: one worker fiber serves   *)
(* many keys and keeps, per key, one value that later enqueues are merged  *)
(* into.  The terminal manager persists scrollback with it and the Codex   *)
(* adapter recovers sessions with it; both call drainKey before they rely  *)
(* on the work being done.                                                 *)
(*                                                                         *)
(* A value is modelled as the set of tickets (calls of enqueue) merged     *)
(* into it.  Each action is one software transaction of the code, or the   *)
(* end of the caller's process effect.                                     *)
(***************************************************************************)
EXTENDS Naturals, Sequences, FiniteSets

CONSTANTS
    Key,
    NoKey,          \* the worker holds no key
    MaxEnqueues,    \* bound: calls of enqueue, in all
    MaxDrains,      \* bound: calls of drainKey, in all
    MaxFailures     \* bound: failures of the process effect, in all

ASSUME WorkerAssumption ==
    /\ NoKey \notin Key
    /\ MaxEnqueues \in Nat /\ MaxDrains \in Nat /\ MaxFailures \in Nat

VARIABLES
    latestByKey,    \* the merged value that waits for its key, {} when there is none
    queuedKeys,     \* keys that are in the queue, or about to be
    activeKeys,     \* keys whose value is being processed
    queue,          \* the unbounded TxQueue of keys
    worker,         \* where the worker fiber is, with the key and value it holds
    enqueued,       \* (history) the tickets of each key
    handed,         \* (history) the values handed to process, in order
    settled,        \* (history) tickets whose process effect has ended
    drains,         \* calls of drainKey that wait, with the tickets before each
    promised,       \* (history) tickets that a resolved drainKey vouched for
    spent           \* how much of each bound is used up

state == <<latestByKey, queuedKeys, activeKeys>>
vars == <<state, queue, worker, enqueued, handed, settled, drains, promised, spent>>

Ticket == 1..MaxEnqueues
AtTake == [at |-> "take", key |-> NoKey, value |-> {}]

Init ==
    /\ latestByKey = [k \in Key |-> {}]
    /\ queuedKeys = {}
    /\ activeKeys = {}
    /\ queue = <<>>
    /\ worker = AtTake
    /\ enqueued = [k \in Key |-> {}]
    /\ handed = <<>>
    /\ settled = {}
    /\ drains = {}
    /\ promised = {}
    /\ spent = [enqueues |-> 0, drains |-> 0, failures |-> 0]

-----------------------------------------------------------------------------
(* Callers *)

\* Mutant: an active key is queued again.
EnqueueActive(k) ==
    /\ spent.enqueues < MaxEnqueues
    /\ LET ticket == spent.enqueues + 1 IN
          /\ spent' = [spent EXCEPT !.enqueues = ticket]
          /\ latestByKey' = [latestByKey EXCEPT ![k] = @ \cup {ticket}]
          /\ enqueued' = [enqueued EXCEPT ![k] = @ \cup {ticket}]
    /\ queuedKeys' = queuedKeys \cup {k}
    /\ queue' = Append(queue, k)
    /\ UNCHANGED <<activeKeys, worker, handed, settled, drains, promised>>

\* enqueue: the value is merged into the one that waits, and the key is
\* offered unless it is queued or active already; all in one transaction.
Enqueue(k) ==
    /\ spent.enqueues < MaxEnqueues
    /\ LET ticket == spent.enqueues + 1 IN
          /\ spent' = [spent EXCEPT !.enqueues = ticket]
          /\ latestByKey' = [latestByKey EXCEPT ![k] = @ \cup {ticket}]
          /\ enqueued' = [enqueued EXCEPT ![k] = @ \cup {ticket}]
    /\ IF k \in queuedKeys \cup activeKeys
       THEN UNCHANGED <<queuedKeys, queue>>
       ELSE queuedKeys' = queuedKeys \cup {k} /\ queue' = Append(queue, k)
    /\ UNCHANGED <<activeKeys, worker, handed, settled, drains, promised>>

\* drainKey is called: it waits for the key.
DrainKey(k) ==
    /\ spent.drains < MaxDrains
    /\ spent' = [spent EXCEPT !.drains = @ + 1]
    /\ drains' = drains \cup {[call |-> spent.drains + 1, key |-> k, before |-> enqueued[k]]}
    /\ UNCHANGED <<state, queue, worker, enqueued, handed, settled, promised>>

\* Mutant: only the queue is looked at.
QuietInQueue(k) == latestByKey[k] = {} /\ k \notin queuedKeys

\* What drainKey waits for; until then its transaction retries.
Quiet(k) == latestByKey[k] = {} /\ k \notin queuedKeys /\ k \notin activeKeys

\* A waiting drainKey finds its key quiet and returns.
ResolveDrain(d) ==
    /\ d \in drains
    /\ Quiet(d.key)
    /\ drains' = drains \ {d}
    /\ promised' = promised \cup d.before
    /\ UNCHANGED <<state, queue, worker, enqueued, handed, settled, spent>>

-----------------------------------------------------------------------------
(* The worker fiber *)

\* TxQueue.take, a transaction of its own.
Take ==
    /\ worker.at = "take"
    /\ queue # <<>>
    /\ queue' = Tail(queue)
    /\ worker' = [at |-> "activate", key |-> Head(queue), value |-> {}]
    /\ UNCHANGED <<state, enqueued, handed, settled, drains, promised, spent>>

\* The value of the key is handed to process.
Hand(k, value) ==
    /\ handed' = Append(handed, [key |-> k, value |-> value])
    /\ worker' = [at |-> "process", key |-> k, value |-> value]

\* Mutant: the value that is handed over is not removed.
ActivateKeepingValue ==
    /\ worker.at = "activate"
    /\ queuedKeys' = queuedKeys \ {worker.key}
    /\ Hand(worker.key, latestByKey[worker.key])
    /\ activeKeys' = activeKeys \cup {worker.key}
    /\ UNCHANGED <<latestByKey, queue, enqueued, settled, drains, promised, spent>>

\* The taken key leaves queuedKeys and, with its value, becomes active.  A key
\* without a value is skipped, which never happens (NoValueStranded).
Activate ==
    /\ worker.at = "activate"
    /\ queuedKeys' = queuedKeys \ {worker.key}
    /\ LET value == latestByKey[worker.key] IN
          \/ /\ value = {}
             /\ worker' = AtTake
             /\ UNCHANGED <<latestByKey, activeKeys, handed>>
          \/ /\ value # {}
             /\ Hand(worker.key, value)
             /\ latestByKey' = [latestByKey EXCEPT ![worker.key] = {}]
             /\ activeKeys' = activeKeys \cup {worker.key}
    /\ UNCHANGED <<queue, enqueued, settled, drains, promised, spent>>

\* The process effect returns.
ProcessReturns ==
    /\ worker.at = "process"
    /\ settled' = settled \cup worker.value
    /\ worker' = [worker EXCEPT !.at = "next"]
    /\ UNCHANGED <<state, queue, enqueued, handed, drains, promised, spent>>

\* The process effect fails: its value is lost.
ProcessFails ==
    /\ worker.at = "process"
    /\ spent.failures < MaxFailures
    /\ spent' = [spent EXCEPT !.failures = @ + 1]
    /\ settled' = settled \cup worker.value
    /\ worker' = [worker EXCEPT !.at = "cleanup"]
    /\ UNCHANGED <<state, queue, enqueued, handed, drains, promised>>

\* processKey: what was merged meanwhile is processed next, without going
\* back to the queue; a key with nothing waiting is no longer active.
NextValue ==
    /\ worker.at = "next"
    /\ LET value == latestByKey[worker.key] IN
          \/ /\ value = {}
             /\ worker' = AtTake
             /\ activeKeys' = activeKeys \ {worker.key}
             /\ UNCHANGED <<latestByKey, handed>>
          \/ /\ value # {}
             /\ Hand(worker.key, value)
             /\ latestByKey' = [latestByKey EXCEPT ![worker.key] = {}]
             /\ UNCHANGED activeKeys
    /\ UNCHANGED <<queuedKeys, queue, enqueued, settled, drains, promised, spent>>

\* Mutant: what waits behind a failure is left where it is.
CleanupWithoutRequeue ==
    /\ worker.at = "cleanup"
    /\ activeKeys' = activeKeys \ {worker.key}
    /\ worker' = AtTake
    /\ UNCHANGED <<latestByKey, queuedKeys, queue, enqueued, handed, settled, drains, promised,
                   spent>>

\* cleanupFailedKey: the key is no longer active, and is marked as queued when
\* a value waits for it ...
CleanupFailedKey ==
    /\ worker.at = "cleanup"
    /\ activeKeys' = activeKeys \ {worker.key}
    /\ IF latestByKey[worker.key] # {} /\ worker.key \notin queuedKeys
       THEN /\ queuedKeys' = queuedKeys \cup {worker.key}
            /\ worker' = [worker EXCEPT !.at = "requeue"]
       ELSE /\ worker' = AtTake
            /\ UNCHANGED queuedKeys
    /\ UNCHANGED <<latestByKey, queue, enqueued, handed, settled, drains, promised, spent>>

\* ... and offered in a second transaction.
Requeue ==
    /\ worker.at = "requeue"
    /\ queue' = Append(queue, worker.key)
    /\ worker' = AtTake
    /\ UNCHANGED <<state, enqueued, handed, settled, drains, promised, spent>>

WorkerStep ==
    Take \/ Activate \/ ProcessReturns \/ ProcessFails \/ NextValue \/ CleanupFailedKey \/ Requeue

Next ==
    \/ \E k \in Key : Enqueue(k) \/ DrainKey(k)
    \/ \E d \in drains : ResolveDrain(d)
    \/ WorkerStep

\* The worker fiber runs forever, its process effect ends, and a transaction
\* that retries is run again when what it read has changed.
Spec ==
    /\ Init /\ [][Next]_vars
    /\ WF_vars(WorkerStep)
    /\ \A n \in 1..MaxDrains : WF_vars(\E d \in drains : d.call = n /\ ResolveDrain(d))

-----------------------------------------------------------------------------
(* Properties *)

\* Every variable holds a value of its kind.
TypeOK ==
    /\ latestByKey \in [Key -> SUBSET Ticket]
    /\ queuedKeys \subseteq Key
    /\ activeKeys \subseteq Key
    /\ queue \in Seq(Key)
    /\ worker \in [at : {"take", "activate", "process", "next", "cleanup", "requeue"},
                   key : Key \cup {NoKey}, value : SUBSET Ticket]
    /\ worker.at # "take" => worker.key \in Key
    /\ enqueued \in [Key -> SUBSET Ticket]
    /\ handed \in Seq([key : Key, value : SUBSET Ticket])
    /\ settled \subseteq Ticket
    /\ drains \subseteq [call : 1..MaxDrains, key : Key, before : SUBSET Ticket]
    /\ promised \subseteq Ticket
    /\ spent \in [enqueues : 0..MaxEnqueues, drains : 0..MaxDrains, failures : 0..MaxFailures]

\* When drainKey returns, every value enqueued for the key before the call has
\* been through process, whatever was merged, failed or requeued meanwhile.
DrainWaitsForWork == promised \subseteq settled

\* What a sequence contains.
Entries(s) == {s[i] : i \in DOMAIN s}

\* The keys somebody will bring to process: those in the queue, the one the
\* worker has taken from it and the one it is about to put back.
OnTheirWay ==
    Entries(queue)
        \cup IF worker.at \in {"activate", "requeue"} THEN {worker.key} ELSE {}

\* A value that waits is never forgotten: its key is on its way to the worker
\* or is the one the worker holds.  A key is queued once at most, never
\* while it is active and only with a value, so that the worker never takes a
\* key in vain.
NoValueStranded ==
    /\ queuedKeys = OnTheirWay
    /\ \A i, j \in DOMAIN queue : queue[i] = queue[j] => i = j
    /\ worker.at \in {"activate", "requeue"} => worker.key \notin Entries(queue)
    /\ queuedKeys \cap activeKeys = {}
    /\ activeKeys =
          IF worker.at \in {"process", "next", "cleanup"} THEN {worker.key} ELSE {}
    /\ \A k \in Key : latestByKey[k] # {} => k \in queuedKeys \cup activeKeys
    /\ \A k \in queuedKeys : latestByKey[k] # {}

\* A key's values are handed over once each, in the order they were enqueued.
HandedInOrder ==
    \A i, j \in DOMAIN handed :
        i < j /\ handed[i].key = handed[j].key =>
            \A m \in handed[i].value, n \in handed[j].value : m < n

\* Every enqueued value is processed, alone or merged into a later one; and
\* once nothing more is enqueued, every drainKey returns.
EveryCallSettles ==
    /\ \A n \in Ticket : spent.enqueues >= n ~> n \in settled
    /\ \A n \in 1..MaxDrains : spent.drains >= n ~> ~\E d \in drains : d.call = n
=============================================================================
