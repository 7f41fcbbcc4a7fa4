-------------------------- MODULE OrderedCatchup --------------------------
(***************************************************************************)
(* One subscription of a client to the server's events (subscribeShell,    *)
(* subscribeThread): a snapshot is read at some sequence, then a replay of *)
(* the log after it, read page by page, is merged with the live feed by    *)
(* streamOrderedCatchupEvents, which buffers both until the replay is over.*)
(* Events are their sequence numbers.  The log and the order in which its  *)
(* events are published are those of OrchestrationEngine: committed before *)
(* published, published in order, and, after a failed re-read, some never. *)
(***************************************************************************)
EXTENDS Integers, Sequences, FiniteSets

CONSTANTS
    MaxSequence,      \* bound on the length of the log
    MaxUnpublished,   \* bound on the events that are never published
    PageSize,         \* rows one page of a replay reads
    ReplayLimit       \* rows one replay reads at most

ASSUME CatchupAssumption ==
    /\ MaxSequence \in Nat
    /\ MaxUnpublished \in Nat
    /\ PageSize \in Nat \ {0}
    /\ ReplayLimit \in Nat \ {0}

VARIABLES
    committed,         \* last event of the log
    published,         \* last event the PubSub was given
    unpublished,       \* events below it that the PubSub was never given
    fromSequenceExclusive,   \* the sequence of the snapshot
    phase,             \* of the subscription, see TypeOK
    subscribedAt,      \* value of published when the live stream subscribed
    liveCursor,        \* last event taken from the live stream
    replay,            \* [cursor, remaining, ended] of readFromSequence
    bufferedEvents,    \* OrderedCatchupState.bufferedEvents
    emittedSequence,   \* OrderedCatchupState.emittedSequence
    emitted            \* the events the client was sent, in order

logVars == <<committed, published, unpublished>>
liveVars == <<subscribedAt, liveCursor>>
feedVars == <<bufferedEvents, emittedSequence, emitted>>
vars == <<logVars, fromSequenceExclusive, phase, liveVars, replay, feedVars>>

NotSubscribed == -1

Entries(s) == {s[i] : i \in DOMAIN s}
Least(a, b) == IF a <= b THEN a ELSE b

TypeOK ==
    /\ committed \in 0..MaxSequence
    /\ published \in 0..committed
    /\ unpublished \in SUBSET (1..published)
    /\ fromSequenceExclusive \in 0..committed
    /\ phase \in {"loading", "catching-up", "caught-up", "failed"}
    /\ subscribedAt \in {NotSubscribed} \cup 0..published
    /\ liveCursor \in 0..published
    /\ replay \in [cursor : 0..committed, remaining : 0..ReplayLimit, ended : BOOLEAN]
    /\ bufferedEvents \in Seq(1..committed)
    /\ emittedSequence \in 0..committed
    /\ emitted \in Seq(1..committed)

Init ==
    /\ committed = 0
    /\ published = 0
    /\ unpublished = {}
    /\ fromSequenceExclusive = 0
    /\ phase = "loading"
    /\ subscribedAt = NotSubscribed
    /\ liveCursor = 0
    /\ replay = [cursor |-> 0, remaining |-> ReplayLimit, ended |-> FALSE]
    /\ bufferedEvents = <<>>
    /\ emittedSequence = 0
    /\ emitted = <<>>

(***************************************************************************)
(* The engine                                                              *)
(***************************************************************************)

Commit ==
    /\ committed < MaxSequence
    /\ committed' = committed + 1
    /\ UNCHANGED <<published, unpublished, fromSequenceExclusive, phase, liveVars, replay, feedVars>>

\* The events between the last one published and n are those of a commit
\* whose answer and whose re-read were both lost.
Publish ==
    \E n \in (published + 1)..committed :
        /\ Cardinality(unpublished) + (n - published - 1) <= MaxUnpublished
        /\ published' = n
        /\ unpublished' = unpublished \cup (published + 1)..(n - 1)
        /\ UNCHANGED <<committed, fromSequenceExclusive, phase, liveVars, replay, feedVars>>

(***************************************************************************)
(* The subscription                                                        *)
(***************************************************************************)

\* The projections change in the transaction that appends the event, so a
\* snapshot stands at the end of the log, ahead of what is published.
ReadSnapshot ==
    /\ phase = "loading"
    /\ phase' = "catching-up"
    /\ fromSequenceExclusive' = committed
    /\ emittedSequence' = committed
    /\ replay' = [replay EXCEPT !.cursor = committed]
    /\ UNCHANGED <<logVars, liveVars, bufferedEvents, emitted>>

\* Stream.merge starts both streams; nothing orders the subscription of the
\* one to the PubSub before the reads of the other.
SubscribeLive ==
    /\ phase \in {"catching-up", "caught-up"}
    /\ subscribedAt = NotSubscribed
    /\ subscribedAt' = published
    /\ liveCursor' = published
    /\ UNCHANGED <<logVars, fromSequenceExclusive, phase, replay, feedVars>>

\* Mutant: an empty page does not end the replay.
ReadPageForever ==
    /\ phase = "catching-up"
    /\ ~replay.ended
    /\ LET events == [i \in 1..Least(committed - replay.cursor,
                                     Least(replay.remaining, PageSize)) |-> replay.cursor + i]
       IN  /\ replay' = [cursor |-> replay.cursor + Len(events),
                         remaining |-> replay.remaining - Len(events),
                         ended |-> replay.remaining = Len(events)]
           /\ bufferedEvents' = bufferedEvents \o events
    /\ UNCHANGED <<logVars, fromSequenceExclusive, phase, liveVars, emittedSequence, emitted>>

Page(cursor, remaining) ==
    [i \in 1..Least(committed - cursor, Least(remaining, PageSize)) |-> cursor + i]

\* Each page is a query of its own, so a replay also reads what is committed
\* while it runs; it ends on an empty page or when its limit is used up.
ReadPage ==
    /\ phase = "catching-up"
    /\ ~replay.ended
    /\ LET events == Page(replay.cursor, replay.remaining)
           nextRemaining == replay.remaining - Len(events)
       IN  /\ replay' = [cursor |-> replay.cursor + Len(events),
                         remaining |-> nextRemaining,
                         ended |-> events = <<>> \/ nextRemaining <= 0]
           /\ bufferedEvents' = bufferedEvents \o events
    /\ UNCHANGED <<logVars, fromSequenceExclusive, phase, liveVars, emittedSequence, emitted>>

\* A query of the replay fails, and the subscription with it.
ReplayFails ==
    /\ phase = "catching-up"
    /\ ~replay.ended
    /\ phase' = "failed"
    /\ UNCHANGED <<logVars, fromSequenceExclusive, liveVars, replay, feedVars>>

\* Mutant: what the live stream brought first is sent first.
OrderedByArrival(events, after) ==
    {SelectSeq(events, LAMBDA n : n > after)}

\* Filtered, sorted, and of equal sequence numbers the first only.
IsOrderedUnique(s, events, after) ==
    /\ Entries(s) = {n \in Entries(events) : n > after}
    /\ \A i, j \in DOMAIN s : i < j => s[i] < s[j]

selectOrderedUniqueCatchupEvents(events, after) ==
    {s \in [1..Cardinality({n \in Entries(events) : n > after}) -> Entries(events)] :
        IsOrderedUnique(s, events, after)}

\* Mutant: what was flushed is not remembered.
CaughtUpForgetting ==
    /\ phase = "catching-up"
    /\ replay.ended
    /\ phase' = "caught-up"
    /\ \E orderedEvents \in selectOrderedUniqueCatchupEvents(bufferedEvents, emittedSequence) :
        emitted' = emitted \o orderedEvents
    /\ bufferedEvents' = <<>>
    /\ UNCHANGED <<logVars, fromSequenceExclusive, liveVars, replay, emittedSequence>>

CaughtUp ==
    /\ phase = "catching-up"
    /\ replay.ended
    /\ phase' = "caught-up"
    /\ \E orderedEvents \in selectOrderedUniqueCatchupEvents(bufferedEvents, emittedSequence) :
        /\ emitted' = emitted \o orderedEvents
        /\ emittedSequence' = IF orderedEvents = <<>> THEN emittedSequence
                              ELSE orderedEvents[Len(orderedEvents)]
    /\ bufferedEvents' = <<>>
    /\ UNCHANGED <<logVars, fromSequenceExclusive, liveVars, replay>>

\* The next event of the live stream is discarded when the snapshot covers
\* it, buffered during the replay, and afterwards sent unless it is old.
LiveEvent ==
    /\ phase \in {"catching-up", "caught-up"}
    /\ subscribedAt # NotSubscribed
    /\ \E n \in (liveCursor + 1)..published :
        /\ n \notin unpublished
        /\ (liveCursor + 1)..(n - 1) \subseteq unpublished
        /\ liveCursor' = n
        /\ \/ /\ n <= fromSequenceExclusive
              /\ UNCHANGED feedVars
           \/ /\ n > fromSequenceExclusive
              /\ phase = "catching-up"
              /\ bufferedEvents' = Append(bufferedEvents, n)
              /\ UNCHANGED <<emittedSequence, emitted>>
           \/ /\ n > fromSequenceExclusive
              /\ phase = "caught-up"
              /\ n <= emittedSequence
              /\ UNCHANGED feedVars
           \/ /\ n > fromSequenceExclusive
              /\ phase = "caught-up"
              /\ n > emittedSequence
              /\ emittedSequence' = n
              /\ emitted' = Append(emitted, n)
              /\ UNCHANGED bufferedEvents
    /\ UNCHANGED <<logVars, fromSequenceExclusive, phase, subscribedAt, replay>>

Next ==
    \/ Commit
    \/ Publish
    \/ ReadSnapshot
    \/ SubscribeLive
    \/ ReadPage
    \/ ReplayFails
    \/ CaughtUp
    \/ LiveEvent

\* The fibers of a subscription run on; nobody has to issue commands, and an
\* event that is committed is published unless it never is.
Fairness ==
    /\ WF_vars(ReadSnapshot)
    /\ WF_vars(SubscribeLive)
    /\ WF_vars(ReadPage)
    /\ WF_vars(CaughtUp)
    /\ WF_vars(LiveEvent)

Spec == Init /\ [][Next]_vars /\ Fairness

(***************************************************************************)
(* Properties                                                              *)
(***************************************************************************)

\* What neither side of the merge delivers: the events between the end of the
\* replay and the start of the live stream, when that comes too late or the
\* replay was cut off at its limit.
Missed ==
    IF replay.ended /\ subscribedAt # NotSubscribed
    THEN (replay.cursor + 1)..subscribedAt ELSE {}

\* The client is sent the events after its snapshot in the order of the log,
\* none twice however often replay and live feed both deliver it, and none is
\* passed over but those that were never published or fell between the two
\* (streamOrderedCatchupEvents).
FeedIsOrderedAndComplete ==
    /\ \A i, j \in DOMAIN emitted : i < j => emitted[i] < emitted[j]
    /\ Entries(emitted) \subseteq (fromSequenceExclusive + 1)..emittedSequence
    /\ ((fromSequenceExclusive + 1)..emittedSequence) \ (unpublished \cup Missed)
           \subseteq Entries(emitted)

Feed == INSTANCE EventFeed WITH
    length <- committed,
    position <- emittedSequence,
    delivered <- Entries(emitted),
    exempt <- IF phase = "loading" THEN {}
              ELSE {n \in unpublished \cup Missed :
                       n > fromSequenceExclusive /\ n \notin Entries(emitted)}

\* The merge of replay and live feed is a feed as EventFeed promises it.
ImplementsEventFeed == Feed!Spec

\* An event published after the snapshot was read reaches the client, unless
\* the subscription fails or the event falls between replay and live feed
\* (the last "caught-up" of a replay flushes what was buffered).
EveryEventReachesSubscriber ==
    \A n \in 1..MaxSequence :
        (/\ phase # "loading"
         /\ n \in (fromSequenceExclusive + 1)..published
         /\ n \notin unpublished)
            ~> (n \in Entries(emitted) \/ n \in Missed \/ phase = "failed")
=============================================================================
