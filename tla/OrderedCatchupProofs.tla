----------------------- MODULE OrderedCatchupProofs -----------------------
(***************************************************************************)
(* For every log, page size and replay limit: a subscription sends its     *)
(* client the events after the snapshot in order, each once, and passes    *)
(* over none but those that were never published or fell between the end   *)
(* of the replay and the start of the live stream.                         *)
(***************************************************************************)
EXTENDS OrderedCatchup, FiniteSetTheorems, SequenceTheorems, TLAPS

USE CatchupAssumption

\* What each side of the merge has contributed so far.
Replayed == (fromSequenceExclusive + 1)..replay.cursor
TakenLive ==
    IF subscribedAt = NotSubscribed THEN {}
    ELSE {n \in (fromSequenceExclusive + 1)..liveCursor :
             n > subscribedAt /\ n \notin unpublished}

\* The subscription has nothing before its snapshot.
NothingWhileLoading ==
    phase = "loading" =>
        /\ fromSequenceExclusive = 0
        /\ subscribedAt = NotSubscribed
        /\ ~replay.ended
        /\ replay.cursor = 0
        /\ emittedSequence = 0

\* Until the replay is over everything is held back; then nothing is.
BufferHoldsAll ==
    /\ phase # "caught-up" =>
           /\ emitted = <<>>
           /\ emittedSequence = fromSequenceExclusive
           /\ Entries(bufferedEvents) = Replayed \cup TakenLive
    /\ phase = "caught-up" =>
           /\ replay.ended
           /\ bufferedEvents = <<>>
           /\ Entries(emitted) = Replayed \cup TakenLive

\* emittedSequence is the greatest of what was contributed, or the fence.
EmittedSequenceIsLast ==
    /\ \A n \in Entries(emitted) : n <= emittedSequence
    /\ emittedSequence = fromSequenceExclusive \/ emittedSequence \in Entries(emitted)

CatchupInv ==
    /\ TypeOK
    /\ fromSequenceExclusive <= replay.cursor
    /\ subscribedAt <= liveCursor
    /\ subscribedAt = NotSubscribed => liveCursor = 0
    /\ NothingWhileLoading
    /\ BufferHoldsAll
    /\ EmittedSequenceIsLast
    /\ \A i, j \in DOMAIN emitted : i < j => emitted[i] < emitted[j]

\* The entries of a concatenation.
LEMMA EntriesConcat ==
    ASSUME NEW S, NEW s \in Seq(S), NEW t \in Seq(S)
    PROVE  /\ s \o t \in Seq(S)
           /\ Entries(s \o t) = Entries(s) \cup Entries(t)
<1>1. /\ s \o t \in Seq(S)
      /\ DOMAIN (s \o t) = 1..(Len(s) + Len(t))
      /\ DOMAIN s = 1..Len(s)
      /\ DOMAIN t = 1..Len(t)
      /\ Len(s) \in Nat /\ Len(t) \in Nat
      /\ \A i \in 1..Len(s) : (s \o t)[i] = s[i]
      /\ \A i \in 1..Len(t) : (s \o t)[Len(s) + i] = t[i]
  OBVIOUS
<1>2. ASSUME NEW x \in Entries(s \o t) PROVE x \in Entries(s) \cup Entries(t)
  <2>1. PICK i \in 1..(Len(s) + Len(t)) : x = (s \o t)[i]
    BY <1>1, <1>2 DEF Entries
  <2>2. CASE i <= Len(s)
    BY <1>1, <2>1, <2>2 DEF Entries
  <2>3. CASE i > Len(s)
    <3>1. i - Len(s) \in 1..Len(t) /\ Len(s) + (i - Len(s)) = i
      BY <1>1, <2>1, <2>3
    <3>2. x = t[i - Len(s)]
      BY <1>1, <2>1, <3>1
    <3> QED BY <1>1, <3>1, <3>2 DEF Entries
  <2> QED BY <1>1, <2>2, <2>3
<1>3. ASSUME NEW x \in Entries(s) PROVE x \in Entries(s \o t)
  <2>1. PICK i \in 1..Len(s) : x = s[i]
    BY <1>1, <1>3 DEF Entries
  <2>2. i \in DOMAIN (s \o t) /\ (s \o t)[i] = x
    BY <1>1, <2>1
  <2> QED BY <2>2 DEF Entries
<1>4. ASSUME NEW x \in Entries(t) PROVE x \in Entries(s \o t)
  <2>1. PICK i \in 1..Len(t) : x = t[i]
    BY <1>1, <1>4 DEF Entries
  <2>2. Len(s) + i \in DOMAIN (s \o t) /\ (s \o t)[Len(s) + i] = x
    BY <1>1, <2>1
  <2> QED BY <2>2 DEF Entries
<1> QED BY <1>1, <1>2, <1>3, <1>4

\* The entries after an append.
LEMMA EntriesAppend ==
    ASSUME NEW S, NEW s \in Seq(S), NEW x \in S
    PROVE  /\ Append(s, x) \in Seq(S)
           /\ Entries(Append(s, x)) = Entries(s) \cup {x}
<1>1. /\ Append(s, x) \in Seq(S)
      /\ DOMAIN Append(s, x) = 1..(Len(s) + 1)
      /\ DOMAIN s = 1..Len(s)
      /\ Len(s) \in Nat
      /\ \A i \in 1..Len(s) : Append(s, x)[i] = s[i]
      /\ Append(s, x)[Len(s) + 1] = x
  OBVIOUS
<1>2. \A y \in Entries(Append(s, x)) : y \in Entries(s) \cup {x}
  BY <1>1 DEF Entries
<1>3. \A y \in Entries(s) : y \in Entries(Append(s, x))
  BY <1>1 DEF Entries
<1>4. x \in Entries(Append(s, x))
  <2>1. Len(s) + 1 \in DOMAIN Append(s, x)
    BY <1>1
  <2> QED BY <1>1, <2>1 DEF Entries
<1> QED BY <1>1, <1>2, <1>3, <1>4

\* A page holds the events after the cursor, without a gap.
LEMMA PageEntries ==
    ASSUME TypeOK, NEW cursor \in 0..committed, NEW remaining \in 0..ReplayLimit
    PROVE  /\ Page(cursor, remaining) \in Seq(1..committed)
           /\ Len(Page(cursor, remaining)) \in 0..remaining
           /\ cursor + Len(Page(cursor, remaining)) \in cursor..committed
           /\ Entries(Page(cursor, remaining)) =
                  (cursor + 1)..(cursor + Len(Page(cursor, remaining)))
<1> DEFINE m == Least(committed - cursor, Least(remaining, PageSize))
<1>1. committed \in Nat /\ cursor \in Nat /\ remaining \in Nat /\ cursor <= committed
  BY DEF TypeOK
<1>2. m \in Nat /\ m <= remaining /\ cursor + m <= committed
  BY <1>1 DEF Least
<1>3. Page(cursor, remaining) = [i \in 1..m |-> cursor + i]
  BY DEF Page
<1> HIDE DEF m
<1>4. \A i \in 1..m : cursor + i \in 1..committed
  BY <1>1, <1>2
<1>5. Page(cursor, remaining) \in Seq(1..committed) /\ Len(Page(cursor, remaining)) = m
  BY <1>2, <1>3, <1>4
<1>6. Entries(Page(cursor, remaining)) = {cursor + i : i \in 1..m}
  BY <1>3 DEF Entries
<1>7. \A n \in (cursor + 1)..(cursor + m) : n - cursor \in 1..m /\ n = cursor + (n - cursor)
  BY <1>1, <1>2
<1>8. (cursor + 1)..(cursor + m) \subseteq {cursor + i : i \in 1..m}
  BY <1>7
<1>9. {cursor + i : i \in 1..m} \subseteq (cursor + 1)..(cursor + m)
  BY <1>1, <1>2
<1> QED BY <1>1, <1>2, <1>5, <1>6, <1>8, <1>9

LEMMA CatchupInit == Init => CatchupInv
<1> SUFFICES ASSUME Init PROVE CatchupInv
  OBVIOUS
<1>1. Entries(<<>>) = {}
  BY DEF Entries
<1>2. TypeOK
  BY DEF Init, TypeOK, NotSubscribed
<1>3. BufferHoldsAll
  BY <1>1 DEF Init, BufferHoldsAll, Replayed, TakenLive
<1> QED
  BY <1>1, <1>2, <1>3 DEF Init, CatchupInv, NothingWhileLoading, EmittedSequenceIsLast,
     NotSubscribed

\* A sequence over a set is one over any larger set.
LEMMA SeqWiden ==
    ASSUME NEW S, NEW T, S \subseteq T, NEW s \in Seq(S)
    PROVE  s \in Seq(T)
<1>1. /\ Len(s) \in Nat /\ DOMAIN s = 1..Len(s)
      /\ s = [i \in 1..Len(s) |-> s[i]]
      /\ \A i \in 1..Len(s) : s[i] \in S
  OBVIOUS
<1> QED BY <1>1

\* What grows the log or the published prefix leaves the subscription as it is.
LEMMA CatchupEngineStep ==
    ASSUME CatchupInv,
           committed' \in committed..MaxSequence,
           published' \in published..committed',
           unpublished \subseteq unpublished',
           unpublished' \ unpublished \subseteq (published + 1)..published',
           UNCHANGED <<fromSequenceExclusive, phase, liveVars, replay, feedVars>>
    PROVE  CatchupInv'
<1> USE DEF CatchupInv
<1>1. /\ committed \in Nat /\ committed' \in Nat /\ published \in Nat /\ published' \in Nat
      /\ committed <= committed' /\ committed' <= MaxSequence
      /\ published <= published' /\ published' <= committed'
  BY DEF TypeOK
<1>2. TypeOK'
  <2>1. unpublished' \subseteq 1..published'
    BY <1>1 DEF TypeOK
  <2>2. 1..committed \subseteq 1..committed' /\ 0..committed \subseteq 0..committed'
        /\ 0..published \subseteq 0..published'
    BY <1>1
  <2>3. bufferedEvents \in Seq(1..committed') /\ emitted \in Seq(1..committed')
    BY <2>2, SeqWiden DEF TypeOK
  <2>4. replay' \in [cursor : 0..committed', remaining : 0..ReplayLimit, ended : BOOLEAN]
    BY <2>2 DEF TypeOK
  <2> QED
    BY <1>1, <2>1, <2>2, <2>3, <2>4 DEF TypeOK, feedVars, liveVars
<1>3. TakenLive' = TakenLive
  <2>1. CASE subscribedAt = NotSubscribed
    BY <2>1 DEF TakenLive, liveVars
  <2>2. CASE subscribedAt # NotSubscribed
    <3>1. \A n \in (fromSequenceExclusive + 1)..liveCursor :
             n \in unpublished' <=> n \in unpublished
      BY <1>1 DEF TypeOK
    <3> QED BY <2>2, <3>1 DEF TakenLive, liveVars
  <2> QED BY <2>1, <2>2
<1>4. BufferHoldsAll'
  BY <1>3, Zenon DEF BufferHoldsAll, Replayed, feedVars, Entries
<1> QED
  BY <1>2, <1>4 DEF NothingWhileLoading, EmittedSequenceIsLast, Entries, feedVars, liveVars

LEMMA CatchupCommit ==
    ASSUME CatchupInv, Commit
    PROVE  CatchupInv'
<1>1. /\ committed \in Nat /\ published \in 0..committed
      /\ committed' = committed + 1 /\ committed < MaxSequence
      /\ published' = published /\ unpublished' = unpublished
  BY DEF Commit, CatchupInv, TypeOK
<1>2. UNCHANGED <<fromSequenceExclusive, phase, liveVars, replay, feedVars>>
  BY DEF Commit
<1>3. committed' \in committed..MaxSequence /\ published' \in published..committed'
  BY <1>1
<1> QED BY <1>1, <1>2, <1>3, CatchupEngineStep

LEMMA CatchupPublish ==
    ASSUME CatchupInv, Publish
    PROVE  CatchupInv'
<1>1. committed \in 0..MaxSequence /\ published \in 0..committed
  BY DEF CatchupInv, TypeOK
<1>2. PICK n \in (published + 1)..committed :
        /\ published' = n
        /\ unpublished' = unpublished \cup (published + 1)..(n - 1)
        /\ committed' = committed
        /\ UNCHANGED <<fromSequenceExclusive, phase, liveVars, replay, feedVars>>
  BY DEF Publish
<1>3. committed' \in committed..MaxSequence /\ published' \in published..committed'
  BY <1>1, <1>2
<1>4. /\ unpublished \subseteq unpublished'
      /\ unpublished' \ unpublished \subseteq (published + 1)..published'
  BY <1>1, <1>2
<1> QED BY <1>2, <1>3, <1>4, CatchupEngineStep

LEMMA CatchupReadSnapshot ==
    ASSUME CatchupInv, ReadSnapshot
    PROVE  CatchupInv'
<1> USE DEF CatchupInv
<1>1. TypeOK'
  <2>1. committed \in Nat /\ committed \in 0..committed
    BY DEF TypeOK
  <2>2. replay' \in [cursor : 0..committed, remaining : 0..ReplayLimit, ended : BOOLEAN]
    BY <2>1, Zenon DEF ReadSnapshot, TypeOK
  <2> QED BY <2>1, <2>2 DEF ReadSnapshot, TypeOK, logVars, liveVars
<1>2. emitted = <<>> /\ Entries(emitted) = {}
  BY DEF ReadSnapshot, BufferHoldsAll, Entries
<1>3. Replayed = {} /\ TakenLive = {} /\ Entries(bufferedEvents) = {}
  BY DEF ReadSnapshot, BufferHoldsAll, Replayed, TakenLive, NothingWhileLoading
<1>4. Replayed' = {} /\ TakenLive' = {}
  BY DEF ReadSnapshot, TypeOK, Replayed, TakenLive, NothingWhileLoading, liveVars
<1>5. Entries(bufferedEvents)' = {} /\ Entries(emitted)' = {}
  BY <1>2, <1>3 DEF ReadSnapshot, Entries
<1>6. BufferHoldsAll'
  BY <1>2, <1>4, <1>5 DEF ReadSnapshot, BufferHoldsAll
<1> QED
  BY <1>1, <1>2, <1>5, <1>6 DEF ReadSnapshot, NothingWhileLoading, EmittedSequenceIsLast,
     TypeOK, liveVars

LEMMA CatchupSubscribeLive ==
    ASSUME CatchupInv, SubscribeLive
    PROVE  CatchupInv'
<1> USE DEF CatchupInv
<1>1. TypeOK'
  BY DEF SubscribeLive, TypeOK, logVars, feedVars, NotSubscribed
<1>2. TakenLive = {} /\ TakenLive' = {}
  BY DEF SubscribeLive, TakenLive, TypeOK, NotSubscribed
<1>3. BufferHoldsAll'
  BY <1>2, Zenon DEF SubscribeLive, BufferHoldsAll, Replayed, feedVars, Entries
<1> QED
  BY <1>1, <1>3 DEF SubscribeLive, NothingWhileLoading, EmittedSequenceIsLast, TypeOK,
     feedVars, logVars, Entries, NotSubscribed

LEMMA CatchupReadPage ==
    ASSUME CatchupInv, ReadPage
    PROVE  CatchupInv'
<1> USE DEF CatchupInv
<1> DEFINE events == Page(replay.cursor, replay.remaining)
<1>1. /\ replay.cursor \in 0..committed /\ replay.remaining \in 0..ReplayLimit
      /\ committed \in Nat
  BY DEF TypeOK
<1>2. /\ events \in Seq(1..committed)
      /\ Len(events) \in 0..replay.remaining
      /\ replay.cursor + Len(events) \in replay.cursor..committed
      /\ Entries(events) = (replay.cursor + 1)..(replay.cursor + Len(events))
  BY <1>1, PageEntries
<1>3. /\ replay' = [cursor |-> replay.cursor + Len(events),
                    remaining |-> replay.remaining - Len(events),
                    ended |-> events = <<>> \/ replay.remaining - Len(events) <= 0]
      /\ bufferedEvents' = bufferedEvents \o events
      /\ phase = "catching-up"
      /\ UNCHANGED <<logVars, fromSequenceExclusive, phase, liveVars, emittedSequence, emitted>>
  BY Zenon DEF ReadPage
<1> HIDE DEF events
<1>4. bufferedEvents \in Seq(1..committed)
  BY DEF TypeOK
<1>5. /\ bufferedEvents' \in Seq(1..committed)
      /\ Entries(bufferedEvents') = Entries(bufferedEvents) \cup Entries(events)
  <2>1. /\ bufferedEvents \o events \in Seq(1..committed)
        /\ Entries(bufferedEvents \o events) = Entries(bufferedEvents) \cup Entries(events)
    <3>1. events \in Seq(1..committed)
      BY <1>2
    <3> DEFINE S == 1..committed
    <3> HIDE DEF S
    <3>2. bufferedEvents \in Seq(S) /\ events \in Seq(S)
      BY <1>4, <3>1 DEF S
    <3>3. bufferedEvents \o events \in Seq(S)
          /\ Entries(bufferedEvents \o events) = Entries(bufferedEvents) \cup Entries(events)
      BY <3>2, EntriesConcat
    <3> QED BY <3>3 DEF S
  <2> QED BY <1>3, <2>1, Zenon
<1>6. replay' \in [cursor : 0..committed, remaining : 0..ReplayLimit, ended : BOOLEAN]
  BY <1>1, <1>2, <1>3, SMTT(30)
<1>7. TypeOK'
  BY <1>3, <1>5, <1>6 DEF TypeOK, logVars, liveVars
<1>8. replay'.cursor = replay.cursor + Len(events)
  BY <1>3
<1>9. fromSequenceExclusive \in Nat /\ fromSequenceExclusive <= replay.cursor
  BY DEF TypeOK
<1>10. Replayed' = Replayed \cup Entries(events)
  <2> DEFINE k == Len(events)
  <2>1. /\ Replayed' = (fromSequenceExclusive + 1)..(replay.cursor + k)
        /\ Entries(events) = (replay.cursor + 1)..(replay.cursor + k)
        /\ k \in Nat /\ replay.cursor \in Nat
    BY <1>1, <1>2, <1>3, <1>8 DEF Replayed
  <2> HIDE DEF k
  <2>2. Replayed = (fromSequenceExclusive + 1)..replay.cursor
    BY DEF Replayed
  <2> QED BY <1>9, <2>1, <2>2
<1>11. TakenLive' = TakenLive
  BY <1>3 DEF TakenLive, logVars, liveVars
<1>12. BufferHoldsAll'
  BY <1>3, <1>5, <1>10, <1>11 DEF BufferHoldsAll, Entries
<1>13. fromSequenceExclusive' <= replay'.cursor
  BY <1>1, <1>2, <1>3, <1>8, <1>9
<1> QED
  BY <1>3, <1>7, <1>12, <1>13 DEF NothingWhileLoading, EmittedSequenceIsLast, Entries, liveVars

LEMMA CatchupReplayFails ==
    ASSUME CatchupInv, ReplayFails
    PROVE  CatchupInv'
<1> USE DEF CatchupInv
<1>1. TypeOK'
  BY DEF ReplayFails, TypeOK, logVars, liveVars, feedVars
<1>2. TakenLive' = TakenLive
  BY DEF ReplayFails, TakenLive, logVars, liveVars
<1>3. BufferHoldsAll'
  BY <1>2, Zenon DEF ReplayFails, BufferHoldsAll, Replayed, feedVars, Entries
<1> QED
  BY <1>1, <1>3 DEF ReplayFails, NothingWhileLoading, EmittedSequenceIsLast, feedVars,
     liveVars, Entries

LEMMA CatchupCaughtUp ==
    ASSUME CatchupInv, CaughtUp
    PROVE  CatchupInv'
<1> USE DEF CatchupInv
<1>1. PICK orderedEvents \in selectOrderedUniqueCatchupEvents(bufferedEvents, emittedSequence) :
        /\ emitted' = emitted \o orderedEvents
        /\ emittedSequence' = IF orderedEvents = <<>> THEN emittedSequence
                              ELSE orderedEvents[Len(orderedEvents)]
  BY DEF CaughtUp
<1>2. /\ phase = "catching-up" /\ phase' = "caught-up" /\ replay.ended
      /\ bufferedEvents' = <<>>
      /\ UNCHANGED <<logVars, fromSequenceExclusive, liveVars, replay>>
  BY DEF CaughtUp
<1>3. /\ emitted = <<>> /\ emittedSequence = fromSequenceExclusive
      /\ Entries(bufferedEvents) = Replayed \cup TakenLive
  BY <1>2 DEF BufferHoldsAll
<1>4. /\ committed \in Nat /\ replay.cursor \in 0..committed /\ published \in 0..committed
      /\ liveCursor \in 0..published /\ fromSequenceExclusive \in 0..committed
  BY DEF TypeOK
<1>5. Replayed \cup TakenLive \subseteq 1..committed
  BY <1>4 DEF Replayed, TakenLive
<1>6. {n \in Entries(bufferedEvents) : n > emittedSequence} = Replayed \cup TakenLive
  BY <1>3, <1>4 DEF Replayed, TakenLive
<1> DEFINE k == Cardinality({n \in Entries(bufferedEvents) : n > emittedSequence})
<1>7. /\ orderedEvents \in [1..k -> Entries(bufferedEvents)]
      /\ IsOrderedUnique(orderedEvents, bufferedEvents, emittedSequence)
  BY <1>1, Zenon DEF selectOrderedUniqueCatchupEvents
<1>8. k \in Nat
  <2>1. IsFiniteSet(1..committed)
    BY <1>4, FS_Interval
  <2> QED BY <1>5, <1>6, <2>1, FS_Subset, FS_CardinalityType
<1> HIDE DEF k
<1>9. /\ orderedEvents \in Seq(1..committed)
      /\ DOMAIN orderedEvents = 1..Len(orderedEvents)
      /\ Entries(orderedEvents) = Replayed \cup TakenLive
      /\ \A i, j \in DOMAIN orderedEvents : i < j => orderedEvents[i] < orderedEvents[j]
  <2>1. Entries(bufferedEvents) \subseteq 1..committed
    BY <1>3, <1>5
  <2>2. orderedEvents \in Seq(1..committed)
    <3>1. orderedEvents \in Seq(Entries(bufferedEvents))
      BY <1>7, <1>8
    <3> QED BY <2>1, <3>1, SeqWiden
  <2>3. Entries(orderedEvents) = Replayed \cup TakenLive
    BY <1>6, <1>7, Zenon DEF IsOrderedUnique
  <2>4. \A i, j \in DOMAIN orderedEvents : i < j => orderedEvents[i] < orderedEvents[j]
    BY <1>7, Zenon DEF IsOrderedUnique
  <2> QED BY <2>2, <2>3, <2>4
<1>10. emitted' = orderedEvents
  BY <1>1, <1>3, <1>9
<1>11. Entries(emitted') = Replayed \cup TakenLive
  BY <1>9, <1>10
<1>12. Replayed' = Replayed /\ TakenLive' = TakenLive
  BY <1>2 DEF Replayed, TakenLive, logVars, liveVars
<1>13. BufferHoldsAll'
  BY <1>2, <1>11, <1>12 DEF BufferHoldsAll, Entries
<1>14. EmittedSequenceIsLast' /\ emittedSequence' \in 0..committed
  <2>1. CASE orderedEvents = <<>>
    <3>1. Entries(orderedEvents) = {}
      BY <2>1 DEF Entries
    <3> QED BY <1>1, <1>2, <1>3, <1>4, <1>10, <2>1, <3>1 DEF EmittedSequenceIsLast, Entries
  <2>2. CASE orderedEvents # <<>>
    <3>1. Len(orderedEvents) \in 1..Len(orderedEvents)
      BY <1>9, <2>2
    <3>2. \A i \in DOMAIN orderedEvents : orderedEvents[i] \in 1..committed
      BY <1>5, <1>9 DEF Entries
    <3>3. orderedEvents[Len(orderedEvents)] \in 1..committed
      BY <1>9, <3>1, <3>2
    <3>4. \A i \in DOMAIN orderedEvents : orderedEvents[i] <= orderedEvents[Len(orderedEvents)]
      <4>1. SUFFICES ASSUME NEW i \in DOMAIN orderedEvents
                     PROVE  orderedEvents[i] <= orderedEvents[Len(orderedEvents)]
        OBVIOUS
      <4>2. i = Len(orderedEvents) \/ i < Len(orderedEvents)
        BY <1>9
      <4>3. orderedEvents[i] \in Nat /\ orderedEvents[Len(orderedEvents)] \in Nat
        BY <1>4, <3>2, <3>3
      <4>4. CASE i < Len(orderedEvents)
        <5>1. orderedEvents[i] < orderedEvents[Len(orderedEvents)]
          BY <1>9, <3>1, <4>4
        <5> QED BY <4>3, <5>1
      <4> QED BY <4>2, <4>3, <4>4
    <3> QED
      BY <1>1, <1>4, <1>9, <1>10, <2>2, <3>1, <3>3, <3>4 DEF EmittedSequenceIsLast, Entries
  <2> QED BY <2>1, <2>2
<1>15. TypeOK'
  BY <1>2, <1>9, <1>10, <1>14 DEF TypeOK, logVars, liveVars
<1> QED
  BY <1>2, <1>9, <1>10, <1>13, <1>14, <1>15 DEF NothingWhileLoading, liveVars

LEMMA CatchupLiveEvent ==
    ASSUME CatchupInv, LiveEvent
    PROVE  CatchupInv'
<1> USE DEF CatchupInv
<1>1. PICK n \in (liveCursor + 1)..published :
        /\ n \notin unpublished
        /\ (liveCursor + 1)..(n - 1) \subseteq unpublished
        /\ liveCursor' = n
        /\ \/ /\ n <= fromSequenceExclusive
              /\ UNCHANGED feedVars
           \/ /\ n > fromSequenceExclusive
              /\ phase = "catching-up"
              /\ bufferedEvents' = Append(bufferedEvents, n)
              /\ UNCHANGED <<emittedSequence, emitted>>
           \/ /\ n > fromSequenceExclusive
              /\ phase = "caught-up"
              /\ n <= emittedSequence
              /\ UNCHANGED feedVars
           \/ /\ n > fromSequenceExclusive
              /\ phase = "caught-up"
              /\ n > emittedSequence
              /\ emittedSequence' = n
              /\ emitted' = Append(emitted, n)
              /\ UNCHANGED bufferedEvents
  BY DEF LiveEvent
<1>2. /\ phase \in {"catching-up", "caught-up"}
      /\ subscribedAt # NotSubscribed
      /\ UNCHANGED <<logVars, fromSequenceExclusive, phase, subscribedAt, replay>>
  BY DEF LiveEvent
<1>3. /\ committed \in Nat /\ published \in 0..committed /\ liveCursor \in 0..published
      /\ fromSequenceExclusive \in 0..committed /\ replay.cursor \in 0..committed
      /\ subscribedAt \in 0..published /\ subscribedAt <= liveCursor
      /\ n \in Nat /\ liveCursor < n /\ n <= published /\ n \in 1..committed
      /\ fromSequenceExclusive <= replay.cursor /\ emittedSequence \in Nat
  BY <1>1, <1>2 DEF TypeOK
<1>4. TakenLive' = IF n > fromSequenceExclusive THEN TakenLive \cup {n} ELSE TakenLive
  <2>1. /\ TakenLive = {k \in (fromSequenceExclusive + 1)..liveCursor :
                           k > subscribedAt /\ k \notin unpublished}
        /\ TakenLive' = {k \in (fromSequenceExclusive + 1)..n :
                           k > subscribedAt /\ k \notin unpublished}
    BY <1>1, <1>2 DEF TakenLive, logVars
  <2>2. \A k \in (liveCursor + 1)..n : k \notin unpublished <=> k = n
    <3>1. \A k \in (liveCursor + 1)..n : k = n \/ k \in (liveCursor + 1)..(n - 1)
      BY <1>3
    <3> QED BY <1>1, <3>1
  <2>3. \A k \in (fromSequenceExclusive + 1)..n :
           \/ k \in (fromSequenceExclusive + 1)..liveCursor
           \/ k \in (liveCursor + 1)..n
    BY <1>3
  <2>4. \A k \in (fromSequenceExclusive + 1)..liveCursor : k \in (fromSequenceExclusive + 1)..n
    BY <1>3
  <2>5. CASE n > fromSequenceExclusive
    <3>1. n \in (fromSequenceExclusive + 1)..n /\ n > subscribedAt /\ n \in (liveCursor + 1)..n
      BY <1>3, <2>5
    <3> QED BY <1>1, <2>1, <2>2, <2>3, <2>4, <2>5, <3>1
  <2>6. CASE n <= fromSequenceExclusive
    BY <1>3, <2>1, <2>6
  <2> QED BY <1>3, <2>5, <2>6
<1>5. Replayed' = Replayed
  BY <1>2 DEF Replayed
<1>6. CASE UNCHANGED feedVars
  <2>1. n > fromSequenceExclusive => phase = "caught-up" /\ n <= emittedSequence
    BY <1>1, <1>3, <1>6 DEF feedVars, TypeOK
  <2>2. n > fromSequenceExclusive => n \in Replayed
    <3>1. SUFFICES ASSUME n > fromSequenceExclusive PROVE n \in Replayed
      OBVIOUS
    <3>2. emittedSequence \in Replayed \cup TakenLive
      BY <1>3, <2>1, <3>1 DEF EmittedSequenceIsLast, BufferHoldsAll
    <3>3. emittedSequence \notin TakenLive
      BY <1>3, <2>1, <3>1 DEF TakenLive
    <3> QED BY <1>3, <2>1, <3>1, <3>2, <3>3 DEF Replayed
  <2>3. Replayed' \cup TakenLive' = Replayed \cup TakenLive
    BY <1>4, <1>5, <2>2
  <2>4. BufferHoldsAll'
    BY <1>2, <1>6, <2>3 DEF BufferHoldsAll, feedVars, Entries
  <2>5. TypeOK'
    BY <1>1, <1>2, <1>3, <1>6 DEF TypeOK, feedVars, logVars
  <2> QED
    BY <1>1, <1>2, <1>3, <1>6, <2>4, <2>5 DEF NothingWhileLoading, EmittedSequenceIsLast,
       Entries, feedVars
<1>7. CASE /\ n > fromSequenceExclusive
           /\ phase = "catching-up"
           /\ bufferedEvents' = Append(bufferedEvents, n)
           /\ UNCHANGED <<emittedSequence, emitted>>
  <2> DEFINE S == 1..committed
  <2>1. bufferedEvents \in Seq(S) /\ n \in S
    BY <1>3 DEF TypeOK
  <2> HIDE DEF S
  <2>2. /\ bufferedEvents' \in Seq(S)
        /\ Entries(bufferedEvents') = Entries(bufferedEvents) \cup {n}
    BY <1>7, <2>1, EntriesAppend
  <2>3. BufferHoldsAll'
    BY <1>2, <1>4, <1>5, <1>7, <2>2 DEF BufferHoldsAll, Entries
  <2>4. bufferedEvents' \in Seq(1..committed)
    BY <2>2 DEF S
  <2>5. TypeOK'
    BY <1>1, <1>2, <1>3, <1>7, <2>4 DEF TypeOK, logVars
  <2> QED
    BY <1>1, <1>2, <1>3, <1>7, <2>3, <2>5 DEF NothingWhileLoading, EmittedSequenceIsLast, Entries
<1>8. CASE /\ n > fromSequenceExclusive
           /\ phase = "caught-up"
           /\ n > emittedSequence
           /\ emittedSequence' = n
           /\ emitted' = Append(emitted, n)
           /\ UNCHANGED bufferedEvents
  <2> DEFINE S == 1..committed
  <2>1. emitted \in Seq(S) /\ n \in S
    BY <1>3 DEF TypeOK
  <2> HIDE DEF S
  <2>2. emitted' \in Seq(S) /\ Entries(emitted') = Entries(emitted) \cup {n}
    BY <1>8, <2>1, EntriesAppend
  <2>3. BufferHoldsAll'
    BY <1>2, <1>4, <1>5, <1>8, <2>2 DEF BufferHoldsAll, Entries
  <2>4. emitted' \in Seq(1..committed)
    BY <2>2 DEF S
  <2>5. TypeOK'
    BY <1>1, <1>2, <1>3, <1>8, <2>4 DEF TypeOK, logVars
  <2>6. \A m \in Entries(emitted) : m \in Nat /\ m < n
    <3>1. \A m \in Entries(emitted) : m \in 1..committed
      BY DEF TypeOK, Entries
    <3> QED BY <1>3, <1>8, <3>1 DEF EmittedSequenceIsLast
  <2>7. EmittedSequenceIsLast'
    <3>1. \A m \in Entries(emitted') : m <= n
      BY <1>3, <2>2, <2>6
    <3> QED BY <1>8, <2>2, <3>1 DEF EmittedSequenceIsLast, Entries
  <2>8. \A i, j \in DOMAIN emitted' : i < j => emitted'[i] < emitted'[j]
    <3>1. /\ Len(emitted) \in Nat /\ DOMAIN emitted = 1..Len(emitted)
          /\ DOMAIN emitted' = 1..(Len(emitted) + 1)
          /\ \A i \in 1..Len(emitted) : emitted'[i] = emitted[i]
          /\ emitted'[Len(emitted) + 1] = n
      BY <1>8, <2>1
    <3>2. \A i \in 1..Len(emitted) : emitted[i] < n
      BY <2>6, <3>1 DEF Entries
    <3>3. \A i, j \in 1..Len(emitted) : i < j => emitted[i] < emitted[j]
      BY <3>1
    <3>4. \A i, j \in 1..(Len(emitted) + 1) :
             i < j => i \in 1..Len(emitted) /\ (j \in 1..Len(emitted) \/ j = Len(emitted) + 1)
      BY <3>1
    <3> QED BY <3>1, <3>2, <3>3, <3>4
  <2> QED
    BY <1>1, <1>2, <1>3, <1>8, <2>3, <2>5, <2>7, <2>8 DEF NothingWhileLoading
<1> QED BY <1>1, <1>6, <1>7, <1>8

LEMMA CatchupStep ==
    CatchupInv /\ [Next]_vars => CatchupInv'
<1> SUFFICES ASSUME CatchupInv, [Next]_vars PROVE CatchupInv'
  OBVIOUS
<1>1. CASE Commit
  BY <1>1, CatchupCommit
<1>2. CASE Publish
  BY <1>2, CatchupPublish
<1>3. CASE ReadSnapshot
  BY <1>3, CatchupReadSnapshot
<1>4. CASE SubscribeLive
  BY <1>4, CatchupSubscribeLive
<1>5. CASE ReadPage
  BY <1>5, CatchupReadPage
<1>6. CASE ReplayFails
  BY <1>6, CatchupReplayFails
<1>7. CASE CaughtUp
  BY <1>7, CatchupCaughtUp
<1>8. CASE LiveEvent
  BY <1>8, CatchupLiveEvent
<1>9. CASE UNCHANGED vars
  BY <1>9, SMTT(30) DEF vars, logVars, liveVars, feedVars, CatchupInv, TypeOK, NothingWhileLoading,
     BufferHoldsAll, EmittedSequenceIsLast, Replayed, TakenLive, Entries
<1> QED
  BY <1>1, <1>2, <1>3, <1>4, <1>5, <1>6, <1>7, <1>8, <1>9 DEF Next

LEMMA CatchupInvariant == Spec => []CatchupInv
BY CatchupInit, CatchupStep, PTL DEF Spec

\* The variables of a subscription keep their types.
THEOREM CatchupTypeCorrect == Spec => []TypeOK
<1>1. CatchupInv => TypeOK
  BY DEF CatchupInv
<1> QED BY <1>1, CatchupInvariant, PTL

LEMMA NothingElseIsPassedOver ==
    ASSUME CatchupInv
    PROVE  ((fromSequenceExclusive + 1)..emittedSequence) \ (unpublished \cup Missed)
              \subseteq Entries(emitted)
<1> USE DEF CatchupInv
<1>1. SUFFICES ASSUME NEW n \in (fromSequenceExclusive + 1)..emittedSequence,
                      n \notin unpublished, n \notin Missed
               PROVE  n \in Entries(emitted)
  OBVIOUS
<1>2. /\ committed \in Nat /\ published \in 0..committed /\ liveCursor \in 0..published
      /\ fromSequenceExclusive \in 0..committed /\ replay.cursor \in 0..committed
      /\ emittedSequence \in 0..committed /\ subscribedAt \in {NotSubscribed} \cup 0..published
      /\ n \in Nat /\ fromSequenceExclusive < n /\ n <= emittedSequence
  BY <1>1 DEF TypeOK
<1>3. phase = "caught-up"
  BY <1>2 DEF BufferHoldsAll
<1>4. CASE n <= replay.cursor
  BY <1>2, <1>3, <1>4 DEF BufferHoldsAll, Replayed
<1>5. CASE n > replay.cursor
  <2>1. emittedSequence \in Replayed \cup TakenLive
    BY <1>2, <1>3 DEF EmittedSequenceIsLast, BufferHoldsAll
  <2>2. emittedSequence \notin Replayed
    BY <1>2, <1>5 DEF Replayed
  <2>3. subscribedAt # NotSubscribed /\ emittedSequence <= liveCursor
    BY <1>2, <2>1, <2>2 DEF TakenLive
  <2>4. n \notin (replay.cursor + 1)..subscribedAt
    BY <1>1, <1>3, <2>3 DEF Missed, BufferHoldsAll
  <2>5. n \in (fromSequenceExclusive + 1)..liveCursor /\ n > subscribedAt
    BY <1>2, <1>5, <2>3, <2>4
  <2>6. n \in TakenLive
    BY <1>1, <2>3, <2>5 DEF TakenLive
  <2> QED BY <1>3, <2>6 DEF BufferHoldsAll
<1> QED BY <1>2, <1>4, <1>5

LEMMA CatchupInvImplies == CatchupInv => FeedIsOrderedAndComplete
<1> SUFFICES ASSUME CatchupInv PROVE FeedIsOrderedAndComplete
  OBVIOUS
<1> USE DEF CatchupInv
<1>1. Entries(emitted) \subseteq (fromSequenceExclusive + 1)..emittedSequence
  <2>1. CASE phase = "caught-up"
    <3>1. \A n \in Replayed \cup TakenLive : n \in Nat /\ n >= fromSequenceExclusive + 1
      BY DEF Replayed, TakenLive, TypeOK
    <3> QED BY <2>1, <3>1 DEF BufferHoldsAll, EmittedSequenceIsLast, TypeOK
  <2>2. CASE phase # "caught-up"
    BY <2>2 DEF BufferHoldsAll, Entries
  <2> QED BY <2>1, <2>2
<1> QED
  BY <1>1, NothingElseIsPassedOver DEF FeedIsOrderedAndComplete

\* The client is sent the events after its snapshot in order, each once, and
\* none is passed over but those never published or missed by both sides.
THEOREM CatchupOrderedAndComplete == Spec => []FeedIsOrderedAndComplete
BY CatchupInvariant, CatchupInvImplies, PTL

\* What the feed exempts, as the refinement mapping names it.
Exempted ==
    IF phase = "loading" THEN {}
    ELSE {n \in unpublished \cup Missed :
             n > fromSequenceExclusive /\ n \notin Entries(emitted)}

\* Nothing is exempted before its turn has come and gone.
LEMMA OnlyExemptedIsPassedOver ==
    ASSUME CatchupInv
    PROVE  /\ phase = "caught-up" =>
                 ((fromSequenceExclusive + 1)..emittedSequence) \ Entries(emitted)
                     \subseteq Exempted
           /\ phase # "caught-up" => Entries(emitted) = {}
           /\ \A n \in Exempted : n \in 1..committed
<1> USE DEF CatchupInv
<1>1. phase = "caught-up" =>
         ((fromSequenceExclusive + 1)..emittedSequence) \ Entries(emitted) \subseteq Exempted
  BY NothingElseIsPassedOver DEF Exempted, TypeOK
<1>2. phase # "caught-up" => Entries(emitted) = {}
  BY DEF BufferHoldsAll, Entries
<1>3. \A n \in Exempted : n \in 1..committed
  <2>1. /\ committed \in Nat /\ unpublished \subseteq 1..published /\ published \in 0..committed
        /\ replay.cursor \in 0..committed
        /\ subscribedAt # NotSubscribed => subscribedAt \in 0..published
    BY DEF TypeOK
  <2>2. \A n \in Missed : n \in 1..committed
    <3>1. CASE replay.ended /\ subscribedAt # NotSubscribed
      <4>1. Missed = (replay.cursor + 1)..subscribedAt
        BY <3>1 DEF Missed
      <4> QED BY <2>1, <3>1, <4>1
    <3>2. CASE ~(replay.ended /\ subscribedAt # NotSubscribed)
      BY <3>2 DEF Missed
    <3> QED BY <3>1, <3>2
  <2>3. \A n \in unpublished : n \in 1..committed
    BY <2>1
  <2>4. Exempted \subseteq unpublished \cup Missed
    BY DEF Exempted
  <2> QED BY <2>2, <2>3, <2>4
<1> QED BY <1>1, <1>2, <1>3

\* The same facts about the state after a step.
LEMMA CatchupFactsPrimed ==
    CatchupInv' =>
        /\ FeedIsOrderedAndComplete'
        /\ EmittedSequenceIsLast'
        /\ TypeOK'
        /\ (phase = "caught-up" =>
               ((fromSequenceExclusive + 1)..emittedSequence) \ Entries(emitted)
                   \subseteq Exempted)'
        /\ (\A n \in Exempted : n \in 1..committed)'
<1>1. CatchupInv =>
        /\ FeedIsOrderedAndComplete
        /\ EmittedSequenceIsLast
        /\ TypeOK
        /\ (phase = "caught-up" =>
               ((fromSequenceExclusive + 1)..emittedSequence) \ Entries(emitted)
                   \subseteq Exempted)
        /\ (\A n \in Exempted : n \in 1..committed)
  BY CatchupInvImplies, OnlyExemptedIsPassedOver DEF CatchupInv
<1> QED BY <1>1, PTL

LEMMA FeedInit == Init => Feed!Init
BY DEF Init, Feed!Init, Entries

LEMMA FeedMapping ==
    /\ Feed!Extend <=> /\ committed' = committed + 1
                       /\ emittedSequence' = emittedSequence
                       /\ Entries(emitted)' = Entries(emitted)
                       /\ Exempted' = Exempted
    /\ Feed!Exempt <=> /\ Exempted \subseteq Exempted'
                       /\ \A n \in Exempted' \ Exempted :
                             emittedSequence < n /\ n <= committed
                       /\ committed' = committed
                       /\ emittedSequence' = emittedSequence
                       /\ Entries(emitted)' = Entries(emitted)
    /\ Feed!Begin <=> /\ Entries(emitted) = {}
                      /\ emittedSequence' \in emittedSequence..committed
                      /\ committed' = committed
                      /\ Entries(emitted)' = Entries(emitted)
                      /\ Exempted' = Exempted
    /\ UNCHANGED Feed!vars <=> /\ committed' = committed
                               /\ emittedSequence' = emittedSequence
                               /\ Entries(emitted)' = Entries(emitted)
                               /\ Exempted' = Exempted
BY DEF Feed!Extend, Feed!Exempt, Feed!Begin, Feed!vars, Exempted

\* A step that sends the client a batch of events, the last of them to.
LEMMA FeedDeliver ==
    ASSUME NEW to \in (emittedSequence + 1)..committed,
           NEW batch \in SUBSET ((emittedSequence + 1)..to),
           to \in batch,
           ((emittedSequence + 1)..to) \ Exempted \subseteq batch,
           emittedSequence' = to,
           Entries(emitted)' = Entries(emitted) \cup batch,
           Exempted' = Exempted \ batch,
           committed' = committed
    PROVE  Feed!Deliver
BY DEF Feed!Deliver, Exempted

LEMMA FeedStep ==
    CatchupInv /\ CatchupInv' /\ [Next]_vars => [Feed!Next]_(Feed!vars)
<1> SUFFICES ASSUME CatchupInv, CatchupInv', [Next]_vars PROVE [Feed!Next]_(Feed!vars)
  OBVIOUS
<1> USE DEF CatchupInv
<1> DEFINE Silent == /\ committed' = committed
                     /\ emittedSequence' = emittedSequence
                     /\ Entries(emitted)' = Entries(emitted)
                     /\ Exempted' = Exempted
<1>1. CASE Commit
  <2>1. /\ committed' = committed + 1
        /\ UNCHANGED <<published, unpublished, fromSequenceExclusive, phase, liveVars, replay,
                       feedVars>>
    BY <1>1 DEF Commit
  <2>2. Exempted' = Exempted
    BY <2>1 DEF Exempted, Missed, Entries, feedVars, liveVars
  <2>3. Feed!Extend
    BY <2>1, <2>2, FeedMapping DEF feedVars, Entries
  <2> QED BY <2>3 DEF Feed!Next
<1>2. CASE Publish
  <2>1. /\ committed' = committed /\ unpublished \subseteq unpublished'
        /\ unpublished' \ unpublished \subseteq (published + 1)..committed
        /\ UNCHANGED <<fromSequenceExclusive, phase, liveVars, replay, feedVars>>
    BY <1>2 DEF Publish, TypeOK
  <2>2. Entries(emitted)' = Entries(emitted) /\ Missed' = Missed
    BY <2>1 DEF Missed, Entries, feedVars, liveVars
  <2>3. Exempted \subseteq Exempted'
    BY <2>1, <2>2 DEF Exempted
  <2>4. \A n \in Exempted' \ Exempted : emittedSequence < n /\ n <= committed
    <3>1. SUFFICES ASSUME NEW n \in Exempted', n \notin Exempted
                   PROVE  emittedSequence < n /\ n <= committed
      OBVIOUS
    <3>2. /\ n \in 1..committed /\ n > fromSequenceExclusive /\ n \notin Entries(emitted)
          /\ fromSequenceExclusive \in Nat /\ emittedSequence \in Nat /\ committed \in Nat
      <4>1. n \in 1..committed
        BY <2>1, <3>1, CatchupFactsPrimed
      <4> QED BY <2>1, <2>2, <3>1, <4>1 DEF Exempted, TypeOK
    <3>3. CASE phase = "caught-up"
      BY <3>1, <3>2, <3>3, OnlyExemptedIsPassedOver
    <3>4. CASE phase # "caught-up"
      BY <3>2, <3>4 DEF BufferHoldsAll
    <3> QED BY <3>3, <3>4
  <2>5. Feed!Exempt
    BY <2>1, <2>2, <2>3, <2>4, FeedMapping DEF feedVars
  <2> QED BY <2>5 DEF Feed!Next
<1>3. CASE ReadSnapshot
  <2>1. /\ Entries(emitted) = {} /\ Entries(emitted)' = {}
        /\ emittedSequence = 0 /\ emittedSequence' = committed /\ committed' = committed
        /\ committed \in Nat
    BY <1>3 DEF ReadSnapshot, BufferHoldsAll, NothingWhileLoading, Entries, logVars, TypeOK
  <2>2. Exempted = {} /\ Exempted' = {}
    <3>1. Exempted = {}
      BY <1>3 DEF ReadSnapshot, Exempted
    <3>2. /\ fromSequenceExclusive' = committed /\ unpublished' = unpublished
          /\ ~replay'.ended /\ unpublished \subseteq 1..committed
      BY <1>3 DEF ReadSnapshot, logVars, TypeOK, NothingWhileLoading
    <3>3. Missed' = {}
      BY <3>2 DEF Missed
    <3>4. \A n \in unpublished' : ~(n > fromSequenceExclusive')
      BY <2>1, <3>2
    <3> QED BY <3>1, <3>3, <3>4 DEF Exempted
  <2>3. Feed!Begin
    BY <2>1, <2>2, FeedMapping
  <2> QED BY <2>3 DEF Feed!Next
<1>4. CASE SubscribeLive \/ ReadPage
  <2>1. /\ committed' = committed /\ unpublished' = unpublished
        /\ UNCHANGED <<phase, fromSequenceExclusive, emitted, emittedSequence>>
        /\ phase # "loading"
    BY <1>4 DEF SubscribeLive, ReadPage, logVars, feedVars
  <2>2. Entries(emitted)' = Entries(emitted)
    BY <2>1 DEF Entries
  <2>3. Missed \subseteq Missed'
    <3>1. CASE SubscribeLive
      BY <3>1 DEF SubscribeLive, Missed
    <3>2. CASE ReadPage
      BY <3>2 DEF ReadPage, Missed
    <3> QED BY <1>4, <3>1, <3>2
  <2>4. \A n \in Missed' \ Missed : emittedSequence < n /\ n <= committed
    <3>1. SUFFICES ASSUME NEW n \in Missed', n \notin Missed
                   PROVE  emittedSequence < n /\ n <= committed
      OBVIOUS
    <3>2. /\ n \in (replay'.cursor + 1)..subscribedAt' /\ subscribedAt' \in 0..committed
          /\ replay'.cursor \in Nat /\ committed \in Nat
      BY <2>1, <3>1 DEF Missed, TypeOK
    <3>3. emittedSequence <= replay'.cursor
      <4>1. CASE phase # "caught-up"
        BY <2>1, <4>1 DEF BufferHoldsAll
      <4>2. CASE phase = "caught-up"
        <5>1. SubscribeLive
          BY <1>4, <4>2 DEF ReadPage
        <5>2. TakenLive = {} /\ replay' = replay
          BY <5>1 DEF SubscribeLive, TakenLive
        <5>3. emittedSequence = fromSequenceExclusive \/ emittedSequence \in Replayed
          BY <4>2, <5>2 DEF BufferHoldsAll, EmittedSequenceIsLast
        <5> QED BY <5>2, <5>3 DEF Replayed, TypeOK
      <4> QED BY <4>1, <4>2
    <3>4. emittedSequence \in Nat
      BY DEF TypeOK
    <3> HIDE DEF CatchupInv
    <3> QED BY <3>2, <3>3, <3>4
  <2>5. Exempted \subseteq Exempted' /\ Exempted' \ Exempted \subseteq Missed' \ Missed
    BY <2>1, <2>2, <2>3 DEF Exempted
  <2>6. Feed!Exempt
    BY <2>1, <2>2, <2>4, <2>5, FeedMapping
  <2> QED BY <2>6 DEF Feed!Next
<1>5. CASE ReplayFails
  <2>1. Silent
    BY <1>5 DEF ReplayFails, Exempted, Missed, Entries, logVars, liveVars, feedVars
  <2> QED BY <2>1, FeedMapping
<1>6. CASE CaughtUp
  <2>1. /\ phase = "catching-up" /\ phase' = "caught-up"
        /\ committed' = committed /\ unpublished' = unpublished
        /\ UNCHANGED <<fromSequenceExclusive, liveVars, replay>>
    BY <1>6 DEF CaughtUp, logVars
  <2>2. Entries(emitted) = {} /\ emittedSequence = fromSequenceExclusive
        /\ emittedSequence \in Nat /\ committed \in Nat
    BY <2>1 DEF BufferHoldsAll, Entries, TypeOK
  <2>3. Missed' = Missed
    BY <2>1 DEF Missed, liveVars
  <2>4. /\ emittedSequence' \in 0..committed
        /\ \A n \in Entries(emitted)' : n \in (fromSequenceExclusive + 1)..emittedSequence'
        /\ emittedSequence' = fromSequenceExclusive \/ emittedSequence' \in Entries(emitted)'
    BY <2>1, CatchupFactsPrimed DEF EmittedSequenceIsLast, TypeOK, FeedIsOrderedAndComplete
  <2>5. CASE Entries(emitted)' = {}
    <3>1. Silent
      BY <2>1, <2>2, <2>3, <2>4, <2>5 DEF Exempted
    <3> QED BY <3>1, FeedMapping
  <2>6. CASE Entries(emitted)' # {}
    <3> DEFINE batch == Entries(emitted)'
               to == emittedSequence'
    <3>1. to \in batch /\ to \in (emittedSequence + 1)..committed
      BY <2>2, <2>4, <2>6
    <3>2. batch \in SUBSET ((emittedSequence + 1)..to)
      BY <2>2, <2>4
    <3>3. Exempted' = Exempted \ batch
      BY <2>1, <2>2, <2>3 DEF Exempted
    <3>4. ((emittedSequence + 1)..to) \ batch \subseteq Exempted'
      <4>1. (((fromSequenceExclusive + 1)..emittedSequence) \ Entries(emitted))'
               \subseteq Exempted'
        BY <2>1, CatchupFactsPrimed
      <4> QED BY <2>1, <2>2, <4>1
    <3>5. Entries(emitted)' = Entries(emitted) \cup batch
      BY <2>2
    <3> HIDE DEF batch, to
    <3>6. ((emittedSequence + 1)..to) \ Exempted \subseteq batch
      BY <3>3, <3>4
    <3>7. emittedSequence' = to
      BY DEF to
    <3>8. Feed!Deliver
      BY <2>1, <3>1, <3>2, <3>3, <3>5, <3>6, <3>7, FeedDeliver
    <3> QED BY <3>8 DEF Feed!Next
  <2> QED BY <2>5, <2>6
<1>7. CASE LiveEvent
  <2>1. /\ committed' = committed /\ unpublished' = unpublished
        /\ UNCHANGED <<fromSequenceExclusive, phase, subscribedAt, replay>>
    BY <1>7 DEF LiveEvent, logVars
  <2>2. Missed' = Missed
    BY <2>1 DEF Missed
  <2>3. CASE UNCHANGED <<emittedSequence, emitted>>
    <3>1. Silent
      BY <2>1, <2>2, <2>3 DEF Exempted, Entries
    <3> QED BY <3>1, FeedMapping
  <2>4. CASE ~UNCHANGED <<emittedSequence, emitted>>
    <3>1. PICK n \in (liveCursor + 1)..published :
             /\ n > emittedSequence /\ phase = "caught-up"
             /\ emittedSequence' = n
             /\ emitted' = Append(emitted, n)
      BY <1>7, <2>4 DEF LiveEvent, feedVars
    <3>2. /\ emittedSequence \in Nat /\ fromSequenceExclusive \in Nat /\ committed \in Nat
          /\ n \in (emittedSequence + 1)..committed /\ n \in 1..committed
          /\ fromSequenceExclusive <= emittedSequence
      <4>1. /\ emittedSequence \in Nat /\ fromSequenceExclusive \in Nat /\ committed \in Nat
            /\ published \in 0..committed /\ liveCursor \in 0..published
        BY DEF TypeOK
      <4>2. n \in (emittedSequence + 1)..committed /\ n \in 1..committed
        BY <3>1, <4>1
      <4>3. fromSequenceExclusive <= emittedSequence
        BY <4>1, CatchupInvImplies DEF EmittedSequenceIsLast, FeedIsOrderedAndComplete
      <4> QED BY <4>1, <4>2, <4>3
    <3>3. Entries(emitted)' = Entries(emitted) \cup {n}
      <4> DEFINE S == 1..committed
      <4>1. emitted \in Seq(S) /\ n \in S
        BY <3>2 DEF TypeOK
      <4> HIDE DEF S
      <4>2. Entries(Append(emitted, n)) = Entries(emitted) \cup {n}
        BY <4>1, EntriesAppend
      <4> QED BY <3>1, <4>2 DEF Entries
    <3>4. Exempted' = Exempted \ {n}
      BY <2>1, <2>2, <3>3 DEF Exempted
    <3>5. ((fromSequenceExclusive + 1)..n) \ (Entries(emitted) \cup {n}) \subseteq Exempted
      <4>1. (((fromSequenceExclusive + 1)..emittedSequence) \ Entries(emitted))'
               \subseteq Exempted'
        BY <2>1, <3>1, CatchupFactsPrimed
      <4> QED BY <2>1, <3>1, <3>3, <3>4, <4>1
    <3>6. \A m \in Entries(emitted) : m <= emittedSequence
      BY DEF EmittedSequenceIsLast
    <3>7. ((emittedSequence + 1)..n) \ Exempted \subseteq {n}
      <4>1. SUFFICES ASSUME NEW m \in (emittedSequence + 1)..n, m # n, m \notin Exempted
                     PROVE  FALSE
        OBVIOUS
      <4>2. m \in (fromSequenceExclusive + 1)..n /\ m \notin Entries(emitted)
        BY <3>2, <3>6, <4>1
      <4> QED BY <3>5, <4>1, <4>2
    <3>8. n \in {n} /\ {n} \in SUBSET ((emittedSequence + 1)..n)
      BY <3>2
    <3>9. Feed!Deliver
      BY <2>1, <3>1, <3>2, <3>3, <3>4, <3>7, <3>8, FeedDeliver
    <3> QED BY <3>9 DEF Feed!Next
  <2> QED BY <2>3, <2>4
<1>8. CASE UNCHANGED vars
  <2>1. Silent
    BY <1>8 DEF vars, logVars, liveVars, feedVars, Exempted, Missed, Entries
  <2> QED BY <2>1, FeedMapping
<1> QED
  BY <1>1, <1>2, <1>3, <1>4, <1>5, <1>6, <1>7, <1>8 DEF Next

\* A subscription, with its replay, its live stream and its buffer, is an
\* event feed.
THEOREM CatchupImplementsEventFeed == Spec => ImplementsEventFeed
BY CatchupInvariant, FeedInit, FeedStep, PTL DEF Spec, Feed!Spec, ImplementsEventFeed
=============================================================================
