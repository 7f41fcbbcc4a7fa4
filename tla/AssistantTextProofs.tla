------------------------ MODULE AssistantTextProofs ------------------------
(***************************************************************************)
(* Theorems about AssistantText, for any bounds.                           *)
(*                                                                         *)
(* A handler is a list of tasks; what holds between two events has to be   *)
(* carried through every task of it.  The invariants below say what each   *)
(* task that is left will still do, for the text it takes from a buffer    *)
(* (KeptInv), for the row it completes (StreamInv), for the pieces it      *)
(* shows (OnceInv) and for where it shows them (OrderInv).                 *)
(***************************************************************************)
EXTENDS AssistantText, FiniteSetTheorems, SequenceTheorems, WellFoundedInduction, TLAPS

-----------------------------------------------------------------------------
(* Sequences *)

\* A non-empty set of numbers has a least one.
LEMMA LeastOf ==
    ASSUME NEW S, S \subseteq Nat, S # {}
    PROVE  \E x \in S : \A y \in S : x <= y
<1> DEFINE Less == OpToRel(<, Nat)
<1>1. PICK x \in S : \A y \in S : <<y, x>> \notin Less
  BY NatLessThanWellFounded, WFMin, Zenon
<1>2. \A y \in S : ~(y < x)
  BY <1>1, Zenon DEF OpToRel
<1> QED BY <1>2

\* What is left of a list without its first entry.
LEMMA TailIs ==
    ASSUME NEW T, NEW s \in Seq(T), s # <<>>
    PROVE  /\ Tail(s) \in Seq(T) /\ Len(Tail(s)) = Len(s) - 1
           /\ \A n \in DOMAIN Tail(s) : n + 1 \in DOMAIN s /\ Tail(s)[n] = s[n + 1]
           /\ Head(s) = s[1] /\ 1 \in DOMAIN s /\ Head(s) \in T
           /\ \A n \in DOMAIN s : n = 1 \/ (n - 1 \in DOMAIN Tail(s) /\ Tail(s)[n - 1] = s[n])
<1>1. Len(s) \in Nat /\ Len(s) > 0 /\ DOMAIN s = 1..Len(s)
  BY EmptySeq, LenProperties
<1>2. Tail(s) \in Seq(T) /\ Len(Tail(s)) = Len(s) - 1
      /\ \A n \in 1..Len(Tail(s)) : Tail(s)[n] = s[n + 1]
  BY HeadTailProperties
<1>3. DOMAIN Tail(s) = 1..(Len(s) - 1)
  BY <1>2, LenProperties
<1>4. Head(s) = s[1] /\ Head(s) \in T
  BY <1>1, HeadTailProperties, ElementOfSeq
<1> QED
  BY <1>1, <1>2, <1>3, <1>4

\* A sequence with one more entry.
LEMMA AppendIs ==
    ASSUME NEW T, NEW s \in Seq(T), NEW e \in T
    PROVE  /\ Append(s, e) \in Seq(T) /\ Len(Append(s, e)) = Len(s) + 1
           /\ DOMAIN Append(s, e) = DOMAIN s \cup {Len(s) + 1}
           /\ \A n \in DOMAIN s : Append(s, e)[n] = s[n]
           /\ Append(s, e)[Len(s) + 1] = e
           /\ Len(s) + 1 \notin DOMAIN s
<1>1. Len(s) \in Nat /\ DOMAIN s = 1..Len(s)
  BY LenProperties
<1>2. Append(s, e) \in Seq(T) /\ Len(Append(s, e)) = Len(s) + 1
  BY AppendProperties
<1>3. DOMAIN Append(s, e) = 1..(Len(s) + 1)
  BY <1>2, LenProperties
<1> QED
  BY <1>1, <1>2, <1>3, AppendProperties

\* What two sequences hold, one after the other.
LEMMA ConcatIs ==
    ASSUME NEW T, NEW s \in Seq(T), NEW t \in Seq(T)
    PROVE  /\ s \o t \in Seq(T) /\ Len(s \o t) = Len(s) + Len(t)
           /\ \A n \in DOMAIN s : n \in DOMAIN (s \o t) /\ (s \o t)[n] = s[n]
           /\ \A n \in DOMAIN t : n + Len(s) \in DOMAIN (s \o t) /\ (s \o t)[n + Len(s)] = t[n]
           /\ \A n \in DOMAIN (s \o t) : n \in DOMAIN s
                  \/ (n > Len(s) /\ n - Len(s) \in DOMAIN t /\ (s \o t)[n] = t[n - Len(s)])
<1>1. /\ Len(s) \in Nat /\ DOMAIN s = 1..Len(s)
      /\ Len(t) \in Nat /\ DOMAIN t = 1..Len(t)
  BY LenProperties
<1>2. s \o t \in Seq(T) /\ Len(s \o t) = Len(s) + Len(t)
  BY ConcatProperties
<1>3. DOMAIN (s \o t) = 1..(Len(s) + Len(t))
  BY <1>2, LenProperties
<1>4. \A i \in 1..(Len(s) + Len(t)) : (s \o t)[i] = IF i <= Len(s) THEN s[i] ELSE t[i - Len(s)]
  BY ConcatProperties
<1> HIDE DEF Seq
<1> QED
  BY <1>1, <1>2, <1>3, <1>4

\* Without the first occurrence of an entry every other one is still there.
LEMMA RemoveFirstIs ==
    ASSUME NEW T, NEW s \in Seq(T), NEW e
    PROVE  /\ RemoveFirst(s, e) \in Seq(T)
           /\ ToSet(RemoveFirst(s, e)) \subseteq ToSet(s)
           /\ ToSet(s) \subseteq ToSet(RemoveFirst(s, e)) \cup {e}
<1>1. CASE ~\E i \in 1..Len(s) : s[i] = e
  BY <1>1 DEF RemoveFirst
<1>2. CASE \E i \in 1..Len(s) : s[i] = e
  <2> DEFINE I == {i \in 1..Len(s) : s[i] = e}
  <2>1. I # {} /\ I \subseteq Nat
    BY <1>2
  <2>2. PICK p \in I : \A y \in I : p <= y
    BY <2>1, LeastOf
  <2>3. Max({}) = Max({}) /\ Min(I) \in I
    BY <2>2 DEF Min
  <2> DEFINE q == Min(I)
  <2>4. SelectInSeq(s, LAMBDA v : v = e) = q
    BY <2>1 DEF SelectInSeq
  <2>5. q \in 1..Len(s) /\ s[q] = e
    BY <2>3
  <2> HIDE DEF q, I
  <2>6. RemoveFirst(s, e) = SubSeq(s, 1, q - 1) \o SubSeq(s, q + 1, Len(s))
    BY <1>2, <2>4 DEF RemoveFirst, RemoveAt
  <2> DEFINE a == SubSeq(s, 1, q - 1)
             b == SubSeq(s, q + 1, Len(s))
  <2>7. Len(s) \in Nat /\ DOMAIN s = 1..Len(s)
    BY LenProperties
  <2>8. /\ a \in Seq(T) /\ Len(a) = q - 1 /\ \A i \in 1..(q - 1) : a[i] = s[i]
    BY <2>5, <2>7, SubSeqProperties
  <2>9. /\ b \in Seq(T) /\ Len(b) = Len(s) - q /\ \A i \in 1..(Len(s) - q) : b[i] = s[q + i]
    <3>1. /\ b \in Seq(T) /\ Len(b) = IF q + 1 <= Len(s) THEN Len(s) - (q + 1) + 1 ELSE 0
          /\ \A i \in 1..(Len(s) - (q + 1) + 1) : b[i] = s[q + 1 + i - 1]
      BY <2>5, <2>7, SubSeqProperties
    <3> HIDE DEF b
    <3>2. Len(b) = Len(s) - q
      <4>0. q \in Nat /\ q <= Len(s) /\ Len(s) \in Nat
        BY <2>5, <2>7
      <4>1. CASE q + 1 <= Len(s)
        <5>1. Len(s) - (q + 1) + 1 = Len(s) - q
          BY <4>0
        <5> QED BY <3>1, <4>1, <5>1
      <4>2. CASE ~(q + 1 <= Len(s))
        <5>1. 0 = Len(s) - q
          BY <4>0, <4>2
        <5> QED BY <3>1, <4>2, <5>1
      <4> QED BY <4>1, <4>2
    <3>3. \A i \in 1..(Len(s) - q) : i \in 1..(Len(s) - (q + 1) + 1) /\ q + 1 + i - 1 = q + i
      BY <2>5, <2>7
    <3> QED
      BY <3>1, <3>2, <3>3
  <2> HIDE DEF a, b
  <2>10. /\ a \o b \in Seq(T) /\ Len(a \o b) = Len(s) - 1
         /\ \A i \in 1..(Len(s) - 1) : (a \o b)[i] = IF i < q THEN s[i] ELSE s[i + 1]
    <3>1. /\ a \o b \in Seq(T) /\ Len(a \o b) = Len(a) + Len(b)
          /\ \A i \in 1..(Len(a) + Len(b)) : (a \o b)[i] = IF i <= Len(a) THEN a[i] ELSE b[i - Len(a)]
      BY <2>8, <2>9, ConcatProperties
    <3>2. Len(a) + Len(b) = Len(s) - 1 /\ Len(a) = q - 1
      BY <2>5, <2>7, <2>8, <2>9
    <3>3. ASSUME NEW i \in 1..(Len(s) - 1)
          PROVE  (a \o b)[i] = IF i < q THEN s[i] ELSE s[i + 1]
      <4>1. (a \o b)[i] = IF i <= q - 1 THEN a[i] ELSE b[i - (q - 1)]
        BY <3>1, <3>2, <3>3
      <4>2. CASE i < q
        <5>1. i <= q - 1 /\ i \in 1..(q - 1)
          BY <2>5, <2>7, <4>2
        <5> QED BY <4>1, <4>2, <5>1, <2>8
      <4>3. CASE ~(i < q)
        <5>1. /\ ~(i <= q - 1) /\ i - (q - 1) \in 1..(Len(s) - q)
              /\ q + (i - (q - 1)) = i + 1
          BY <2>5, <2>7, <4>3
        <5> QED BY <4>1, <4>3, <5>1, <2>9
      <4> QED BY <4>2, <4>3
    <3> QED
      BY <3>1, <3>2, <3>3
  <2> DEFINE r == a \o b
  <2>11. DOMAIN r = 1..(Len(s) - 1)
    BY <2>10, LenProperties
  <2>14. \A i \in 1..(Len(s) - 1) : r[i] = IF i < q THEN s[i] ELSE s[i + 1]
    BY <2>10
  <2> HIDE DEF r
  <2>12. \A i \in DOMAIN r : \E j \in DOMAIN s : r[i] = s[j]
    BY <2>5, <2>7, <2>11, <2>14
  <2>13. \A j \in DOMAIN s : s[j] = e \/ \E i \in DOMAIN r : r[i] = s[j]
    <3> SUFFICES ASSUME NEW j \in DOMAIN s, s[j] # e PROVE \E i \in DOMAIN r : r[i] = s[j]
      OBVIOUS
    <3>0. j \in 1..Len(s) /\ q \in 1..Len(s) /\ Len(s) \in Nat
      BY <2>5, <2>7
    <3>1. CASE j < q
      <4>1. j \in 1..(Len(s) - 1)
        BY <3>0, <3>1
      <4>2. r[j] = s[j]
        BY <3>1, <4>1, <2>14
      <4> QED BY <4>1, <4>2, <2>11
    <3>2. CASE j > q
      <4>1. j - 1 \in 1..(Len(s) - 1) /\ ~(j - 1 < q) /\ (j - 1) + 1 = j
        BY <3>0, <3>2
      <4>2. r[j - 1] = s[j]
        BY <4>1, <2>14
      <4> QED BY <4>1, <4>2, <2>11
    <3>3. j # q
      BY <2>5
    <3> QED
      BY <3>0, <3>1, <3>2, <3>3
  <2>15. RemoveFirst(s, e) = r /\ r \in Seq(T)
    BY <2>6, <2>10 DEF r, a, b
  <2>16. ToSet(r) \subseteq ToSet(s) /\ ToSet(s) \subseteq ToSet(r) \cup {e}
    BY <2>12, <2>13 DEF ToSet
  <2> QED
    BY <2>15, <2>16
<1> QED
  BY <1>1, <1>2

-----------------------------------------------------------------------------
(* Types *)

Modes == {"streaming", "buffered"}
Kinds == {"superseded", "overlap", "late", "failure", "exit", "switch", "expiry", "restart"}
Row == [id : MessageId, turn : {NoTurn} \cup Turn, text : Seq(Piece), streaming : BOOLEAN]
Segment == [base : {0} \cup Item, next : Nat, active : {NoMessage} \cup MessageId]
Provider == [turns : 0..MaxTurns, ended : SUBSET Turn, home : Seq(Turn), open : SUBSET Item,
             said : Seq(Item), blank : SUBSET Piece]

\* Tasks that are about a message, and those whose event has a turn.
MessageTasks == {"deliver", "flush", "finalize", "complete", "paused", "itemDone"}
TurnTasks == {"running", "flush", "paused", "itemDone", "turnDone"}
Doings == MessageTasks \cup TurnTasks \cup {"over", "clear"}
Tasks == [do : Doings, message : {NoMessage} \cup MessageId, text : Seq(Piece),
          projected : BOOLEAN]

TypeInv ==
    /\ mode \in Modes
    /\ thread \in Seq(Row)
    /\ active \in {NoTurn} \cup Turn
    /\ buffered \in [MessageId -> Seq(Piece)]
    /\ known \in [Turn -> Seq(MessageId)]
    /\ segment \in [Turn -> Segment]
    /\ handler \in [turn : {NoTurn} \cup Turn, todo : Seq(Tasks)]
    /\ provider \in Provider
    /\ requests \in 0..MaxRequests
    /\ upset \in Seq(Kinds)

\* What the provider has said is of its items, and those are of its turns.
ProviderFits ==
    /\ provider.ended \subseteq 1..provider.turns
    /\ Len(provider.home) <= MaxItems
    /\ \A i \in DOMAIN provider.home : provider.home[i] <= provider.turns
    /\ provider.open \subseteq DOMAIN provider.home
    /\ Len(provider.said) <= MaxPieces
    /\ \A n \in DOMAIN provider.said : provider.said[n] \in DOMAIN provider.home

TasksFit ==
    \A n \in DOMAIN handler.todo :
        /\ handler.todo[n].do \in MessageTasks => handler.todo[n].message \in MessageId
        /\ handler.todo[n].do \in TurnTasks => handler.turn \in Turn

\* A message is numbered for the questions before it: its segment is left only
\* when one of them has paused it.
SegmentsNumbered ==
    \A t \in Turn :
        /\ segment[t].active # NoMessage => segment[t].next <= requests + 1
        /\ segment[t].active = NoMessage => segment[t].next <= requests
        /\ handler.turn = t /\ (\E n \in DOMAIN handler.todo : handler.todo[n].do = "paused")
              => segment[t].next <= requests

TypedInv == TypeInv /\ ProviderFits /\ TasksFit /\ SegmentsNumbered

LEMMA Bounds ==
    /\ MaxBuffered \in Nat /\ MaxTurns \in Nat /\ MaxItems \in Nat /\ MaxPieces \in Nat
    /\ MaxRequests \in Nat /\ MaxUpsets \in Nat
BY TextAssumption

LEMMA Names ==
    /\ NoTurn \notin Turn /\ Turn \subseteq Nat /\ Item \subseteq Nat /\ Piece \subseteq Nat
    /\ NoMessage \notin MessageId
    /\ \A m \in MessageId : m[1] \in Item /\ m[2] \in Nat /\ m = <<m[1], m[2]>>
    /\ \A i \in Item : <<i, 0>> \in MessageId
    /\ <<>> \in Seq(Piece)
BY Bounds DEF NoTurn, Turn, Item, Piece, NoMessage, MessageId

-----------------------------------------------------------------------------
(* A message that is sent *)

\* How the thread is, once text has been added to a message.
Sent(new, id, turn, text, streaming) ==
    /\ new \in Seq(Row)
    /\ DOMAIN thread \subseteq DOMAIN new
    /\ \A k \in DOMAIN thread : new[k].id = thread[k].id
    /\ \A k \in DOMAIN thread : thread[k].id # id => new[k] = thread[k]
    /\ \A k \in DOMAIN thread : thread[k].id = id =>
          /\ new[k].text = thread[k].text \o text
          /\ new[k].streaming = streaming
          /\ new[k].turn = IF turn = NoTurn THEN thread[k].turn ELSE turn
    /\ \A k \in DOMAIN new \ DOMAIN thread :
          /\ k = Len(thread) + 1
          /\ \A j \in DOMAIN thread : thread[j].id # id
          /\ new[k] = [id |-> id, turn |-> turn, text |-> text, streaming |-> streaming]
    /\ \E k \in DOMAIN new : new[k].id = id

LEMMA AddTextSends ==
    ASSUME TypeInv, NEW id \in MessageId, NEW turn \in {NoTurn} \cup Turn, NEW text \in Seq(Piece),
           NEW streaming \in BOOLEAN, NEW new, new = AddText(id, turn, text, streaming)
    PROVE  Sent(new, id, turn, text, streaming)
<1> DEFINE row == [id |-> id, turn |-> turn, text |-> text, streaming |-> streaming]
<1>1. thread \in Seq(Row) /\ DOMAIN thread = 1..Len(thread) /\ Len(thread) \in Nat
  BY LenProperties DEF TypeInv
<1>2. CASE Find(id) = {}
  <2>1. new = Append(thread, row)
    BY <1>2 DEF AddText
  <2>2. row \in Row
    BY DEF Row
  <2>3. \A j \in DOMAIN thread : thread[j].id # id
    BY <1>2 DEF Find
  <2> HIDE DEF row
  <2>4. /\ new \in Seq(Row) /\ DOMAIN new = DOMAIN thread \cup {Len(thread) + 1}
        /\ \A n \in DOMAIN thread : new[n] = thread[n]
        /\ new[Len(thread) + 1] = row
    BY <1>1, <2>1, <2>2, AppendIs
  <2>5. row.id = id
    BY DEF row
  <2> QED
    BY <2>3, <2>4, <2>5 DEF Sent, row
<1>3. CASE Find(id) # {}
  <2> DEFINE f == [n \in DOMAIN thread |->
                IF n \notin Find(id) THEN thread[n]
                ELSE [thread[n] EXCEPT !.text = Joined(@, text),
                                       !.streaming = streaming,
                                       !.turn = IF turn = NoTurn THEN @ ELSE turn]]
  <2>1. new = f
    BY <1>3 DEF AddText
  <2>2. \A n \in DOMAIN thread : thread[n].id # id => n \notin Find(id) /\ f[n] = thread[n]
    BY DEF Find
  <2>3. ASSUME NEW n \in DOMAIN thread
        PROVE  thread[n] \in Row
    BY <1>1, ElementOfSeq
  <2>4. ASSUME NEW n \in DOMAIN thread, thread[n].id = id
        PROVE  /\ f[n] \in Row /\ f[n].id = id
               /\ f[n].text = thread[n].text \o text
               /\ f[n].streaming = streaming
               /\ f[n].turn = IF turn = NoTurn THEN thread[n].turn ELSE turn
    <3>1. n \in Find(id)
      BY <2>4 DEF Find
    <3>2. f[n] = [thread[n] EXCEPT !.text = thread[n].text \o text,
                                   !.streaming = streaming,
                                   !.turn = IF turn = NoTurn THEN thread[n].turn ELSE turn]
      BY <3>1 DEF Joined
    <3>3. thread[n] \in Row
      BY <2>3
    <3>4. thread[n].text \o text \in Seq(Piece)
      BY <3>3, ConcatProperties DEF Row
    <3> DEFINE joined == thread[n].text \o text
               place == IF turn = NoTurn THEN thread[n].turn ELSE turn
    <3>5. place \in {NoTurn} \cup Turn
      BY <3>3 DEF Row
    <3> HIDE DEF joined, place, f
    <3>6. f[n] = [thread[n] EXCEPT !.text = joined, !.streaming = streaming, !.turn = place]
      BY <3>2 DEF joined, place
    <3>7. joined \in Seq(Piece)
      BY <3>4 DEF joined
    <3>8. f[n] \in Row /\ f[n].id = thread[n].id /\ f[n].text = joined
          /\ f[n].streaming = streaming /\ f[n].turn = place
      BY <3>3, <3>5, <3>6, <3>7 DEF Row
    <3> QED
      BY <2>4, <3>8 DEF joined, place
  <2>5. DOMAIN f = DOMAIN thread
    OBVIOUS
  <2> HIDE DEF f
  <2>6. \A n \in DOMAIN thread : f[n] \in Row
    BY <2>2, <2>3, <2>4
  <2>7. f \in [1..Len(thread) -> Row]
    <3>1. f = [n \in DOMAIN thread |-> f[n]]
      BY DEF f
    <3> QED BY <3>1, <2>6, <1>1
  <2>8. f \in Seq(Row)
    BY <1>1, <2>7, SeqDef
  <2>9. \E k \in DOMAIN thread : thread[k].id = id
    BY <1>3 DEF Find
  <2>10. \A k \in DOMAIN thread : f[k].id = thread[k].id
    BY <2>2, <2>4
  <2>11. \E k \in DOMAIN f : f[k].id = id
    BY <2>5, <2>9, <2>10
  <2> QED
    BY <2>1, <2>2, <2>4, <2>5, <2>8, <2>10, <2>11 DEF Sent
<1> QED
  BY <1>2, <1>3

-----------------------------------------------------------------------------
(* The pieces of an item, in order *)

PiecesTo(item, k) == {n \in DOMAIN provider.said : n <= k /\ provider.said[n] = item}
InOrder(set, text) ==
    /\ text \in [1..Cardinality(set) -> set]
    /\ \A i, j \in DOMAIN text : i < j => text[i] < text[j]

\* A list of numbers to which a larger one is added.
LEMMA InOrderWith ==
    ASSUME NEW set, set \subseteq Nat, IsFiniteSet(set), NEW text, InOrder(set, text),
           NEW x \in Nat, \A y \in set : y < x
    PROVE  \E longer : InOrder(set \cup {x}, longer)
<1> DEFINE c == Cardinality(set)
           longer == [i \in 1..(c + 1) |-> IF i <= c THEN text[i] ELSE x]
<1>1. x \notin set
  OBVIOUS
<1>2. c \in Nat /\ Cardinality(set \cup {x}) = c + 1
  BY <1>1, FS_CardinalityType, FS_AddElement
<1> HIDE DEF c
<1>3. \A i \in 1..c : text[i] \in set /\ DOMAIN text = 1..c
  BY DEF InOrder, c
<1>4. \A i, j \in 1..c : i < j => text[i] < text[j]
  BY DEF InOrder, c
<1>5. \A i \in 1..(c + 1) : i <= c => i \in 1..c
  BY <1>2
<1>6. longer \in [1..(c + 1) -> set \cup {x}]
  BY <1>3, <1>5
<1>7. ASSUME NEW i \in 1..(c + 1), NEW j \in 1..(c + 1), i < j
      PROVE  longer[i] < longer[j]
  <2>1. i <= c /\ i \in 1..c /\ longer[i] = text[i]
    BY <1>2, <1>7
  <2>2. CASE j <= c
    BY <1>4, <1>5, <1>7, <2>1, <2>2
  <2>3. CASE ~(j <= c)
    BY <1>3, <2>1, <2>3
  <2> QED BY <2>2, <2>3
<1>8. DOMAIN longer = 1..(c + 1)
  OBVIOUS
<1> HIDE DEF longer
<1>9. InOrder(set \cup {x}, longer)
  BY <1>2, <1>6, <1>7, <1>8 DEF InOrder
<1> QED
  BY <1>9

LEMMA PiecesInOrder ==
    ASSUME TypeInv, NEW item \in Item, NEW k \in Nat
    PROVE  IsFiniteSet(PiecesTo(item, k)) /\ \E text : InOrder(PiecesTo(item, k), text)
<1> DEFINE Good(j) == IsFiniteSet(PiecesTo(item, j)) /\ \E text : InOrder(PiecesTo(item, j), text)
           Bad == {j \in Nat : ~Good(j)}
<1>1. DOMAIN provider.said = 1..Len(provider.said) /\ Len(provider.said) \in Nat
  BY LenProperties DEF TypeInv, Provider
<1>2. Good(0)
  <2>1. PiecesTo(item, 0) = {}
    BY <1>1 DEF PiecesTo
  <2>2. IsFiniteSet({}) /\ Cardinality({}) = 0
    BY FS_EmptySet
  <2>3. InOrder({}, <<>>)
    BY <2>2 DEF InOrder
  <2> QED BY <2>1, <2>2, <2>3
<1>3. ASSUME NEW j \in Nat, Good(j) PROVE Good(j + 1)
  <2>1. PICK text : InOrder(PiecesTo(item, j), text)
    BY <1>3
  <2>2. CASE j + 1 \in DOMAIN provider.said /\ provider.said[j + 1] = item
    <3>1. PiecesTo(item, j + 1) = PiecesTo(item, j) \cup {j + 1}
      BY <1>1, <2>2 DEF PiecesTo
    <3>2. /\ PiecesTo(item, j) \subseteq Nat /\ IsFiniteSet(PiecesTo(item, j))
          /\ \A y \in PiecesTo(item, j) : y < j + 1
      BY <1>1, <1>3 DEF PiecesTo
    <3>3. IsFiniteSet(PiecesTo(item, j) \cup {j + 1})
      BY <3>2, FS_AddElement
    <3>4. \E longer : InOrder(PiecesTo(item, j) \cup {j + 1}, longer)
      BY <2>1, <3>2, InOrderWith
    <3> QED BY <3>1, <3>3, <3>4
  <2>3. CASE ~(j + 1 \in DOMAIN provider.said /\ provider.said[j + 1] = item)
    <3>1. PiecesTo(item, j + 1) = PiecesTo(item, j)
      BY <1>1, <2>3 DEF PiecesTo
    <3> QED BY <3>1, <1>3
  <2> QED BY <2>2, <2>3
<1> HIDE DEF Good
<1>4. SUFFICES ASSUME Bad # {} PROVE FALSE
  <2>1. Good(k)
    BY <1>4
  <2> QED BY <2>1 DEF Good
<1>5. PICK b \in Bad : \A y \in Bad : b <= y
  BY <1>4, LeastOf
<1>6. b # 0 /\ b - 1 \in Nat /\ b - 1 \notin Bad /\ b = (b - 1) + 1
  BY <1>2, <1>5
<1>7. Good(b - 1)
  BY <1>6
<1>8. Good((b - 1) + 1)
  BY <1>3, <1>6, <1>7
<1> QED
  BY <1>5, <1>6, <1>8

\* The text of an item is one of the pieces that were said.
LEMMA TextOfIs ==
    ASSUME TypeInv, NEW item \in Item
    PROVE  /\ \A n \in DOMAIN TextOf(item) : TextOf(item)[n] \in DOMAIN provider.said
           /\ DOMAIN TextOf(item) = 1..Len(TextOf(item)) /\ Len(TextOf(item)) \in Nat
           /\ Len(provider.said) <= MaxPieces => TextOf(item) \in Seq(Piece)
           /\ (\E n \in DOMAIN provider.said : provider.said[n] = item) \/ TextOf(item) = <<>>
<1> DEFINE k == Len(provider.said)
           pieces == {n \in DOMAIN provider.said : provider.said[n] = item}
           c == Cardinality(pieces)
<1>1. DOMAIN provider.said = 1..k /\ k \in Nat
  BY LenProperties DEF TypeInv, Provider
<1>2. PiecesTo(item, k) = pieces
  BY <1>1 DEF PiecesTo
<1>3. IsFiniteSet(pieces) /\ \E text : InOrder(pieces, text)
  BY <1>1, <1>2, PiecesInOrder
<1>4. InOrder(pieces, TextOf(item))
  <2>1. TextOf(item) = CHOOSE text \in [1..Cardinality(pieces) -> pieces] :
                           \A i, j \in DOMAIN text : i < j => text[i] < text[j]
    BY DEF TextOf
  <2> QED BY <2>1, <1>3 DEF InOrder
<1>5. c \in Nat
  BY <1>3, FS_CardinalityType
<1>6. TextOf(item) \in [1..c -> pieces]
  BY <1>4 DEF InOrder
<1>7. pieces = {} => c = 0
  BY FS_EmptySet
<1> DEFINE text == TextOf(item)
<1>8. pieces \subseteq DOMAIN provider.said
  OBVIOUS
<1>9. pieces = {} \/ \E n \in DOMAIN provider.said : provider.said[n] = item
  OBVIOUS
<1> HIDE DEF c, pieces, text
<1>10. text \in [1..c -> pieces]
  BY <1>6 DEF text
<1>11. text \in Seq(pieces)
  BY <1>5, <1>10, SeqDef
<1>12. Len(text) = c /\ DOMAIN text = 1..c
  BY <1>5, <1>10, <1>11, LenProperties
<1>13. k <= MaxPieces => pieces \subseteq Piece
  BY <1>1, <1>8, Bounds DEF Piece
<1>14. k <= MaxPieces => text \in Seq(Piece)
  BY <1>11, <1>13, SeqMonotonic
<1>15. pieces = {} => text = <<>>
  BY <1>7, <1>11, <1>12, EmptySeq
<1> QED
  BY <1>5, <1>8, <1>9, <1>10, <1>12, <1>14, <1>15 DEF text

-----------------------------------------------------------------------------
(* Steps of a handler *)

Handlers == [turn : {NoTurn} \cup Turn, todo : Seq(Tasks)]

\* The first task is done, the others are left.
MovesOn ==
    /\ handler' \in Handlers
    /\ Len(handler'.todo) = Len(handler.todo) - 1
    /\ \A n \in DOMAIN handler'.todo :
          n + 1 \in DOMAIN handler.todo /\ handler'.todo[n] = handler.todo[n + 1]
    /\ \A n \in DOMAIN handler.todo :
          n = 1 \/ (n - 1 \in DOMAIN handler'.todo /\ handler'.todo[n - 1] = handler.todo[n])
    /\ handler'.todo # <<>> => handler'.turn = handler.turn

\* The first task goes from finalizing to completing its message.
TurnsToCompletion ==
    /\ handler' \in Handlers
    /\ handler'.turn = handler.turn
    /\ DOMAIN handler'.todo = DOMAIN handler.todo /\ Len(handler'.todo) = Len(handler.todo)
    /\ \A n \in DOMAIN handler.todo : n # 1 => handler'.todo[n] = handler.todo[n]
    /\ Now.do = "finalize" /\ handler'.todo[1].do = "complete"
    /\ handler'.todo[1].message = Now.message

\* The task that comes first.
LEMMA FirstTask ==
    ASSUME TypeInv, ~Idle
    PROVE  /\ 1 \in DOMAIN handler.todo /\ Now = handler.todo[1] /\ Now \in Tasks
           /\ handler.todo \in Seq(Tasks) /\ Len(handler.todo) \in Nat
           /\ DOMAIN handler.todo = 1..Len(handler.todo)
           /\ handler.turn \in {NoTurn} \cup Turn
           /\ \A n \in DOMAIN handler.todo : handler.todo[n] \in Tasks
<1>1. handler.todo \in Seq(Tasks) /\ handler.todo # <<>> /\ handler.turn \in {NoTurn} \cup Turn
  BY DEF TypeInv, Idle
<1>2. Now = Head(handler.todo)
  BY DEF Now
<1>3. Head(handler.todo) = handler.todo[1] /\ 1 \in DOMAIN handler.todo
      /\ Head(handler.todo) \in Tasks
  BY <1>1, TailIs
<1>4. \A n \in DOMAIN handler.todo : handler.todo[n] \in Tasks
  BY <1>1, ElementOfSeq, LenProperties
<1> QED
  BY <1>1, <1>2, <1>3, <1>4, LenProperties

LEMMA HandleIs ==
    ASSUME NEW turn \in {NoTurn} \cup Turn, NEW todo \in Seq(Tasks), Handle(turn, todo)
    PROVE  /\ handler' \in Handlers /\ handler'.todo = todo
           /\ todo # <<>> => handler'.turn = turn
<1>1. CASE todo = <<>>
  <2>1. handler' = [turn |-> NoTurn, todo |-> <<>>]
    BY <1>1 DEF Handle, Resting
  <2>2. <<>> \in Seq(Tasks)
    BY EmptySeq
  <2> QED
    BY <1>1, <2>1, <2>2 DEF Handlers
<1>2. CASE todo # <<>>
  BY <1>2 DEF Handle, Handlers
<1> QED
  BY <1>1, <1>2

LEMMA GoesOnIs ==
    ASSUME TypeInv, ~Idle, GoesOn
    PROVE  MovesOn
<1> DEFINE todo == handler.todo
           left == Tail(todo)
<1>1. todo \in Seq(Tasks) /\ todo # <<>> /\ handler.turn \in {NoTurn} \cup Turn
  BY DEF TypeInv, Idle
<1>2. /\ left \in Seq(Tasks) /\ Len(left) = Len(todo) - 1
      /\ \A n \in DOMAIN left : n + 1 \in DOMAIN todo /\ left[n] = todo[n + 1]
      /\ \A n \in DOMAIN todo : n = 1 \/ (n - 1 \in DOMAIN left /\ left[n - 1] = todo[n])
  <2> HIDE DEF todo
  <2> QED BY <1>1, TailIs
<1>3. Handle(handler.turn, left)
  BY DEF GoesOn
<1> HIDE DEF left
<1>4. handler' \in Handlers /\ handler'.todo = left /\ (left # <<>> => handler'.turn = handler.turn)
  BY <1>1, <1>2, <1>3, HandleIs
<1> QED
  BY <1>2, <1>4 DEF MovesOn

LEMMA CompletionIs ==
    ASSUME TypeInv, ~Idle, Now.do = "finalize",
           handler' = [handler EXCEPT !.todo[1].do = "complete"]
    PROVE  TurnsToCompletion
<1> DEFINE todo == handler.todo
           first == [todo[1] EXCEPT !.do = "complete"]
           next == [todo EXCEPT ![1] = first]
<1>1. /\ todo \in Seq(Tasks) /\ 1 \in DOMAIN todo /\ todo[1] \in Tasks /\ Now = todo[1]
      /\ handler.turn \in {NoTurn} \cup Turn
  BY FirstTask
<1>2. first \in Tasks /\ first.message = todo[1].message /\ first.do = "complete"
  BY <1>1 DEF Tasks, Doings, MessageTasks
<1>3. handler' = [handler EXCEPT !.todo = next]
  OBVIOUS
<1>4. handler'.todo = next /\ handler'.turn = handler.turn
      /\ handler' = [turn |-> handler.turn, todo |-> next]
  BY <1>3 DEF TypeInv
<1>5. first = [Now EXCEPT !.do = "complete"]
  BY <1>1
<1>7. DOMAIN todo = 1..Len(todo)
  BY <1>1, LenProperties
<1> HIDE DEF first, todo
<1>6. next \in Seq(Tasks) /\ Len(next) = Len(todo) /\ DOMAIN next = DOMAIN todo
      /\ next[1] = first /\ \A n \in DOMAIN todo : n # 1 => next[n] = todo[n]
  <2>1. next \in Seq(Tasks) /\ Len(next) = Len(todo)
    BY <1>1, <1>2, <1>7, ExceptSeq
  <2> QED
    BY <1>1, <2>1
<1> HIDE DEF next
<1> QED
  BY <1>1, <1>2, <1>4, <1>5, <1>6 DEF TurnsToCompletion, Handlers, todo

\* What is buffered for a message is taken.
LEMMA TakenIs ==
    ASSUME TypeInv, NEW id, TakeBuffered(id)
    PROVE  /\ buffered' \in [MessageId -> Seq(Piece)]
           /\ \A m \in MessageId : buffered'[m] = IF m = id THEN <<>> ELSE buffered[m]
BY Names DEF TypeInv, TakeBuffered

\* A message is no longer known, the others of its turn and of others are.
LEMMA ForgottenIs ==
    ASSUME TypeInv, NEW id, Forget(id)
    PROVE  /\ known' \in [Turn -> Seq(MessageId)]
           /\ \A t \in Turn : ToSet(known'[t]) \subseteq ToSet(known[t])
           /\ \A t \in Turn : \A m \in ToSet(known[t]) : m = id \/ m \in ToSet(known'[t])
<1>1. known \in [Turn -> Seq(MessageId)] /\ handler.turn \in {NoTurn} \cup Turn
  BY DEF TypeInv
<1>2. CASE handler.turn = NoTurn
  BY <1>1, <1>2 DEF Forget
<1>3. CASE handler.turn # NoTurn
  <2> DEFINE h == handler.turn
             left == RemoveFirst(known[h], id)
  <2>1. h \in Turn /\ known' = [known EXCEPT ![h] = left]
    BY <1>1, <1>3 DEF Forget
  <2>2. /\ left \in Seq(MessageId) /\ ToSet(left) \subseteq ToSet(known[h])
        /\ ToSet(known[h]) \subseteq ToSet(left) \cup {id}
    BY <1>1, <2>1, RemoveFirstIs
  <2> HIDE DEF left, h
  <2>3. known' \in [Turn -> Seq(MessageId)]
        /\ \A t \in Turn : known'[t] = IF t = h THEN left ELSE known[t]
    BY <1>1, <2>1, <2>2
  <2> QED
    BY <2>2, <2>3
<1> QED
  BY <1>2, <1>3

\* A disturbance is recorded, and none is forgotten.
LEMMA UpsetsAre ==
    ASSUME TypeInv, NEW kind \in Kinds, Upsets(kind)
    PROVE  upset' \in Seq(Kinds) /\ ToSet(upset') = ToSet(upset) \cup {kind}
<1>1. upset \in Seq(Kinds) /\ upset' = Append(upset, kind)
  BY DEF TypeInv, Upsets
<1> HIDE DEF Kinds
<1>2. /\ Append(upset, kind) \in Seq(Kinds)
      /\ DOMAIN Append(upset, kind) = DOMAIN upset \cup {Len(upset) + 1}
      /\ \A n \in DOMAIN upset : Append(upset, kind)[n] = upset[n]
      /\ Append(upset, kind)[Len(upset) + 1] = kind
  BY <1>1, AppendIs
<1> DEFINE longer == Append(upset, kind)
<1>3. upset' = longer
  BY <1>1
<1> HIDE DEF longer
<1>4. ToSet(longer) = ToSet(upset) \cup {kind}
  BY <1>2 DEF ToSet, longer
<1> QED
  BY <1>2, <1>3, <1>4 DEF longer

LEMMA UpsetsIfAre ==
    ASSUME TypeInv, NEW condition \in BOOLEAN, NEW kind \in Kinds, UpsetsIf(condition, kind)
    PROVE  /\ upset' \in Seq(Kinds) /\ ToSet(upset) \subseteq ToSet(upset')
           /\ condition => kind \in ToSet(upset')
<1>1. CASE condition
  BY <1>1, UpsetsAre DEF UpsetsIf
<1>2. CASE ~condition
  BY <1>2 DEF UpsetsIf, TypeInv
<1> QED
  BY <1>1, <1>2

LEMMA FirstTaskFits ==
    ASSUME TypedInv, ~Idle
    PROVE  /\ Now.do \in MessageTasks => Now.message \in MessageId
           /\ Now.do \in TurnTasks => handler.turn \in Turn
<1>1. 1 \in DOMAIN handler.todo /\ Now = handler.todo[1]
  BY FirstTask DEF TypedInv
<1>2. /\ handler.todo[1].do \in MessageTasks => handler.todo[1].message \in MessageId
      /\ handler.todo[1].do \in TurnTasks => handler.turn \in Turn
  BY <1>1 DEF TypedInv, TasksFit
<1> QED
  BY <1>1, <1>2

\* The tasks that are left fit as they did.
LEMMA TasksMoveOn ==
    ASSUME TypedInv, ~Idle, MovesOn \/ TurnsToCompletion
    PROVE  /\ TasksFit' /\ handler' \in Handlers
           /\ UNCHANGED <<segment, requests>> => SegmentsNumbered'
<1>1. CASE MovesOn
  <2>1. handler' \in Handlers
    BY <1>1 DEF MovesOn
  <2>2. ASSUME NEW n \in DOMAIN handler'.todo
        PROVE  n + 1 \in DOMAIN handler.todo /\ handler'.todo[n] = handler.todo[n + 1]
               /\ handler'.turn = handler.turn
    <3>1. handler'.todo \in Seq(Tasks) /\ handler'.todo # <<>>
      BY <2>1, <2>2, EmptySeq DEF Handlers
    <3> QED
      BY <1>1, <3>1 DEF MovesOn
  <2>3. TasksFit'
    BY <2>2 DEF TasksFit, TypedInv
  <2>4. (\E n \in DOMAIN handler'.todo : handler'.todo[n].do = "paused") =>
            /\ \E n \in DOMAIN handler.todo : handler.todo[n].do = "paused"
            /\ handler'.turn = handler.turn
    BY <2>2
  <2> QED
    BY <2>1, <2>3, <2>4 DEF SegmentsNumbered, TypedInv
<1>2. CASE TurnsToCompletion
  <2>1. /\ handler' \in Handlers /\ handler'.turn = handler.turn
        /\ DOMAIN handler'.todo = DOMAIN handler.todo
        /\ \A n \in DOMAIN handler.todo : n # 1 => handler'.todo[n] = handler.todo[n]
        /\ handler'.todo[1].do = "complete" /\ handler'.todo[1].message = Now.message
        /\ Now.do = "finalize"
    BY <1>2 DEF TurnsToCompletion
  <2>2. 1 \in DOMAIN handler.todo /\ Now = handler.todo[1]
    BY FirstTask DEF TypedInv
  <2>3. Now.message \in MessageId
    BY <2>1, FirstTaskFits DEF MessageTasks
  <2>4. ASSUME NEW n \in DOMAIN handler.todo
        PROVE  /\ handler'.todo[n].do \in MessageTasks => handler'.todo[n].message \in MessageId
               /\ handler'.todo[n].do \in TurnTasks => handler'.turn \in Turn
               /\ handler'.todo[n].do = "paused" => handler.todo[n].do = "paused"
    <3>1. CASE n = 1
      BY <3>1, <2>1, <2>3 DEF TurnTasks
    <3>2. CASE n # 1
      BY <3>2, <2>1 DEF TypedInv, TasksFit
    <3> QED BY <3>1, <3>2
  <2>5. TasksFit'
    BY <2>1, <2>4 DEF TasksFit
  <2>6. UNCHANGED <<segment, requests>> => SegmentsNumbered'
    BY <2>1, <2>4 DEF SegmentsNumbered, TypedInv
  <2> QED
    BY <2>1, <2>5, <2>6
<1> QED
  BY <1>1, <1>2

LEMMA MessageSentIs ==
    ASSUME TypeInv, NEW id \in MessageId, NEW text \in Seq(Piece), NEW streaming \in BOOLEAN,
           MessageSent(id, text, streaming)
    PROVE  Sent(thread', id, handler.turn, text, streaming) /\ thread' \in Seq(Row)
<1>1. thread' = AddText(id, handler.turn, text, streaming) /\ handler.turn \in {NoTurn} \cup Turn
  BY DEF MessageSent, TypeInv
<1> DEFINE new == thread'
<1>2. new = AddText(id, handler.turn, text, streaming)
  BY <1>1
<1> HIDE DEF new
<1>3. Sent(new, id, handler.turn, text, streaming)
  BY <1>1, <1>2, AddTextSends
<1> QED
  BY <1>3 DEF new, Sent

-----------------------------------------------------------------------------
(* Type correctness *)

\* What a task of a message finds.
LEMMA FirstTexts ==
    ASSUME TypedInv, ~Idle, Now.do \in MessageTasks
    PROVE  /\ Now.message \in MessageId
           /\ Text(Now.message) \in Seq(Piece) /\ Now.text \in Seq(Piece)
           /\ FinalText \in Seq(Piece) /\ <<>> \in Seq(Piece)
<1>1. Now.message \in MessageId
  BY FirstTaskFits
<1>2. Text(Now.message) \in Seq(Piece)
  BY <1>1 DEF TypedInv, TypeInv, Text
<1>3. Now.text \in Seq(Piece)
  BY FirstTask DEF TypedInv, Tasks
<1> QED
  BY <1>1, <1>2, <1>3, Names DEF FinalText

LEMMA WorkTyped ==
    ASSUME TypedInv, Work
    PROVE  TypedInv'
<1> USE DEF TypedInv
<1>1. ~Idle
  BY DEF Work, SetSession, DeliverText, FlushText, FinalizeText, CompleteMessage, SettlePause,
         SettleItem, SettleTurn, ClearTurns, Does
<1>2. provider' = provider /\ requests' = requests /\ upset' = upset /\ mode' = mode
  BY DEF Work, SetSession, DeliverText, FlushText, FinalizeText, CompleteMessage, SettlePause,
         SettleItem, SettleTurn, ClearTurns
<1>3. ProviderFits'
  BY <1>2 DEF ProviderFits
<1>4. MovesOn \/ TurnsToCompletion
  <2>1. CASE GoesOn
    BY <1>1, <2>1, GoesOnIs
  <2>2. CASE ~GoesOn
    <3>1. FinalizeText
      BY <2>2 DEF Work, SetSession, DeliverText, FlushText, CompleteMessage, SettlePause,
                  SettleItem, SettleTurn, ClearTurns
    <3>2. Now.do = "finalize" /\ handler' = [handler EXCEPT !.todo[1].do = "complete"]
      BY <3>1, <2>2 DEF FinalizeText, Does
    <3> QED
      BY <1>1, <3>2, CompletionIs
  <2> QED
    BY <2>1, <2>2
<1>5. TasksFit' /\ handler' \in Handlers /\ (UNCHANGED <<segment, requests>> => SegmentsNumbered')
  BY <1>1, <1>4, TasksMoveOn
<1>6. handler.turn \in {NoTurn} \cup Turn
  BY DEF TypeInv
<1>7. SUFFICES /\ thread' \in Seq(Row) /\ active' \in {NoTurn} \cup Turn
               /\ buffered' \in [MessageId -> Seq(Piece)]
               /\ known' \in [Turn -> Seq(MessageId)]
               /\ segment' \in [Turn -> Segment]
               /\ SegmentsNumbered'
  BY <1>2, <1>3, <1>5 DEF TypeInv, Handlers
<1>8. CASE SetSession
  BY <1>2, <1>5, <1>6, <1>8 DEF SetSession, TypeInv, caches
<1>9. CASE DeliverText
  <2>1. Now.do \in MessageTasks /\ MessageSent(Now.message, Now.text, TRUE)
    BY <1>9 DEF DeliverText, Does, MessageTasks
  <2>2. thread' \in Seq(Row)
    BY <1>1, <2>1, FirstTexts, MessageSentIs
  <2> QED
    BY <1>2, <1>5, <1>9, <2>2 DEF DeliverText, TypeInv, caches
<1>10. CASE FlushText
  <2>1. Now.do \in MessageTasks /\ TakeBuffered(Now.message)
    BY <1>10 DEF FlushText, Does, MessageTasks
  <2>2. thread' \in Seq(Row)
    <3>1. CASE Renderable(Text(Now.message))
      BY <1>1, <1>10, <2>1, <3>1, FirstTexts, MessageSentIs DEF FlushText
    <3>2. CASE ~Renderable(Text(Now.message))
      BY <1>10, <3>2 DEF FlushText, TypeInv
    <3> QED BY <3>1, <3>2
  <2>3. buffered' \in [MessageId -> Seq(Piece)]
    BY <2>1, TakenIs
  <2> QED
    BY <1>2, <1>5, <1>10, <2>2, <2>3 DEF FlushText, TypeInv
<1>11. CASE FinalizeText
  <2>1. Now.do \in MessageTasks /\ TakeBuffered(Now.message)
    BY <1>11 DEF FinalizeText, Does, MessageTasks
  <2>2. thread' \in Seq(Row)
    <3>1. CASE Renderable(FinalText)
      BY <1>1, <1>11, <2>1, <3>1, FirstTexts, MessageSentIs DEF FinalizeText
    <3>2. CASE ~Renderable(FinalText)
      BY <1>11, <3>2 DEF FinalizeText, TypeInv
    <3> QED BY <3>1, <3>2
  <2>3. buffered' \in [MessageId -> Seq(Piece)]
    BY <2>1, TakenIs
  <2> QED
    BY <1>2, <1>5, <1>11, <2>2, <2>3 DEF FinalizeText, TypeInv
<1>12. CASE CompleteMessage
  <2>1. Now.do \in MessageTasks /\ MessageSent(Now.message, <<>>, FALSE)
    BY <1>12 DEF CompleteMessage, Does, MessageTasks
  <2>2. thread' \in Seq(Row)
    BY <1>1, <2>1, FirstTexts, MessageSentIs
  <2> QED
    BY <1>2, <1>5, <1>12, <2>2 DEF CompleteMessage, TypeInv, caches
<1>13. NoSegment \in Segment /\ NoSegment.active = NoMessage /\ NoSegment.next = 0
  BY DEF NoSegment, Segment
<1>14. CASE SettlePause
  <2>1. handler.turn \in Turn /\ Forget(Now.message) /\ Now.do = "paused"
        /\ segment' = [segment EXCEPT ![handler.turn].active = NoMessage]
    BY <1>1, <1>14, FirstTaskFits DEF SettlePause, Does, TurnTasks
  <2>2. known' \in [Turn -> Seq(MessageId)]
    BY <2>1, ForgottenIs
  <2>3. segment' \in [Turn -> Segment]
    BY <2>1 DEF TypeInv, Segment
  <2>4. SegmentsNumbered'
    <3>1. segment[handler.turn].next <= requests
      BY <1>1, <2>1, FirstTask DEF SegmentsNumbered
    <3>2. \A t \in Turn : t # handler.turn => segment'[t] = segment[t]
      BY <2>1 DEF TypeInv
    <3>3. segment'[handler.turn].active = NoMessage
          /\ segment'[handler.turn].next = segment[handler.turn].next
      BY <2>1 DEF TypeInv, Segment
    <3>4. handler'.turn = handler.turn \/ \A n \in DOMAIN handler'.todo : FALSE
      <4>1. Len(handler'.todo) = 0 \/ handler'.turn = handler.turn
        BY <1>4, <1>5, EmptySeq DEF MovesOn, TurnsToCompletion, Handlers
      <4> QED
        BY <1>5, <4>1, LenProperties DEF Handlers
    <3> QED
      BY <1>2, <3>1, <3>2, <3>3, <3>4 DEF SegmentsNumbered
  <2> QED
    BY <1>14, <2>2, <2>3, <2>4 DEF SettlePause, TypeInv
<1>15. ASSUME SettleItem \/ SettleTurn \/ ClearTurns
       PROVE  segment' \in [Turn -> Segment] /\ SegmentsNumbered'
  <2>1. \A t \in Turn : segment'[t] = segment[t] \/ segment'[t] = NoSegment
    BY <1>15 DEF SettleItem, SettleTurn, ClearTurns, TypeInv
  <2>2. segment' \in [Turn -> Segment]
    <3>1. segment' = [t \in Turn |-> segment'[t]]
      BY <1>15 DEF SettleItem, SettleTurn, ClearTurns, TypeInv
    <3> QED
      BY <2>1, <3>1, <1>13 DEF TypeInv
  <2>3. requests \in Nat
    BY Bounds DEF TypeInv
  <2>4. MovesOn
    BY <1>1, <1>15, GoesOnIs DEF SettleItem, SettleTurn, ClearTurns
  <2>5. (\E n \in DOMAIN handler'.todo : handler'.todo[n].do = "paused") =>
            /\ \E n \in DOMAIN handler.todo : handler.todo[n].do = "paused"
            /\ handler'.turn = handler.turn
    <3>1. \A n \in DOMAIN handler'.todo : handler'.todo # <<>>
      BY <1>5, EmptySeq DEF Handlers
    <3> QED
      BY <2>4, <3>1 DEF MovesOn
  <2>6. SegmentsNumbered'
    BY <1>2, <1>13, <2>1, <2>3, <2>5 DEF SegmentsNumbered
  <2> QED
    BY <2>2, <2>6
<1>16. CASE SettleItem
  <2>1. Forget(Now.message)
    BY <1>16 DEF SettleItem
  <2>2. known' \in [Turn -> Seq(MessageId)]
    BY <2>1, ForgottenIs
  <2> QED
    BY <1>15, <1>16, <2>2 DEF SettleItem, TypeInv
<1>17. CASE SettleTurn
  <2>1. known' \in [Turn -> Seq(MessageId)]
    BY <1>17, EmptySeq DEF SettleTurn, TypeInv
  <2> QED
    BY <1>15, <1>17, <2>1 DEF SettleTurn, TypeInv
<1>18. CASE ClearTurns
  <2>1. known' \in [Turn -> Seq(MessageId)] /\ buffered' \in [MessageId -> Seq(Piece)]
    BY <1>18, EmptySeq DEF ClearTurns, TypeInv
  <2> QED
    BY <1>15, <1>18, <2>1 DEF ClearTurns, TypeInv
<1> QED
  BY <1>8, <1>9, <1>10, <1>11, <1>12, <1>14, <1>16, <1>17, <1>18 DEF Work

-----------------------------------------------------------------------------
(* What the handler of an event has to do *)

LEMMA TaskIs ==
    ASSUME NEW do \in Doings, NEW message \in {NoMessage} \cup MessageId, NEW text \in Seq(Piece),
           NEW projected \in BOOLEAN
    PROVE  /\ Task(do, message, text, projected) \in Tasks
           /\ Task(do, message, text, projected).do = do
           /\ Task(do, message, text, projected).message = message
           /\ Task(do, message, text, projected).text = text
           /\ Task(do, message, text, projected).projected = projected
BY DEF Task, Tasks

LEMMA SimplyIs ==
    ASSUME NEW do \in Doings
    PROVE  /\ Simply(do) \in Tasks /\ Simply(do).do = do
           /\ Simply(do).message = NoMessage /\ Simply(do).text = <<>>
BY Names DEF Simply, Task, Tasks

LEMMA DeliverIs ==
    ASSUME NEW id \in MessageId, NEW text \in Seq(Piece)
    PROVE  /\ Deliver(id, text) \in Tasks /\ Deliver(id, text).do = "deliver"
           /\ Deliver(id, text).message = id /\ Deliver(id, text).text = text
BY DEF Deliver, Task, Tasks, Doings, MessageTasks

LEMMA FlushIs ==
    ASSUME NEW id \in MessageId
    PROVE  /\ Flush(id) \in Tasks /\ Flush(id).do = "flush"
           /\ Flush(id).message = id /\ Flush(id).text = <<>>
BY Names DEF Flush, Task, Tasks, Doings, MessageTasks

LEMMA FinalizeIs ==
    ASSUME NEW id \in MessageId, NEW text \in Seq(Piece), NEW projected \in BOOLEAN
    PROVE  /\ Finalize(id, text, projected) \in Tasks
           /\ Finalize(id, text, projected).do = "finalize"
           /\ Finalize(id, text, projected).message = id
           /\ Finalize(id, text, projected).text = text
           /\ Finalize(id, text, projected).projected = projected
BY TaskIs DEF Finalize, Doings, MessageTasks

LEMMA SettlingIs ==
    ASSUME NEW id \in MessageId, NEW do \in {"paused", "itemDone"}
    PROVE  /\ Task(do, id, <<>>, FALSE) \in Tasks /\ Task(do, id, <<>>, FALSE).do = do
           /\ Task(do, id, <<>>, FALSE).message = id /\ Task(do, id, <<>>, FALSE).text = <<>>
BY Names DEF Task, Tasks, Doings, MessageTasks

\* Short lists.
LEMMA OneTask ==
    ASSUME NEW a \in Tasks
    PROVE  <<a>> \in Seq(Tasks) /\ <<a>> # <<>> /\ Len(<<a>>) = 1 /\ <<a>>[1] = a
           /\ DOMAIN <<a>> = {1}
OBVIOUS

LEMMA TwoTasks ==
    ASSUME NEW a \in Tasks, NEW b \in Tasks
    PROVE  /\ <<a>> \o <<b>> \in Seq(Tasks) /\ Len(<<a>> \o <<b>>) = 2
           /\ (<<a>> \o <<b>>)[1] = a /\ (<<a>> \o <<b>>)[2] = b
           /\ DOMAIN (<<a>> \o <<b>>) = {1, 2} /\ <<a>> \o <<b>> # <<>>
           /\ <<a, b>> \in Seq(Tasks) /\ Len(<<a, b>>) = 2 /\ DOMAIN <<a, b>> = {1, 2}
           /\ <<a, b>>[1] = a /\ <<a, b>>[2] = b /\ <<a, b>> # <<>>
<1> DEFINE s == <<a>> \o <<b>>
<1>1. s \in Seq(Tasks) /\ Len(s) = 2 /\ s[1] = a /\ s[2] = b
  BY ConcatProperties
<1> HIDE DEF s
<1>2. DOMAIN s = 1..2
  BY <1>1, LenProperties
<1>3. 1..2 = {1, 2}
  OBVIOUS
<1>4. s # <<>>
  <2>1. DOMAIN s # {}
    BY <1>2, <1>3
  <2> QED BY <2>1
<1> QED
  BY <1>1, <1>2, <1>3, <1>4 DEF s

\* A message is known of a turn.
LEMMA RememberedIs ==
    ASSUME TypeInv, NEW turn \in {NoTurn} \cup Turn, NEW id \in MessageId, Remember(turn, id)
    PROVE  /\ known' \in [Turn -> Seq(MessageId)]
           /\ \A t \in Turn : ToSet(known[t]) \subseteq ToSet(known'[t])
           /\ \A t \in Turn : \A m \in ToSet(known'[t]) :
                 m \in ToSet(known[t]) \/ (m = id /\ t = turn)
           /\ turn # NoTurn => id \in ToSet(known'[turn])
<1>1. known \in [Turn -> Seq(MessageId)]
  BY DEF TypeInv
<1>2. CASE turn = NoTurn
  BY <1>1, <1>2 DEF Remember
<1>3. CASE turn # NoTurn /\ Contains(known[turn], id)
  <2>1. known' = known /\ turn \in Turn
    BY <1>3 DEF Remember
  <2>2. id \in ToSet(known[turn])
    BY <1>1, <1>3, <2>1, LenProperties DEF Contains, ToSet
  <2> QED
    BY <1>1, <2>1, <2>2
<1>4. CASE turn # NoTurn /\ ~Contains(known[turn], id)
  <2> DEFINE longer == Append(known[turn], id)
  <2>1. turn \in Turn /\ known' = [known EXCEPT ![turn] = longer]
    BY <1>4 DEF Remember
  <2>2. /\ longer \in Seq(MessageId)
        /\ DOMAIN longer = DOMAIN known[turn] \cup {Len(known[turn]) + 1}
        /\ \A n \in DOMAIN known[turn] : longer[n] = known[turn][n]
        /\ longer[Len(known[turn]) + 1] = id
    BY <1>1, <2>1, AppendIs
  <2> HIDE DEF longer
  <2>3. /\ ToSet(known[turn]) \subseteq ToSet(longer)
        /\ \A m \in ToSet(longer) : m \in ToSet(known[turn]) \/ m = id
        /\ id \in ToSet(longer)
    BY <2>2 DEF ToSet
  <2>4. known' \in [Turn -> Seq(MessageId)]
        /\ \A t \in Turn : known'[t] = IF t = turn THEN longer ELSE known[t]
    BY <1>1, <2>1, <2>2
  <2> QED
    BY <2>1, <2>3, <2>4
<1> QED
  BY <1>2, <1>3, <1>4

-----------------------------------------------------------------------------
(* What an event changes of the provider *)

LEMMA RunningIs ==
    ASSUME TypedInv
    PROVE  /\ Running \in {NoTurn} \cup Turn
           /\ Running # NoTurn => Running = provider.turns /\ Running \in Turn \ provider.ended
           /\ Running = NoTurn => provider.turns \in provider.ended \cup {NoTurn}
           /\ \A t \in {NoTurn} \cup Turn : Packed(t) \in {NoTurn} \cup Turn
BY Bounds DEF TypedInv, TypeInv, ProviderFits, Provider, Running, Turn, NoTurn, Packed

\* Items and turns stay what they are.
SameTurns == /\ provider'.turns = provider.turns /\ provider'.ended = provider.ended
             /\ provider'.blank = provider.blank

\* An item that goes on keeps the others, and the running turn's next item is new.
Continued(item) == item \in DOMAIN provider.home /\ provider'.home = provider.home
Added(item) ==
    /\ item \notin DOMAIN provider.home /\ item = Len(provider.home) + 1 /\ Running # NoTurn
    /\ DOMAIN provider'.home = DOMAIN provider.home \cup {item}
    /\ \A i \in DOMAIN provider.home : provider'.home[i] = provider.home[i]
    /\ provider'.home[item] = Running

\* A piece is said of an item.
Says(item) ==
    /\ provider'.said = Append(provider.said, item)
    /\ DOMAIN provider'.said = DOMAIN provider.said \cup {Len(provider.said) + 1}
    /\ Len(provider.said) + 1 \notin DOMAIN provider.said
    /\ \A n \in DOMAIN provider.said : provider'.said[n] = provider.said[n]
    /\ provider'.said[Len(provider.said) + 1] = item
    /\ Len(provider.said) + 1 \in Piece

LEMMA ItemAdded ==
    ASSUME TypedInv, NEW item \in Item, item = Len(provider.home) + 1, Running # NoTurn
    PROVE  /\ Append(provider.home, Running) \in Seq(Turn)
           /\ Len(Append(provider.home, Running)) <= MaxItems
           /\ item \notin DOMAIN provider.home
           /\ DOMAIN Append(provider.home, Running) = DOMAIN provider.home \cup {item}
           /\ \A i \in DOMAIN provider.home : Append(provider.home, Running)[i] = provider.home[i]
           /\ Append(provider.home, Running)[item] = Running
           /\ Running <= provider.turns
<1>1. provider.home \in Seq(Turn)
  BY DEF TypedInv, TypeInv, Provider
<1>2. Running \in Turn /\ Running = provider.turns
  BY RunningIs
<1>3. Len(provider.home) \in Nat
  BY <1>1, LenProperties
<1>4. item <= MaxItems
  BY Bounds DEF Item
<1>5. Running <= provider.turns
  BY <1>2, Bounds DEF Turn
<1> QED
  BY <1>1, <1>2, <1>4, <1>5, AppendIs

LEMMA PieceSaid ==
    ASSUME TypedInv, NEW item \in Item, Len(provider.said) + 1 <= MaxPieces,
           provider'.said = Append(provider.said, item)
    PROVE  /\ Says(item) /\ provider'.said \in Seq(Item) /\ Len(provider'.said) <= MaxPieces
<1>1. provider.said \in Seq(Item)
  BY DEF TypedInv, TypeInv, Provider
<1>2. Len(provider.said) \in Nat
  BY <1>1, LenProperties
<1>3. Len(provider.said) + 1 \in Piece
  BY <1>2, Bounds DEF Piece
<1> QED
  BY <1>1, <1>3, AppendIs DEF Says

\* The pieces and completions of an item.
LEMMA ItemBegins ==
    ASSUME TypedInv, NEW item \in Item, NEW t \in {NoTurn} \cup Turn,
           BeginsItem(item, t), Len(provider.said) + 1 <= MaxPieces,
           \/ provider' = [Begun(item) EXCEPT !.said = Append(@, item)]
           \/ provider' = [provider EXCEPT !.home = Append(@, Running), !.said = Append(@, item)]
    PROVE  /\ provider' \in Provider /\ ProviderFits' /\ SameTurns /\ Added(item) /\ Says(item)
           /\ provider'.open \in {provider.open, provider.open \cup {item}}
<1> DEFINE home == Append(provider.home, Running)
           said == Append(provider.said, item)
<1>1. item = Len(provider.home) + 1 /\ Running # NoTurn
  BY DEF BeginsItem
<1>2. /\ home \in Seq(Turn) /\ Len(home) <= MaxItems /\ item \notin DOMAIN provider.home
      /\ DOMAIN home = DOMAIN provider.home \cup {item}
      /\ \A i \in DOMAIN provider.home : home[i] = provider.home[i]
      /\ home[item] = Running /\ Running <= provider.turns
  BY <1>1, ItemAdded
<1>3. PICK open \in {provider.open, provider.open \cup {item}} :
          provider' = [provider EXCEPT !.home = home, !.said = said, !.open = open]
  BY DEF Begun, TypedInv, TypeInv, Provider
<1>4. provider \in Provider
  BY DEF TypedInv, TypeInv
<1> HIDE DEF home, said
<1>5. /\ provider'.home = home /\ provider'.said = said /\ provider'.open = open /\ SameTurns
  BY <1>3, <1>4 DEF Provider, SameTurns
<1>6. Says(item) /\ said \in Seq(Item) /\ Len(said) <= MaxPieces
  BY <1>5, PieceSaid DEF said
<1>7. open \in SUBSET Item
  BY <1>4 DEF Provider
<1>8. provider' \in Provider
  BY <1>2, <1>3, <1>4, <1>6, <1>7 DEF Provider
<1>9. ProviderFits'
  <2>1. /\ provider.ended \subseteq 1..provider.turns /\ provider.open \subseteq DOMAIN provider.home
        /\ \A i \in DOMAIN provider.home : provider.home[i] <= provider.turns
        /\ \A n \in DOMAIN provider.said : provider.said[n] \in DOMAIN provider.home
    BY DEF TypedInv, ProviderFits
  <2>2. \A i \in DOMAIN home : home[i] <= provider.turns
    BY <1>2, <2>1
  <2>3. \A n \in DOMAIN said : said[n] \in DOMAIN home
    BY <1>2, <1>5, <1>6, <2>1 DEF Says
  <2>4. open \subseteq DOMAIN home
    BY <1>2, <2>1
  <2> QED
    BY <1>2, <1>5, <1>6, <2>1, <2>2, <2>3, <2>4 DEF ProviderFits, SameTurns
<1>10. Added(item)
  BY <1>1, <1>2, <1>5 DEF Added
<1> QED
  BY <1>5, <1>6, <1>8, <1>9, <1>10

LEMMA ItemGoesOn ==
    ASSUME TypedInv, NEW item \in provider.open, NEW t \in {NoTurn} \cup Turn,
           \/ /\ Len(provider.said) + 1 <= MaxPieces
              /\ provider' = [provider EXCEPT !.said = Append(@, item)]
           \/ provider' = [provider EXCEPT !.open = @ \ {item}]
    PROVE  /\ provider' \in Provider /\ ProviderFits' /\ SameTurns /\ Continued(item)
           /\ \/ Says(item) /\ provider'.open = provider.open
              \/ provider'.said = provider.said /\ provider'.open = provider.open \ {item}
<1>1. provider \in Provider
  BY DEF TypedInv, TypeInv
<1>2. item \in DOMAIN provider.home /\ item \in Item
  BY <1>1 DEF TypedInv, ProviderFits, Provider
<1>3. SameTurns /\ Continued(item)
  BY <1>1, <1>2 DEF SameTurns, Continued, Provider
<1>4. CASE /\ Len(provider.said) + 1 <= MaxPieces
           /\ provider' = [provider EXCEPT !.said = Append(@, item)]
  <2> DEFINE said == Append(provider.said, item)
  <2>1. provider'.said = said /\ provider'.open = provider.open
    BY <1>1, <1>4 DEF Provider
  <2>2. Says(item) /\ said \in Seq(Item) /\ Len(said) <= MaxPieces
    BY <1>2, <1>4, <2>1, PieceSaid
  <2>3. provider' = [provider EXCEPT !.said = said]
    BY <1>4
  <2> HIDE DEF said
  <2>4. provider' \in Provider
    BY <1>1, <2>2, <2>3 DEF Provider
  <2>5. \A n \in DOMAIN said : said[n] \in DOMAIN provider.home
    BY <1>2, <2>1, <2>2 DEF Says, TypedInv, ProviderFits
  <2>6. ProviderFits'
    BY <1>3, <2>1, <2>2, <2>5 DEF TypedInv, ProviderFits, SameTurns, Continued
  <2> QED
    BY <1>3, <2>1, <2>2, <2>4, <2>6
<1>5. CASE provider' = [provider EXCEPT !.open = @ \ {item}]
  <2>1. provider'.said = provider.said /\ provider'.open = provider.open \ {item}
    BY <1>1, <1>5 DEF Provider
  <2>2. provider' \in Provider
    BY <1>1, <1>5 DEF Provider
  <2>3. ProviderFits'
    BY <1>3, <2>1 DEF TypedInv, ProviderFits, SameTurns, Continued
  <2> QED
    BY <1>3, <2>1, <2>2, <2>3
<1> QED
  BY <1>4, <1>5

-----------------------------------------------------------------------------
(* The handlers of a question, of a completed item and of a completed turn *)

QuestionLeaves ==
    LET todo == handler'.todo
        id == segment[Running].active
    IN
    /\ handler' \in Handlers /\ Running \in Turn
    /\ todo # <<>> => handler'.turn = Running
    /\ \A n \in DOMAIN todo :
          /\ todo[n].text = <<>>
          /\ \/ /\ todo[n].do = "flush" /\ mode = "buffered"
                /\ todo[n].message \in ToSet(known[Running])
             \/ /\ todo[n].do = "finalize" /\ todo[n].message = id /\ id # NoMessage
                /\ n = Len(todo) - 1
                /\ ~todo[n].projected =>
                      /\ \A k \in DOMAIN thread :
                            ~(thread[k].turn = Running /\ thread[k].streaming)
                      /\ \A k \in DOMAIN todo :
                            todo[k].do = "flush" /\ todo[k].message = id => ~Renderable(Text(id))
             \/ /\ todo[n].do = "paused" /\ todo[n].message = id /\ id # NoMessage
                /\ n = Len(todo) /\ n - 1 \in DOMAIN todo
                /\ todo[n - 1].do = "finalize" /\ todo[n - 1].message = id
    /\ mode = "buffered" =>
          \A m \in ToSet(known[Running]) :
             \E n \in DOMAIN todo : todo[n].do = "flush" /\ todo[n].message = m

LEMMA QuestionIs ==
    ASSUME TypedInv, QuestionAsked
    PROVE  QuestionLeaves
<1> DEFINE turn == Running
           id == segment[turn].active
           F == IF mode = "buffered" THEN [n \in DOMAIN known[turn] |-> Flush(known[turn][n])]
                ELSE <<>>
           p == \/ \E n \in DOMAIN thread : thread[n].turn = turn /\ thread[n].streaming
                \/ \E n \in DOMAIN F : F[n].message = id /\ Renderable(Text(id))
           R == IF id = NoMessage THEN <<>>
                ELSE <<Finalize(id, <<>>, p), Task("paused", id, <<>>, FALSE)>>
<1>1. turn \in Turn
  BY RunningIs DEF QuestionAsked
<1>2. Handle(turn, F \o R)
  BY DEF QuestionAsked
<1>3. known[turn] \in Seq(MessageId) /\ id \in {NoMessage} \cup MessageId
  BY <1>1 DEF TypedInv, TypeInv, Segment
<1>4. DOMAIN known[turn] = 1..Len(known[turn]) /\ Len(known[turn]) \in Nat
  BY <1>3, LenProperties
<1>5. \A n \in DOMAIN known[turn] : known[turn][n] \in MessageId
  BY <1>3, ElementOfSeq, LenProperties
<1>6. p \in BOOLEAN
  OBVIOUS
<1>7. F \in Seq(Tasks)
  <2>1. CASE mode = "buffered"
    <3>1. \A n \in DOMAIN known[turn] : Flush(known[turn][n]) \in Tasks
      BY <1>5, FlushIs
    <3>2. F \in [1..Len(known[turn]) -> Tasks]
      BY <2>1, <3>1, <1>4
    <3> HIDE DEF F
    <3> QED BY <3>2, <1>4, SeqDef
  <2>2. CASE mode # "buffered"
    BY <2>2, EmptySeq
  <2> QED BY <2>1, <2>2
<1>8. \A n \in DOMAIN F : /\ mode = "buffered" /\ n \in DOMAIN known[turn]
                          /\ F[n].do = "flush" /\ F[n].message = known[turn][n] /\ F[n].text = <<>>
  BY <1>5, FlushIs
<1>9. mode = "buffered" => DOMAIN F = DOMAIN known[turn]
  OBVIOUS
<1>10. ~p => /\ \A k \in DOMAIN thread : ~(thread[k].turn = turn /\ thread[k].streaming)
             /\ \A k \in DOMAIN F : F[k].message = id => ~Renderable(Text(id))
  OBVIOUS
<1> HIDE DEF F, p
<1> DEFINE a == Finalize(id, <<>>, p)
           b == Task("paused", id, <<>>, FALSE)
<1>11. id # NoMessage =>
          /\ id \in MessageId /\ a \in Tasks /\ b \in Tasks
          /\ a.do = "finalize" /\ a.message = id /\ a.text = <<>> /\ a.projected = p
          /\ b.do = "paused" /\ b.message = id /\ b.text = <<>>
  <2> SUFFICES ASSUME id # NoMessage
               PROVE  /\ id \in MessageId /\ a \in Tasks /\ b \in Tasks
                      /\ a.do = "finalize" /\ a.message = id /\ a.text = <<>> /\ a.projected = p
                      /\ b.do = "paused" /\ b.message = id /\ b.text = <<>>
    OBVIOUS
  <2>1. id \in MessageId
    BY <1>3
  <2>2. <<>> \in Seq(Piece)
    BY Names
  <2> HIDE DEF id
  <2>3. /\ a \in Tasks /\ a.do = "finalize" /\ a.message = id /\ a.text = <<>>
        /\ a.projected = p
    BY <1>6, <2>1, <2>2, FinalizeIs, ZenonT(30)
  <2>4. b \in Tasks /\ b.do = "paused" /\ b.message = id /\ b.text = <<>>
    BY <2>1, SettlingIs
  <2> QED BY <2>1, <2>3, <2>4
<1>12. R = IF id = NoMessage THEN <<>> ELSE <<a, b>>
  OBVIOUS
<1> HIDE DEF a, b, R, id, turn
<1>13. /\ R \in Seq(Tasks)
       /\ R = <<>> \/ (id # NoMessage /\ Len(R) = 2 /\ R[1] = a /\ R[2] = b /\ DOMAIN R = {1, 2})
  <2>1. CASE id = NoMessage
    BY <2>1, <1>12, EmptySeq
  <2>2. CASE id # NoMessage
    BY <2>2, <1>11, <1>12, TwoTasks
  <2> QED BY <2>1, <2>2
<1> DEFINE todo == F \o R
<1>14. /\ todo \in Seq(Tasks) /\ Len(todo) = Len(F) + Len(R)
       /\ \A n \in DOMAIN F : n \in DOMAIN todo /\ todo[n] = F[n]
       /\ \A n \in DOMAIN R : n + Len(F) \in DOMAIN todo /\ todo[n + Len(F)] = R[n]
       /\ \A n \in DOMAIN todo : n \in DOMAIN F
              \/ (n > Len(F) /\ n - Len(F) \in DOMAIN R /\ todo[n] = R[n - Len(F)])
  BY <1>7, <1>13, ConcatIs
<1>15. Handle(turn, todo)
  BY <1>2 DEF turn
<1> HIDE DEF todo
<1>16. handler' \in Handlers /\ handler'.todo = todo /\ (todo # <<>> => handler'.turn = turn)
  BY <1>1, <1>14, <1>15, HandleIs DEF turn
<1>17. Len(F) \in Nat /\ DOMAIN todo = 1..Len(todo)
  BY <1>7, <1>14, LenProperties
<1>18. ASSUME NEW n \in DOMAIN todo, n \notin DOMAIN F
       PROVE  /\ todo[n].text = <<>>
              /\ \/ /\ todo[n].do = "finalize" /\ todo[n].message = id /\ id # NoMessage
                    /\ n = Len(todo) - 1 /\ todo[n].projected = p
                 \/ /\ todo[n].do = "paused" /\ todo[n].message = id /\ id # NoMessage
                    /\ n = Len(todo) /\ n - 1 \in DOMAIN todo
                    /\ todo[n - 1].do = "finalize" /\ todo[n - 1].message = id
  <2>1. n > Len(F) /\ n - Len(F) \in DOMAIN R /\ todo[n] = R[n - Len(F)]
    BY <1>14, <1>18
  <2>2. id # NoMessage /\ Len(R) = 2 /\ R[1] = a /\ R[2] = b /\ DOMAIN R = {1, 2}
    BY <1>13, <2>1
  <2>3. n \in Nat
    BY <1>17
  <2>4. CASE n - Len(F) = 1
    <3>1. n = Len(todo) - 1
      BY <1>14, <1>17, <2>2, <2>3, <2>4
    <3> QED BY <3>1, <2>1, <2>2, <2>4, <1>11
  <2>5. CASE n - Len(F) = 2
    <3>1. n = Len(todo) /\ n - 1 = 1 + Len(F)
      BY <1>14, <1>17, <2>2, <2>3, <2>5
    <3>2. 1 + Len(F) \in DOMAIN todo /\ todo[1 + Len(F)] = R[1]
      BY <1>14, <2>2
    <3> QED BY <3>1, <3>2, <2>1, <2>2, <2>5, <1>11
  <2> QED BY <2>1, <2>2, <2>4, <2>5
<1>19. \A k \in DOMAIN todo : todo[k].do = "flush" => k \in DOMAIN F
  BY <1>18
<1>20. \A n \in DOMAIN F : F[n].message \in ToSet(known[turn])
  BY <1>8 DEF ToSet
<1>21. mode = "buffered" => \A m \in ToSet(known[turn]) : \E n \in DOMAIN F : F[n].message = m
  BY <1>8, <1>9 DEF ToSet
<1>22. ASSUME NEW n \in DOMAIN todo
       PROVE  /\ todo[n].text = <<>>
              /\ \/ /\ todo[n].do = "flush" /\ mode = "buffered"
                    /\ todo[n].message \in ToSet(known[turn])
                 \/ /\ todo[n].do = "finalize" /\ todo[n].message = id /\ id # NoMessage
                    /\ n = Len(todo) - 1
                    /\ ~todo[n].projected =>
                      /\ \A k \in DOMAIN thread :
                            ~(thread[k].turn = turn /\ thread[k].streaming)
                      /\ \A k \in DOMAIN todo :
                            todo[k].do = "flush" /\ todo[k].message = id => ~Renderable(Text(id))
                 \/ /\ todo[n].do = "paused" /\ todo[n].message = id /\ id # NoMessage
                    /\ n = Len(todo) /\ n - 1 \in DOMAIN todo
                    /\ todo[n - 1].do = "finalize" /\ todo[n - 1].message = id
  <2>1. CASE n \in DOMAIN F
    BY <2>1, <1>8, <1>14, <1>20
  <2>2. CASE n \notin DOMAIN F
    BY <2>2, <1>10, <1>14, <1>18, <1>19
  <2> QED BY <2>1, <2>2
<1>23. mode = "buffered" =>
          \A m \in ToSet(known[turn]) : \E n \in DOMAIN todo : todo[n].do = "flush" /\ todo[n].message = m
  BY <1>8, <1>14, <1>21
<1> QED
  BY <1>1, <1>16, <1>22, <1>23 DEF QuestionLeaves, turn, id

ItemLeaves(item, turn, detail) ==
    \/ /\ turn \in Turn /\ segment[turn].active = NoMessage /\ ~Renderable(detail)
       /\ segment' = [segment EXCEPT ![turn] = NoSegment]
       /\ UNCHANGED <<known, handler>>
    \/ /\ UNCHANGED segment
       /\ \E id \in MessageId :
          /\ \/ /\ id = <<item, 0>> /\ Remember(turn, id)
                /\ turn # NoTurn => segment[turn].active = NoMessage
             \/ turn \in Turn /\ id = segment[turn].active /\ known' = known
          /\ handler' \in Handlers /\ handler'.turn = turn /\ handler'.todo # <<>>
          /\ DOMAIN handler'.todo = IF turn = NoTurn THEN {1} ELSE {1, 2}
          /\ handler'.todo[1].do = "finalize" /\ handler'.todo[1].message = id
          /\ handler'.todo[1].projected <=> \E k \in DOMAIN thread : thread[k].id = id
          /\ \/ /\ handler'.todo[1].text = <<>>
                /\ \E k \in DOMAIN thread : thread[k].id = id /\ thread[k].text # <<>>
             \/ /\ handler'.todo[1].text = detail
                /\ \A k \in DOMAIN thread : thread[k].id = id => thread[k].text = <<>>
          /\ turn # NoTurn =>
                handler'.todo[2].do = "itemDone" /\ handler'.todo[2].message = id
                /\ handler'.todo[2].text = <<>>

LEMMA ItemIs ==
    ASSUME TypedInv, NEW item \in Item, NEW turn \in {NoTurn} \cup Turn, NEW detail \in Seq(Piece),
           FinishItem(item, turn, detail)
    PROVE  ItemLeaves(item, turn, detail)
<1> DEFINE current == IF turn = NoTurn THEN NoMessage ELSE segment[turn].active
           id == IF current = NoMessage THEN <<item, 0>> ELSE current
           fallback == IF \E n \in Find(id) : thread[n].text # <<>> THEN <<>> ELSE detail
           redundant == /\ current = NoMessage /\ turn # NoTurn
                        /\ \E n \in DOMAIN thread : thread[n].turn = turn
                        /\ ~Renderable(detail)
           found == Find(id) # {}
           R == IF turn = NoTurn THEN <<>> ELSE <<Task("itemDone", id, <<>>, FALSE)>>
<1>1. CASE redundant
  <2>1. turn \in Turn /\ current = segment[turn].active /\ current = NoMessage /\ ~Renderable(detail)
    BY <1>1
  <2>2. segment' = [segment EXCEPT ![turn] = NoSegment] /\ UNCHANGED <<known, handler>>
    BY <1>1 DEF FinishItem
  <2> QED
    BY <2>1, <2>2 DEF ItemLeaves
<1>2. CASE ~redundant
  <2>1. /\ IF current = NoMessage THEN Remember(turn, id) ELSE UNCHANGED known
        /\ Handle(turn, <<Finalize(id, fallback, found)>> \o R)
        /\ UNCHANGED segment
    BY <1>2 DEF FinishItem
  <2>2. id \in MessageId
    BY Names DEF TypedInv, TypeInv, Segment
  <2>3. fallback \in Seq(Piece)
    BY Names
  <2>14. found \in BOOLEAN
    OBVIOUS
  <2>4. found <=> \E k \in DOMAIN thread : thread[k].id = id
    BY DEF Find
  <2>5. \/ fallback = <<>> /\ \E k \in DOMAIN thread : thread[k].id = id /\ thread[k].text # <<>>
        \/ fallback = detail /\ \A k \in DOMAIN thread : thread[k].id = id => thread[k].text = <<>>
    BY DEF Find
  <2>6. \/ /\ id = <<item, 0>> /\ Remember(turn, id)
           /\ turn # NoTurn => segment[turn].active = NoMessage
        \/ turn \in Turn /\ id = segment[turn].active /\ known' = known
    BY <2>1
  <2> HIDE DEF id, fallback, found, current, redundant
  <2> DEFINE a == Finalize(id, fallback, found)
             b == Task("itemDone", id, <<>>, FALSE)
  <2>7. /\ a \in Tasks /\ a.do = "finalize" /\ a.message = id /\ a.text = fallback
        /\ a.projected = found
    BY <2>2, <2>3, <2>14, FinalizeIs, ZenonT(30)
  <2>8. b \in Tasks /\ b.do = "itemDone" /\ b.message = id /\ b.text = <<>>
    BY <2>2, SettlingIs
  <2>9. R = IF turn = NoTurn THEN <<>> ELSE <<b>>
    OBVIOUS
  <2> HIDE DEF R, a, b
  <2> DEFINE todo == <<a>> \o R
  <2>10. /\ todo \in Seq(Tasks) /\ todo # <<>> /\ todo[1] = a
         /\ DOMAIN todo = IF turn = NoTurn THEN {1} ELSE {1, 2}
         /\ turn # NoTurn => todo[2] = b
    <3>1. CASE turn = NoTurn
      <4>1. <<a>> \in Seq(Tasks) /\ <<a>> # <<>> /\ <<a>>[1] = a /\ DOMAIN <<a>> = {1}
        BY <2>7, OneTask
      <4>2. todo = <<a>>
        BY <2>9, <3>1, <4>1, ConcatEmptySeq
      <4> HIDE DEF todo
      <4> QED BY <3>1, <4>1, <4>2
    <3>2. CASE turn # NoTurn
      <4>1. todo = <<a>> \o <<b>>
        BY <2>9, <3>2
      <4> HIDE DEF todo
      <4>2. /\ <<a>> \o <<b>> \in Seq(Tasks) /\ (<<a>> \o <<b>>)[1] = a /\ (<<a>> \o <<b>>)[2] = b
            /\ DOMAIN (<<a>> \o <<b>>) = {1, 2} /\ <<a>> \o <<b>> # <<>>
        BY <2>7, <2>8, TwoTasks
      <4> QED BY <3>2, <4>1, <4>2
    <3> QED BY <3>1, <3>2
  <2>11. Handle(turn, todo)
    BY <2>1 DEF a
  <2> HIDE DEF todo
  <2>12. handler' \in Handlers /\ handler'.todo = todo /\ handler'.turn = turn
    BY <2>10, <2>11, HandleIs
  <2>13. a.projected <=> \E k \in DOMAIN thread : thread[k].id = id
    BY <2>4, <2>7
  <2> QED
    BY <2>1, <2>2, <2>5, <2>6, <2>7, <2>8, <2>10, <2>12, <2>13 DEF ItemLeaves
<1> QED
  BY <1>1, <1>2

TurnLeaves(t) ==
    LET todo == handler'.todo
    IN
    /\ handler' \in Handlers /\ handler'.turn = t /\ todo # <<>>
    /\ \A n \in DOMAIN todo :
          /\ todo[n].text = <<>>
          /\ \/ todo[n].do = "over" /\ n = 1 /\ active \in {NoTurn, t}
             \/ /\ todo[n].do = "finalize" /\ todo[n].message \in ToSet(known[t])
                /\ todo[n].projected <=> \E k \in DOMAIN thread : thread[k].id = todo[n].message
             \/ todo[n].do = "turnDone" /\ n = Len(todo)
    /\ \A m \in ToSet(known[t]) : \E n \in DOMAIN todo : todo[n].do = "finalize" /\ todo[n].message = m
    /\ active \in {NoTurn, t} => todo[1].do = "over"

LEMMA TurnIs ==
    ASSUME TypedInv, NEW t \in Turn,
           Handle(t, (IF active \in {NoTurn, t} THEN <<Simply("over")>> ELSE <<>>)
                    \o [n \in DOMAIN known[t] |->
                           Finalize(known[t][n], <<>>, Find(known[t][n]) # {})]
                    \o <<Simply("turnDone")>>)
    PROVE  TurnLeaves(t)
<1> DEFINE over == Simply("over")
           done == Simply("turnDone")
           O == IF active \in {NoTurn, t} THEN <<over>> ELSE <<>>
           G == [n \in DOMAIN known[t] |-> Finalize(known[t][n], <<>>, Find(known[t][n]) # {})]
           D == <<done>>
<1>1. /\ over \in Tasks /\ over.do = "over" /\ over.text = <<>>
      /\ done \in Tasks /\ done.do = "turnDone" /\ done.text = <<>>
  <2>1. "over" \in Doings /\ "turnDone" \in Doings
    BY DEF Doings, TurnTasks
  <2> QED BY <2>1, SimplyIs
<1>2. known[t] \in Seq(MessageId) /\ DOMAIN known[t] = 1..Len(known[t]) /\ Len(known[t]) \in Nat
  BY LenProperties DEF TypedInv, TypeInv
<1>3. \A n \in DOMAIN known[t] : known[t][n] \in MessageId
  BY <1>2, ElementOfSeq
<1>4. ASSUME NEW n \in DOMAIN known[t]
      PROVE  /\ G[n] \in Tasks /\ G[n].do = "finalize" /\ G[n].message = known[t][n]
             /\ G[n].text = <<>>
             /\ G[n].projected <=> \E k \in DOMAIN thread : thread[k].id = known[t][n]
  <2> DEFINE m == known[t][n]
             found == Find(m) # {}
  <2>1. found \in BOOLEAN
    OBVIOUS
  <2>2. found <=> \E k \in DOMAIN thread : thread[k].id = m
    BY DEF Find
  <2>3. G[n] = Finalize(m, <<>>, found)
    OBVIOUS
  <2>4. m \in MessageId
    BY <1>3
  <2>5. <<>> \in Seq(Piece)
    BY Names
  <2> DEFINE g == G[n]
  <2> HIDE DEF m, found, G
  <2>6. Finalize(m, <<>>, found) \in Tasks /\ Finalize(m, <<>>, found).do = "finalize"
        /\ Finalize(m, <<>>, found).message = m /\ Finalize(m, <<>>, found).text = <<>>
        /\ Finalize(m, <<>>, found).projected = found
    BY <2>1, <2>4, <2>5, FinalizeIs, ZenonT(30)
  <2> QED BY <2>2, <2>3, <2>6 DEF m
<1>5. DOMAIN G = DOMAIN known[t]
  OBVIOUS
<1> HIDE DEF G, over, done
<1>6. G \in Seq(Tasks)
  <2>1. G \in [1..Len(known[t]) -> Tasks]
    <3>1. G = [n \in DOMAIN known[t] |-> G[n]]
      BY DEF G
    <3> QED BY <3>1, <1>2, <1>4
  <2> QED BY <2>1, <1>2, SeqDef
<1>7. O \in Seq(Tasks) /\ (\A n \in DOMAIN O : n = 1 /\ O[1] = over /\ active \in {NoTurn, t})
      /\ (active \in {NoTurn, t} => 1 \in DOMAIN O /\ O[1] = over)
  <2>1. CASE active \in {NoTurn, t}
    BY <2>1, <1>1, OneTask
  <2>2. CASE active \notin {NoTurn, t}
    BY <2>2, EmptySeq
  <2> QED BY <2>1, <2>2
<1>8. D \in Seq(Tasks) /\ Len(D) = 1 /\ D[1] = done /\ DOMAIN D = {1}
  BY <1>1, OneTask
<1> HIDE DEF O, D
<1> DEFINE B == O \o G
<1>9. /\ B \in Seq(Tasks)
      /\ \A n \in DOMAIN O : n \in DOMAIN B /\ B[n] = O[n]
      /\ \A n \in DOMAIN G : n + Len(O) \in DOMAIN B /\ B[n + Len(O)] = G[n]
      /\ \A n \in DOMAIN B : n \in DOMAIN O
             \/ (n > Len(O) /\ n - Len(O) \in DOMAIN G /\ B[n] = G[n - Len(O)])
  BY <1>6, <1>7, ConcatIs
<1> HIDE DEF B
<1> DEFINE todo == B \o D
<1>10. /\ todo \in Seq(Tasks) /\ Len(todo) = Len(B) + Len(D)
       /\ \A n \in DOMAIN B : n \in DOMAIN todo /\ todo[n] = B[n]
       /\ \A n \in DOMAIN D : n + Len(B) \in DOMAIN todo /\ todo[n + Len(B)] = D[n]
       /\ \A n \in DOMAIN todo : n \in DOMAIN B
              \/ (n > Len(B) /\ n - Len(B) \in DOMAIN D /\ todo[n] = D[n - Len(B)])
  BY <1>8, <1>9, ConcatIs
<1>11. Handle(t, todo)
  BY DEF B, O, G, D, over, done
<1> HIDE DEF todo
<1>12. Len(B) \in Nat /\ DOMAIN todo = 1..Len(todo)
  BY <1>9, <1>10, LenProperties
<1>13. todo # <<>>
  <2>1. 1 + Len(B) \in DOMAIN todo
    BY <1>8, <1>10
  <2> QED BY <2>1
<1>14. handler' \in Handlers /\ handler'.todo = todo /\ handler'.turn = t
  BY <1>10, <1>11, <1>13, HandleIs
<1>15. ASSUME NEW n \in DOMAIN B
       PROVE  \/ B[n] = over /\ n = 1 /\ active \in {NoTurn, t}
              \/ \E k \in DOMAIN known[t] : B[n] = G[k]
  <2>1. CASE n \in DOMAIN O
    BY <2>1, <1>7, <1>9
  <2>2. CASE n \notin DOMAIN O
    BY <2>2, <1>5, <1>9
  <2> QED BY <2>1, <2>2
<1>16. \A k \in DOMAIN known[t] : known[t][k] \in ToSet(known[t])
  BY DEF ToSet
<1>17. ASSUME NEW n \in DOMAIN todo
       PROVE  /\ todo[n].text = <<>>
              /\ \/ todo[n].do = "over" /\ n = 1 /\ active \in {NoTurn, t}
                 \/ /\ todo[n].do = "finalize" /\ todo[n].message \in ToSet(known[t])
                    /\ todo[n].projected <=> \E k \in DOMAIN thread : thread[k].id = todo[n].message
                 \/ todo[n].do = "turnDone" /\ n = Len(todo)
  <2>1. CASE n \in DOMAIN B
    <3>1. CASE B[n] = over /\ n = 1 /\ active \in {NoTurn, t}
      BY <2>1, <3>1, <1>1, <1>10
    <3>2. ASSUME NEW k \in DOMAIN known[t], B[n] = G[k]
          PROVE  /\ todo[n].text = <<>> /\ todo[n].do = "finalize"
                 /\ todo[n].message \in ToSet(known[t])
                 /\ todo[n].projected <=> \E j \in DOMAIN thread : thread[j].id = todo[n].message
      <4>1. todo[n] = G[k]
        BY <2>1, <3>2, <1>10
      <4> QED BY <4>1, <1>4, <1>16
    <3> QED BY <3>1, <3>2, <2>1, <1>15
  <2>2. CASE n \notin DOMAIN B
    <3>1. n > Len(B) /\ n - Len(B) \in DOMAIN D /\ todo[n] = D[n - Len(B)]
      BY <2>2, <1>10
    <3>2. n - Len(B) = 1 /\ n \in Nat
      BY <3>1, <1>8, <1>12
    <3>3. n = Len(todo) /\ todo[n] = done
      BY <3>1, <3>2, <1>8, <1>10, <1>12
    <3> QED BY <3>3, <1>1
  <2> QED BY <2>1, <2>2
<1>18. ASSUME NEW m \in ToSet(known[t])
       PROVE  \E n \in DOMAIN todo : todo[n].do = "finalize" /\ todo[n].message = m
  <2>1. PICK k \in DOMAIN known[t] : known[t][k] = m
    BY DEF ToSet
  <2>2. k + Len(O) \in DOMAIN todo /\ todo[k + Len(O)] = G[k]
    BY <1>5, <1>9, <1>10
  <2> QED BY <2>1, <2>2, <1>4
<1>19. active \in {NoTurn, t} => todo[1].do = "over"
  BY <1>1, <1>7, <1>9, <1>10
<1> QED
  BY <1>13, <1>14, <1>17, <1>18, <1>19 DEF TurnLeaves


-----------------------------------------------------------------------------
(* A piece of text *)

\* The message a piece belongs to, and the segment of its turn after it.
Segments(turn, item, id) ==
    \/ turn = NoTurn /\ id = <<item, 0>> /\ segment' = segment
    \/ /\ turn \in Turn /\ segment[turn].active # NoMessage /\ id = segment[turn].active
       /\ segment' = segment
    \/ /\ turn \in Turn /\ segment[turn].active = NoMessage
       /\ \E number \in 0..requests :
             /\ number = IF segment[turn].base = item THEN segment[turn].next ELSE 0
             /\ id = <<item, number>>
             /\ segment' = [segment EXCEPT ![turn] =
                               [base |-> item, next |-> number + 1, active |-> id]]

\* What becomes of the piece.
DeltaLeaves(turn, id, n) ==
    \/ /\ mode = "buffered" /\ handler' = handler
       /\ buffered' = [buffered EXCEPT ![id] = Append(buffered[id], n)]
    \/ /\ handler' \in Handlers /\ handler'.turn = turn /\ handler'.todo # <<>>
       /\ DOMAIN handler'.todo = {1} /\ handler'.todo[1].do = "deliver"
       /\ handler'.todo[1].message = id
       /\ \/ mode # "buffered" /\ buffered' = buffered /\ handler'.todo[1].text = <<n>>
          \/ /\ mode = "buffered" /\ buffered' = [buffered EXCEPT ![id] = <<>>]
             /\ handler'.todo[1].text = Append(buffered[id], n)

LEMMA SegmentsAre ==
    ASSUME TypedInv, NEW item \in Item, NEW turn \in {NoTurn} \cup Turn, NEW id,
           id = IF turn = NoTurn THEN <<item, 0>> ELSE SegmentFor(turn, item).active,
           segment' = IF turn = NoTurn THEN segment
                      ELSE [segment EXCEPT ![turn] = SegmentFor(turn, item)]
    PROVE  id \in MessageId /\ Segments(turn, item, id) /\ segment' \in [Turn -> Segment]
<1>1. segment \in [Turn -> Segment] /\ requests \in Nat /\ requests \in 0..MaxRequests
  BY Bounds DEF TypedInv, TypeInv
<1>2. CASE turn = NoTurn
  BY <1>1, <1>2, Names DEF Segments
<1>3. CASE turn # NoTurn /\ segment[turn].active # NoMessage
  <2>1. SegmentFor(turn, item) = segment[turn] /\ turn \in Turn
    BY <1>3 DEF SegmentFor
  <2>2. segment[turn].active \in MessageId
    BY <1>1, <1>3, <2>1 DEF Segment
  <2>3. segment' = segment
    BY <1>1, <1>3, <2>1
  <2> QED
    BY <1>1, <1>3, <2>1, <2>2, <2>3 DEF Segments
<1>4. CASE turn # NoTurn /\ segment[turn].active = NoMessage
  <2> DEFINE number == IF segment[turn].base = item THEN segment[turn].next ELSE 0
  <2>1. SegmentFor(turn, item) = [base |-> item, next |-> number + 1, active |-> <<item, number>>]
        /\ turn \in Turn
    BY <1>4 DEF SegmentFor, StartSegment
  <2>2. segment[turn] \in Segment /\ segment[turn].next <= requests
    BY <1>1, <1>4, <2>1 DEF TypedInv, SegmentsNumbered
  <2>3. number \in 0..requests
    BY <1>1, <2>2 DEF Segment
  <2> HIDE DEF number
  <2>4. SegmentFor(turn, item).active = <<item, number>>
    BY <2>1
  <2>5. id = <<item, number>>
    BY <1>4, <2>4
  <2>6. id \in MessageId
    BY <1>1, <2>3, <2>5, Bounds DEF MessageId
  <2>7. segment' = [segment EXCEPT ![turn] = [base |-> item, next |-> number + 1, active |-> id]]
    BY <1>4, <2>1, <2>5
  <2>8. segment' \in [Turn -> Segment]
    BY <1>1, <2>1, <2>3, <2>6, <2>7 DEF Segment
  <2> QED
    BY <1>4, <2>1, <2>3, <2>5, <2>6, <2>7, <2>8 DEF Segments, number
<1> QED
  BY <1>2, <1>3, <1>4

LEMMA DeltaIs ==
    ASSUME TypedInv, NEW turn \in {NoTurn} \cup Turn, NEW id \in MessageId, NEW n \in Piece,
           IF mode = "buffered" THEN BufferText(turn, id, Append(Text(id), n))
           ELSE Handle(turn, <<Deliver(id, <<n>>)>>) /\ UNCHANGED buffered
    PROVE  /\ DeltaLeaves(turn, id, n)
           /\ buffered' \in [MessageId -> Seq(Piece)] /\ handler' \in Handlers
<1> DEFINE text == Append(Text(id), n)
<1>1. text \in Seq(Piece) /\ <<n>> \in Seq(Piece) /\ buffered \in [MessageId -> Seq(Piece)]
  BY AppendIs DEF TypedInv, TypeInv, Text
<1>2. text = Append(buffered[id], n)
  BY DEF Text
<1>3. ASSUME NEW delivered \in Seq(Piece), Handle(turn, <<Deliver(id, delivered)>>)
      PROVE  /\ handler' \in Handlers /\ handler'.turn = turn /\ handler'.todo # <<>>
             /\ DOMAIN handler'.todo = {1} /\ handler'.todo[1].do = "deliver"
             /\ handler'.todo[1].message = id /\ handler'.todo[1].text = delivered
  <2> DEFINE a == Deliver(id, delivered)
  <2>1. a \in Tasks /\ a.do = "deliver" /\ a.message = id /\ a.text = delivered
    BY DeliverIs
  <2>2. Handle(turn, <<a>>)
    BY <1>3
  <2> HIDE DEF a
  <2>3. <<a>> \in Seq(Tasks) /\ <<a>> # <<>> /\ <<a>>[1] = a /\ DOMAIN <<a>> = {1}
    BY <2>1, OneTask
  <2>4. handler' \in Handlers /\ handler'.todo = <<a>> /\ handler'.turn = turn
    BY <2>2, <2>3, HandleIs
  <2> QED BY <2>1, <2>3, <2>4
<1> HIDE DEF text
<1>4. CASE mode # "buffered"
  <2>1. Handle(turn, <<Deliver(id, <<n>>)>>) /\ buffered' = buffered
    BY <1>4
  <2> QED BY <1>1, <1>3, <1>4, <2>1 DEF DeltaLeaves
<1>5. CASE mode = "buffered"
  <2>1. \/ buffered' = [buffered EXCEPT ![id] = text] /\ handler' = handler
        \/ buffered' = [buffered EXCEPT ![id] = <<>>] /\ Handle(turn, <<Deliver(id, text)>>)
    BY <1>5 DEF BufferText, text
  <2>2. CASE buffered' = [buffered EXCEPT ![id] = text] /\ handler' = handler
    <3>1. handler' \in Handlers
      BY <2>2 DEF TypedInv, TypeInv, Handlers
    <3>2. buffered' \in [MessageId -> Seq(Piece)]
      BY <1>1, <2>2
    <3> QED BY <1>2, <1>5, <2>2, <3>1, <3>2 DEF DeltaLeaves
  <2>3. CASE buffered' = [buffered EXCEPT ![id] = <<>>] /\ Handle(turn, <<Deliver(id, text)>>)
    <3>2. buffered' \in [MessageId -> Seq(Piece)]
      BY <1>1, <2>3, Names
    <3> QED BY <1>1, <1>2, <1>3, <1>5, <2>3, <3>2 DEF DeltaLeaves
  <2> QED BY <2>1, <2>2, <2>3
<1> QED BY <1>4, <1>5

\* A piece of text, as a whole.
DeltaStep(item, t, turn, id) ==
    /\ provider' \in Provider /\ ProviderFits' /\ SameTurns /\ Says(item)
    /\ \/ /\ Added(item) /\ t \in {Running, NoTurn} /\ provider'.open = provider.open \cup {item}
          /\ "overlap" \in ToSet(upset') \/ \A o \in provider.open : provider.home[o] # Running
       \/ /\ item \in provider.open /\ Continued(item) /\ provider'.open = provider.open
          /\ \/ "late" \in ToSet(upset')
             \/ provider.home[item] = Running /\ turn = Running
    /\ upset' \in Seq(Kinds) /\ ToSet(upset) \subseteq ToSet(upset')
    /\ turn = Packed(t) /\ Remember(turn, id) /\ Segments(turn, item, id)
    /\ segment' \in [Turn -> Segment]
    /\ DeltaLeaves(turn, id, Len(provider.said) + 1)
    /\ buffered' \in [MessageId -> Seq(Piece)] /\ handler' \in Handlers

LEMMA ContentDeltaIs ==
    ASSUME TypedInv, ContentDelta
    PROVE  \E item \in Item, t \in {NoTurn} \cup Turn, turn \in {NoTurn} \cup Turn, id \in MessageId :
              DeltaStep(item, t, turn, id)
<1> DEFINE TurnOf(t) == Packed(t)
           IdOf(item, t) == IF Packed(t) = NoTurn THEN <<item, 0>>
                            ELSE SegmentFor(Packed(t), item).active
           n == Len(provider.said) + 1
<1>1. PICK item \in Item, t \in {NoTurn} \cup Turn :
           /\ n <= MaxPieces
           /\ \/ BeginsItem(item, t)
                 /\ provider' = [Begun(item) EXCEPT !.said = Append(@, item)]
              \/ ContinuesItem(item, t)
                 /\ UpsetsIf(provider.home[item] # Running \/ Astray(item, t), "late")
                 /\ provider' = [provider EXCEPT !.said = Append(@, item)]
           /\ Remember(Packed(t), IdOf(item, t))
           /\ segment' = IF Packed(t) = NoTurn THEN segment
                         ELSE [segment EXCEPT ![Packed(t)] = SegmentFor(Packed(t), item)]
           /\ IF mode = "buffered"
              THEN BufferText(Packed(t), IdOf(item, t), Append(Text(IdOf(item, t)), n))
              ELSE Handle(Packed(t), <<Deliver(IdOf(item, t), <<n>>)>>) /\ UNCHANGED buffered
  BY DEF ContentDelta
<1>2. PICK turn \in {NoTurn} \cup Turn : turn = Packed(t)
  BY RunningIs
<1>3. PICK id : id = IdOf(item, t)
  OBVIOUS
<1>4. id = IF turn = NoTurn THEN <<item, 0>> ELSE SegmentFor(turn, item).active
  BY <1>2, <1>3
<1>5. /\ Remember(turn, id)
      /\ segment' = IF turn = NoTurn THEN segment
                    ELSE [segment EXCEPT ![turn] = SegmentFor(turn, item)]
  BY <1>1, <1>2, <1>3
<1>6. IF mode = "buffered" THEN BufferText(turn, id, Append(Text(id), n))
      ELSE Handle(turn, <<Deliver(id, <<n>>)>>) /\ UNCHANGED buffered
  BY <1>1, <1>2, <1>3
<1>7. id \in MessageId /\ Segments(turn, item, id) /\ segment' \in [Turn -> Segment]
  BY <1>4, <1>5, SegmentsAre
<1>8. n \in Piece
  <2>1. Len(provider.said) \in Nat
    BY LenProperties DEF TypedInv, TypeInv, Provider
  <2> QED BY <1>1, <2>1, Bounds DEF Piece
<1> HIDE DEF IdOf
<1>9. DeltaLeaves(turn, id, n) /\ buffered' \in [MessageId -> Seq(Piece)] /\ handler' \in Handlers
  <2> HIDE DEF n
  <2> QED BY <1>6, <1>7, <1>8, DeltaIs
<1>10. "late" \in Kinds /\ "overlap" \in Kinds
  BY DEF Kinds
<1>11. CASE BeginsItem(item, t) /\ provider' = [Begun(item) EXCEPT !.said = Append(@, item)]
  <2>1. provider' \in Provider /\ ProviderFits' /\ SameTurns /\ Added(item) /\ Says(item)
    <3>1. Len(provider.said) + 1 <= MaxPieces
      BY <1>1
    <3>2. BeginsItem(item, t) /\ provider' = [Begun(item) EXCEPT !.said = Append(@, item)]
      BY <1>11
    <3> QED BY <3>1, <3>2, ItemBegins, Zenon
  <2>2. provider'.open = provider.open \cup {item}
    BY <1>11 DEF Begun, TypedInv, TypeInv, Provider
  <2>3. UpsetsIf(\E o \in provider.open : provider.home[o] = Running, "overlap")
        /\ t \in {Running, NoTurn}
    BY <1>11 DEF BeginsItem
  <2>4. /\ upset' \in Seq(Kinds) /\ ToSet(upset) \subseteq ToSet(upset')
        /\ (\E o \in provider.open : provider.home[o] = Running) => "overlap" \in ToSet(upset')
    BY <1>10, <2>3, UpsetsIfAre DEF TypedInv
  <2> QED
    BY <1>2, <1>5, <1>7, <1>9, <2>1, <2>2, <2>3, <2>4 DEF DeltaStep
<1>12. CASE /\ ContinuesItem(item, t)
            /\ UpsetsIf(provider.home[item] # Running \/ Astray(item, t), "late")
            /\ provider' = [provider EXCEPT !.said = Append(@, item)]
  <2>1. item \in provider.open
    BY <1>12 DEF ContinuesItem
  <2>2. provider' \in Provider /\ ProviderFits' /\ SameTurns /\ Continued(item)
    BY <1>1, <1>12, <2>1, ItemGoesOn
  <2>3. provider'.open = provider.open /\ provider'.said = Append(provider.said, item)
    BY <1>12 DEF TypedInv, TypeInv, Provider
  <2>4. Says(item)
    BY <1>1, <2>3, PieceSaid
  <2>5. /\ upset' \in Seq(Kinds) /\ ToSet(upset) \subseteq ToSet(upset')
        /\ provider.home[item] # Running \/ Astray(item, t) => "late" \in ToSet(upset')
    <3>1. (provider.home[item] # Running \/ Astray(item, t)) \in BOOLEAN
      OBVIOUS
    <3> QED BY <1>10, <1>12, <3>1, UpsetsIfAre DEF TypedInv
  <2>6. \/ "late" \in ToSet(upset')
        \/ provider.home[item] = Running /\ turn = Running
    BY <1>2, <2>5 DEF Astray
  <2> QED
    BY <1>2, <1>5, <1>7, <1>9, <2>1, <2>2, <2>3, <2>4, <2>5, <2>6 DEF DeltaStep
<1>14. \/ BeginsItem(item, t) /\ provider' = [Begun(item) EXCEPT !.said = Append(@, item)]
       \/ /\ ContinuesItem(item, t)
          /\ UpsetsIf(provider.home[item] # Running \/ Astray(item, t), "late")
          /\ provider' = [provider EXCEPT !.said = Append(@, item)]
  BY <1>1
<1> QED
  BY <1>11, <1>12, <1>14


-----------------------------------------------------------------------------
(* An item that completes *)

ItemStep(item, turn, detail) ==
    /\ provider' \in Provider /\ ProviderFits' /\ SameTurns
    /\ \/ /\ Added(item) /\ Says(item) /\ provider'.open = provider.open
          /\ turn \in {Running, active} /\ detail = <<Len(provider.said) + 1>>
          /\ "overlap" \in ToSet(upset') \/ \A o \in provider.open : provider.home[o] # Running
       \/ /\ item \in provider.open /\ Continued(item) /\ provider'.said = provider.said
          /\ provider'.open = provider.open \ {item} /\ detail \in {<<>>, TextOf(item)}
          /\ "late" \in ToSet(upset') \/ turn \in {NoTurn, provider.home[item]}
    /\ turn = NoTurn => active = NoTurn
    /\ upset' \in Seq(Kinds) /\ ToSet(upset) \subseteq ToSet(upset')
    /\ ItemLeaves(item, turn, detail)

LEMMA ItemCompletedIs ==
    ASSUME TypedInv, ItemCompleted
    PROVE  \E item \in Item, turn \in {NoTurn} \cup Turn, detail \in Seq(Piece) :
              ItemStep(item, turn, detail)
<1> DEFINE n == Len(provider.said) + 1
<1>1. PICK item \in Item, t \in {NoTurn} \cup Turn :
       \/ /\ ContinuesItem(item, t)
          /\ UpsetsIf(Packed(t) # NoTurn /\ Astray(item, t), "late")
          /\ provider' = [provider EXCEPT !.open = @ \ {item}]
          /\ \E detail \in {<<>>, TextOf(item)} : FinishItem(item, Packed(t), detail)
       \/ /\ n <= MaxPieces
          /\ BeginsItem(item, t)
          /\ provider' = [provider EXCEPT !.home = Append(@, Running), !.said = Append(@, item)]
          /\ FinishItem(item, Packed(t), <<n>>)
  BY Zenon DEF ItemCompleted
<1>2. PICK turn \in {NoTurn} \cup Turn : turn = Packed(t)
  BY RunningIs
<1>3. "late" \in Kinds /\ "overlap" \in Kinds
  BY DEF Kinds
<1>4. CASE /\ ContinuesItem(item, t)
           /\ UpsetsIf(Packed(t) # NoTurn /\ Astray(item, t), "late")
           /\ provider' = [provider EXCEPT !.open = @ \ {item}]
           /\ \E detail \in {<<>>, TextOf(item)} : FinishItem(item, Packed(t), detail)
  <2>1. PICK detail \in {<<>>, TextOf(item)} : FinishItem(item, turn, detail)
    BY <1>2, <1>4
  <2>2. detail \in Seq(Piece)
    BY Names, TextOfIs DEF TypedInv, ProviderFits
  <2>3. ItemLeaves(item, turn, detail)
    BY <2>1, <2>2, ItemIs
  <2>4. item \in provider.open
    BY <1>4 DEF ContinuesItem
  <2>5. provider' \in Provider /\ ProviderFits' /\ SameTurns /\ Continued(item)
    BY <1>4, <2>4, ItemGoesOn
  <2>6. provider'.said = provider.said /\ provider'.open = provider.open \ {item}
    BY <1>4 DEF TypedInv, TypeInv, Provider
  <2>7. /\ upset' \in Seq(Kinds) /\ ToSet(upset) \subseteq ToSet(upset')
        /\ Packed(t) # NoTurn /\ Astray(item, t) => "late" \in ToSet(upset')
    <3>1. (Packed(t) # NoTurn /\ Astray(item, t)) \in BOOLEAN
      OBVIOUS
    <3> QED BY <1>3, <1>4, <3>1, UpsetsIfAre DEF TypedInv
  <2>8. "late" \in ToSet(upset') \/ turn \in {NoTurn, provider.home[item]}
    BY <1>2, <2>7 DEF Astray
  <2>10. turn = NoTurn => active = NoTurn
    BY <1>2 DEF Packed
  <2>9. ItemStep(item, turn, detail)
    BY <2>10, <2>3, <2>4, <2>5, <2>6, <2>7, <2>8 DEF ItemStep
  <2> QED
    BY <2>2, <2>9
<1>5. CASE /\ n <= MaxPieces
           /\ BeginsItem(item, t)
           /\ provider' = [provider EXCEPT !.home = Append(@, Running), !.said = Append(@, item)]
           /\ FinishItem(item, Packed(t), <<n>>)
  <2>1. <<n>> \in Seq(Piece)
    <3>1. Len(provider.said) \in Nat
      BY LenProperties DEF TypedInv, TypeInv, Provider
    <3>2. n \in Piece
      BY <1>5, <3>1, Bounds DEF Piece
    <3> HIDE DEF n
    <3> QED BY <3>2
  <2>2. FinishItem(item, turn, <<n>>)
    BY <1>2, <1>5
  <2>3. PICK detail \in Seq(Piece) : detail = <<n>>
    BY <2>1
  <2>4. FinishItem(item, turn, detail)
    BY <2>2, <2>3
  <2>5. ItemLeaves(item, turn, detail)
    BY <2>4, ItemIs
  <2>6. provider' \in Provider /\ ProviderFits' /\ SameTurns /\ Added(item) /\ Says(item)
    <3>1. Len(provider.said) + 1 <= MaxPieces
      BY <1>5
    <3>2. BeginsItem(item, t)
      BY <1>5
    <3>3. provider' = [provider EXCEPT !.home = Append(@, Running), !.said = Append(@, item)]
      BY <1>5
    <3> QED BY <3>1, <3>2, <3>3, ItemBegins, Zenon
  <2>7. provider'.open = provider.open
    BY <1>5 DEF TypedInv, TypeInv, Provider
  <2>8. UpsetsIf(\E o \in provider.open : provider.home[o] = Running, "overlap")
        /\ t \in {Running, NoTurn} /\ Running # NoTurn
    BY <1>5 DEF BeginsItem
  <2>9. /\ upset' \in Seq(Kinds) /\ ToSet(upset) \subseteq ToSet(upset')
        /\ (\E o \in provider.open : provider.home[o] = Running) => "overlap" \in ToSet(upset')
    BY <1>3, <2>8, UpsetsIfAre DEF TypedInv
  <2>10. turn \in {Running, active}
    BY <1>2, <2>8 DEF Packed
  <2>12. turn = NoTurn => active = NoTurn
    BY <1>2 DEF Packed
  <2>11. ItemStep(item, turn, detail)
    BY <2>12, <2>3, <2>5, <2>6, <2>7, <2>9, <2>10 DEF ItemStep
  <2> QED
    BY <2>11
<1> QED
  BY <1>1, <1>4, <1>5


-----------------------------------------------------------------------------
(* Events keep the types *)

LEMMA IdleIs == Idle => DOMAIN handler.todo = {} /\ ~Does({"complete"}) /\ \A s : ~Does(s)
BY DEF Idle, Does

\* No segment is new, and no question is being asked.
LEMMA NumbersKept ==
    ASSUME TypedInv, requests' = requests,
           \A t \in Turn : segment'[t] = segment[t] \/ segment'[t] = NoSegment,
           \A n \in DOMAIN handler'.todo : handler'.todo[n].do # "paused"
    PROVE  SegmentsNumbered'
<1>1. requests \in Nat /\ NoSegment.next = 0 /\ NoSegment.active = NoMessage
  BY Bounds DEF TypedInv, TypeInv, NoSegment
<1> QED BY <1>1 DEF TypedInv, SegmentsNumbered

LEMMA NewTurnTyped ==
    ASSUME TypedInv, TurnStarted
    PROVE  /\ TypedInv' /\ ToSet(upset) \subseteq ToSet(upset')
           /\ handler'.turn = provider.turns + 1 /\ DOMAIN handler'.todo = {1}
           /\ handler'.todo # <<>> /\ handler'.todo[1].do = "running"
           /\ handler'.todo[1].text = <<>>
           /\ provider'.turns = provider.turns + 1 /\ provider'.ended = provider.ended
           /\ provider'.home = provider.home /\ provider'.open = provider.open
           /\ provider'.said = provider.said /\ provider'.blank = provider.blank
           /\ "superseded" \in ToSet(upset') \/ Running = NoTurn
<1> USE DEF TypedInv
<1>1. provider \in Provider /\ provider.turns \in 0..MaxTurns /\ MaxTurns \in Nat
  BY Bounds DEF TypeInv, Provider
<1>2. provider.turns < MaxTurns /\ provider' = [provider EXCEPT !.turns = @ + 1]
  BY DEF TurnStarted
<1>3. provider.turns + 1 \in Turn /\ provider.turns + 1 \in 0..MaxTurns
  BY <1>1, <1>2 DEF Turn
<1>4. provider' \in Provider
  BY <1>1, <1>2, <1>3 DEF Provider
<1>5. /\ provider'.turns = provider.turns + 1 /\ provider'.ended = provider.ended
      /\ provider'.home = provider.home /\ provider'.open = provider.open
      /\ provider'.said = provider.said /\ provider'.blank = provider.blank
  BY <1>1, <1>2 DEF Provider
<1>6. ProviderFits'
  <2>1. provider'.ended \subseteq 1..provider'.turns
    BY <1>1, <1>5 DEF ProviderFits
  <2>2. \A i \in DOMAIN provider'.home : provider'.home[i] <= provider'.turns
    <3>1. \A i \in DOMAIN provider.home : provider.home[i] \in Nat
      <4>1. provider.home \in Seq(Turn)
        BY <1>1 DEF Provider
      <4>2. \A i \in DOMAIN provider.home : provider.home[i] \in Turn
        BY <4>1, ElementOfSeq, LenProperties
      <4> QED BY <4>2, Names
    <3> QED BY <1>1, <1>5, <3>1 DEF ProviderFits
  <2> QED BY <1>5, <2>1, <2>2 DEF ProviderFits
<1> DEFINE a == Simply("running")
<1>7. a \in Tasks /\ a.do = "running" /\ a.text = <<>>
  <2>1. "running" \in Doings
    BY DEF Doings, TurnTasks
  <2> QED BY <2>1, SimplyIs
<1>8. Handle(provider.turns + 1, <<a>>)
  BY DEF TurnStarted
<1> HIDE DEF a
<1>9. <<a>> \in Seq(Tasks) /\ <<a>> # <<>> /\ <<a>>[1] = a /\ DOMAIN <<a>> = {1}
  BY <1>7, OneTask
<1>10. /\ handler' \in Handlers /\ handler'.todo = <<a>> /\ handler'.turn = provider.turns + 1
  BY <1>3, <1>8, <1>9, HandleIs
<1>11. TasksFit'
  BY <1>3, <1>7, <1>9, <1>10 DEF TasksFit, MessageTasks
<1>12. SegmentsNumbered'
  <2>1. requests' = requests /\ segment' = segment
    BY DEF TurnStarted, caches
  <2> QED BY <1>7, <1>9, <1>10, <2>1, NumbersKept
<1>13. upset' \in Seq(Kinds) /\ ToSet(upset) \subseteq ToSet(upset')
       /\ (Running # NoTurn => "superseded" \in ToSet(upset'))
  <2>1. UpsetsIf(Running # NoTurn, "superseded") /\ "superseded" \in Kinds
    BY DEF TurnStarted, Kinds
  <2> QED BY <2>1, UpsetsIfAre
<1>14. TypeInv'
  BY <1>4, <1>10, <1>13 DEF TypeInv, TurnStarted, caches, Handlers
<1> QED
  BY <1>5, <1>6, <1>7, <1>9, <1>10, <1>11, <1>12, <1>13, <1>14

LEMMA DeltaTyped ==
    ASSUME TypedInv, ContentDelta
    PROVE  TypedInv'
<1> USE DEF TypedInv
<1>1. PICK item \in Item, t \in {NoTurn} \cup Turn, turn \in {NoTurn} \cup Turn, id \in MessageId :
          DeltaStep(item, t, turn, id)
  BY ContentDeltaIs
<1>2. known' \in [Turn -> Seq(MessageId)]
  BY <1>1, RememberedIs DEF DeltaStep
<1>3. Idle /\ UNCHANGED <<mode, thread, active, requests>>
  BY DEF ContentDelta
<1>4. \A n \in DOMAIN handler'.todo :
          /\ handler'.todo[n].do = "deliver" /\ handler'.todo[n].message = id
  BY <1>1, <1>3, IdleIs DEF DeltaStep, DeltaLeaves
<1>5. TasksFit'
  BY <1>4 DEF TasksFit, TurnTasks
<1>6. SegmentsNumbered'
  <2>1. requests \in Nat /\ segment \in [Turn -> Segment]
    BY Bounds DEF TypeInv
  <2>2. CASE segment' = segment
    BY <1>3, <1>4, <2>2, NumbersKept
  <2>3. ASSUME turn \in Turn, segment[turn].active = NoMessage, NEW number \in 0..requests,
               segment' = [segment EXCEPT ![turn] =
                              [base |-> item, next |-> number + 1, active |-> id]]
        PROVE  SegmentsNumbered'
    <3>1. /\ segment'[turn].next = number + 1 /\ segment'[turn].active = id
          /\ \A s \in Turn : s # turn => segment'[s] = segment[s]
      BY <2>1, <2>3
    <3>2. id # NoMessage /\ number + 1 <= requests + 1
      BY <2>1, Names
    <3> QED
      BY <1>3, <1>4, <3>1, <3>2 DEF SegmentsNumbered
  <2> QED
    BY <1>1, <2>2, <2>3 DEF DeltaStep, Segments
<1>7. TypeInv'
  BY <1>1, <1>2, <1>3 DEF TypeInv, DeltaStep, Handlers
<1>8. ProviderFits'
  BY <1>1 DEF DeltaStep
<1> QED
  BY <1>5, <1>6, <1>7, <1>8

LEMMA QuestionTyped ==
    ASSUME TypedInv, QuestionAsked
    PROVE  TypedInv'
<1> USE DEF TypedInv
<1>1. QuestionLeaves
  BY QuestionIs
<1>2. UNCHANGED <<mode, thread, active, caches, provider, upset>> /\ requests' = requests + 1
      /\ requests < MaxRequests
  BY DEF QuestionAsked
<1>3. requests' \in 0..MaxRequests /\ requests \in Nat
  BY <1>2, Bounds DEF TypeInv
<1>4. TypeInv'
  BY <1>1, <1>2, <1>3 DEF TypeInv, QuestionLeaves, Handlers, caches
<1>5. ProviderFits'
  BY <1>2 DEF ProviderFits
<1>6. TasksFit'
  <2>1. known[Running] \in Seq(MessageId) /\ segment[Running].active \in {NoMessage} \cup MessageId
        /\ Running \in Turn
    BY <1>1 DEF TypeInv, Segment, QuestionLeaves
  <2>2. \A m \in ToSet(known[Running]) : m \in MessageId
    BY <2>1, ElementOfSeq, LenProperties DEF ToSet
  <2>3. \A n \in DOMAIN handler'.todo : handler'.todo # <<>>
    OBVIOUS
  <2>4. \A n \in DOMAIN handler'.todo :
           handler'.todo[n].message \in MessageId /\ handler'.turn = Running
    BY <1>1, <2>1, <2>2, <2>3 DEF QuestionLeaves
  <2> QED BY <2>1, <2>4 DEF TasksFit
<1>7. SegmentsNumbered'
  <2>1. \A t \in Turn : segment[t].next <= requests + 1 /\ segment[t].next \in Nat
    BY <1>3 DEF SegmentsNumbered, TypeInv, Segment
  <2> QED
    BY <1>2, <1>3, <2>1 DEF SegmentsNumbered, caches
<1> QED BY <1>4, <1>5, <1>6, <1>7


LEMMA ItemTyped ==
    ASSUME TypedInv, ItemCompleted
    PROVE  TypedInv'
<1> USE DEF TypedInv
<1>1. PICK item \in Item, turn \in {NoTurn} \cup Turn, detail \in Seq(Piece) :
          ItemStep(item, turn, detail)
  BY ItemCompletedIs
<1>2. Idle /\ UNCHANGED <<mode, thread, active, buffered, requests>>
  BY DEF ItemCompleted
<1>3. known' \in [Turn -> Seq(MessageId)]
  <2>1. known \in [Turn -> Seq(MessageId)]
    BY DEF TypeInv
  <2>2. \/ known' = known \/ \E id \in MessageId : Remember(turn, id)
    BY <1>1 DEF ItemStep, ItemLeaves
  <2> QED BY <2>1, <2>2, RememberedIs
<1>4. NoSegment \in Segment /\ segment \in [Turn -> Segment]
  BY DEF NoSegment, Segment, TypeInv
<1>5. /\ segment' \in [Turn -> Segment]
      /\ \A t \in Turn : segment'[t] = segment[t] \/ segment'[t] = NoSegment
  BY <1>1, <1>4 DEF ItemStep, ItemLeaves
<1>6. /\ handler' \in Handlers
      /\ \A n \in DOMAIN handler'.todo :
            /\ handler'.todo[n].do \in {"finalize", "itemDone"} /\ handler'.todo[n].message \in MessageId
            /\ handler'.todo[n].do = "itemDone" => handler'.turn \in Turn
  <2>1. CASE handler' = handler
    BY <1>2, <2>1, IdleIs DEF TypeInv, Handlers
  <2>2. CASE handler' # handler
    <3>1. /\ handler' \in Handlers /\ handler'.turn = turn
          /\ DOMAIN handler'.todo = IF turn = NoTurn THEN {1} ELSE {1, 2}
          /\ handler'.todo[1].do = "finalize" /\ handler'.todo[1].message \in MessageId
          /\ turn # NoTurn =>
                handler'.todo[2].do = "itemDone" /\ handler'.todo[2].message \in MessageId
      BY <1>1, <2>2 DEF ItemStep, ItemLeaves
    <3> QED BY <3>1
  <2> QED BY <2>1, <2>2
<1>7. TasksFit'
  BY <1>6 DEF TasksFit, TurnTasks
<1>8. SegmentsNumbered'
  BY <1>2, <1>5, <1>6, NumbersKept
<1>9. TypeInv'
  BY <1>1, <1>2, <1>3, <1>5, <1>6 DEF TypeInv, ItemStep, Handlers
<1>10. ProviderFits'
  BY <1>1 DEF ItemStep
<1> QED
  BY <1>7, <1>8, <1>9, <1>10

\* A completed turn, as a whole.
TurnStep(t) ==
    /\ t \in Turn \ provider.ended /\ t <= provider.turns
    /\ provider'.turns = provider.turns /\ provider'.ended = provider.ended \cup {t}
    /\ provider'.home = provider.home /\ provider'.open = provider.open
    /\ provider'.said = provider.said /\ provider'.blank = provider.blank
    /\ TurnLeaves(t)

LEMMA TurnTyped ==
    ASSUME TypedInv, TurnCompleted
    PROVE  TypedInv' /\ \E t \in Turn : TurnStep(t)
<1> USE DEF TypedInv
<1>1. Idle /\ UNCHANGED <<mode, thread, active, caches, requests, upset>>
  BY DEF TurnCompleted
<1>2. provider \in Provider /\ provider.turns \in 0..MaxTurns /\ MaxTurns \in Nat
  BY Bounds DEF TypeInv, Provider
<1>3. PICK t \in (1..provider.turns) \ provider.ended :
          /\ provider' = [provider EXCEPT !.ended = @ \cup {t}]
          /\ Handle(t, (IF active \in {NoTurn, t} THEN <<Simply("over")>> ELSE <<>>)
                    \o [n \in DOMAIN known[t] |->
                           Finalize(known[t][n], <<>>, Find(known[t][n]) # {})]
                    \o <<Simply("turnDone")>>)
  BY Zenon DEF TurnCompleted
<1>4. t \in Turn /\ t <= provider.turns
  BY <1>2 DEF Turn
<1>5. TurnLeaves(t)
  BY <1>3, <1>4, TurnIs
<1>6. /\ provider'.turns = provider.turns /\ provider'.ended = provider.ended \cup {t}
      /\ provider'.home = provider.home /\ provider'.open = provider.open
      /\ provider'.said = provider.said /\ provider'.blank = provider.blank
  BY <1>2, <1>3 DEF Provider
<1>7. TurnStep(t)
  BY <1>3, <1>4, <1>5, <1>6 DEF TurnStep
<1>8. provider' \in Provider
  BY <1>2, <1>3, <1>4 DEF Provider
<1>9. ProviderFits'
  BY <1>2, <1>3, <1>6 DEF ProviderFits
<1>10. \A n \in DOMAIN handler'.todo :
          /\ handler'.todo[n].do \in {"over", "finalize", "turnDone"}
          /\ handler'.todo[n].do = "finalize" => handler'.todo[n].message \in MessageId
  <2>1. known[t] \in Seq(MessageId)
    BY <1>4 DEF TypeInv
  <2>2. \A m \in ToSet(known[t]) : m \in MessageId
    BY <2>1, ElementOfSeq, LenProperties DEF ToSet
  <2> QED BY <1>5, <2>2 DEF TurnLeaves
<1>11. TasksFit'
  BY <1>4, <1>5, <1>10 DEF TasksFit, MessageTasks, TurnLeaves
<1>12. SegmentsNumbered'
  BY <1>1, <1>10, NumbersKept DEF caches
<1>13. TypeInv'
  BY <1>1, <1>5, <1>8 DEF TypeInv, caches, TurnLeaves, Handlers
<1> QED
  BY <1>4, <1>7, <1>9, <1>11, <1>12, <1>13

\* The provider is gone, with its turn and its items.
LEMMA GoneIs ==
    ASSUME TypedInv, ProviderGone
    PROVE  /\ provider' \in Provider /\ ProviderFits'
           /\ provider'.turns = provider.turns /\ provider'.ended = 1..provider.turns
           /\ provider'.home = provider.home /\ provider'.open = {}
           /\ provider'.said = provider.said /\ provider'.blank = provider.blank
<1>1. provider \in Provider /\ provider.turns \in 0..MaxTurns /\ MaxTurns \in Nat
  BY Bounds DEF TypedInv, TypeInv, Provider
<1>2. provider' = [provider EXCEPT !.ended = 1..provider.turns, !.open = {}]
  BY DEF ProviderGone
<1>3. 1..provider.turns \in SUBSET Turn
  BY <1>1 DEF Turn
<1>4. /\ provider'.turns = provider.turns /\ provider'.ended = 1..provider.turns
      /\ provider'.home = provider.home /\ provider'.open = {}
      /\ provider'.said = provider.said /\ provider'.blank = provider.blank
  BY <1>1, <1>2 DEF Provider
<1>5. provider' \in Provider
  BY <1>1, <1>2, <1>3 DEF Provider
<1>6. ProviderFits'
  BY <1>4 DEF ProviderFits, TypedInv
<1> QED BY <1>4, <1>5, <1>6

\* The session's exit: its turn is over, and its caches are cleared.
ExitLeaves ==
    /\ handler' \in Handlers /\ handler'.turn = NoTurn /\ handler'.todo # <<>>
    /\ DOMAIN handler'.todo = {1, 2} /\ Len(handler'.todo) = 2
    /\ handler'.todo[1].do = "over" /\ handler'.todo[2].do = "clear"
    /\ handler'.todo[1].text = <<>> /\ handler'.todo[2].text = <<>>

LEMMA ExitTyped ==
    ASSUME TypedInv, SessionExited
    PROVE  /\ TypedInv' /\ ExitLeaves
           /\ ToSet(upset') = ToSet(upset) \cup {"exit"}
<1> USE DEF TypedInv
<1>1. Idle /\ ProviderGone /\ Upsets("exit") /\ UNCHANGED <<mode, thread, active, caches, requests>>
  BY DEF SessionExited
<1> DEFINE a == Simply("over")
           b == Simply("clear")
<1>2. /\ a \in Tasks /\ a.do = "over" /\ a.text = <<>>
      /\ b \in Tasks /\ b.do = "clear" /\ b.text = <<>>
  <2>1. "over" \in Doings /\ "clear" \in Doings
    BY DEF Doings
  <2> QED BY <2>1, SimplyIs
<1>3. Handle(NoTurn, <<a, b>>)
  BY DEF SessionExited
<1> HIDE DEF a, b
<1>4. /\ <<a, b>> \in Seq(Tasks) /\ Len(<<a, b>>) = 2 /\ DOMAIN <<a, b>> = {1, 2}
      /\ <<a, b>>[1] = a /\ <<a, b>>[2] = b /\ <<a, b>> # <<>>
  BY <1>2, TwoTasks
<1>5. handler' \in Handlers /\ handler'.todo = <<a, b>> /\ handler'.turn = NoTurn
  BY <1>3, <1>4, HandleIs
<1>6. ExitLeaves
  BY <1>2, <1>4, <1>5 DEF ExitLeaves
<1>7. provider' \in Provider /\ ProviderFits'
  BY <1>1, GoneIs
<1>8. upset' \in Seq(Kinds) /\ ToSet(upset') = ToSet(upset) \cup {"exit"}
  <2>1. "exit" \in Kinds
    BY DEF Kinds
  <2> QED BY <1>1, <2>1, UpsetsAre
<1>9. TasksFit'
  BY <1>6 DEF ExitLeaves, TasksFit, MessageTasks, TurnTasks
<1>10. SegmentsNumbered'
  BY <1>1, <1>6, NumbersKept DEF ExitLeaves, caches
<1>11. TypeInv'
  BY <1>1, <1>5, <1>7, <1>8 DEF TypeInv, caches, Handlers
<1> QED BY <1>6, <1>7, <1>8, <1>9, <1>10, <1>11


LEMMA RestingIs ==
    ASSUME handler' = Resting
    PROVE  /\ handler' \in Handlers /\ DOMAIN handler'.todo = {} /\ handler'.todo = <<>>
           /\ handler'.turn = NoTurn
BY EmptySeq DEF Resting, Handlers

LEMMA FailureTyped ==
    ASSUME TypedInv, CommandFails
    PROVE  TypedInv' /\ ToSet(upset') = ToSet(upset) \cup {"failure"}
<1> USE DEF TypedInv
<1>1. /\ handler' = Resting /\ Upsets("failure")
      /\ UNCHANGED <<mode, thread, active, known, segment, provider, requests>>
      /\ TakeBuffered(Now.message) \/ UNCHANGED buffered
  BY DEF CommandFails
<1>2. buffered' \in [MessageId -> Seq(Piece)]
  BY <1>1, TakenIs DEF TypeInv
<1>3. upset' \in Seq(Kinds) /\ ToSet(upset') = ToSet(upset) \cup {"failure"}
  <2>1. "failure" \in Kinds
    BY DEF Kinds
  <2> QED BY <1>1, <2>1, UpsetsAre
<1>4. handler' \in Handlers /\ DOMAIN handler'.todo = {}
  BY <1>1, RestingIs
<1>5. TasksFit' /\ ProviderFits'
  BY <1>1, <1>4 DEF TasksFit, ProviderFits
<1>6. SegmentsNumbered'
  BY <1>1, <1>4, NumbersKept
<1>7. TypeInv'
  BY <1>1, <1>2, <1>3, <1>4 DEF TypeInv, Handlers
<1> QED BY <1>3, <1>5, <1>6, <1>7

LEMMA SwitchTyped ==
    ASSUME TypedInv, SwitchMode
    PROVE  /\ TypedInv' /\ ToSet(upset) \subseteq ToSet(upset')
           /\ "switch" \in ToSet(upset') \/ \A m \in MessageId : Text(m) = <<>>
<1> USE DEF TypedInv
<1>1. /\ Idle /\ mode' \in Modes /\ UpsetsIf(\E m \in MessageId : Text(m) # <<>>, "switch")
      /\ UNCHANGED <<thread, active, caches, handler, provider, requests>>
  BY DEF SwitchMode, Modes
<1>2. /\ upset' \in Seq(Kinds) /\ ToSet(upset) \subseteq ToSet(upset')
      /\ (\E m \in MessageId : Text(m) # <<>>) => "switch" \in ToSet(upset')
  <2>1. "switch" \in Kinds
    BY DEF Kinds
  <2> QED BY <1>1, <2>1, UpsetsIfAre
<1>3. TasksFit' /\ ProviderFits' /\ SegmentsNumbered'
  BY <1>1 DEF TasksFit, ProviderFits, SegmentsNumbered, caches
<1>4. TypeInv'
  BY <1>1, <1>2 DEF TypeInv, caches
<1> QED BY <1>2, <1>3, <1>4

LEMMA ExpiryTyped ==
    ASSUME TypedInv, EntryExpires
    PROVE  TypedInv' /\ ToSet(upset') = ToSet(upset) \cup {"expiry"}
<1> USE DEF TypedInv
<1>1. /\ Idle /\ Upsets("expiry")
      /\ UNCHANGED <<mode, thread, active, handler, provider, requests>>
  BY DEF EntryExpires
<1>2. /\ buffered \in [MessageId -> Seq(Piece)] /\ known \in [Turn -> Seq(MessageId)]
      /\ segment \in [Turn -> Segment] /\ NoSegment \in Segment
  BY DEF TypeInv, NoSegment, Segment
<1>3. /\ buffered' \in [MessageId -> Seq(Piece)] /\ known' \in [Turn -> Seq(MessageId)]
      /\ segment' \in [Turn -> Segment]
      /\ \A t \in Turn : segment'[t] = segment[t] \/ segment'[t] = NoSegment
  BY <1>2, EmptySeq DEF EntryExpires, TakeBuffered
<1>4. upset' \in Seq(Kinds) /\ ToSet(upset') = ToSet(upset) \cup {"expiry"}
  <2>1. "expiry" \in Kinds
    BY DEF Kinds
  <2> QED BY <1>1, <2>1, UpsetsAre
<1>5. TasksFit' /\ ProviderFits'
  BY <1>1 DEF TasksFit, ProviderFits
<1>6. SegmentsNumbered'
  BY <1>1, <1>3, IdleIs, NumbersKept
<1>7. TypeInv'
  BY <1>1, <1>3, <1>4 DEF TypeInv
<1> QED BY <1>4, <1>5, <1>6, <1>7

LEMMA RestartTyped ==
    ASSUME TypedInv, Restart
    PROVE  TypedInv' /\ ToSet(upset') = ToSet(upset) \cup {"restart"}
<1> USE DEF TypedInv
<1>1. /\ ProviderGone /\ handler' = Resting /\ active' = NoTurn /\ Upsets("restart")
      /\ UNCHANGED <<mode, thread, requests>>
      /\ buffered' = [m \in MessageId |-> <<>>]
      /\ known' = [t \in Turn |-> <<>>]
      /\ segment' = [t \in Turn |-> NoSegment]
  BY DEF Restart
<1>2. /\ buffered' \in [MessageId -> Seq(Piece)] /\ known' \in [Turn -> Seq(MessageId)]
      /\ segment' \in [Turn -> Segment] /\ \A t \in Turn : segment'[t] = NoSegment
  BY <1>1, EmptySeq DEF NoSegment, Segment
<1>3. provider' \in Provider /\ ProviderFits'
  BY <1>1, GoneIs
<1>4. upset' \in Seq(Kinds) /\ ToSet(upset') = ToSet(upset) \cup {"restart"}
  <2>1. "restart" \in Kinds
    BY DEF Kinds
  <2> QED BY <1>1, <2>1, UpsetsAre
<1>5. handler' \in Handlers /\ DOMAIN handler'.todo = {}
  BY <1>1, RestingIs
<1>6. TasksFit'
  BY <1>5 DEF TasksFit
<1>7. SegmentsNumbered'
  BY <1>1, <1>2, <1>5, NumbersKept
<1>8. TypeInv'
  BY <1>1, <1>2, <1>3, <1>4, <1>5 DEF TypeInv, Handlers
<1> QED BY <1>3, <1>4, <1>6, <1>7, <1>8

LEMMA InitTyped == Init => TypedInv /\ ToSet(upset) = {} /\ Idle /\ Running = NoTurn
<1> SUFFICES ASSUME Init PROVE TypedInv /\ ToSet(upset) = {} /\ Idle /\ Running = NoTurn
  OBVIOUS
<1>1. /\ mode \in Modes /\ thread = <<>> /\ active = NoTurn /\ handler = Resting /\ requests = 0
      /\ upset = <<>>
      /\ buffered \in [MessageId -> Seq(Piece)] /\ known \in [Turn -> Seq(MessageId)]
      /\ segment \in [Turn -> Segment] /\ \A t \in Turn : segment[t] = NoSegment
  BY EmptySeq DEF Init, Modes, NoSegment, Segment
<1>2. /\ provider.turns = 0 /\ provider.ended = {} /\ provider.home = <<>> /\ provider.open = {}
      /\ provider.said = <<>> /\ provider.blank \in SUBSET Piece
      /\ provider \in [turns : {0}, ended : {{}}, home : {<<>>}, open : {{}}, said : {<<>>},
                     blank : SUBSET Piece]
  BY DEF Init
<1>3. provider \in Provider
  <2>1. 0 \in 0..MaxTurns /\ <<>> \in Seq(Turn) /\ <<>> \in Seq(Item)
    BY EmptySeq, Bounds
  <2>2. /\ {0} \subseteq 0..MaxTurns /\ {{}} \subseteq SUBSET Turn /\ {{}} \subseteq SUBSET Item
        /\ {<<>>} \subseteq Seq(Turn) /\ {<<>>} \subseteq Seq(Item)
    BY <2>1
  <2> QED BY <1>2, <2>2, Zenon DEF Provider
<1>4. ProviderFits
  <2>1. Len(<<>>) = 0
    BY EmptySeq
  <2> QED BY <1>2, <2>1, Bounds DEF ProviderFits
<1>5. handler \in Handlers /\ DOMAIN handler.todo = {} /\ handler.todo = <<>>
  BY <1>1, EmptySeq DEF Handlers, Resting
<1>6. TypeInv
  BY <1>1, <1>3, <1>5, EmptySeq, Bounds DEF TypeInv, Handlers
<1>7. TasksFit
  BY <1>5 DEF TasksFit
<1>8. SegmentsNumbered
  BY <1>1, <1>5 DEF SegmentsNumbered, NoSegment
<1>9. ToSet(upset) = {} /\ Idle /\ Running = NoTurn
  <2>1. ToSet(<<>>) = {}
    BY DEF ToSet
  <2> QED BY <1>1, <1>2, <1>5, <2>1 DEF Idle, Running, NoTurn
<1> QED BY <1>4, <1>6, <1>7, <1>8, <1>9 DEF TypedInv

\* No disturbance is ever forgotten.
LEMMA StepTyped ==
    ASSUME TypedInv, [Next]_vars
    PROVE  TypedInv' /\ ToSet(upset) \subseteq ToSet(upset')
<1>1. CASE Work
  BY <1>1, WorkTyped DEF Work, SetSession, DeliverText, FlushText, FinalizeText, CompleteMessage,
         SettlePause, SettleItem, SettleTurn, ClearTurns
<1>2. CASE ContentDelta
  BY <1>2, DeltaTyped, ContentDeltaIs DEF DeltaStep
<1>3. CASE ItemCompleted
  BY <1>3, ItemTyped, ItemCompletedIs DEF ItemStep
<1>4. CASE QuestionAsked \/ TurnCompleted
  BY <1>4, QuestionTyped, TurnTyped DEF QuestionAsked, TurnCompleted
<1>5. CASE UNCHANGED vars
  BY <1>5 DEF vars, caches, TypedInv, TypeInv, ProviderFits, TasksFit, SegmentsNumbered
<1> QED
  BY <1>1, <1>2, <1>3, <1>4, <1>5, NewTurnTyped, ExitTyped, FailureTyped, SwitchTyped,
     ExpiryTyped, RestartTyped DEF Next

\* Whatever the provider sends and whatever the settings, expiries, failures
\* and restarts do in between, the state of processRuntimeEvent stays well
\* formed: every task of a handler is about a message that exists, and the
\* segments of a turn are numbered within the questions that were asked.
THEOREM AssistantTextTypeCorrect == Spec => []TypedInv
<1>1. Init => TypedInv
  BY InitTyped
<1>2. TypedInv /\ [Next]_vars => TypedInv'
  BY StepTyped
<1> QED BY <1>1, <1>2, PTL DEF Spec


-----------------------------------------------------------------------------
(* What each task does *)

Todo == handler.todo

\* Text is sent to the message of the first task, and a buffer is taken for it.
Sends(text, streaming) == Sent(thread', Now.message, handler.turn, text, streaming)
Took == \A m \in MessageId : buffered'[m] = IF m = Now.message THEN <<>> ELSE buffered[m]

LEMMA WorkIs ==
    ASSUME TypedInv, Work
    PROVE  /\ ~Idle /\ UNCHANGED <<mode, provider, requests, upset>>
           /\ MovesOn \/ TurnsToCompletion
<1>1. ~Idle
  BY DEF Work, SetSession, DeliverText, FlushText, FinalizeText, CompleteMessage, SettlePause,
         SettleItem, SettleTurn, ClearTurns, Does
<1>2. UNCHANGED <<mode, provider, requests, upset>>
  BY DEF Work, SetSession, DeliverText, FlushText, FinalizeText, CompleteMessage, SettlePause,
         SettleItem, SettleTurn, ClearTurns
<1>3. CASE GoesOn
  BY <1>1, <1>2, <1>3, GoesOnIs DEF TypedInv
<1>4. CASE ~GoesOn
  <2>1. FinalizeText
    BY <1>4 DEF Work, SetSession, DeliverText, FlushText, CompleteMessage, SettlePause,
                SettleItem, SettleTurn, ClearTurns
  <2>2. Now.do = "finalize" /\ handler' = [handler EXCEPT !.todo[1].do = "complete"]
    BY <2>1, <1>4 DEF FinalizeText, Does
  <2>3. TurnsToCompletion
    BY <1>1, <2>2, CompletionIs DEF TypedInv
  <2> QED BY <1>1, <1>2, <2>3
<1> QED BY <1>3, <1>4

LEMMA SetSessionIs ==
    ASSUME TypedInv, SetSession
    PROVE  /\ Now.do \in {"running", "over"} /\ MovesOn /\ UNCHANGED <<thread, buffered, known, segment>>
           /\ active' = IF Now.do = "running" THEN handler.turn ELSE NoTurn
<1>1. ~Idle /\ GoesOn
  BY DEF SetSession, Does
<1> QED BY <1>1, GoesOnIs DEF SetSession, Does, caches, TypedInv

LEMMA DeliverTextIs ==
    ASSUME TypedInv, DeliverText
    PROVE  /\ Now.do = "deliver" /\ Now.message \in MessageId /\ MovesOn /\ Sends(Now.text, TRUE)
           /\ UNCHANGED <<active, buffered, known, segment>>
<1>1. ~Idle /\ GoesOn /\ Now.do = "deliver" /\ MessageSent(Now.message, Now.text, TRUE)
  BY DEF DeliverText, Does
<1>2. Now.message \in MessageId /\ Now.text \in Seq(Piece)
  BY <1>1, FirstTexts DEF MessageTasks
<1>3. Sends(Now.text, TRUE)
  BY <1>1, <1>2, MessageSentIs DEF TypedInv, Sends
<1> QED BY <1>1, <1>2, <1>3, GoesOnIs DEF DeliverText, caches, TypedInv

LEMMA FlushTextIs ==
    ASSUME TypedInv, FlushText
    PROVE  /\ Now.do = "flush" /\ Now.message \in MessageId /\ MovesOn /\ Took
           /\ \/ Renderable(Text(Now.message)) /\ Sends(Text(Now.message), TRUE)
              \/ ~Renderable(Text(Now.message)) /\ thread' = thread
           /\ UNCHANGED <<active, known, segment>>
<1>1. ~Idle /\ GoesOn /\ Now.do = "flush" /\ TakeBuffered(Now.message)
  BY DEF FlushText, Does
<1>2. Now.message \in MessageId /\ Text(Now.message) \in Seq(Piece)
  BY <1>1, FirstTexts DEF MessageTasks
<1>3. Took
  BY <1>1, TakenIs DEF TypedInv, Took
<1>4. Renderable(Text(Now.message)) => Sends(Text(Now.message), TRUE)
  BY <1>2, MessageSentIs DEF FlushText, TypedInv, Sends
<1>5. ~Renderable(Text(Now.message)) => thread' = thread
  BY DEF FlushText
<1>6. MovesOn
  BY <1>1, GoesOnIs DEF TypedInv
<1> QED BY <1>1, <1>2, <1>3, <1>4, <1>5, <1>6 DEF FlushText

LEMMA FinalizeTextIs ==
    ASSUME TypedInv, FinalizeText
    PROVE  /\ Now.do = "finalize" /\ Now.message \in MessageId /\ Took
           /\ \/ Renderable(FinalText) /\ Sends(FinalText, TRUE) /\ TurnsToCompletion
              \/ ~Renderable(FinalText) /\ thread' = thread /\ Now.projected /\ TurnsToCompletion
              \/ ~Renderable(FinalText) /\ thread' = thread /\ ~Now.projected /\ MovesOn
           /\ UNCHANGED <<active, known, segment>>
<1>1. ~Idle /\ Now.do = "finalize" /\ TakeBuffered(Now.message)
  BY DEF FinalizeText, Does
<1>2. Now.message \in MessageId /\ FinalText \in Seq(Piece)
  BY <1>1, FirstTexts DEF MessageTasks
<1>3. Took
  BY <1>1, TakenIs DEF TypedInv, Took
<1>4. Renderable(FinalText) => Sends(FinalText, TRUE)
  BY <1>2, MessageSentIs DEF FinalizeText, TypedInv, Sends
<1>5. ~Renderable(FinalText) => thread' = thread
  BY DEF FinalizeText
<1>6. CompletionDue => TurnsToCompletion
  BY <1>1, CompletionIs DEF FinalizeText, TypedInv
<1>7. ~CompletionDue => MovesOn
  BY <1>1, GoesOnIs DEF FinalizeText, TypedInv
<1>8. UNCHANGED <<active, known, segment>>
  BY DEF FinalizeText
<1>9. CompletionDue <=> Now.projected \/ Renderable(FinalText)
  BY DEF CompletionDue
<1> HIDE DEF FinalizeText, CompletionDue, Renderable, FinalText, TurnsToCompletion, MovesOn
<1> QED BY <1>1, <1>2, <1>3, <1>4, <1>5, <1>6, <1>7, <1>8, <1>9

LEMMA CompleteMessageIs ==
    ASSUME TypedInv, CompleteMessage
    PROVE  /\ Now.do = "complete" /\ Now.message \in MessageId /\ MovesOn /\ Sends(<<>>, FALSE)
           /\ UNCHANGED <<active, buffered, known, segment>>
<1>1. ~Idle /\ GoesOn /\ Now.do = "complete" /\ MessageSent(Now.message, <<>>, FALSE)
  BY DEF CompleteMessage, Does
<1>2. Now.message \in MessageId /\ <<>> \in Seq(Piece)
  BY <1>1, FirstTexts DEF MessageTasks
<1>3. Sends(<<>>, FALSE)
  BY <1>1, <1>2, MessageSentIs DEF TypedInv, Sends
<1> QED BY <1>1, <1>2, <1>3, GoesOnIs DEF CompleteMessage, caches, TypedInv

\* The end of a pause or of an item: its message is forgotten.
LEMMA SettlesIs ==
    ASSUME TypedInv, SettlePause \/ SettleItem
    PROVE  /\ Now.do \in {"paused", "itemDone"} /\ Now.message \in MessageId /\ MovesOn
           /\ handler.turn \in Turn
           /\ \A t \in Turn : ToSet(known'[t]) \subseteq ToSet(known[t])
           /\ \A t \in Turn : \A m \in ToSet(known[t]) : m = Now.message \/ m \in ToSet(known'[t])
           /\ segment' \in [Turn -> Segment]
           /\ \A t \in Turn \ {handler.turn} : segment'[t] = segment[t]
           /\ segment'[handler.turn].active = NoMessage
           /\ \/ segment'[handler.turn] = NoSegment
              \/ segment'[handler.turn].base = segment[handler.turn].base
                 /\ segment'[handler.turn].next = segment[handler.turn].next
                 /\ SettlePause
           /\ UNCHANGED <<thread, active, buffered>>
<1>1. ~Idle /\ GoesOn /\ Now.do \in {"paused", "itemDone"} /\ Forget(Now.message)
      /\ UNCHANGED <<thread, active, buffered>>
  BY DEF SettlePause, SettleItem, Does
<1>2. Now.message \in MessageId /\ handler.turn \in Turn
  BY <1>1, FirstTaskFits DEF MessageTasks, TurnTasks
<1>3. MovesOn
  BY <1>1, GoesOnIs DEF TypedInv
<1>4. /\ \A t \in Turn : ToSet(known'[t]) \subseteq ToSet(known[t])
      /\ \A t \in Turn : \A m \in ToSet(known[t]) : m = Now.message \/ m \in ToSet(known'[t])
  BY <1>1, ForgottenIs DEF TypedInv
<1>5. segment \in [Turn -> Segment] /\ NoSegment \in Segment /\ NoSegment.active = NoMessage
  BY DEF TypedInv, TypeInv, NoSegment, Segment
<1>6. CASE SettlePause
  <2>1. segment' = [segment EXCEPT ![handler.turn].active = NoMessage]
    BY <1>6 DEF SettlePause
  <2>2. /\ segment' \in [Turn -> Segment] /\ \A t \in Turn \ {handler.turn} : segment'[t] = segment[t]
        /\ segment'[handler.turn].active = NoMessage
        /\ segment'[handler.turn].base = segment[handler.turn].base
        /\ segment'[handler.turn].next = segment[handler.turn].next
    BY <1>2, <1>5, <2>1 DEF Segment
  <2> QED BY <1>1, <1>2, <1>3, <1>4, <1>6, <2>2
<1>7. CASE SettleItem
  <2>1. segment' = [segment EXCEPT ![handler.turn] = NoSegment]
    BY <1>7 DEF SettleItem
  <2>2. /\ segment' \in [Turn -> Segment] /\ \A t \in Turn \ {handler.turn} : segment'[t] = segment[t]
        /\ segment'[handler.turn] = NoSegment /\ segment'[handler.turn].active = NoMessage
    BY <1>2, <1>5, <2>1
  <2> QED BY <1>1, <1>2, <1>3, <1>4, <2>2
<1> QED BY <1>6, <1>7

LEMMA SettleTurnIs ==
    ASSUME TypedInv, SettleTurn
    PROVE  /\ Now.do = "turnDone" /\ MovesOn /\ handler.turn \in Turn
           /\ \A t \in Turn : known'[t] = IF t = handler.turn THEN <<>> ELSE known[t]
           /\ \A t \in Turn : segment'[t] = IF t = handler.turn THEN NoSegment ELSE segment[t]
           /\ UNCHANGED <<thread, active, buffered>>
<1>1. ~Idle /\ GoesOn /\ Now.do = "turnDone"
  BY DEF SettleTurn, Does
<1>2. handler.turn \in Turn
  BY <1>1, FirstTaskFits DEF TurnTasks
<1>3. MovesOn
  BY <1>1, GoesOnIs DEF TypedInv
<1> QED BY <1>1, <1>2, <1>3 DEF SettleTurn, TypedInv, TypeInv

LEMMA ClearTurnsIs ==
    ASSUME TypedInv, ClearTurns
    PROVE  /\ Now.do = "clear" /\ MovesOn
           /\ \A m \in MessageId : buffered'[m] \in {<<>>, buffered[m]}
           /\ \A t \in Turn : \A m \in ToSet(known[t]) : m \in MessageId => buffered'[m] = <<>>
           /\ \A t \in Turn : known'[t] = <<>> /\ segment'[t] = NoSegment
           /\ UNCHANGED <<thread, active>>
<1>1. ~Idle /\ GoesOn /\ Now.do = "clear"
  BY DEF ClearTurns, Does
<1>2. MovesOn
  BY <1>1, GoesOnIs DEF TypedInv
<1>3. ASSUME NEW t \in Turn, NEW m \in ToSet(known[t])
      PROVE  Contains(known[t], m)
  <2>1. known[t] \in Seq(MessageId)
    BY DEF TypedInv, TypeInv
  <2> QED BY <1>3, <2>1, LenProperties DEF Contains, ToSet
<1> QED BY <1>1, <1>2, <1>3 DEF ClearTurns


-----------------------------------------------------------------------------
(* The order of the tasks *)

\* Where in a handler its tasks are.
TasksOrdered ==
    \A n \in DOMAIN Todo :
        /\ Todo[n].do \in {"paused", "itemDone", "turnDone", "clear"} => n = Len(Todo)
        /\ Todo[n].do \in {"paused", "itemDone"} /\ n # 1 =>
              /\ n - 1 \in DOMAIN Todo /\ Todo[n - 1].do \in {"finalize", "complete"}
              /\ Todo[n - 1].message = Todo[n].message
        /\ Todo[n].do \in {"complete", "over", "deliver", "running"} => n = 1
        /\ Todo[n].do \in {"deliver", "running"} => Len(Todo) = 1
        /\ Todo[n].do = "finalize" /\ Todo[n].text # <<>> => n = 1

\* What was done before a task, and what it was made for.
TasksMean ==
    \A n \in DOMAIN Todo :
        /\ Todo[n].do \in {"complete", "paused", "itemDone"} /\ n = 1 => Text(Todo[n].message) = <<>>
        /\ Todo[n].do = "clear" => ~Lasting /\ Running = NoTurn /\ provider.open = {}
        /\ Todo[n].do = "running" => handler.turn = provider.turns /\ Running = handler.turn

\* A segment is one of an item that has begun.
BasesFit == \A t \in Turn : segment[t].base \in {0} \cup DOMAIN provider.home

HandlerInv == TypedInv /\ TasksOrdered /\ TasksMean /\ BasesFit

\* A handler that has not begun, or has just ended.
LEMMA NothingToDo ==
    ASSUME DOMAIN handler.todo = {}
    PROVE  TasksOrdered /\ TasksMean
BY DEF TasksOrdered, TasksMean, Todo

LEMMA NothingMoreToDo ==
    ASSUME DOMAIN handler'.todo = {}
    PROVE  TasksOrdered' /\ TasksMean'
BY DEF TasksOrdered, TasksMean, Todo

\* The handler that is left has as many tasks as its first one did not do.
LEMMA MovedOn ==
    ASSUME TypedInv, ~Idle, MovesOn
    PROVE  /\ \A n \in DOMAIN handler'.todo :
                 /\ n + 1 \in DOMAIN Todo /\ handler'.todo[n] = Todo[n + 1] /\ n \in Nat /\ n >= 1
                 /\ handler'.turn = handler.turn
           /\ \A n \in DOMAIN Todo :
                 n # 1 => n - 1 \in DOMAIN handler'.todo /\ handler'.todo[n - 1] = Todo[n]
           /\ Len(handler'.todo) = Len(Todo) - 1 /\ Len(Todo) \in Nat
           /\ 1 \in DOMAIN Todo /\ Now = Todo[1] /\ DOMAIN Todo = 1..Len(Todo)
           /\ DOMAIN handler'.todo = 1..Len(handler'.todo)
<1>1. handler'.todo \in Seq(Tasks)
  BY DEF MovesOn, Handlers
<1>2. DOMAIN handler'.todo = 1..Len(handler'.todo) /\ Len(handler'.todo) \in Nat
  BY <1>1, LenProperties
<1>3. ASSUME NEW n \in DOMAIN handler'.todo
      PROVE  handler'.turn = handler.turn
  <2>1. handler'.todo # <<>>
    BY <1>3
  <2> QED BY <2>1 DEF MovesOn
<1>4. /\ 1 \in DOMAIN Todo /\ Now = Todo[1] /\ DOMAIN Todo = 1..Len(Todo) /\ Len(Todo) \in Nat
  BY FirstTask DEF TypedInv, Todo
<1> QED
  BY <1>1, <1>2, <1>3, <1>4 DEF MovesOn, Todo

LEMMA TurnedToCompletion ==
    ASSUME TypedInv, ~Idle, TurnsToCompletion
    PROVE  /\ DOMAIN handler'.todo = DOMAIN Todo /\ Len(handler'.todo) = Len(Todo)
           /\ \A n \in DOMAIN Todo : n # 1 => handler'.todo[n] = Todo[n]
           /\ handler'.todo[1].do = "complete" /\ handler'.todo[1].message = Todo[1].message
           /\ handler'.turn = handler.turn /\ Todo[1].do = "finalize"
           /\ 1 \in DOMAIN Todo /\ Now = Todo[1] /\ DOMAIN Todo = 1..Len(Todo) /\ Len(Todo) \in Nat
<1>4. /\ 1 \in DOMAIN Todo /\ Now = Todo[1] /\ DOMAIN Todo = 1..Len(Todo) /\ Len(Todo) \in Nat
  BY FirstTask DEF TypedInv, Todo
<1> QED
  BY <1>4 DEF TurnsToCompletion, Todo

LEMMA OrderedMovesOn ==
    ASSUME TypedInv, TasksOrdered, ~Idle, MovesOn
    PROVE  TasksOrdered'
<1>1. SUFFICES ASSUME NEW n \in DOMAIN handler'.todo
      PROVE
        /\ handler'.todo[n].do \in {"paused", "itemDone", "turnDone", "clear"} => n = Len(handler'.todo)
        /\ handler'.todo[n].do \in {"paused", "itemDone"} /\ n # 1 =>
              /\ n - 1 \in DOMAIN handler'.todo /\ handler'.todo[n - 1].do \in {"finalize", "complete"}
              /\ handler'.todo[n - 1].message = handler'.todo[n].message
        /\ handler'.todo[n].do \in {"complete", "over", "deliver", "running"} => n = 1
        /\ handler'.todo[n].do \in {"deliver", "running"} => Len(handler'.todo) = 1
        /\ handler'.todo[n].do = "finalize" /\ handler'.todo[n].text # <<>> => n = 1
  BY DEF TasksOrdered, Todo
<1>8. n + 1 \in DOMAIN Todo /\ handler'.todo[n] = Todo[n + 1] /\ n \in Nat /\ n >= 1
  BY MovedOn, Zenon
<1>2. /\ n + 1 \in DOMAIN Todo /\ handler'.todo[n] = Todo[n + 1] /\ n \in Nat /\ n >= 1
      /\ n + 1 # 1 /\ (n + 1) - 1 = n
  BY <1>8
<1>3. Len(handler'.todo) = Len(Todo) - 1 /\ Len(Todo) \in Nat /\ DOMAIN handler'.todo = 1..Len(handler'.todo)
  BY MovedOn, Zenon
<1>4. Todo[n + 1].do \notin {"complete", "over", "deliver", "running"}
  BY <1>2 DEF TasksOrdered
<1>5. ~(Todo[n + 1].do = "finalize" /\ Todo[n + 1].text # <<>>)
  BY <1>2 DEF TasksOrdered
<1>6. Todo[n + 1].do \in {"paused", "itemDone", "turnDone", "clear"} => n + 1 = Len(Todo)
  BY <1>2 DEF TasksOrdered
<1>7. ASSUME Todo[n + 1].do \in {"paused", "itemDone"}, n # 1
      PROVE  /\ n - 1 \in DOMAIN handler'.todo /\ handler'.todo[n - 1].do \in {"finalize", "complete"}
             /\ handler'.todo[n - 1].message = Todo[n + 1].message
  <2>1. n \in DOMAIN Todo /\ Todo[n].do \in {"finalize", "complete"} /\ Todo[n].message = Todo[n + 1].message
    BY <1>2, <1>7 DEF TasksOrdered
  <2>2. n - 1 \in DOMAIN handler'.todo /\ handler'.todo[n - 1] = Todo[n]
    BY <1>7, <2>1, MovedOn, Zenon
  <2> QED BY <2>1, <2>2
<1> QED
  BY <1>2, <1>3, <1>4, <1>5, <1>6, <1>7

LEMMA OrderedCompletes ==
    ASSUME TypedInv, TasksOrdered, ~Idle, TurnsToCompletion
    PROVE  TasksOrdered'
<1>1. SUFFICES ASSUME NEW n \in DOMAIN handler'.todo
      PROVE
        /\ handler'.todo[n].do \in {"paused", "itemDone", "turnDone", "clear"} => n = Len(handler'.todo)
        /\ handler'.todo[n].do \in {"paused", "itemDone"} /\ n # 1 =>
              /\ n - 1 \in DOMAIN handler'.todo /\ handler'.todo[n - 1].do \in {"finalize", "complete"}
              /\ handler'.todo[n - 1].message = handler'.todo[n].message
        /\ handler'.todo[n].do \in {"complete", "over", "deliver", "running"} => n = 1
        /\ handler'.todo[n].do \in {"deliver", "running"} => Len(handler'.todo) = 1
        /\ handler'.todo[n].do = "finalize" /\ handler'.todo[n].text # <<>> => n = 1
  BY DEF TasksOrdered, Todo
<1>2. CASE n = 1
  BY <1>2, TurnedToCompletion
<1>3. CASE n # 1
  <2>1. n \in DOMAIN Todo /\ handler'.todo[n] = Todo[n] /\ Len(handler'.todo) = Len(Todo)
        /\ DOMAIN handler'.todo = DOMAIN Todo
    BY <1>3, TurnedToCompletion
  <2>2. ASSUME Todo[n].do \in {"paused", "itemDone"}
        PROVE  /\ n - 1 \in DOMAIN handler'.todo /\ handler'.todo[n - 1].do \in {"finalize", "complete"}
               /\ handler'.todo[n - 1].message = Todo[n].message
    <3>1. n - 1 \in DOMAIN Todo /\ Todo[n - 1].do \in {"finalize", "complete"}
          /\ Todo[n - 1].message = Todo[n].message
      BY <1>3, <2>1, <2>2 DEF TasksOrdered
    <3>2. CASE n - 1 = 1
      BY <2>1, <3>1, <3>2, TurnedToCompletion
    <3>3. CASE n - 1 # 1
      BY <2>1, <3>1, <3>3, TurnedToCompletion
    <3> QED BY <3>2, <3>3
  <2> QED BY <2>1, <2>2 DEF TasksOrdered
<1> QED BY <1>2, <1>3


\* What the first task is, it is the step that does it.
LEMMA WorkDoes ==
    ASSUME Work
    PROVE  /\ Now.do \in {"running", "over"} => SetSession
           /\ Now.do = "deliver" => DeliverText
           /\ Now.do = "flush" => FlushText
           /\ Now.do = "finalize" => FinalizeText
           /\ Now.do = "complete" => CompleteMessage
           /\ Now.do = "paused" => SettlePause
           /\ Now.do = "itemDone" => SettleItem
           /\ Now.do = "turnDone" => SettleTurn
           /\ Now.do = "clear" => ClearTurns
BY DEF Work, SetSession, DeliverText, FlushText, FinalizeText, CompleteMessage, SettlePause,
       SettleItem, SettleTurn, ClearTurns, Does

LEMMA WorkKeepsHandler ==
    ASSUME HandlerInv, Work
    PROVE  HandlerInv'
<1> USE DEF HandlerInv
<1>1. TypedInv'
  BY WorkTyped
<1>2. ~Idle /\ UNCHANGED <<mode, provider, requests, upset>> /\ (MovesOn \/ TurnsToCompletion)
  BY WorkIs
<1>3. TasksOrdered'
  BY <1>2, OrderedMovesOn, OrderedCompletes
<1>4. Running' = Running /\ (Lasting' <=> Lasting)
  BY <1>2 DEF Running, Lasting, Without
<1>5. BasesFit'
  <2>1. 0 \in {0} \cup DOMAIN provider.home /\ NoSegment.base = 0
    BY DEF NoSegment
  <2>2. CASE UNCHANGED segment
    BY <1>2, <2>2 DEF BasesFit
  <2>3. CASE SettlePause \/ SettleItem
    BY <1>2, <2>1, <2>3, SettlesIs DEF BasesFit
  <2>4. CASE SettleTurn \/ ClearTurns
    BY <1>2, <2>1, <2>4, SettleTurnIs, ClearTurnsIs DEF BasesFit
  <2>5. UNCHANGED segment \/ SettlePause \/ SettleItem \/ SettleTurn \/ ClearTurns
    BY DEF Work, SetSession, DeliverText, FlushText, FinalizeText, CompleteMessage, caches
  <2> QED BY <2>2, <2>3, <2>4, <2>5
<1>6. Now.do = "finalize" => buffered'[Now.message] = <<>>
  BY WorkDoes, FinalizeTextIs DEF Took
<1>7. Now.do = "complete" => buffered'[Now.message] = <<>>
  <2>1. SUFFICES ASSUME Now.do = "complete" PROVE buffered'[Now.message] = <<>>
    OBVIOUS
  <2>2. buffered' = buffered
    BY <2>1, WorkDoes, CompleteMessageIs
  <2>3. 1 \in DOMAIN Todo /\ Now = Todo[1]
    BY <1>2, FirstTask DEF TypedInv, Todo
  <2>4. Text(Todo[1].message) = <<>>
    BY <2>1, <2>3 DEF TasksMean
  <2> QED BY <2>2, <2>3, <2>4 DEF Text
<1>8. SUFFICES ASSUME NEW n \in DOMAIN handler'.todo
      PROVE
        /\ handler'.todo[n].do \in {"complete", "paused", "itemDone"} /\ n = 1 =>
              buffered'[handler'.todo[n].message] = <<>>
        /\ handler'.todo[n].do = "clear" => ~Lasting /\ Running = NoTurn /\ provider.open = {}
        /\ handler'.todo[n].do = "running" => handler'.turn = provider.turns /\ Running = handler'.turn
  <2>1. TasksMean'
    BY <1>2, <1>4, <1>8 DEF TasksMean, Todo, Text
  <2> QED BY <1>1, <1>3, <1>5, <2>1
<1>9. CASE MovesOn
  <2>1. n + 1 \in DOMAIN Todo /\ handler'.todo[n] = Todo[n + 1] /\ n \in Nat /\ n >= 1
        /\ 1 \in DOMAIN Todo /\ Now = Todo[1]
    BY <1>2, <1>9, MovedOn, Zenon
  <2>2. n + 1 # 1 /\ (n = 1 => n + 1 = 2 /\ (n + 1) - 1 = 1)
    BY <2>1
  <2>3. Todo[n + 1].do \notin {"complete", "running"}
    BY <2>1, <2>2 DEF TasksOrdered
  <2>4. Todo[n + 1].do = "clear" => ~Lasting /\ Running = NoTurn /\ provider.open = {}
    BY <2>1 DEF TasksMean
  <2>5. ASSUME Todo[n + 1].do \in {"paused", "itemDone"}, n = 1
        PROVE  buffered'[Todo[n + 1].message] = <<>>
    <3>1. Todo[1].do \in {"finalize", "complete"} /\ Todo[1].message = Todo[n + 1].message
      BY <2>1, <2>2, <2>5 DEF TasksOrdered
    <3> QED BY <1>6, <1>7, <2>1, <3>1
  <2> QED BY <2>1, <2>3, <2>4, <2>5
<1>10. CASE TurnsToCompletion
  <2>1. CASE n = 1
    BY <1>2, <1>6, <1>10, <2>1, TurnedToCompletion
  <2>2. CASE n # 1
    <3>1. n \in DOMAIN Todo /\ handler'.todo[n] = Todo[n]
      BY <1>2, <1>10, <2>2, TurnedToCompletion
    <3>2. Todo[n].do # "running"
      BY <2>2, <3>1 DEF TasksOrdered
    <3> QED BY <2>2, <3>1, <3>2 DEF TasksMean
  <2> QED BY <2>1, <2>2
<1> QED BY <1>2, <1>9, <1>10

LEMMA BasesKept ==
    ASSUME BasesFit, DOMAIN provider.home \subseteq DOMAIN provider'.home,
           \A t \in Turn : segment'[t].base = segment[t].base \/ segment'[t].base = 0
                           \/ segment'[t].base \in DOMAIN provider'.home
    PROVE  BasesFit'
BY DEF BasesFit

\* The events that leave the handler without a task.
LEMMA BasesReset ==
    ASSUME HandlerInv, [Next]_vars, ~ContentDelta
    PROVE  \A t \in Turn : segment'[t].base = segment[t].base \/ segment'[t].base = 0
<1> USE DEF HandlerInv
<1>1. NoSegment.base = 0 /\ segment \in [Turn -> Segment]
  BY DEF NoSegment, TypedInv, TypeInv
<1>2. CASE Work
  <2>1. UNCHANGED segment \/ SettlePause \/ SettleItem \/ SettleTurn \/ ClearTurns
    BY <1>2 DEF Work, SetSession, DeliverText, FlushText, FinalizeText, CompleteMessage, caches
  <2> QED BY <1>1, <2>1, SettlesIs, SettleTurnIs, ClearTurnsIs
<1>3. CASE ItemCompleted
  BY <1>1, <1>3, ItemCompletedIs DEF ItemStep, ItemLeaves
<1>4. CASE EntryExpires
  BY <1>1, <1>4 DEF EntryExpires
<1>5. CASE Restart
  BY <1>1, <1>5 DEF Restart
<1>6. CASE UNCHANGED segment
  BY <1>6
<1> QED
  BY <1>2, <1>3, <1>4, <1>5, <1>6 DEF Next, vars, caches, CommandFails, TurnStarted, QuestionAsked,
     TurnCompleted, SessionExited, SwitchMode

LEMMA HomesKept ==
    ASSUME TypedInv, [Next]_vars
    PROVE  /\ DOMAIN provider.home \subseteq DOMAIN provider'.home
           /\ \A i \in DOMAIN provider.home : provider'.home[i] = provider.home[i]
<1>1. CASE ContentDelta
  BY <1>1, ContentDeltaIs DEF DeltaStep, Added, Continued
<1>2. CASE ItemCompleted
  BY <1>2, ItemCompletedIs DEF ItemStep, Added, Continued
<1>3. CASE TurnStarted \/ TurnCompleted
  BY <1>3, NewTurnTyped, TurnTyped DEF TurnStep
<1>4. CASE SessionExited \/ Restart
  BY <1>4, GoneIs DEF SessionExited, Restart
<1>5. CASE Work
  BY <1>5, WorkIs
<1>6. CASE UNCHANGED provider
  BY <1>6
<1> QED
  BY <1>1, <1>2, <1>3, <1>4, <1>5, <1>6 DEF Next, vars, CommandFails, QuestionAsked, SwitchMode,
     EntryExpires


LEMMA OneIs ==
    ASSUME NEW s \in Seq(Tasks), DOMAIN s = {1}
    PROVE  Len(s) = 1
<1> DEFINE l == Len(s)
<1>1. l \in Nat /\ 1..l = {1}
  BY LenProperties
<1> HIDE DEF l
<1>2. 1 \in 1..l
  BY <1>1
<1>3. l >= 1
  BY <1>1, <1>2
<1>4. l \in 1..l
  BY <1>1, <1>3
<1> QED BY <1>1, <1>4 DEF l

LEMMA EventsKeepHandler ==
    ASSUME HandlerInv, [Next]_vars, ~Work
    PROVE  TasksOrdered' /\ TasksMean'
<1> USE DEF HandlerInv
<1>1. CASE TurnStarted
  <2>1. /\ handler'.turn = provider.turns + 1 /\ DOMAIN handler'.todo = {1}
        /\ handler'.todo[1].do = "running" /\ handler'.todo[1].text = <<>>
        /\ provider'.turns = provider.turns + 1 /\ provider'.ended = provider.ended
        /\ TypedInv'
    BY <1>1, NewTurnTyped
  <2>2. Len(handler'.todo) = 1
    <3>1. handler'.todo \in Seq(Tasks)
      BY <2>1 DEF TypedInv, TypeInv
    <3> QED BY <2>1, <3>1, OneIs
  <2>3. Running' = provider.turns + 1
    <3>1. provider.turns \in Nat /\ provider.ended \subseteq 1..provider.turns
      BY Bounds DEF TypedInv, TypeInv, Provider, ProviderFits
    <3>2. provider.turns + 1 \notin provider.ended
      BY <3>1
    <3> QED BY <2>1, <3>2 DEF Running
  <2> QED BY <2>1, <2>2, <2>3 DEF TasksOrdered, TasksMean, Todo
<1>2. CASE ContentDelta
  <2>1. PICK item \in Item, t \in {NoTurn} \cup Turn, turn \in {NoTurn} \cup Turn, id \in MessageId :
            DeltaStep(item, t, turn, id)
    BY <1>2, ContentDeltaIs
  <2>2. CASE handler' = handler
    <3>1. Idle
      BY <1>2 DEF ContentDelta
    <3> QED BY <2>2, <3>1, IdleIs, NothingMoreToDo
  <2>3. CASE handler' # handler
    <3>1. DOMAIN handler'.todo = {1} /\ handler'.todo[1].do = "deliver" /\ handler' \in Handlers
      BY <2>1, <2>3 DEF DeltaStep, DeltaLeaves
    <3>2. Len(handler'.todo) = 1
      <4>1. handler'.todo \in Seq(Tasks)
        BY <3>1 DEF Handlers
      <4> QED BY <3>1, <4>1, OneIs
    <3> QED BY <3>1, <3>2 DEF TasksOrdered, TasksMean, Todo
  <2> QED BY <2>2, <2>3
<1>3. CASE QuestionAsked
  <2>1. QuestionLeaves
    BY <1>3, QuestionIs
  <2>2. \A n \in DOMAIN handler'.todo :
           /\ handler'.todo[n].text = <<>>
           /\ handler'.todo[n].do \in {"flush", "finalize", "paused"}
           /\ handler'.todo[n].do = "paused" =>
                 /\ n = Len(handler'.todo) /\ n - 1 \in DOMAIN handler'.todo
                 /\ handler'.todo[n - 1].do = "finalize"
                 /\ handler'.todo[n - 1].message = handler'.todo[n].message
    BY <2>1 DEF QuestionLeaves
  <2>3. \A n \in DOMAIN handler'.todo : n - 1 \in DOMAIN handler'.todo => n # 1
    <3>1. handler'.todo \in Seq(Tasks)
      BY <2>1 DEF QuestionLeaves, Handlers
    <3>2. DOMAIN handler'.todo = 1..Len(handler'.todo) /\ Len(handler'.todo) \in Nat
      BY <3>1, LenProperties
    <3> QED BY <3>2
  <2> QED BY <2>2, <2>3 DEF TasksOrdered, TasksMean, Todo
<1>4. CASE ItemCompleted
  <2>1. PICK item \in Item, turn \in {NoTurn} \cup Turn, detail \in Seq(Piece) :
            ItemStep(item, turn, detail)
    BY <1>4, ItemCompletedIs
  <2>2. CASE handler' = handler
    <3>1. Idle
      BY <1>4 DEF ItemCompleted
    <3> QED BY <2>2, <3>1, IdleIs, NothingMoreToDo
  <2>3. CASE handler' # handler
    <3>1. PICK id \in MessageId :
             /\ handler' \in Handlers
             /\ DOMAIN handler'.todo = IF turn = NoTurn THEN {1} ELSE {1, 2}
             /\ handler'.todo[1].do = "finalize" /\ handler'.todo[1].message = id
             /\ turn # NoTurn =>
                   handler'.todo[2].do = "itemDone" /\ handler'.todo[2].message = id
                   /\ handler'.todo[2].text = <<>>
      BY <2>1, <2>3 DEF ItemStep, ItemLeaves
    <3>2. handler'.todo \in Seq(Tasks)
      BY <3>1 DEF Handlers
    <3>3. DOMAIN handler'.todo = 1..Len(handler'.todo) /\ Len(handler'.todo) \in Nat
      BY <3>2, LenProperties
    <3>4. 2 \in DOMAIN handler'.todo => Len(handler'.todo) = 2 /\ 1 \in DOMAIN handler'.todo
      BY <3>1, <3>3
    <3>5. TasksOrdered'
      <4>1. \A n \in DOMAIN handler'.todo : n = 1 \/ (n = 2 /\ turn # NoTurn /\ n - 1 = 1)
        BY <3>1
      <4> QED BY <3>1, <3>4, <4>1 DEF TasksOrdered, Todo
    <3>6. TasksMean'
      BY <3>1 DEF TasksMean, Todo
    <3> QED BY <3>5, <3>6
  <2> QED BY <2>2, <2>3
<1>5. CASE TurnCompleted
  BY <1>5, TurnTyped DEF TurnStep, TurnLeaves, TasksOrdered, TasksMean, Todo
<1>6. CASE SessionExited
  <2>1. ExitLeaves /\ ToSet(upset') = ToSet(upset) \cup {"exit"}
    BY <1>6, ExitTyped
  <2>2. provider'.open = {} /\ provider'.ended = 1..provider.turns /\ provider'.turns = provider.turns
    BY <1>6, GoneIs DEF SessionExited
  <2>3. Running' = NoTurn
    <3>1. provider.turns \in Nat
      BY DEF TypedInv, TypeInv, Provider
    <3>2. provider.turns = 0 \/ provider.turns \in 1..provider.turns
      BY <3>1
    <3> QED BY <2>2, <3>2 DEF Running, NoTurn
  <2>4. ~Lasting'
    BY <2>1 DEF Lasting, Without
  <2> QED BY <2>1, <2>2, <2>3, <2>4 DEF ExitLeaves, TasksOrdered, TasksMean, Todo
<1>7. CASE CommandFails \/ Restart
  BY <1>7, RestingIs, NothingMoreToDo DEF CommandFails, Restart
<1>8. CASE SwitchMode \/ EntryExpires
  BY <1>8, IdleIs, NothingMoreToDo DEF SwitchMode, EntryExpires
<1>9. CASE UNCHANGED vars
  BY <1>9 DEF vars, caches, TasksOrdered, TasksMean, Todo, Text, Lasting, Without, Running
<1> QED
  BY <1>1, <1>2, <1>3, <1>4, <1>5, <1>6, <1>7, <1>8, <1>9 DEF Next

LEMMA HandlerKept ==
    ASSUME HandlerInv, [Next]_vars
    PROVE  HandlerInv'
<1> USE DEF HandlerInv
<1>1. CASE Work
  BY <1>1, WorkKeepsHandler
<1>2. CASE ~Work
  <2>1. TypedInv' /\ TasksOrdered' /\ TasksMean'
    BY <1>2, StepTyped, EventsKeepHandler
  <2>2. DOMAIN provider.home \subseteq DOMAIN provider'.home
    BY HomesKept
  <2>3. \A t \in Turn : segment'[t].base = segment[t].base \/ segment'[t].base = 0
                           \/ segment'[t].base \in DOMAIN provider'.home
    <3>1. CASE ~ContentDelta
      BY <3>1, BasesReset
    <3>2. CASE ContentDelta
      <4>1. PICK item \in Item, t \in {NoTurn} \cup Turn, turn \in {NoTurn} \cup Turn, id \in MessageId :
                DeltaStep(item, t, turn, id)
        BY <3>2, ContentDeltaIs
      <4>2. item \in DOMAIN provider'.home /\ Segments(turn, item, id) /\ segment \in [Turn -> Segment]
        BY <4>1 DEF DeltaStep, Added, Continued, TypedInv, TypeInv
      <4> QED BY <4>2 DEF Segments
    <3> QED BY <3>1, <3>2
  <2> QED BY <2>1, <2>2, <2>3, BasesKept
<1> QED BY <1>1, <1>2

LEMMA HandlerBegins == Init => HandlerInv
<1> SUFFICES ASSUME Init PROVE HandlerInv
  OBVIOUS
<1>1. TypedInv /\ Idle
  BY InitTyped
<1>2. TasksOrdered /\ TasksMean
  BY <1>1, IdleIs, NothingToDo
<1>3. BasesFit
  BY DEF Init, BasesFit, NoSegment
<1> QED BY <1>1, <1>2, <1>3 DEF HandlerInv


-----------------------------------------------------------------------------
(* The turn of a message *)

Steady == Without({"failure", "late"})

\* The session's active turn is the one the provider runs, or is about to be.
TurnInStep ==
    /\ Running # NoTurn /\ active # Running => \E n \in DOMAIN Todo : Todo[n].do = "running"
    /\ \A n \in DOMAIN Todo : Todo[n].do = "over" => Running = NoTurn

Of(m, t) == m[1] \in DOMAIN provider.home /\ provider.home[m[1]] = t
KnownHome == \A t \in Turn : \A m \in ToSet(known[t]) : Of(m, t)
SegmentHome == \A t \in Turn : segment[t].active # NoMessage => Of(segment[t].active, t)
RowHome ==
    \A k \in DOMAIN thread :
        /\ thread[k].id[1] \in DOMAIN provider.home
        /\ thread[k].turn = NoTurn \/ thread[k].turn = provider.home[thread[k].id[1]]
TaskHome ==
    \A n \in DOMAIN Todo : Todo[n].do \in MessageTasks =>
        /\ Todo[n].message[1] \in DOMAIN provider.home
        /\ handler.turn = NoTurn \/ handler.turn = provider.home[Todo[n].message[1]]
TextHome == \A m \in MessageId : Text(m) # <<>> => m[1] \in DOMAIN provider.home

\* A message is of the turn of its item, wherever it is remembered.
Homes == KnownHome /\ SegmentHome /\ RowHome /\ TaskHome /\ TextHome

SteadyInv == HandlerInv /\ (Steady => TurnInStep /\ Homes)

\* What may have changed of the messages' turns where only the handler works.
LEMMA WorkKeepsSteady ==
    ASSUME SteadyInv, Work
    PROVE  SteadyInv'
<1> USE DEF SteadyInv
<1> HIDE DEF HandlerInv
<1>1. HandlerInv' /\ HandlerInv /\ TypedInv /\ TasksOrdered /\ TasksMean
  BY WorkKeepsHandler DEF HandlerInv
<1>2. ~Idle /\ UNCHANGED <<mode, provider, requests, upset>> /\ (MovesOn \/ TurnsToCompletion)
  BY <1>1, WorkIs
<1>3. Running' = Running /\ (Steady' <=> Steady)
  BY <1>2 DEF Running, Steady, Without
<1>4. SUFFICES ASSUME Steady PROVE TurnInStep' /\ Homes'
  BY <1>1, <1>3
<1>5. TurnInStep /\ KnownHome /\ SegmentHome /\ RowHome /\ TaskHome /\ TextHome
  BY <1>4 DEF Homes
<1>6. 1 \in DOMAIN Todo /\ Now = Todo[1]
  BY <1>1, <1>2, FirstTask DEF TypedInv, Todo
<1>7. \A n \in DOMAIN handler'.todo :
        \E k \in DOMAIN Todo :
           /\ handler'.todo[n].message = Todo[k].message /\ handler'.turn = handler.turn
           /\ \/ handler'.todo[n] = Todo[k] /\ k # 1
              \/ handler'.todo[n].do = "complete" /\ Todo[k].do = "finalize"
  <2>1. CASE MovesOn
    <3>1. ASSUME NEW n \in DOMAIN handler'.todo
          PROVE  n + 1 \in DOMAIN Todo /\ handler'.todo[n] = Todo[n + 1] /\ n \in Nat /\ n >= 1
                 /\ handler'.turn = handler.turn
      BY <1>1, <1>2, <2>1, MovedOn, Zenon
    <3>2. \A n \in Nat : n >= 1 => n + 1 # 1
      OBVIOUS
    <3> QED BY <3>1, <3>2
  <2>2. CASE TurnsToCompletion
    BY <1>1, <1>2, <2>2, TurnedToCompletion
  <2> QED BY <1>2, <2>1, <2>2
<1>8. TurnInStep'
  <2>1. \A n \in DOMAIN handler'.todo : handler'.todo[n].do # "over"
    BY <1>1, <1>7 DEF TasksOrdered
  <2>2. ASSUME Running # NoTurn, active' # Running
        PROVE  FALSE
    <3>1. CASE SetSession
      <4>1. /\ Now.do \in {"running", "over"}
            /\ active' = IF Now.do = "running" THEN handler.turn ELSE NoTurn
        BY <1>1, <3>1, SetSessionIs
      <4>2. Now.do = "running" => Running = handler.turn
        BY <1>1, <1>6 DEF TasksMean
      <4>3. Now.do = "over" => Running = NoTurn
        BY <1>5, <1>6 DEF TurnInStep
      <4> QED BY <2>2, <4>1, <4>2, <4>3
    <3>2. CASE ~SetSession
      <4>1. active' = active
        BY <3>2 DEF Work, DeliverText, FlushText, FinalizeText, CompleteMessage, SettlePause,
                    SettleItem, SettleTurn, ClearTurns
      <4>2. PICK n \in DOMAIN Todo : Todo[n].do = "running"
        BY <1>5, <2>2, <4>1 DEF TurnInStep
      <4>3. n = 1
        BY <1>1, <4>2 DEF TasksOrdered
      <4>4. Now.do = "running"
        BY <1>6, <4>2, <4>3
      <4> QED BY <3>2, <4>4, WorkDoes
    <3> QED BY <3>1, <3>2
  <2> QED BY <1>3, <2>1, <2>2 DEF TurnInStep, Todo
<1>9. KnownHome'
  <2>1. \A t \in Turn : ToSet(known'[t]) \subseteq ToSet(known[t]) \/ known'[t] = <<>>
    <3>1. CASE SettlePause \/ SettleItem
      BY <1>1, <3>1, SettlesIs
    <3>2. CASE SettleTurn
      BY <1>1, <3>2, SettleTurnIs
    <3>3. CASE ClearTurns
      BY <1>1, <3>3, ClearTurnsIs
    <3>4. CASE UNCHANGED known
      BY <3>4
    <3> QED BY <3>1, <3>2, <3>3, <3>4 DEF Work, SetSession, DeliverText, FlushText, FinalizeText,
                                          CompleteMessage, caches
  <2>2. ToSet(<<>>) = {}
    BY DEF ToSet
  <2> QED BY <1>2, <1>5, <2>1, <2>2 DEF KnownHome, Of
<1>10. SegmentHome'
  <2>1. \A t \in Turn : segment'[t] = segment[t] \/ segment'[t].active = NoMessage
    <3>1. CASE SettlePause \/ SettleItem
      BY <1>1, <3>1, SettlesIs
    <3>2. CASE SettleTurn \/ ClearTurns
      BY <1>1, <3>2, SettleTurnIs, ClearTurnsIs DEF NoSegment
    <3>3. CASE UNCHANGED segment
      BY <3>3
    <3> QED BY <3>1, <3>2, <3>3 DEF Work, SetSession, DeliverText, FlushText, FinalizeText,
                                    CompleteMessage, caches
  <2> QED BY <1>2, <1>5, <2>1 DEF SegmentHome, Of
<1>11. TaskHome'
  <2>1. "finalize" \in MessageTasks
    BY DEF MessageTasks
  <2> QED BY <1>2, <1>5, <1>7, <2>1 DEF TaskHome, Todo
<1>12. TextHome'
  <2>1. \A m \in MessageId : buffered'[m] = <<>> \/ buffered'[m] = buffered[m]
    <3>1. CASE FlushText \/ FinalizeText
      BY <1>1, <3>1, FlushTextIs, FinalizeTextIs DEF Took
    <3>2. CASE ClearTurns
      BY <1>1, <3>2, ClearTurnsIs
    <3>3. CASE UNCHANGED buffered
      BY <3>3
    <3> QED BY <3>1, <3>2, <3>3 DEF Work, SetSession, DeliverText, CompleteMessage, SettlePause,
                                    SettleItem, SettleTurn, caches
  <2> QED BY <1>2, <1>5, <2>1 DEF TextHome, Text
<1>13. RowHome'
  <2>1. CASE thread' = thread
    BY <1>2, <1>5, <2>1 DEF RowHome
  <2>2. ASSUME NEW text, NEW streaming, Sends(text, streaming), Now.do \in MessageTasks
        PROVE  RowHome'
    <3>1. /\ Now.message[1] \in DOMAIN provider.home
          /\ handler.turn = NoTurn \/ handler.turn = provider.home[Now.message[1]]
      BY <1>5, <1>6, <2>2 DEF TaskHome
    <3>2. SUFFICES ASSUME NEW k \in DOMAIN thread'
          PROVE  /\ thread'[k].id[1] \in DOMAIN provider.home
                 /\ thread'[k].turn = NoTurn \/ thread'[k].turn = provider.home[thread'[k].id[1]]
      BY <1>2 DEF RowHome
    <3>3. CASE k \in DOMAIN thread
      BY <1>5, <2>2, <3>1, <3>3 DEF Sends, Sent, RowHome
    <3>4. CASE k \notin DOMAIN thread
      <4>1. thread'[k] = [id |-> Now.message, turn |-> handler.turn, text |-> text,
                          streaming |-> streaming]
        BY <2>2, <3>4 DEF Sends, Sent
      <4> QED BY <3>1, <4>1
    <3> QED BY <3>3, <3>4
  <2>3. CASE DeliverText \/ CompleteMessage
    BY <1>1, <2>2, <2>3, DeliverTextIs, CompleteMessageIs DEF MessageTasks
  <2>4. CASE FlushText \/ FinalizeText
    BY <1>1, <2>1, <2>2, <2>4, FlushTextIs, FinalizeTextIs DEF MessageTasks
  <2> QED BY <2>1, <2>3, <2>4 DEF Work, SetSession, SettlePause, SettleItem, SettleTurn, ClearTurns
<1> QED BY <1>8, <1>9, <1>10, <1>11, <1>12, <1>13 DEF Homes


\* A piece or the end of an item is taken for the turn of its item.
LEMMA DeltaTurn ==
    ASSUME SteadyInv, Steady', Idle, NEW item \in Item, NEW t \in {NoTurn} \cup Turn,
           NEW turn \in {NoTurn} \cup Turn, NEW id \in MessageId, DeltaStep(item, t, turn, id)
    PROVE  /\ Steady /\ turn = Running /\ Running \in Turn \ provider.ended
           /\ item \in DOMAIN provider'.home /\ provider'.home[item] = Running
           /\ DOMAIN provider.home \subseteq DOMAIN provider'.home
           /\ \A i \in DOMAIN provider.home : provider'.home[i] = provider.home[i]
<1>1. Steady /\ "late" \notin ToSet(upset')
  BY DEF Steady, Without, DeltaStep
<1>2. active = Running \/ Running = NoTurn
  BY <1>1, IdleIs DEF SteadyInv, TurnInStep, Todo
<1>3. NoTurn \notin Turn /\ Running \in {NoTurn} \cup Turn /\ (Running # NoTurn => Running \in Turn \ provider.ended)
  BY Names, RunningIs DEF SteadyInv, HandlerInv
<1>4. CASE Added(item) /\ t \in {Running, NoTurn}
  <2>1. Running # NoTurn
    BY <1>4 DEF Added
  <2>2. turn = Running
    BY <1>2, <1>4, <2>1 DEF DeltaStep, Packed
  <2> QED BY <1>1, <1>3, <1>4, <2>1, <2>2 DEF Added
<1>5. CASE item \in provider.open /\ Continued(item) /\ provider.home[item] = Running /\ turn = Running
  <2>1. provider.home[item] \in Turn
    <3>1. provider.home \in Seq(Turn) /\ item \in DOMAIN provider.home
      BY <1>5 DEF SteadyInv, HandlerInv, TypedInv, TypeInv, Provider, Continued
    <3> QED BY <3>1, ElementOfSeq, LenProperties
  <2>2. Running # NoTurn
    BY <1>3, <1>5, <2>1
  <2> QED BY <1>1, <1>3, <1>5, <2>2 DEF Continued
<1> QED
  BY <1>1, <1>4, <1>5 DEF DeltaStep

LEMMA ItemTurn ==
    ASSUME SteadyInv, Steady', Idle, NEW item \in Item, NEW turn \in {NoTurn} \cup Turn,
           NEW detail, ItemStep(item, turn, detail)
    PROVE  /\ Steady /\ item \in DOMAIN provider'.home /\ turn \in {NoTurn, provider'.home[item]}
           /\ Added(item) => turn = Running /\ Running \in Turn
           /\ Running # NoTurn => active = Running
           /\ DOMAIN provider.home \subseteq DOMAIN provider'.home
           /\ \A i \in DOMAIN provider.home : provider'.home[i] = provider.home[i]
<1>1. Steady /\ "late" \notin ToSet(upset')
  BY DEF Steady, Without, ItemStep
<1>2. active = Running \/ Running = NoTurn
  BY <1>1, IdleIs DEF SteadyInv, TurnInStep, Todo
<1>3. Running # NoTurn => Running \in Turn
  BY RunningIs DEF SteadyInv, HandlerInv
<1>4. CASE Added(item) /\ turn \in {Running, active}
  BY <1>1, <1>2, <1>3, <1>4 DEF Added
<1>5. CASE item \in provider.open /\ Continued(item) /\ turn \in {NoTurn, provider.home[item]}
  <2>1. ~Added(item)
    BY <1>5 DEF Added, Continued
  <2> QED BY <1>1, <1>2, <1>5, <2>1 DEF Continued
<1> QED
  BY <1>1, <1>4, <1>5 DEF ItemStep

\* What an event does not touch keeps its turn.
LEMMA HomesStay ==
    ASSUME Homes,
           DOMAIN provider.home \subseteq DOMAIN provider'.home,
           \A i \in DOMAIN provider.home : provider'.home[i] = provider.home[i]
    PROVE  /\ (\A t \in Turn : ToSet(known'[t]) \subseteq ToSet(known[t])) => KnownHome'
           /\ (\A t \in Turn : segment'[t] = segment[t] \/ segment'[t].active = NoMessage) => SegmentHome'
           /\ thread' = thread => RowHome'
           /\ DOMAIN handler'.todo = {} => TaskHome'
           /\ (\A m \in MessageId : buffered'[m] = buffered[m] \/ buffered'[m] = <<>>) => TextHome'
<1>1. ASSUME NEW m, NEW t, Of(m, t)
      PROVE  m[1] \in DOMAIN provider'.home /\ provider'.home[m[1]] = t
  BY <1>1 DEF Of
<1>2. (\A t \in Turn : ToSet(known'[t]) \subseteq ToSet(known[t])) => KnownHome'
  BY <1>1 DEF Homes, KnownHome, Of
<1>3. (\A t \in Turn : segment'[t] = segment[t] \/ segment'[t].active = NoMessage) => SegmentHome'
  BY <1>1 DEF Homes, SegmentHome, Of
<1>4. thread' = thread => RowHome'
  BY DEF Homes, RowHome
<1>5. DOMAIN handler'.todo = {} => TaskHome'
  BY DEF TaskHome, Todo
<1>6. (\A m \in MessageId : buffered'[m] = buffered[m] \/ buffered'[m] = <<>>) => TextHome'
  BY DEF Homes, TextHome, Text
<1> QED BY <1>2, <1>3, <1>4, <1>5, <1>6

LEMMA DeltaKeepsSteady ==
    ASSUME SteadyInv, ContentDelta, Steady'
    PROVE  TurnInStep' /\ Homes'
<1>1. PICK item \in Item, t \in {NoTurn} \cup Turn, turn \in {NoTurn} \cup Turn, id \in MessageId :
          DeltaStep(item, t, turn, id)
  BY ContentDeltaIs DEF SteadyInv, HandlerInv
<1>2. Idle /\ UNCHANGED <<thread, active>>
  BY DEF ContentDelta
<1>3. /\ Steady /\ turn = Running /\ Running \in Turn \ provider.ended
      /\ item \in DOMAIN provider'.home /\ provider'.home[item] = Running
      /\ DOMAIN provider.home \subseteq DOMAIN provider'.home
      /\ \A i \in DOMAIN provider.home : provider'.home[i] = provider.home[i]
  BY <1>1, <1>2, DeltaTurn
<1>4. TurnInStep /\ Homes /\ TypeInv
  BY <1>3 DEF SteadyInv, HandlerInv, TypedInv
<1>5. Running' = Running
  BY <1>1 DEF DeltaStep, SameTurns, Running
<1>6. id[1] \in DOMAIN provider'.home /\ provider'.home[id[1]] = Running
  <2>1. \/ id = <<item, 0>> \/ (segment[turn].active # NoMessage /\ id = segment[turn].active)
        \/ \E number \in 0..requests : id = <<item, number>>
    BY <1>1 DEF DeltaStep, Segments
  <2>2. CASE segment[turn].active # NoMessage /\ id = segment[turn].active
    BY <1>3, <1>4, <2>2 DEF Homes, SegmentHome, Of
  <2> QED BY <1>3, <2>1, <2>2
<1>7. \A n \in DOMAIN handler'.todo :
          /\ handler'.todo[n].do = "deliver" /\ handler'.todo[n].message = id
          /\ handler'.turn = Running
  BY <1>1, <1>2, <1>3, IdleIs DEF DeltaStep, DeltaLeaves
<1>8. TurnInStep'
  BY <1>2, <1>4, <1>5, <1>7, IdleIs DEF TurnInStep, Todo
<1>9. TaskHome'
  BY <1>6, <1>7 DEF TaskHome, Todo
<1>10. RowHome'
  BY <1>2, <1>3, <1>4, HomesStay
<1>11. KnownHome'
  <2>1. \A s \in Turn : \A m \in ToSet(known'[s]) : m \in ToSet(known[s]) \/ (m = id /\ s = turn)
    BY <1>1, <1>4, RememberedIs DEF DeltaStep
  <2> QED BY <1>3, <1>4, <1>6, <2>1 DEF Homes, KnownHome, Of
<1>12. SegmentHome'
  <2>1. \A s \in Turn : segment'[s] = segment[s] \/ (s = turn /\ segment'[s].active = id)
    BY <1>1, <1>4 DEF DeltaStep, Segments, TypeInv
  <2> QED BY <1>3, <1>4, <1>6, <2>1 DEF Homes, SegmentHome, Of
<1>13. TextHome'
  <2>1. \A m \in MessageId : m = id \/ buffered'[m] = buffered[m]
    BY <1>1, <1>4 DEF DeltaStep, DeltaLeaves, TypeInv
  <2> QED BY <1>3, <1>4, <1>6, <2>1 DEF Homes, TextHome, Text
<1> QED BY <1>8, <1>9, <1>10, <1>11, <1>12, <1>13 DEF Homes

LEMMA ItemKeepsSteady ==
    ASSUME SteadyInv, ItemCompleted, Steady'
    PROVE  TurnInStep' /\ Homes'
<1>1. PICK item \in Item, turn \in {NoTurn} \cup Turn, detail \in Seq(Piece) :
          ItemStep(item, turn, detail)
  BY ItemCompletedIs DEF SteadyInv, HandlerInv
<1>2. Idle /\ UNCHANGED <<thread, active, buffered>>
  BY DEF ItemCompleted
<1>3. /\ Steady /\ item \in DOMAIN provider'.home /\ turn \in {NoTurn, provider'.home[item]}
      /\ DOMAIN provider.home \subseteq DOMAIN provider'.home
      /\ \A i \in DOMAIN provider.home : provider'.home[i] = provider.home[i]
  BY <1>1, <1>2, ItemTurn
<1>4. TurnInStep /\ Homes /\ TypeInv
  BY <1>3 DEF SteadyInv, HandlerInv, TypedInv
<1>5. Running' = Running
  BY <1>1 DEF ItemStep, SameTurns, Running
<1>6. CASE UNCHANGED <<known, handler>>
  <2>1. DOMAIN handler'.todo = {}
    BY <1>2, <1>6, IdleIs
  <2>2. TurnInStep'
    BY <1>2, <1>4, <1>5, <1>6 DEF TurnInStep, Todo
  <2>3. \A s \in Turn : segment'[s] = segment[s] \/ segment'[s].active = NoMessage
    BY <1>1, <1>4 DEF ItemStep, ItemLeaves, TypeInv, NoSegment
  <2> QED BY <1>2, <1>3, <1>4, <1>6, <2>1, <2>2, <2>3, HomesStay DEF Homes
<1>7. CASE ~UNCHANGED <<known, handler>>
  <2>1. PICK id \in MessageId :
          /\ \/ /\ id = <<item, 0>> /\ Remember(turn, id)
                /\ turn # NoTurn => segment[turn].active = NoMessage
             \/ turn \in Turn /\ id = segment[turn].active /\ known' = known
          /\ handler' \in Handlers /\ handler'.turn = turn
          /\ DOMAIN handler'.todo = IF turn = NoTurn THEN {1} ELSE {1, 2}
          /\ handler'.todo[1].do = "finalize" /\ handler'.todo[1].message = id
          /\ turn # NoTurn =>
                handler'.todo[2].do = "itemDone" /\ handler'.todo[2].message = id
          /\ segment' = segment
    BY <1>1, <1>7 DEF ItemStep, ItemLeaves
  <2>2. id[1] \in DOMAIN provider'.home /\ turn \in {NoTurn, provider'.home[id[1]]}
    <3>1. CASE id = <<item, 0>>
      BY <1>3, <3>1
    <3>2. CASE turn \in Turn /\ id = segment[turn].active
      <4>1. Of(id, turn)
        BY <1>4, <3>2, Names DEF Homes, SegmentHome
      <4> QED BY <1>3, <4>1 DEF Of
    <3> QED BY <2>1, <3>1, <3>2
  <2>3. \A n \in DOMAIN handler'.todo :
            /\ handler'.todo[n].do \in {"finalize", "itemDone"} /\ handler'.todo[n].message = id
            /\ handler'.turn = turn
    BY <2>1
  <2>4. TurnInStep'
    BY <1>2, <1>4, <1>5, <2>3, IdleIs DEF TurnInStep, Todo
  <2>5. TaskHome'
    BY <2>2, <2>3 DEF TaskHome, Todo
  <2>6. KnownHome'
    <3>1. \A s \in Turn : \A m \in ToSet(known'[s]) : m \in ToSet(known[s]) \/ (m = id /\ s = turn)
      BY <1>4, <2>1, RememberedIs
    <3> QED BY <1>3, <1>4, <2>2, <3>1, Names DEF Homes, KnownHome, Of
  <2>7. RowHome' /\ TextHome' /\ SegmentHome'
    BY <1>2, <1>3, <1>4, <2>1, HomesStay
  <2> QED BY <2>4, <2>5, <2>6, <2>7 DEF Homes
<1> QED BY <1>6, <1>7


LEMMA QuestionKeepsSteady ==
    ASSUME SteadyInv, QuestionAsked, Steady'
    PROVE  TurnInStep' /\ Homes'
<1>1. QuestionLeaves /\ Idle /\ UNCHANGED <<thread, active, caches, provider, upset>>
  BY QuestionIs DEF QuestionAsked, SteadyInv, HandlerInv
<1>2. TurnInStep /\ Homes
  BY <1>1 DEF SteadyInv, Steady, Without
<1>3. Running' = Running
  BY <1>1 DEF Running
<1>4. \A n \in DOMAIN handler'.todo :
          /\ handler'.todo[n].do \in {"flush", "finalize", "paused"} /\ handler'.turn = Running
          /\ \/ handler'.todo[n].message \in ToSet(known[Running])
             \/ /\ handler'.todo[n].message = segment[Running].active
                /\ segment[Running].active # NoMessage
  <2>1. \A n \in DOMAIN handler'.todo : handler'.todo # <<>>
    OBVIOUS
  <2> QED BY <1>1, <2>1 DEF QuestionLeaves
<1>5. TurnInStep'
  BY <1>1, <1>2, <1>3, <1>4, IdleIs DEF TurnInStep, Todo
<1>6. TaskHome'
  <2>1. Running \in Turn
    BY <1>1 DEF QuestionLeaves
  <2> QED BY <1>1, <1>2, <1>4, <2>1 DEF TaskHome, Todo, Homes, KnownHome, SegmentHome, Of
<1>7. KnownHome' /\ SegmentHome' /\ RowHome' /\ TextHome'
  BY <1>1, <1>2, HomesStay DEF caches
<1> QED BY <1>5, <1>6, <1>7 DEF Homes

LEMMA TurnKeepsSteady ==
    ASSUME SteadyInv, TurnCompleted, Steady'
    PROVE  TurnInStep' /\ Homes'
<1>1. PICK t \in Turn : TurnStep(t)
  BY TurnTyped DEF SteadyInv, HandlerInv
<1>2. Idle /\ UNCHANGED <<thread, active, caches, upset>>
  BY DEF TurnCompleted
<1>3. TurnInStep /\ Homes
  BY <1>2 DEF SteadyInv, Steady, Without
<1>4. /\ provider'.home = provider.home /\ provider'.ended = provider.ended \cup {t}
      /\ provider'.turns = provider.turns
  BY <1>1 DEF TurnStep
<1>5. Running' = IF provider.turns = t THEN NoTurn ELSE Running
  BY <1>4 DEF Running
<1>6. Running # NoTurn => active = Running /\ Running = provider.turns
  BY <1>2, <1>3, IdleIs DEF TurnInStep, Todo, Running
<1>7. TurnLeaves(t)
  BY <1>1 DEF TurnStep
<1>8. TurnInStep'
  <2>1. \A n \in DOMAIN handler'.todo :
           /\ handler'.todo[n].do # "running"
           /\ handler'.todo[n].do = "over" => active \in {NoTurn, t}
    BY <1>7 DEF TurnLeaves
  <2>2. active \in {NoTurn, t} => Running' = NoTurn
    BY <1>5, <1>6
  <2>3. Running' # NoTurn => active' = Running'
    BY <1>2, <1>5, <1>6
  <2> QED BY <2>1, <2>2, <2>3 DEF TurnInStep, Todo
<1>9. TaskHome'
  BY <1>3, <1>4, <1>7 DEF TurnLeaves, TaskHome, Todo, Homes, KnownHome, Of, MessageTasks
<1>10. KnownHome' /\ SegmentHome' /\ RowHome' /\ TextHome'
  BY <1>2, <1>3, <1>4, HomesStay DEF caches
<1> QED BY <1>8, <1>9, <1>10 DEF Homes

LEMMA GoneKeepsSteady ==
    ASSUME SteadyInv, SessionExited \/ Restart, Steady'
    PROVE  TurnInStep' /\ Homes'
<1> USE DEF HandlerInv
<1>1. ToSet(upset) \subseteq ToSet(upset')
  BY ExitTyped, RestartTyped DEF SteadyInv
<1>2. TurnInStep /\ Homes
  BY <1>1 DEF SteadyInv, Steady, Without
<1>3. /\ provider'.turns = provider.turns /\ provider'.ended = 1..provider.turns
      /\ provider'.home = provider.home
  BY GoneIs DEF SessionExited, Restart, SteadyInv
<1>4. Running' = NoTurn
  <2>1. provider.turns \in Nat
    BY DEF SteadyInv, TypedInv, TypeInv, Provider
  <2>2. provider.turns = 0 \/ provider.turns \in 1..provider.turns
    BY <2>1
  <2> QED BY <1>3, <2>2 DEF Running, NoTurn
<1>5. TurnInStep'
  BY <1>4 DEF TurnInStep
<1>6. TaskHome'
  <2>1. CASE SessionExited
    BY <2>1, ExitTyped DEF ExitLeaves, TaskHome, Todo, MessageTasks, SteadyInv
  <2>2. CASE Restart
    BY <2>2, RestingIs DEF Restart, TaskHome, Todo
  <2> QED BY <2>1, <2>2
<1>7. KnownHome' /\ SegmentHome' /\ RowHome' /\ TextHome'
  <2>1. NoSegment.active = NoMessage /\ ToSet(<<>>) = {}
    BY DEF NoSegment, ToSet
  <2>2. CASE SessionExited
    BY <1>2, <1>3, <2>2, HomesStay DEF SessionExited, caches
  <2>3. CASE Restart
    BY <1>2, <1>3, <2>1, <2>3, HomesStay DEF Restart
  <2> QED BY <2>2, <2>3
<1> QED BY <1>5, <1>6, <1>7 DEF Homes

LEMMA SteadyKept ==
    ASSUME SteadyInv, [Next]_vars
    PROVE  SteadyInv'
<1>1. HandlerInv' /\ TypedInv
  BY HandlerKept DEF SteadyInv, HandlerInv
<1>2. ToSet(upset) \subseteq ToSet(upset')
  BY <1>1, StepTyped
<1>3. CASE Work
  BY <1>3, WorkKeepsSteady
<1>4. SUFFICES ASSUME Steady', ~Work PROVE TurnInStep' /\ Homes'
  BY <1>1, <1>3 DEF SteadyInv
<1>5. TurnInStep /\ Homes
  BY <1>2, <1>4 DEF SteadyInv, Steady, Without
<1>6. CASE CommandFails
  BY <1>1, <1>4, <1>6, FailureTyped DEF Steady, Without
<1>7. CASE TurnStarted
  <2>1. /\ handler'.turn = provider.turns + 1 /\ DOMAIN handler'.todo = {1}
        /\ handler'.todo[1].do = "running" /\ provider'.home = provider.home
    BY <1>1, <1>7, NewTurnTyped
  <2>2. TurnInStep'
    BY <2>1 DEF TurnInStep, Todo
  <2>3. TaskHome'
    BY <2>1 DEF TaskHome, Todo, MessageTasks
  <2>4. KnownHome' /\ SegmentHome' /\ RowHome' /\ TextHome'
    BY <1>5, <1>7, <2>1, HomesStay DEF TurnStarted, caches
  <2> QED BY <2>2, <2>3, <2>4 DEF Homes
<1>8. CASE SwitchMode \/ EntryExpires
  <2>1. UNCHANGED <<thread, active, handler, provider>> /\ Idle
    BY <1>8 DEF SwitchMode, EntryExpires
  <2>2. TurnInStep'
    BY <1>5, <2>1 DEF TurnInStep, Todo, Running
  <2>3. DOMAIN handler'.todo = {}
    BY <2>1, IdleIs
  <2>4. NoSegment.active = NoMessage /\ ToSet(<<>>) = {}
    BY DEF NoSegment, ToSet
  <2>5. /\ \A t \in Turn : known'[t] = known[t] \/ known'[t] = <<>>
        /\ \A t \in Turn : segment'[t] = segment[t] \/ segment'[t] = NoSegment
        /\ \A m \in MessageId : buffered'[m] = buffered[m] \/ buffered'[m] = <<>>
    BY <1>1, <1>8 DEF SwitchMode, EntryExpires, caches, TakeBuffered, TypedInv, TypeInv
  <2> QED BY <1>5, <2>1, <2>2, <2>3, <2>4, <2>5, HomesStay DEF Homes
<1>9. CASE UNCHANGED vars
  BY <1>5, <1>9 DEF vars, caches, TurnInStep, Todo, Running, Homes, KnownHome, SegmentHome, RowHome,
                    TaskHome, TextHome, Text, Of
<1> QED
  BY <1>4, <1>6, <1>7, <1>8, <1>9, DeltaKeepsSteady, ItemKeepsSteady, QuestionKeepsSteady,
     TurnKeepsSteady, GoneKeepsSteady DEF Next

LEMMA SteadyBegins == Init => SteadyInv
<1> SUFFICES ASSUME Init PROVE SteadyInv
  OBVIOUS
<1>1. HandlerInv /\ Idle /\ Running = NoTurn
  BY HandlerBegins, InitTyped
<1>2. TurnInStep /\ TaskHome
  BY <1>1, IdleIs DEF TurnInStep, TaskHome, Todo
<1>3. KnownHome /\ SegmentHome /\ RowHome /\ TextHome
  BY DEF Init, KnownHome, SegmentHome, RowHome, TextHome, Text, NoSegment, ToSet
<1> QED BY <1>1, <1>2, <1>3 DEF SteadyInv, Homes


-----------------------------------------------------------------------------
(* Messages that stream *)

Unsettled == Lasting /\ Without({"late"})

Completes(task, id) ==
    task.message = id /\ (task.do = "complete" \/ (task.do = "finalize" /\ task.projected))

\* A message that is streaming will be completed: by the end of its turn, which
\* knows it, or by a task of this handler.  It has a turn, in which a question
\* finds it, unless it is completed at once.
RowsEnd ==
    \A k \in DOMAIN thread : thread[k].streaming =>
        /\ \/ \E t \in Turn \ provider.ended : thread[k].id \in ToSet(known[t])
           \/ \E n \in DOMAIN Todo : Completes(Todo[n], thread[k].id)
        /\ \/ thread[k].turn # NoTurn
           \/ \E n \in DOMAIN Todo : Todo[n].do = "complete" /\ Todo[n].message = thread[k].id

\* A message is forgotten, and its turn, when it is no longer streaming.
TasksEnd ==
    \A n \in DOMAIN Todo :
        /\ Todo[n].do \in {"deliver", "flush"} =>
              handler.turn \in Turn \ provider.ended /\ Todo[n].message \in ToSet(known[handler.turn])
        /\ Todo[n].do = "turnDone" => handler.turn \in provider.ended
        /\ Todo[n].do = "finalize" /\ ~Todo[n].projected =>
              /\ \A k \in DOMAIN thread : thread[k].id = Todo[n].message /\ thread[k].streaming =>
                    Todo[1].do = "complete" /\ Todo[1].message = Todo[n].message
              /\ \A j \in DOMAIN Todo :
                    j < n /\ Todo[j].do = "flush" /\ Todo[j].message = Todo[n].message =>
                       ~Renderable(Text(Todo[n].message))
        /\ Todo[n].do \in {"paused", "itemDone"} /\ n = 1 =>
              \A k \in DOMAIN thread : thread[k].id = Todo[n].message => ~thread[k].streaming

StreamInv == SteadyInv /\ (Unsettled => RowsEnd /\ TasksEnd)

\* Where the rows that stream after a task come from.
Streamed(k) ==
    \/ \E j \in DOMAIN thread :
          /\ thread[j].id = thread'[k].id /\ thread[j].streaming /\ thread'[k].turn = thread[j].turn
          /\ ~Completes(Now, thread[j].id)
    \/ /\ Now.do \in {"deliver", "flush"} /\ thread'[k].id = Now.message
       /\ Now.do = "flush" => Renderable(Text(Now.message))
       /\ thread'[k].turn = handler.turn

LEMMA RowsMoveOn ==
    ASSUME HandlerInv, RowsEnd, TasksEnd, ~Idle, MovesOn, provider' = provider, known' = known,
           \A k \in DOMAIN thread' : thread'[k].streaming => Streamed(k)
    PROVE  RowsEnd'
<1>1. TypedInv /\ TasksOrdered
  BY DEF HandlerInv
<1>2. /\ 1 \in DOMAIN Todo /\ Now = Todo[1]
      /\ \A n \in DOMAIN Todo :
            n # 1 => n - 1 \in DOMAIN handler'.todo /\ handler'.todo[n - 1] = Todo[n]
  BY <1>1, MovedOn, Zenon
<1>3. SUFFICES ASSUME NEW k \in DOMAIN thread', thread'[k].streaming
      PROVE  /\ \/ \E t \in Turn \ provider.ended : thread'[k].id \in ToSet(known[t])
                \/ \E n \in DOMAIN handler'.todo : Completes(handler'.todo[n], thread'[k].id)
             /\ thread'[k].turn # NoTurn
  BY DEF RowsEnd, Todo, Completes
<1>4. Streamed(k)
  BY <1>3
<1>5. ASSUME NEW j \in DOMAIN thread, thread[j].id = thread'[k].id, thread[j].streaming,
             thread'[k].turn = thread[j].turn, ~Completes(Now, thread[j].id)
      PROVE  /\ \/ \E t \in Turn \ provider.ended : thread'[k].id \in ToSet(known[t])
                \/ \E n \in DOMAIN handler'.todo : Completes(handler'.todo[n], thread'[k].id)
             /\ thread'[k].turn # NoTurn
  <2>1. \A n \in DOMAIN Todo : Todo[n].do = "complete" => n = 1
    BY <1>1 DEF TasksOrdered
  <2>2. thread[j].turn # NoTurn
    BY <1>2, <1>5, <2>1 DEF RowsEnd, Completes
  <2>3. CASE \E t \in Turn \ provider.ended : thread[j].id \in ToSet(known[t])
    BY <1>5, <2>2, <2>3
  <2>4. CASE \E n \in DOMAIN Todo : Completes(Todo[n], thread[j].id)
    BY <1>2, <1>5, <2>2, <2>4
  <2> QED BY <1>5, <2>3, <2>4 DEF RowsEnd
<1>6. ASSUME Now.do \in {"deliver", "flush"}, thread'[k].id = Now.message,
             thread'[k].turn = handler.turn
      PROVE  /\ \E t \in Turn \ provider.ended : thread'[k].id \in ToSet(known[t])
             /\ thread'[k].turn # NoTurn
  <2>1. handler.turn \in Turn \ provider.ended /\ Now.message \in ToSet(known[handler.turn])
    BY <1>2, <1>6 DEF TasksEnd
  <2> QED BY <1>6, <2>1, Names
<1> QED BY <1>4, <1>5, <1>6 DEF Streamed

LEMMA TasksEndMoveOn ==
    ASSUME HandlerInv, TasksEnd, ~Idle, MovesOn, provider' = provider, known' = known,
           \A k \in DOMAIN thread' : thread'[k].streaming => Streamed(k),
           \A m \in MessageId : buffered'[m] = buffered[m] \/ buffered'[m] = <<>>,
           Now.do \in {"finalize", "complete"} =>
              \A k \in DOMAIN thread' : thread'[k].id = Now.message => ~thread'[k].streaming
    PROVE  TasksEnd'
<1>2. TypedInv /\ TasksOrdered
  BY DEF HandlerInv
<1>3. SUFFICES ASSUME NEW n \in DOMAIN handler'.todo
      PROVE
        /\ handler'.todo[n].do \in {"deliver", "flush"} =>
              /\ handler'.turn \in Turn \ provider.ended
              /\ handler'.todo[n].message \in ToSet(known[handler'.turn])
        /\ handler'.todo[n].do = "turnDone" => handler'.turn \in provider.ended
        /\ handler'.todo[n].do = "finalize" /\ ~handler'.todo[n].projected =>
              /\ \A k \in DOMAIN thread' : thread'[k].id = handler'.todo[n].message => ~thread'[k].streaming
              /\ \A j \in DOMAIN handler'.todo :
                    j < n /\ handler'.todo[j].do = "flush"
                    /\ handler'.todo[j].message = handler'.todo[n].message =>
                       ~\E x \in ToSet(buffered'[handler'.todo[n].message]) : x \notin provider.blank
        /\ handler'.todo[n].do \in {"paused", "itemDone"} /\ n = 1 =>
              \A k \in DOMAIN thread' : thread'[k].id = handler'.todo[n].message => ~thread'[k].streaming
  BY DEF TasksEnd, Todo, Renderable, Text
<1>4. /\ 1 \in DOMAIN Todo /\ Now = Todo[1] /\ n + 1 \in DOMAIN Todo
      /\ handler'.todo[n] = Todo[n + 1] /\ n \in Nat /\ n >= 1 /\ handler'.turn = handler.turn
  BY <1>2, MovedOn, Zenon
<1>5. \A j \in DOMAIN handler'.todo : j + 1 \in DOMAIN Todo /\ handler'.todo[j] = Todo[j + 1] /\ j \in Nat
  BY <1>2, MovedOn, Zenon
<1>6. n + 1 # 1 /\ (n = 1 => n + 1 = 2 /\ (n + 1) - 1 = 1) /\ 1 < n + 1
  BY <1>4
<1>7. Todo[n + 1].do = "finalize" => Todo[n + 1].message \in MessageId
  BY <1>2, <1>4 DEF TypedInv, TasksFit, MessageTasks, Todo
<1>8. ASSUME Todo[n + 1].do = "finalize", ~Todo[n + 1].projected
      PROVE  /\ \A k \in DOMAIN thread' : thread'[k].id = Todo[n + 1].message => ~thread'[k].streaming
             /\ \A j \in DOMAIN handler'.todo :
                    j < n /\ handler'.todo[j].do = "flush" /\ handler'.todo[j].message = Todo[n + 1].message =>
                       ~\E x \in ToSet(buffered'[Todo[n + 1].message]) : x \notin provider.blank
  <2>1. /\ \A k \in DOMAIN thread : thread[k].id = Todo[n + 1].message /\ thread[k].streaming =>
              Todo[1].do = "complete" /\ Todo[1].message = Todo[n + 1].message
        /\ \A j \in DOMAIN Todo :
              j < n + 1 /\ Todo[j].do = "flush" /\ Todo[j].message = Todo[n + 1].message =>
                 ~Renderable(Text(Todo[n + 1].message))
    BY <1>4, <1>8 DEF TasksEnd
  <2>2. ASSUME NEW k \in DOMAIN thread', thread'[k].id = Todo[n + 1].message, thread'[k].streaming
        PROVE  FALSE
    <3>1. CASE \E j \in DOMAIN thread :
                  /\ thread[j].id = thread'[k].id /\ thread[j].streaming
                  /\ ~Completes(Now, thread[j].id)
      BY <1>4, <2>1, <2>2, <3>1 DEF Completes
    <3>2. CASE Now.do = "flush" /\ thread'[k].id = Now.message /\ Renderable(Text(Now.message))
      BY <1>4, <1>6, <2>1, <2>2, <3>2
    <3>3. Now.do # "deliver"
      <4>1. Len(Todo) # 1
        BY <1>2, <1>4, <1>6, FirstTask DEF TypedInv, Todo
      <4> QED BY <1>2, <1>4, <4>1 DEF TasksOrdered
    <3> QED BY <2>2, <3>1, <3>2, <3>3 DEF Streamed
  <2>3. ASSUME NEW j \in DOMAIN handler'.todo, j < n, handler'.todo[j].do = "flush",
               handler'.todo[j].message = Todo[n + 1].message
        PROVE  ~\E x \in ToSet(buffered'[Todo[n + 1].message]) : x \notin provider.blank
    <3>1. j + 1 \in DOMAIN Todo /\ Todo[j + 1].do = "flush" /\ Todo[j + 1].message = Todo[n + 1].message
          /\ j + 1 < n + 1
      BY <1>4, <1>5, <2>3
    <3>2. ~Renderable(Text(Todo[n + 1].message))
      BY <2>1, <3>1
    <3>3. ToSet(<<>>) = {}
      BY DEF ToSet
    <3> QED BY <1>7, <1>8, <3>2, <3>3 DEF Renderable, Text
  <2> QED BY <2>2, <2>3
<1>9. ASSUME Todo[n + 1].do \in {"paused", "itemDone"}, n = 1
      PROVE  \A k \in DOMAIN thread' : thread'[k].id = Todo[n + 1].message => ~thread'[k].streaming
  <2>1. Todo[1].do \in {"finalize", "complete"} /\ Todo[1].message = Todo[n + 1].message
    BY <1>2, <1>4, <1>6, <1>9 DEF TasksOrdered
  <2> QED BY <1>4, <2>1
<1>10. /\ Todo[n + 1].do \in {"deliver", "flush"} =>
             handler.turn \in Turn \ provider.ended /\ Todo[n + 1].message \in ToSet(known[handler.turn])
       /\ Todo[n + 1].do = "turnDone" => handler.turn \in provider.ended
  BY <1>4 DEF TasksEnd
<1> QED BY <1>4, <1>8, <1>9, <1>10


\* The last task is done.
LEMMA LastTask ==
    ASSUME HandlerInv, ~Idle, MovesOn,
           Now.do \in {"paused", "itemDone", "turnDone", "clear", "deliver", "running"}
    PROVE  DOMAIN handler'.todo = {} /\ DOMAIN Todo = {1}
<1>1. TypedInv /\ TasksOrdered
  BY DEF HandlerInv
<1>2. /\ 1 \in DOMAIN Todo /\ Now = Todo[1] /\ DOMAIN Todo = 1..Len(Todo) /\ Len(Todo) \in Nat
      /\ Len(handler'.todo) = Len(Todo) - 1 /\ DOMAIN handler'.todo = 1..Len(handler'.todo)
  BY <1>1, MovedOn, Zenon
<1>3. Len(Todo) = 1
  <2>1. /\ Todo[1].do \in {"paused", "itemDone", "turnDone", "clear"} => 1 = Len(Todo)
        /\ Todo[1].do \in {"deliver", "running"} => Len(Todo) = 1
    BY <1>1, <1>2 DEF TasksOrdered
  <2>2. \/ Todo[1].do \in {"paused", "itemDone", "turnDone", "clear"}
        \/ Todo[1].do \in {"deliver", "running"}
    BY <1>2
  <2> HIDE DEF Todo
  <2> QED BY <2>1, <2>2
<1> HIDE DEF Todo
<1>4. Len(handler'.todo) = 0
  BY <1>2, <1>3
<1> QED BY <1>2, <1>3, <1>4

LEMMA TaskStreams ==
    ASSUME StreamInv, Unsettled, Work, ~TurnsToCompletion,
           Now.do \in {"running", "over", "deliver", "flush", "finalize", "complete"}
    PROVE  RowsEnd' /\ TasksEnd'
<1>1. HandlerInv /\ TypedInv /\ RowsEnd /\ TasksEnd
  BY DEF StreamInv, SteadyInv, HandlerInv
<1>2. /\ ~Idle /\ provider' = provider /\ MovesOn
  BY <1>1, WorkIs
<1>3. 1 \in DOMAIN Todo /\ Now = Todo[1]
  BY <1>1, <1>2, FirstTask DEF TypedInv, Todo
<1>4. SUFFICES
        /\ known' = known
        /\ \A m \in MessageId : buffered'[m] = buffered[m] \/ buffered'[m] = <<>>
        /\ \A k \in DOMAIN thread' : thread'[k].streaming => Streamed(k)
        /\ Now.do \in {"finalize", "complete"} =>
              \A k \in DOMAIN thread' : thread'[k].id = Now.message => ~thread'[k].streaming
  BY <1>1, <1>2, RowsMoveOn, TasksEndMoveOn, Zenon
<1>5. ASSUME NEW text, Sends(text, TRUE), Now.do \in {"deliver", "flush"},
             Now.do = "flush" => Renderable(Text(Now.message))
      PROVE  \A k \in DOMAIN thread' : thread'[k].streaming => Streamed(k)
  <2>1. handler.turn # NoTurn
    BY <1>1, <1>3, <1>5, Names DEF TasksEnd
  <2>2. ASSUME NEW k \in DOMAIN thread', thread'[k].streaming
        PROVE  Streamed(k)
    <3>1. CASE k \in DOMAIN thread /\ thread[k].id # Now.message
      <4>1. thread'[k] = thread[k]
        BY <1>5, <3>1 DEF Sends, Sent
      <4>2. ~Completes(Now, thread[k].id)
        BY <1>5 DEF Completes
      <4> QED BY <2>2, <3>1, <4>1, <4>2 DEF Streamed
    <3>2. CASE k \in DOMAIN thread /\ thread[k].id = Now.message
      <4>1. thread'[k].id = Now.message /\ thread'[k].turn = handler.turn
        BY <1>5, <2>1, <3>2 DEF Sends, Sent
      <4> QED BY <1>5, <4>1 DEF Streamed
    <3>3. CASE k \notin DOMAIN thread
      <4>1. thread'[k].id = Now.message /\ thread'[k].turn = handler.turn
        BY <1>5, <3>3 DEF Sends, Sent
      <4> QED BY <1>5, <4>1 DEF Streamed
    <3> QED BY <3>1, <3>2, <3>3
  <2> QED BY <2>2
<1>6. ASSUME thread' = thread, \A k \in DOMAIN thread : thread[k].streaming => ~Completes(Now, thread[k].id)
      PROVE  \A k \in DOMAIN thread' : thread'[k].streaming => Streamed(k)
  BY <1>6 DEF Streamed
<1>7. CASE Now.do \in {"running", "over"}
  <2>1. UNCHANGED <<thread, buffered, known>>
    BY <1>1, <1>7, WorkDoes, SetSessionIs
  <2>2. \A id : ~Completes(Now, id)
    BY <1>7 DEF Completes
  <2> QED BY <1>6, <1>7, <2>1, <2>2
<1>8. CASE Now.do = "deliver"
  <2>1. Sends(Now.text, TRUE) /\ UNCHANGED <<buffered, known>>
    BY <1>1, <1>8, WorkDoes, DeliverTextIs
  <2>2. \A k \in DOMAIN thread' : thread'[k].streaming => Streamed(k)
    BY <1>5, <1>8, <2>1
  <2> QED BY <1>8, <2>1, <2>2
<1>9. CASE Now.do = "flush"
  <2>1. /\ Took /\ known' = known
        /\ \/ Renderable(Text(Now.message)) /\ Sends(Text(Now.message), TRUE)
           \/ ~Renderable(Text(Now.message)) /\ thread' = thread
    BY <1>1, <1>9, WorkDoes, FlushTextIs
  <2>2. \A id : ~Completes(Now, id)
    BY <1>9 DEF Completes
  <2>3. \A k \in DOMAIN thread' : thread'[k].streaming => Streamed(k)
    <3>1. CASE Renderable(Text(Now.message)) /\ Sends(Text(Now.message), TRUE)
      BY <1>5, <1>9, <3>1
    <3>2. CASE thread' = thread
      BY <1>6, <2>2, <3>2
    <3> QED BY <2>1, <3>1, <3>2
  <2> QED BY <1>9, <2>1, <2>3 DEF Took
<1>10. CASE Now.do = "finalize"
  <2>1. Took /\ known' = known /\ thread' = thread /\ ~Now.projected
    BY <1>1, <1>10, WorkDoes, FinalizeTextIs
  <2>2. \A id : ~Completes(Now, id)
    BY <1>10, <2>1 DEF Completes
  <2>3. \A k \in DOMAIN thread : thread[k].id = Now.message => ~thread[k].streaming
    BY <1>1, <1>3, <1>10, <2>1 DEF TasksEnd
  <2> QED BY <1>6, <2>1, <2>2, <2>3 DEF Took
<1>11. CASE Now.do = "complete"
  <2>1. Sends(<<>>, FALSE) /\ UNCHANGED <<buffered, known>>
    BY <1>1, <1>11, WorkDoes, CompleteMessageIs
  <2>2. \A k \in DOMAIN thread' : thread'[k].id = Now.message => ~thread'[k].streaming
    BY <2>1 DEF Sends, Sent
  <2>3. ASSUME NEW k \in DOMAIN thread', thread'[k].streaming
        PROVE  Streamed(k)
    <3>1. k \in DOMAIN thread /\ thread[k].id # Now.message /\ thread'[k] = thread[k]
      BY <2>1, <2>2, <2>3 DEF Sends, Sent
    <3> QED BY <2>3, <3>1 DEF Streamed, Completes
  <2> QED BY <2>1, <2>2, <2>3
<1> QED BY <1>7, <1>8, <1>9, <1>10, <1>11


LEMMA CompletionStreams ==
    ASSUME StreamInv, Unsettled, FinalizeText, TurnsToCompletion
    PROVE  RowsEnd' /\ TasksEnd'
<1>1. HandlerInv /\ TypedInv /\ TasksOrdered /\ RowsEnd /\ TasksEnd
  BY DEF StreamInv, SteadyInv, HandlerInv
<1>2. /\ ~Idle /\ provider' = provider
  BY <1>1, WorkIs DEF Work
<1>3. /\ Now.do = "finalize" /\ Now.message \in MessageId /\ Took /\ known' = known
      /\ \/ Sends(FinalText, TRUE)
         \/ thread' = thread /\ Now.projected
  <2>1. /\ Now.do = "finalize" /\ Now.message \in MessageId /\ Took
        /\ \/ Renderable(FinalText) /\ Sends(FinalText, TRUE) /\ TurnsToCompletion
           \/ ~Renderable(FinalText) /\ thread' = thread /\ Now.projected /\ TurnsToCompletion
           \/ ~Renderable(FinalText) /\ thread' = thread /\ ~Now.projected /\ MovesOn
        /\ UNCHANGED <<active, known, segment>>
    BY <1>1, FinalizeTextIs, Zenon
  <2>2. Len(handler.todo) \in Nat
    BY <1>1, <1>2, FirstTask DEF TypedInv
  <2>3. ~MovesOn
    BY <2>2 DEF MovesOn, TurnsToCompletion
  <2> QED BY <2>1, <2>3
<1>4. /\ DOMAIN handler'.todo = DOMAIN Todo
      /\ \A n \in DOMAIN Todo : n # 1 => handler'.todo[n] = Todo[n]
      /\ handler'.todo[1].do = "complete" /\ handler'.todo[1].message = Todo[1].message
      /\ handler'.turn = handler.turn /\ Todo[1].do = "finalize"
      /\ 1 \in DOMAIN Todo /\ Now = Todo[1]
  BY <1>1, <1>2, TurnedToCompletion, Zenon
<1>5. \A n \in DOMAIN Todo : Todo[n].do # "complete"
  BY <1>1, <1>4 DEF TasksOrdered
<1>6. RowsEnd'
  <2>1. SUFFICES ASSUME NEW k \in DOMAIN thread', thread'[k].streaming
        PROVE  /\ \/ \E t \in Turn \ provider.ended : thread'[k].id \in ToSet(known[t])
                  \/ \E n \in DOMAIN handler'.todo : Completes(handler'.todo[n], thread'[k].id)
               /\ \/ thread'[k].turn # NoTurn
                  \/ \E n \in DOMAIN handler'.todo : handler'.todo[n].do = "complete"
                                                     /\ handler'.todo[n].message = thread'[k].id
    BY <1>2, <1>3 DEF RowsEnd, Todo, Completes
  <2>2. CASE thread'[k].id = Now.message
    BY <1>4, <2>2 DEF Completes
  <2>3. CASE thread'[k].id # Now.message
    <3>1. k \in DOMAIN thread /\ thread'[k] = thread[k]
      BY <1>3, <2>3 DEF Sends, Sent
    <3>2. /\ \/ \E t \in Turn \ provider.ended : thread[k].id \in ToSet(known[t])
             \/ \E n \in DOMAIN Todo : Completes(Todo[n], thread[k].id)
          /\ thread[k].turn # NoTurn
      BY <1>1, <1>5, <2>1, <3>1 DEF RowsEnd
    <3>3. ASSUME NEW n \in DOMAIN Todo, Completes(Todo[n], thread[k].id)
          PROVE  n \in DOMAIN handler'.todo /\ handler'.todo[n] = Todo[n]
      <4>1. n # 1
        BY <1>4, <2>3, <3>1, <3>3 DEF Completes
      <4> QED BY <1>4, <4>1
    <3> QED BY <3>1, <3>2, <3>3
  <2> QED BY <2>2, <2>3
<1>7. TasksEnd'
  <2>1. SUFFICES ASSUME NEW n \in DOMAIN handler'.todo
        PROVE
        /\ handler'.todo[n].do \in {"deliver", "flush"} =>
              /\ handler'.turn \in Turn \ provider.ended
              /\ handler'.todo[n].message \in ToSet(known[handler'.turn])
        /\ handler'.todo[n].do = "turnDone" => handler'.turn \in provider.ended
        /\ handler'.todo[n].do = "finalize" /\ ~handler'.todo[n].projected =>
              /\ \A k \in DOMAIN thread' : thread'[k].id = handler'.todo[n].message /\ thread'[k].streaming =>
                    handler'.todo[1].do = "complete" /\ handler'.todo[1].message = handler'.todo[n].message
              /\ \A j \in DOMAIN handler'.todo :
                    j < n /\ handler'.todo[j].do = "flush"
                    /\ handler'.todo[j].message = handler'.todo[n].message =>
                       ~\E x \in ToSet(buffered'[handler'.todo[n].message]) : x \notin provider.blank
        /\ handler'.todo[n].do \in {"paused", "itemDone"} /\ n = 1 =>
              \A k \in DOMAIN thread' : thread'[k].id = handler'.todo[n].message => ~thread'[k].streaming
    BY <1>2, <1>3 DEF TasksEnd, Todo, Renderable, Text
  <2>2. CASE n = 1
    BY <1>4, <2>2
  <2>3. CASE n # 1
    <3>1. n \in DOMAIN Todo /\ handler'.todo[n] = Todo[n]
      BY <1>4, <2>3
    <3>2. ASSUME Todo[n].do = "finalize", ~Todo[n].projected
          PROVE  /\ \A k \in DOMAIN thread' : thread'[k].id = Todo[n].message /\ thread'[k].streaming =>
                       Now.message = Todo[n].message
                 /\ \A j \in DOMAIN handler'.todo :
                       j < n /\ handler'.todo[j].do = "flush" /\ handler'.todo[j].message = Todo[n].message =>
                          ~\E x \in ToSet(buffered'[Todo[n].message]) : x \notin provider.blank
      <4>1. /\ \A k \in DOMAIN thread : thread[k].id = Todo[n].message => ~thread[k].streaming
            /\ \A j \in DOMAIN Todo :
                  j < n /\ Todo[j].do = "flush" /\ Todo[j].message = Todo[n].message =>
                     ~Renderable(Text(Todo[n].message))
        <5>1. Todo[1].do # "complete"
          BY <1>4, <1>5
        <5>2. /\ \A k \in DOMAIN thread : thread[k].id = Todo[n].message /\ thread[k].streaming =>
                    Todo[1].do = "complete" /\ Todo[1].message = Todo[n].message
              /\ \A j \in DOMAIN Todo :
                    j < n /\ Todo[j].do = "flush" /\ Todo[j].message = Todo[n].message =>
                       ~Renderable(Text(Todo[n].message))
          BY <1>1, <3>1, <3>2 DEF TasksEnd
        <5> QED BY <5>1, <5>2
      <4>2. \A k \in DOMAIN thread' : thread'[k].id = Todo[n].message /\ thread'[k].streaming =>
                Now.message = Todo[n].message
        BY <1>3, <4>1 DEF Sends, Sent
      <4>3. ASSUME NEW j \in DOMAIN handler'.todo, j < n, handler'.todo[j].do = "flush",
                   handler'.todo[j].message = Todo[n].message
            PROVE  ~\E x \in ToSet(buffered'[Todo[n].message]) : x \notin provider.blank
        <5>1. j # 1
          BY <1>4, <4>3
        <5>2. ~Renderable(Text(Todo[n].message))
          BY <1>4, <4>1, <4>3, <5>1
        <5>3. Todo[n].message \in MessageId
          BY <1>1, <3>1, <3>2 DEF TypedInv, TasksFit, MessageTasks, Todo
        <5>4. ToSet(<<>>) = {}
          BY DEF ToSet
        <5> QED BY <1>3, <5>2, <5>3, <5>4 DEF Took, Renderable, Text
      <4> QED BY <4>2, <4>3
    <3>3. /\ Todo[n].do \in {"deliver", "flush"} =>
             handler.turn \in Turn \ provider.ended /\ Todo[n].message \in ToSet(known[handler.turn])
          /\ Todo[n].do = "turnDone" => handler.turn \in provider.ended
      BY <1>1, <3>1 DEF TasksEnd
    <3> QED BY <1>4, <2>3, <3>1, <3>2, <3>3
  <2> QED BY <2>2, <2>3
<1> QED BY <1>6, <1>7

LEMMA SettlingStreams ==
    ASSUME StreamInv, Unsettled, Work, Now.do \in {"paused", "itemDone", "turnDone", "clear"}
    PROVE  RowsEnd' /\ TasksEnd'
<1>1. HandlerInv /\ TypedInv /\ TasksOrdered /\ TasksMean /\ RowsEnd /\ TasksEnd
  BY DEF StreamInv, SteadyInv, HandlerInv
<1>2. /\ ~Idle /\ provider' = provider
  BY <1>1, WorkIs
<1>3. MovesOn
  BY <1>1, WorkDoes, SettlesIs, SettleTurnIs, ClearTurnsIs
<1>4. DOMAIN handler'.todo = {} /\ DOMAIN Todo = {1}
  BY <1>1, <1>2, <1>3, LastTask
<1>5. Now = Todo[1]
  BY <1>1, <1>2, FirstTask DEF TypedInv, Todo
<1>6. Now.do # "clear"
  BY <1>1, <1>4, <1>5 DEF TasksMean, Unsettled
<1>7. \A k \in DOMAIN thread : thread[k].streaming =>
         /\ \E t \in Turn \ provider.ended : thread[k].id \in ToSet(known[t])
         /\ thread[k].turn # NoTurn
  BY <1>1, <1>4, <1>5 DEF RowsEnd, Completes
<1>8. /\ thread' = thread
      /\ \A k \in DOMAIN thread : thread[k].streaming =>
            \A t \in Turn \ provider.ended :
               thread[k].id \in ToSet(known[t]) => thread[k].id \in ToSet(known'[t])
  <2>1. CASE Now.do \in {"paused", "itemDone"}
    <3>1. /\ thread' = thread
          /\ \A t \in Turn : \A m \in ToSet(known[t]) : m = Now.message \/ m \in ToSet(known'[t])
      BY <1>1, <2>1, WorkDoes, SettlesIs
    <3>2. \A k \in DOMAIN thread : thread[k].id = Now.message => ~thread[k].streaming
      BY <1>1, <1>4, <1>5, <2>1 DEF TasksEnd
    <3> QED BY <3>1, <3>2
  <2>2. CASE Now.do = "turnDone"
    <3>1. /\ thread' = thread
          /\ \A t \in Turn : known'[t] = IF t = handler.turn THEN <<>> ELSE known[t]
      BY <1>1, <2>2, WorkDoes, SettleTurnIs
    <3>2. handler.turn \in provider.ended
      BY <1>1, <1>4, <1>5, <2>2 DEF TasksEnd
    <3> QED BY <3>1, <3>2
  <2> QED BY <1>6, <2>1, <2>2
<1>9. RowsEnd'
  BY <1>2, <1>7, <1>8 DEF RowsEnd
<1>10. TasksEnd'
  BY <1>4 DEF TasksEnd, Todo
<1> QED BY <1>9, <1>10

LEMMA WorkKeepsStream ==
    ASSUME StreamInv, Unsettled, Work
    PROVE  RowsEnd' /\ TasksEnd'
<1>1. HandlerInv /\ TypedInv /\ ~Idle
  BY WorkIs DEF StreamInv, SteadyInv, HandlerInv
<1>2. Now.do \in Doings
  <2>1. Now \in Tasks
    BY <1>1, FirstTask DEF TypedInv
  <2> QED BY <2>1 DEF Tasks
<1>3. CASE Now.do \in {"paused", "itemDone", "turnDone", "clear"}
  BY <1>3, SettlingStreams
<1>4. CASE Now.do \notin {"paused", "itemDone", "turnDone", "clear"} /\ ~TurnsToCompletion
  <2>1. Now.do \in {"running", "over", "deliver", "flush", "finalize", "complete"}
    BY <1>2, <1>4 DEF Doings, MessageTasks, TurnTasks
  <2> QED BY <1>4, <2>1, TaskStreams
<1>5. CASE TurnsToCompletion
  <2>1. Now.do = "finalize"
    BY <1>5 DEF TurnsToCompletion
  <2>2. FinalizeText
    BY <2>1, WorkDoes
  <2> QED BY <1>5, <2>2, CompletionStreams
<1> QED BY <1>3, <1>4, <1>5

\* What was streaming when an event came.
LEMMA RowsEndStay ==
    ASSUME RowsEnd, Idle, thread' = thread,
           \A k \in DOMAIN thread : thread[k].streaming =>
              \A t \in Turn \ provider.ended : thread[k].id \in ToSet(known[t]) =>
                 \/ t \notin provider'.ended /\ thread[k].id \in ToSet(known'[t])
                 \/ \E n \in DOMAIN handler'.todo : Completes(handler'.todo[n], thread[k].id)
    PROVE  RowsEnd'
<1>1. SUFFICES ASSUME NEW k \in DOMAIN thread, thread[k].streaming
      PROVE /\ \/ \E t \in Turn \ provider'.ended : thread[k].id \in ToSet(known'[t])
               \/ \E n \in DOMAIN handler'.todo : Completes(handler'.todo[n], thread[k].id)
            /\ thread[k].turn # NoTurn
  BY DEF RowsEnd, Todo, Completes
<1>2. /\ \E t \in Turn \ provider.ended : thread[k].id \in ToSet(known[t])
      /\ thread[k].turn # NoTurn
  BY <1>1, IdleIs DEF RowsEnd, Todo
<1> QED BY <1>1, <1>2

LEMMA DeltaKeepsStream ==
    ASSUME StreamInv, ContentDelta, Unsettled, Steady'
    PROVE  RowsEnd' /\ TasksEnd'
<1>1. SteadyInv /\ TypedInv /\ TypeInv /\ RowsEnd
  BY DEF StreamInv, SteadyInv, HandlerInv, TypedInv
<1>2. Idle /\ UNCHANGED <<thread, active>>
  BY DEF ContentDelta
<1>3. PICK item \in Item, t \in {NoTurn} \cup Turn, turn \in {NoTurn} \cup Turn, id \in MessageId :
          DeltaStep(item, t, turn, id)
  BY <1>1, ContentDeltaIs
<1>4. turn = Running /\ Running \in Turn \ provider.ended
  BY <1>1, <1>2, <1>3, DeltaTurn
<1>5. /\ \A s \in Turn : ToSet(known[s]) \subseteq ToSet(known'[s])
      /\ id \in ToSet(known'[Running])
  <2>1. Remember(turn, id) /\ turn # NoTurn
    BY <1>3, <1>4, Names DEF DeltaStep
  <2>2. /\ \A s \in Turn : ToSet(known[s]) \subseteq ToSet(known'[s])
        /\ id \in ToSet(known'[turn])
    BY <1>1, <2>1, RememberedIs
  <2> QED BY <1>4, <2>2
<1>6. provider'.ended = provider.ended
  BY <1>3 DEF DeltaStep, SameTurns
<1>7. RowsEnd'
  BY <1>1, <1>2, <1>5, <1>6, RowsEndStay
<1>8. \A n \in DOMAIN handler'.todo :
          /\ handler'.todo[n].do = "deliver" /\ handler'.todo[n].message = id
          /\ handler'.turn = Running
  BY <1>2, <1>3, <1>4, IdleIs DEF DeltaStep, DeltaLeaves
<1>9. TasksEnd'
  BY <1>4, <1>5, <1>6, <1>8 DEF TasksEnd, Todo
<1> QED BY <1>7, <1>9

LEMMA QuestionKeepsStream ==
    ASSUME StreamInv, QuestionAsked, Unsettled, Steady
    PROVE  RowsEnd' /\ TasksEnd'
<1>1. SteadyInv /\ TypedInv /\ RowsEnd /\ Homes
  BY DEF StreamInv, SteadyInv, HandlerInv
<1>2. QuestionLeaves /\ Idle /\ UNCHANGED <<thread, active, caches, provider, upset>>
  BY <1>1, QuestionIs DEF QuestionAsked
<1>3. RowsEnd'
  BY <1>1, <1>2, RowsEndStay DEF caches
<1>4. Running \in Turn \ provider.ended
  BY <1>1, <1>2, RunningIs, Names DEF QuestionLeaves
<1>5. segment[Running].active # NoMessage => Of(segment[Running].active, Running)
  BY <1>1, <1>4 DEF Homes, SegmentHome
<1>6. \A k \in DOMAIN thread : thread[k].streaming => thread[k].turn # NoTurn
  BY <1>1, <1>2, IdleIs DEF RowsEnd, Todo
<1>7. \A k \in DOMAIN thread :
          segment[Running].active # NoMessage /\ thread[k].id = segment[Running].active /\ thread[k].streaming =>
             thread[k].turn = Running
  BY <1>1, <1>5, <1>6 DEF Homes, RowHome, Of
<1>8. SUFFICES ASSUME NEW n \in DOMAIN handler'.todo
      PROVE
        /\ handler'.todo[n].do \in {"deliver", "flush"} =>
              /\ handler'.turn \in Turn \ provider.ended
              /\ handler'.todo[n].message \in ToSet(known[handler'.turn])
        /\ handler'.todo[n].do = "turnDone" => handler'.turn \in provider.ended
        /\ handler'.todo[n].do = "finalize" /\ ~handler'.todo[n].projected =>
              /\ \A k \in DOMAIN thread : thread[k].id = handler'.todo[n].message /\ thread[k].streaming =>
                    handler'.todo[1].do = "complete" /\ handler'.todo[1].message = handler'.todo[n].message
              /\ \A j \in DOMAIN handler'.todo :
                    j < n /\ handler'.todo[j].do = "flush"
                    /\ handler'.todo[j].message = handler'.todo[n].message =>
                       ~Renderable(Text(handler'.todo[n].message))
        /\ handler'.todo[n].do \in {"paused", "itemDone"} /\ n = 1 =>
              \A k \in DOMAIN thread : thread[k].id = handler'.todo[n].message => ~thread[k].streaming
  BY <1>2, <1>3 DEF TasksEnd, Todo, Renderable, Text, caches
<1>9. handler'.turn = Running /\ 0 \notin DOMAIN handler'.todo
  <2>1. handler' \in Handlers /\ handler'.todo # <<>>
    BY <1>2, <1>8 DEF QuestionLeaves
  <2>2. DOMAIN handler'.todo = 1..Len(handler'.todo)
    BY <2>1, LenProperties DEF Handlers
  <2> QED BY <1>2, <2>1, <2>2 DEF QuestionLeaves
<1>10. CASE handler'.todo[n].do = "flush" /\ handler'.todo[n].message \in ToSet(known[Running])
  BY <1>4, <1>9, <1>10
<1>11. CASE /\ handler'.todo[n].do = "finalize" /\ handler'.todo[n].message = segment[Running].active
            /\ segment[Running].active # NoMessage
            /\ ~handler'.todo[n].projected =>
                  /\ \A k \in DOMAIN thread : ~(thread[k].turn = Running /\ thread[k].streaming)
                  /\ \A k \in DOMAIN handler'.todo :
                        handler'.todo[k].do = "flush" /\ handler'.todo[k].message = segment[Running].active =>
                           ~Renderable(Text(segment[Running].active))
  BY <1>7, <1>11
<1>12. CASE handler'.todo[n].do = "paused" /\ n - 1 \in DOMAIN handler'.todo
  BY <1>9, <1>12
<1> QED BY <1>2, <1>8, <1>10, <1>11, <1>12 DEF QuestionLeaves

LEMMA ItemKeepsStream ==
    ASSUME StreamInv, ItemCompleted, Unsettled
    PROVE  RowsEnd' /\ TasksEnd'
<1>1. TypedInv /\ TypeInv /\ RowsEnd
  BY DEF StreamInv, SteadyInv, HandlerInv, TypedInv
<1>2. Idle /\ UNCHANGED <<thread, active, buffered>>
  BY DEF ItemCompleted
<1>3. PICK item \in Item, turn \in {NoTurn} \cup Turn, detail \in Seq(Piece) :
          ItemStep(item, turn, detail)
  BY <1>1, ItemCompletedIs
<1>4. provider'.ended = provider.ended
  BY <1>3 DEF ItemStep, SameTurns
<1>5. CASE UNCHANGED <<known, handler>>
  <2>1. RowsEnd'
    BY <1>1, <1>2, <1>4, <1>5, RowsEndStay
  <2> QED BY <1>2, <1>5, <2>1, IdleIs DEF TasksEnd, Todo
<1>6. CASE ~UNCHANGED <<known, handler>>
  <2>1. PICK id \in MessageId :
          /\ Remember(turn, id) \/ known' = known
          /\ DOMAIN handler'.todo = IF turn = NoTurn THEN {1} ELSE {1, 2}
          /\ handler'.todo[1].do = "finalize" /\ handler'.todo[1].message = id
          /\ handler'.todo[1].projected <=> \E k \in DOMAIN thread : thread[k].id = id
          /\ turn # NoTurn =>
                handler'.todo[2].do = "itemDone" /\ handler'.todo[2].message = id
    BY <1>3, <1>6 DEF ItemStep, ItemLeaves
  <2>2. \A s \in Turn : ToSet(known[s]) \subseteq ToSet(known'[s])
    BY <1>1, <2>1, RememberedIs
  <2>3. RowsEnd'
    BY <1>1, <1>2, <1>4, <2>2, RowsEndStay
  <2>4. \A n \in DOMAIN handler'.todo :
            \/ /\ n = 1 /\ handler'.todo[n].do = "finalize" /\ handler'.todo[n].message = id
               /\ handler'.todo[n].projected <=> \E k \in DOMAIN thread : thread[k].id = id
            \/ n = 2 /\ handler'.todo[n].do = "itemDone"
    BY <2>1
  <2>5. \A j \in DOMAIN handler'.todo : handler'.todo[j].do # "flush"
    BY <2>4
  <2>6. TasksEnd'
    BY <1>2, <2>4, <2>5 DEF TasksEnd, Todo
  <2> QED BY <2>3, <2>6
<1> QED BY <1>5, <1>6

LEMMA TurnKeepsStream ==
    ASSUME StreamInv, TurnCompleted, Unsettled
    PROVE  RowsEnd' /\ TasksEnd'
<1>1. TypedInv /\ RowsEnd
  BY DEF StreamInv, SteadyInv, HandlerInv
<1>2. Idle /\ UNCHANGED <<thread, active, caches, upset>>
  BY DEF TurnCompleted
<1>3. PICK t \in Turn : TurnStep(t)
  BY <1>1, TurnTyped
<1>4. TurnLeaves(t) /\ provider'.ended = provider.ended \cup {t}
  BY <1>3 DEF TurnStep
<1>5. \A n \in DOMAIN handler'.todo :
          \/ handler'.todo[n].do = "over"
          \/ /\ handler'.todo[n].do = "finalize"
             /\ handler'.todo[n].projected <=> \E k \in DOMAIN thread : thread[k].id = handler'.todo[n].message
          \/ handler'.todo[n].do = "turnDone"
  BY <1>4 DEF TurnLeaves
<1>6. handler'.turn = t
  BY <1>4 DEF TurnLeaves
<1>7. ASSUME NEW k \in DOMAIN thread, thread[k].id \in ToSet(known[t])
      PROVE  \E n \in DOMAIN handler'.todo : Completes(handler'.todo[n], thread[k].id)
  <2>1. PICK n \in DOMAIN handler'.todo : handler'.todo[n].do = "finalize" /\ handler'.todo[n].message = thread[k].id
    BY <1>4, <1>7 DEF TurnLeaves
  <2> QED BY <1>5, <2>1 DEF Completes
<1>8. RowsEnd'
  <2>1. known' = known /\ thread' = thread
    BY <1>2 DEF caches
  <2> QED BY <1>1, <1>2, <1>4, <1>7, <2>1, RowsEndStay
<1>9. \A j \in DOMAIN handler'.todo : handler'.todo[j].do # "flush"
  BY <1>5
<1>10. TasksEnd'
  BY <1>2, <1>4, <1>5, <1>6, <1>9 DEF TasksEnd, Todo
<1> QED BY <1>8, <1>10

LEMMA StreamKept ==
    ASSUME StreamInv, [Next]_vars
    PROVE  StreamInv'
<1>1. SteadyInv' /\ TypedInv /\ SteadyInv
  BY SteadyKept DEF StreamInv, SteadyInv, HandlerInv
<1>2. ToSet(upset) \subseteq ToSet(upset')
  BY <1>1, StepTyped
<1>3. SUFFICES ASSUME Unsettled' PROVE RowsEnd' /\ TasksEnd'
  BY <1>1 DEF StreamInv
<1>4. /\ ToSet(upset') \cap {"failure", "exit", "restart", "expiry", "late"} = {}
      /\ Unsettled /\ Steady /\ Steady'
  BY <1>2, <1>3 DEF Unsettled, Lasting, Without, Steady
<1>5. RowsEnd /\ TasksEnd
  BY <1>4 DEF StreamInv
<1>6. CASE TurnStarted
  <2>1. /\ DOMAIN handler'.todo = {1} /\ handler'.todo[1].do = "running"
        /\ provider'.ended = provider.ended
    BY <1>1, <1>6, NewTurnTyped
  <2>2. Idle /\ UNCHANGED <<thread, known>>
    BY <1>6 DEF TurnStarted, caches
  <2>3. RowsEnd'
    BY <1>5, <2>1, <2>2, RowsEndStay
  <2> QED BY <2>1, <2>3 DEF TasksEnd, Todo
<1>7. CASE SwitchMode
  BY <1>5, <1>7 DEF SwitchMode, caches, RowsEnd, TasksEnd, Todo, Completes, Renderable, Text
<1>8. CASE UNCHANGED vars
  BY <1>5, <1>8 DEF vars, caches, RowsEnd, TasksEnd, Todo, Completes, Renderable, Text
<1>9. ~CommandFails /\ ~SessionExited /\ ~EntryExpires /\ ~Restart
  BY <1>1, <1>4, FailureTyped, ExitTyped, ExpiryTyped, RestartTyped
<1> QED
  BY <1>4, <1>6, <1>7, <1>8, <1>9, WorkKeepsStream, DeltaKeepsStream, QuestionKeepsStream,
     ItemKeepsStream, TurnKeepsStream DEF Next

LEMMA StreamBegins == Init => StreamInv
<1> SUFFICES ASSUME Init PROVE StreamInv
  OBVIOUS
<1>1. SteadyInv /\ Idle
  BY SteadyBegins, InitTyped
<1>2. TasksEnd
  BY <1>1, IdleIs DEF TasksEnd, Todo
<1>3. RowsEnd
  BY DEF Init, RowsEnd
<1> QED BY <1>1, <1>2, <1>3 DEF StreamInv

\* No message is left streaming by a turn that is over (finalizeAssistant-
\* Message): while the caches last and no text is taken for another turn, one
\* that still streams is among those that the end of a running turn completes.
THEOREM AssistantTextStreamingEnds == Spec => []StreamingEnds
<1>1. Init => StreamInv
  BY StreamBegins
<1>2. StreamInv /\ [Next]_vars => StreamInv'
  BY StreamKept
<1>3. StreamInv => StreamingEnds
  <2>1. SUFFICES ASSUME StreamInv, Idle, Lasting, Without({"late"}), NEW row \in ToSet(thread),
                        row.streaming
        PROVE  \E t \in Turn \ provider.ended : Contains(known[t], row.id)
    BY DEF StreamingEnds
  <2>2. RowsEnd /\ known \in [Turn -> Seq(MessageId)]
    BY <2>1 DEF StreamInv, Unsettled, SteadyInv, HandlerInv, TypedInv, TypeInv
  <2>3. PICK k \in DOMAIN thread : thread[k] = row
    BY DEF ToSet
  <2>4. PICK t \in Turn \ provider.ended : row.id \in ToSet(known[t])
    BY <2>1, <2>2, <2>3, IdleIs DEF RowsEnd, Todo
  <2>5. Contains(known[t], row.id)
    BY <2>2, <2>4, LenProperties DEF Contains, ToSet
  <2> QED BY <2>4, <2>5
<1> QED BY <1>1, <1>2, <1>3, PTL DEF Spec


-----------------------------------------------------------------------------
(* Items that follow each other *)

Apart == Without({"failure", "late", "overlap"})

\* A turn has one item that is open.
OneOpen == \A o, q \in provider.open : provider.home[o] = provider.home[q] => o = q

\* A segment is of an item that is open, or of a turn that will have no other
\* item, or its item is being completed.
SegmentsOpen ==
    \A t \in Turn : segment[t].active # NoMessage =>
        \/ segment[t].active[1] \in provider.open
        \/ t # Running /\ \A o \in provider.open : provider.home[o] # t
        \/ handler.turn = t /\ \E n \in DOMAIN Todo : Todo[n].do = "itemDone"
NewTurns == \A t \in Turn : t > provider.turns => segment[t] = NoSegment

ApartInv == SteadyInv /\ (Apart => OneOpen /\ SegmentsOpen /\ NewTurns)

\* Before the running turn begins an item, it has no segment.
LEMMA NoneActive ==
    ASSUME ApartInv, Apart, Idle, Running \in Turn,
           \A o \in provider.open : provider.home[o] # Running
    PROVE  segment[Running].active = NoMessage
<1>1. SegmentsOpen /\ SegmentHome
  BY DEF ApartInv, SteadyInv, Homes, Apart, Steady, Without
<1>2. SUFFICES ASSUME segment[Running].active # NoMessage PROVE FALSE
  OBVIOUS
<1>3. segment[Running].active[1] \in provider.open
  BY <1>1, <1>2, IdleIs DEF SegmentsOpen, Todo
<1> QED BY <1>1, <1>2, <1>3 DEF SegmentHome, Of

LEMMA WorkKeepsApart ==
    ASSUME ApartInv, Work, Apart
    PROVE  OneOpen' /\ SegmentsOpen' /\ NewTurns'
<1>1. HandlerInv /\ TypedInv /\ TypeInv /\ OneOpen /\ SegmentsOpen /\ NewTurns
  BY DEF ApartInv, SteadyInv, HandlerInv, TypedInv
<1>2. ~Idle /\ provider' = provider /\ (MovesOn \/ TurnsToCompletion)
  BY <1>1, WorkIs
<1>3. OneOpen'
  BY <1>1, <1>2 DEF OneOpen
<1>4. \A t \in Turn :
         \/ segment'[t] = segment[t] /\ (t = handler.turn => Now.do # "itemDone")
         \/ segment'[t].active = NoMessage /\ segment'[t] = NoSegment
         \/ segment'[t].active = NoMessage /\ segment[t] # NoSegment
  <2>1. CASE Now.do \in {"paused", "itemDone"}
    <3>1. SettlePause \/ SettleItem
      BY <1>1, <2>1, WorkDoes
    <3>2. segment \in [Turn -> Segment] /\ NoSegment.active = NoMessage
      BY <1>1 DEF TypeInv, NoSegment
    <3>3. CASE SettlePause
      <4>1. /\ segment' = [segment EXCEPT ![handler.turn].active = NoMessage]
            /\ Now.do = "paused"
        BY <3>3 DEF SettlePause, Does
      <4>2. \A t \in Turn : t # handler.turn => segment'[t] = segment[t]
        BY <3>2, <4>1
      <4>3. handler.turn \in Turn =>
               /\ segment'[handler.turn].active = NoMessage
               /\ segment[handler.turn].active = NoMessage => segment'[handler.turn] = segment[handler.turn]
        BY <3>2, <4>1 DEF Segment
      <4> QED BY <3>2, <4>1, <4>2, <4>3
    <3>4. CASE SettleItem
      <4>1. segment' = [segment EXCEPT ![handler.turn] = NoSegment]
        BY <3>4 DEF SettleItem
      <4> QED BY <3>2, <4>1
    <3> QED BY <3>1, <3>3, <3>4
  <2>2. CASE Now.do = "turnDone"
    <3>1. SettleTurn
      BY <1>1, <2>2, WorkDoes
    <3>2. segment \in [Turn -> Segment] /\ NoSegment.active = NoMessage
      BY <1>1 DEF TypeInv, NoSegment
    <3>3. segment' = [segment EXCEPT ![handler.turn] = NoSegment]
      BY <3>1 DEF SettleTurn
    <3> QED BY <2>2, <3>2, <3>3
  <2>3. CASE Now.do = "clear"
    <3>1. ClearTurns
      BY <1>1, <2>3, WorkDoes
    <3>2. \A t \in Turn : segment'[t] = NoSegment
      BY <3>1 DEF ClearTurns
    <3> QED BY <3>2 DEF NoSegment
  <2>4. CASE Now.do \notin {"paused", "itemDone", "turnDone", "clear"}
    <3>1. segment' = segment
      BY <1>1, <2>4, WorkDoes DEF SetSession, DeliverText, FlushText, FinalizeText, CompleteMessage,
             SettlePause, SettleItem, SettleTurn, ClearTurns, caches, Does, Work
    <3> QED BY <2>4, <3>1
  <2> QED BY <2>1, <2>2, <2>3, <2>4
<1>5. NewTurns'
  BY <1>1, <1>2, <1>4 DEF NewTurns
<1>6. SegmentsOpen'
  <2>1. SUFFICES ASSUME NEW t \in Turn, segment'[t].active # NoMessage
        PROVE  \/ segment'[t].active[1] \in provider.open
               \/ t # Running /\ \A o \in provider.open : provider.home[o] # t
               \/ handler'.turn = t /\ \E n \in DOMAIN handler'.todo : handler'.todo[n].do = "itemDone"
    BY <1>2 DEF SegmentsOpen, Todo, Running
  <2>2. segment'[t] = segment[t] /\ (t = handler.turn => Now.do # "itemDone")
    BY <1>4, <2>1
  <2>3. ASSUME handler.turn = t, NEW n \in DOMAIN Todo, Todo[n].do = "itemDone"
        PROVE  handler'.turn = t /\ \E k \in DOMAIN handler'.todo : handler'.todo[k].do = "itemDone"
    <3>1. CASE MovesOn
      <4>1. n # 1
        <5>1. Now = Todo[1]
          BY <1>1, <1>2, <3>1, MovedOn, Zenon
        <5> QED BY <2>2, <2>3, <5>1
      <4>2. n - 1 \in DOMAIN handler'.todo /\ handler'.todo[n - 1] = Todo[n]
        BY <1>1, <1>2, <3>1, <4>1, MovedOn, Zenon
      <4>3. handler'.turn = handler.turn
        BY <1>1, <1>2, <3>1, <4>2, MovedOn, Zenon
      <4> QED BY <2>3, <4>2, <4>3
    <3>2. CASE TurnsToCompletion
      <4>1. /\ DOMAIN handler'.todo = DOMAIN Todo
            /\ \A k \in DOMAIN Todo : k # 1 => handler'.todo[k] = Todo[k]
            /\ handler'.turn = handler.turn /\ Todo[1].do = "finalize"
        BY <1>1, <1>2, <3>2, TurnedToCompletion, Zenon
      <4> QED BY <2>3, <4>1
    <3> QED BY <1>2, <3>1, <3>2
  <2> QED BY <1>1, <2>1, <2>2, <2>3 DEF SegmentsOpen
<1> QED BY <1>3, <1>5, <1>6

LEMMA DeltaKeepsApart ==
    ASSUME ApartInv, ContentDelta, Apart, Apart'
    PROVE  OneOpen' /\ SegmentsOpen' /\ NewTurns'
<1>1. SteadyInv /\ TypedInv /\ TypeInv /\ OneOpen /\ SegmentsOpen /\ NewTurns /\ Steady'
      /\ "overlap" \notin ToSet(upset') /\ "late" \notin ToSet(upset')
  BY DEF ApartInv, SteadyInv, HandlerInv, TypedInv, Apart, Steady, Without
<1>2. Idle
  BY DEF ContentDelta
<1>3. PICK item \in Item, t \in {NoTurn} \cup Turn, turn \in {NoTurn} \cup Turn, id \in MessageId :
          DeltaStep(item, t, turn, id)
  BY <1>1, ContentDeltaIs
<1>4. /\ turn = Running /\ Running \in Turn \ provider.ended
      /\ \A i \in DOMAIN provider.home : provider'.home[i] = provider.home[i]
  BY <1>1, <1>2, <1>3, DeltaTurn
<1>5. provider.open \subseteq DOMAIN provider.home /\ provider.turns \in Nat /\ Running = provider.turns
  BY <1>1, <1>4, Bounds, Names, RunningIs DEF TypedInv, TypeInv, ProviderFits, Provider
<1>6. provider'.turns = provider.turns /\ Running' = Running
  BY <1>3 DEF DeltaStep, SameTurns, Running
<1>7. item \in provider'.open /\ provider.open \subseteq provider'.open
      /\ \A o \in provider'.open : o = item \/ o \in provider.open
  BY <1>3 DEF DeltaStep
<1>8. /\ provider'.home[item] = Running
      /\ \A o \in provider.open : provider.home[o] = Running => o = item
  <2>1. CASE Added(item) /\ \A o \in provider.open : provider.home[o] # Running
    BY <2>1 DEF Added
  <2>2. CASE item \in provider.open /\ Continued(item) /\ provider.home[item] = Running
    BY <1>1, <2>2 DEF Continued, OneOpen
  <2> QED BY <1>1, <1>3, <2>1, <2>2 DEF DeltaStep
<1>9. OneOpen'
  BY <1>1, <1>4, <1>5, <1>7, <1>8 DEF OneOpen
<1>10. \A s \in Turn : \/ segment'[s] = segment[s]
                       \/ s = Running /\ \E number \in Nat : segment'[s].active = <<item, number>>
  <2>1. Segments(turn, item, id) /\ segment \in [Turn -> Segment] /\ requests \in Nat
    BY <1>1, <1>3, Bounds DEF DeltaStep, TypeInv
  <2> QED BY <1>4, <2>1 DEF Segments
<1>11. NewTurns'
  BY <1>1, <1>5, <1>6, <1>10 DEF NewTurns
<1>12. SegmentsOpen'
  <2>1. SUFFICES ASSUME NEW s \in Turn, segment'[s].active # NoMessage
        PROVE  \/ segment'[s].active[1] \in provider'.open
               \/ s # Running /\ \A o \in provider'.open : provider'.home[o] # s
    BY <1>6 DEF SegmentsOpen
  <2>2. CASE segment'[s] = segment[s]
    <3>1. \/ segment[s].active[1] \in provider.open
          \/ s # Running /\ \A o \in provider.open : provider.home[o] # s
      BY <1>1, <1>2, <2>1, <2>2, IdleIs DEF SegmentsOpen, Todo
    <3> QED BY <1>4, <1>5, <1>7, <1>8, <2>2, <3>1
  <2>3. CASE \E number \in Nat : segment'[s].active = <<item, number>>
    BY <1>7, <2>3
  <2> QED BY <1>10, <2>2, <2>3
<1> QED BY <1>9, <1>11, <1>12

LEMMA ItemKeepsApart ==
    ASSUME ApartInv, ItemCompleted, Apart, Apart'
    PROVE  OneOpen' /\ SegmentsOpen' /\ NewTurns'
<1>1. SteadyInv /\ TypedInv /\ TypeInv /\ OneOpen /\ SegmentsOpen /\ NewTurns /\ Steady' /\ SegmentHome
  BY DEF ApartInv, SteadyInv, HandlerInv, TypedInv, Apart, Steady, Without, Homes
<1>2. Idle
  BY DEF ItemCompleted
<1>3. PICK item \in Item, turn \in {NoTurn} \cup Turn, detail \in Seq(Piece) :
          ItemStep(item, turn, detail)
  BY <1>1, ItemCompletedIs
<1>4. /\ item \in DOMAIN provider'.home /\ turn \in {NoTurn, provider'.home[item]}
      /\ Running # NoTurn => active = Running
      /\ \A i \in DOMAIN provider.home : provider'.home[i] = provider.home[i]
  BY <1>1, <1>2, <1>3, ItemTurn
<1>5. /\ provider.open \subseteq DOMAIN provider.home /\ provider'.open \subseteq provider.open
      /\ \A o \in provider.open : o = item \/ o \in provider'.open
  BY <1>1, <1>3 DEF TypedInv, ProviderFits, ItemStep
<1>6. provider'.turns = provider.turns /\ Running' = Running
  BY <1>3 DEF ItemStep, SameTurns, Running
<1>7. OneOpen'
  BY <1>1, <1>4, <1>5 DEF OneOpen
<1>8. \A s \in Turn : segment'[s] = segment[s] \/ segment'[s] = NoSegment
  BY <1>1, <1>3 DEF ItemStep, ItemLeaves, TypeInv
<1>9. NewTurns'
  BY <1>1, <1>6, <1>8 DEF NewTurns
<1>10. SegmentsOpen'
  <2>1. SUFFICES ASSUME NEW s \in Turn, segment'[s].active # NoMessage
        PROVE  \/ segment'[s].active[1] \in provider'.open
               \/ s # Running /\ \A o \in provider'.open : provider'.home[o] # s
               \/ handler'.turn = s /\ \E n \in DOMAIN handler'.todo : handler'.todo[n].do = "itemDone"
    BY <1>6 DEF SegmentsOpen, Todo
  <2>2. segment'[s] = segment[s]
    BY <1>8, <2>1 DEF NoSegment
  <2>3. \/ segment[s].active[1] \in provider.open
        \/ s # Running /\ \A o \in provider.open : provider.home[o] # s
    BY <1>1, <1>2, <2>1, <2>2, IdleIs DEF SegmentsOpen, Todo
  <2>4. CASE segment[s].active[1] = item /\ item \in provider.open
    <3>1. provider.home[item] = s
      BY <1>1, <2>1, <2>2, <2>4 DEF SegmentHome, Of
    <3>2. turn \in {NoTurn, s}
      BY <1>4, <1>5, <2>4, <3>1
    <3>3. CASE turn = s
      <4>1. /\ handler'.turn = turn /\ handler'.todo # <<>> /\ 2 \in DOMAIN handler'.todo
            /\ handler'.todo[2].do = "itemDone"
        BY <1>3, <2>1, <2>2, <3>3, Names DEF ItemStep, ItemLeaves
      <4> QED BY <3>3, <4>1
    <3>4. CASE turn = NoTurn
      <4>1. Running = NoTurn /\ s # NoTurn
        BY <1>3, <1>4, <3>4, Names DEF ItemStep
      <4>2. item \notin provider'.open
        <5>1. ~Added(item)
          BY <1>5, <2>4 DEF Added
        <5> QED BY <1>3, <5>1 DEF ItemStep
      <4>3. \A o \in provider'.open : provider'.home[o] # s
        BY <1>1, <1>4, <1>5, <2>4, <3>1, <4>2 DEF OneOpen
      <4> QED BY <4>1, <4>3
    <3> QED BY <3>2, <3>3, <3>4
  <2> QED BY <1>4, <1>5, <2>2, <2>3, <2>4
<1> QED BY <1>7, <1>9, <1>10

LEMMA ApartKept ==
    ASSUME ApartInv, [Next]_vars
    PROVE  ApartInv'
<1>1. SteadyInv' /\ TypedInv /\ TypeInv /\ SteadyInv
  BY SteadyKept DEF ApartInv, SteadyInv, HandlerInv, TypedInv
<1>2. ToSet(upset) \subseteq ToSet(upset')
  BY <1>1, StepTyped
<1>3. SUFFICES ASSUME Apart' PROVE OneOpen' /\ SegmentsOpen' /\ NewTurns'
  BY <1>1 DEF ApartInv
<1>4. Apart /\ "failure" \notin ToSet(upset')
  BY <1>2, <1>3 DEF Apart, Without
<1>5. OneOpen /\ SegmentsOpen /\ NewTurns
  BY <1>4 DEF ApartInv
<1>6. /\ provider.turns \in Nat /\ Running \in {NoTurn, provider.turns} /\ NoTurn \notin Turn
      /\ Turn \subseteq Nat /\ NoSegment.active = NoMessage
  BY <1>1, Names, RunningIs DEF TypeInv, Provider, NoSegment
<1>7. CASE TurnStarted
  <2>1. /\ Idle /\ segment' = segment /\ provider'.turns = provider.turns + 1
        /\ provider'.home = provider.home /\ provider'.open = provider.open
        /\ provider'.ended = provider.ended
    BY <1>1, <1>7, NewTurnTyped DEF TurnStarted, caches
  <2>2. Running' \in {NoTurn, provider.turns + 1}
    BY <2>1 DEF Running
  <2>3. OneOpen' /\ NewTurns'
    BY <1>5, <1>6, <2>1 DEF OneOpen, NewTurns
  <2>4. SegmentsOpen'
    <3>1. SUFFICES ASSUME NEW t \in Turn, segment[t].active # NoMessage
          PROVE  \/ segment[t].active[1] \in provider.open
                 \/ t # Running' /\ \A o \in provider.open : provider.home[o] # t
      BY <2>1 DEF SegmentsOpen
    <3>2. \/ segment[t].active[1] \in provider.open
          \/ \A o \in provider.open : provider.home[o] # t
      BY <1>5, <2>1, <3>1, IdleIs DEF SegmentsOpen, Todo
    <3>3. t # provider.turns + 1
      BY <1>5, <1>6, <3>1 DEF NewTurns
    <3> QED BY <1>6, <2>2, <3>2, <3>3
  <2> QED BY <2>3, <2>4
<1>8. CASE QuestionAsked
  <2>1. Idle /\ UNCHANGED <<segment, provider>>
    BY <1>8 DEF QuestionAsked, caches
  <2> QED BY <1>5, <2>1, IdleIs DEF OneOpen, NewTurns, SegmentsOpen, Running, Todo
<1>9. CASE TurnCompleted
  <2>1. PICK t \in Turn : TurnStep(t)
    BY <1>1, <1>9, TurnTyped
  <2>2. Idle /\ segment' = segment
    BY <1>9 DEF TurnCompleted, caches
  <2>3. /\ provider'.turns = provider.turns /\ provider'.home = provider.home
        /\ provider'.open = provider.open
        /\ Running' \in {NoTurn, Running}
    BY <2>1 DEF TurnStep, Running
  <2> QED BY <1>5, <1>6, <2>2, <2>3, IdleIs DEF OneOpen, NewTurns, SegmentsOpen, Todo
<1>10. CASE SessionExited \/ Restart
  <2>1. /\ provider'.open = {} /\ provider'.turns = provider.turns
        /\ provider'.ended = 1..provider.turns
    BY <1>1, <1>10, GoneIs DEF SessionExited, Restart
  <2>2. Running' = NoTurn
    <3>1. provider.turns = 0 \/ provider.turns \in 1..provider.turns
      BY <1>6
    <3> QED BY <2>1, <3>1 DEF Running, NoTurn
  <2>3. \A t \in Turn : segment'[t] = segment[t] \/ segment'[t] = NoSegment
    BY <1>10 DEF SessionExited, Restart, caches
  <2> QED BY <1>5, <1>6, <2>1, <2>2, <2>3 DEF OneOpen, NewTurns, SegmentsOpen
<1>11. CASE SwitchMode \/ EntryExpires
  <2>1. UNCHANGED <<handler, provider>> /\ \A t \in Turn : segment'[t] = segment[t] \/ segment'[t] = NoSegment
    BY <1>1, <1>11 DEF SwitchMode, EntryExpires, caches, TypeInv
  <2> QED BY <1>5, <1>6, <2>1 DEF OneOpen, NewTurns, SegmentsOpen, Running, Todo
<1>12. CASE UNCHANGED vars
  BY <1>5, <1>12 DEF vars, caches, OneOpen, NewTurns, SegmentsOpen, Running, Todo
<1>13. ~CommandFails
  BY <1>1, <1>4, FailureTyped
<1> QED
  BY <1>3, <1>4, <1>7, <1>8, <1>9, <1>10, <1>11, <1>12, <1>13, WorkKeepsApart, DeltaKeepsApart,
     ItemKeepsApart DEF Next

LEMMA ApartBegins == Init => ApartInv
<1> SUFFICES ASSUME Init PROVE ApartInv
  OBVIOUS
<1>1. SteadyInv
  BY SteadyBegins
<1>2. OneOpen /\ SegmentsOpen /\ NewTurns
  BY DEF Init, OneOpen, SegmentsOpen, NewTurns, NoSegment
<1> QED BY <1>1, <1>2 DEF ApartInv


-----------------------------------------------------------------------------
(* Text that is not lost *)

\* The pieces of two texts, and of a text that goes on.
LEMMA PiecesOf ==
    ASSUME NEW s \in Seq(Piece), NEW t \in Seq(Piece)
    PROVE  ToSet(s \o t) = ToSet(s) \cup ToSet(t)
<1>1. /\ \A n \in DOMAIN s : n \in DOMAIN (s \o t) /\ (s \o t)[n] = s[n]
      /\ \A n \in DOMAIN t : n + Len(s) \in DOMAIN (s \o t) /\ (s \o t)[n + Len(s)] = t[n]
      /\ \A n \in DOMAIN (s \o t) : n \in DOMAIN s
             \/ (n > Len(s) /\ n - Len(s) \in DOMAIN t /\ (s \o t)[n] = t[n - Len(s)])
  BY ConcatIs
<1> DEFINE c == s \o t
<1>2. /\ \A n \in DOMAIN s : n \in DOMAIN c /\ c[n] = s[n]
      /\ \A n \in DOMAIN t : n + Len(s) \in DOMAIN c /\ c[n + Len(s)] = t[n]
      /\ \A n \in DOMAIN c : n \in DOMAIN s
             \/ (n - Len(s) \in DOMAIN t /\ c[n] = t[n - Len(s)])
  BY <1>1
<1> HIDE DEF c
<1>3. ToSet(c) = ToSet(s) \cup ToSet(t)
  BY <1>2 DEF ToSet
<1> QED BY <1>3 DEF c

LEMMA PiecesAnd ==
    ASSUME NEW s \in Seq(Piece), NEW n \in Piece
    PROVE  ToSet(Append(s, n)) = ToSet(s) \cup {n} /\ ToSet(<<n>>) = {n} /\ ToSet(<<>>) = {}
<1> DEFINE c == Append(s, n)
<1>1. /\ DOMAIN c = DOMAIN s \cup {Len(s) + 1}
      /\ \A k \in DOMAIN s : c[k] = s[k]
      /\ c[Len(s) + 1] = n
  BY AppendIs
<1> HIDE DEF c
<1>2. ToSet(c) = ToSet(s) \cup {n}
  BY <1>1 DEF ToSet
<1>3. ToSet(<<n>>) = {n}
  BY DEF ToSet
<1>4. ToSet(<<>>) = {}
  BY DEF ToSet
<1> QED BY <1>2, <1>3, <1>4 DEF c

\* A piece that a task will show, or whose message it will finalize.
Awaits(task, n) ==
    \/ task.do = "deliver" /\ n \in ToSet(task.text)
    \/ task.do \in {"flush", "finalize"} /\ n \in ToSet(Text(task.message))
    \/ task.do = "finalize" /\ n \in ToSet(task.text) /\ Text(task.message) = <<>>

ShownPiece(n) == \E k \in DOMAIN thread : n \in ToSet(thread[k].text)
BufferedPiece(n) ==
    \E t \in Turn \ provider.ended : \E m \in ToSet(known[t]) : n \in ToSet(Text(m))
AwaitedPiece(n) == \E k \in DOMAIN Todo : Awaits(Todo[k], n)
KeptPiece(n) == ShownPiece(n) \/ BufferedPiece(n) \/ AwaitedPiece(n)

Undisturbed == Unsettled /\ Without({"overlap"})
EveryPieceKept == \A n \in DOMAIN provider.said \ provider.blank : KeptPiece(n)
KeptInv == StreamInv /\ ApartInv /\ (Undisturbed => EveryPieceKept)

\* What a message holds is added to its row, and rows lose nothing.
LEMMA RowsGrow ==
    ASSUME TypedInv, NEW text \in Seq(Piece), NEW streaming, Sends(text, streaming)
    PROVE  /\ \A k \in DOMAIN thread :
                 /\ k \in DOMAIN thread' /\ thread'[k].id = thread[k].id
                 /\ ToSet(thread[k].text) \subseteq ToSet(thread'[k].text)
           /\ \E k \in DOMAIN thread' :
                 thread'[k].id = Now.message /\ ToSet(text) \subseteq ToSet(thread'[k].text)
<1>1. \A k \in DOMAIN thread : thread[k].text \in Seq(Piece)
  <2>1. SUFFICES ASSUME NEW k \in DOMAIN thread PROVE thread[k].text \in Seq(Piece)
    OBVIOUS
  <2>2. thread[k] \in Row
    BY ElementOfSeq, LenProperties DEF TypedInv, TypeInv
  <2> QED BY <2>2 DEF Row
<1>2. ASSUME NEW k \in DOMAIN thread
      PROVE  /\ k \in DOMAIN thread' /\ thread'[k].id = thread[k].id
             /\ ToSet(thread[k].text) \subseteq ToSet(thread'[k].text)
             /\ thread[k].id = Now.message => ToSet(text) \subseteq ToSet(thread'[k].text)
  <2>1. /\ k \in DOMAIN thread' /\ thread'[k].id = thread[k].id
        /\ thread[k].id # Now.message => thread'[k] = thread[k]
        /\ thread[k].id = Now.message => thread'[k].text = thread[k].text \o text
    BY DEF Sends, Sent
  <2>2. ToSet(thread[k].text \o text) = ToSet(thread[k].text) \cup ToSet(text)
    BY <1>1, PiecesOf
  <2> QED BY <2>1, <2>2
<1>3. PICK k \in DOMAIN thread' : thread'[k].id = Now.message
  BY DEF Sends, Sent
<1>4. k \notin DOMAIN thread => thread'[k].text = text
  BY <1>3 DEF Sends, Sent
<1>5. ToSet(text) \subseteq ToSet(thread'[k].text)
  BY <1>2, <1>3, <1>4
<1> QED BY <1>2, <1>3, <1>5

LEMMA SendsShow ==
    ASSUME TypedInv, NEW text \in Seq(Piece), NEW streaming, Sends(text, streaming)
    PROVE  /\ \A n : ShownPiece(n) => ShownPiece(n)'
           /\ \A n \in ToSet(text) : ShownPiece(n)'
<1>1. \A k \in DOMAIN thread : /\ k \in DOMAIN thread'
                               /\ ToSet(thread[k].text) \subseteq ToSet(thread'[k].text)
  BY RowsGrow
<1>2. \E k \in DOMAIN thread' : ToSet(text) \subseteq ToSet(thread'[k].text)
  BY RowsGrow
<1> QED BY <1>1, <1>2 DEF ShownPiece

LEMMA WorkSends ==
    ASSUME TypedInv, Work
    PROVE  \/ thread' = thread
           \/ \E text \in Seq(Piece), streaming \in BOOLEAN : Sends(text, streaming)
<1>1. ~Idle /\ Now.do \in Doings
  BY WorkIs, FirstTask DEF TypedInv, Tasks
<1>2. CASE Now.do = "deliver"
  <2>1. Now.text \in Seq(Piece)
    BY <1>1, <1>2, FirstTexts DEF MessageTasks
  <2> QED BY <1>2, <2>1, WorkDoes, DeliverTextIs
<1>3. CASE Now.do = "flush"
  <2>1. Text(Now.message) \in Seq(Piece)
    BY <1>1, <1>3, FirstTexts DEF MessageTasks
  <2> QED BY <1>3, <2>1, WorkDoes, FlushTextIs
<1>4. CASE Now.do = "finalize"
  <2>1. FinalText \in Seq(Piece)
    BY <1>1, <1>4, FirstTexts DEF MessageTasks
  <2> QED BY <1>4, <2>1, WorkDoes, FinalizeTextIs
<1>5. CASE Now.do = "complete"
  BY <1>5, WorkDoes, CompleteMessageIs, Names
<1>6. CASE Now.do \in {"running", "over", "paused", "itemDone", "turnDone", "clear"}
  BY <1>6, WorkDoes DEF SetSession, SettlePause, SettleItem, SettleTurn, ClearTurns
<1> QED BY <1>1, <1>2, <1>3, <1>4, <1>5, <1>6 DEF Doings, MessageTasks, TurnTasks

LEMMA WorkShows ==
    ASSUME TypedInv, Work, NEW n, ShownPiece(n)
    PROVE  ShownPiece(n)'
<1>1. CASE thread' = thread
  BY <1>1 DEF ShownPiece
<1> QED BY <1>1, WorkSends, SendsShow

\* A buffer that is taken is shown, but for what is blank.
LEMMA TakenShows ==
    ASSUME TypedInv, Work, Now.do \in {"flush", "finalize"}, NEW n, n \notin provider.blank,
           \/ n \in ToSet(Text(Now.message))
           \/ Now.do = "finalize" /\ Text(Now.message) = <<>> /\ n \in ToSet(Now.text)
    PROVE  ShownPiece(n)'
<1>1. ~Idle /\ ToSet(<<>>) = {}
  BY WorkIs DEF ToSet
<1>2. Text(Now.message) \in Seq(Piece) /\ FinalText \in Seq(Piece)
  BY <1>1, FirstTexts DEF MessageTasks
<1>3. CASE Now.do = "flush"
  <2>1. Renderable(Text(Now.message))
    BY <1>3 DEF Renderable
  <2> QED BY <1>2, <1>3, <2>1, WorkDoes, FlushTextIs, SendsShow
<1>4. CASE Now.do = "finalize"
  <2>1. n \in ToSet(FinalText)
    BY <1>1 DEF FinalText
  <2>2. Renderable(FinalText)
    BY <2>1 DEF Renderable
  <2> QED BY <1>2, <1>4, <2>1, <2>2, WorkDoes, FinalizeTextIs, SendsShow
<1> QED BY <1>3, <1>4

\* What the buffers hold after a task.
LEMMA WorkBuffers ==
    ASSUME TypedInv, Work, Now.do # "clear", NEW m \in MessageId,
           ~(Now.do \in {"flush", "finalize"} /\ m = Now.message)
    PROVE  buffered'[m] = buffered[m]
<1>1. CASE Now.do = "flush"
  BY <1>1, WorkDoes, FlushTextIs DEF Took
<1>2. CASE Now.do = "finalize"
  BY <1>2, WorkDoes, FinalizeTextIs DEF Took
<1>3. CASE Now.do \notin {"flush", "finalize"}
  BY <1>3 DEF Work, SetSession, DeliverText, FlushText, FinalizeText, CompleteMessage, SettlePause,
              SettleItem, SettleTurn, ClearTurns, caches, Does
<1> QED BY <1>1, <1>2, <1>3

LEMMA WorkKeepsBuffered ==
    ASSUME KeptInv, Work, Undisturbed, NEW n, n \notin provider.blank, BufferedPiece(n)
    PROVE  KeptPiece(n)'
<1>1. HandlerInv /\ TypedInv /\ TypeInv /\ TasksMean /\ TasksEnd /\ Lasting
  BY DEF KeptInv, StreamInv, SteadyInv, HandlerInv, TypedInv, Undisturbed, Unsettled
<1>2. /\ ~Idle /\ provider' = provider /\ Now \in Tasks /\ 1 \in DOMAIN Todo /\ Now = Todo[1]
  BY <1>1, WorkIs, FirstTask DEF Todo
<1>3. PICK t \in Turn \ provider.ended : \E m \in ToSet(known[t]) : n \in ToSet(Text(m))
  BY DEF BufferedPiece
<1>4. PICK m \in ToSet(known[t]) : n \in ToSet(Text(m))
  BY <1>3
<1>5. m \in MessageId
  <2>1. known[t] \in Seq(MessageId)
    BY <1>1 DEF TypeInv
  <2> QED BY <1>4, <2>1, ElementOfSeq, LenProperties DEF ToSet
<1>6. Now.do # "clear"
  BY <1>1, <1>2 DEF TasksMean
<1>7. CASE Now.do \in {"flush", "finalize"} /\ m = Now.message
  BY <1>1, <1>4, <1>7, TakenShows DEF KeptPiece
<1>8. CASE ~(Now.do \in {"flush", "finalize"} /\ m = Now.message)
  <2>1. buffered'[m] = buffered[m]
    BY <1>1, <1>5, <1>6, <1>8, WorkBuffers
  <2>2. m \in ToSet(known'[t])
    <3>1. CASE Now.do \in {"paused", "itemDone"}
      <4>1. m # Now.message
        <5>1. Text(Now.message) = <<>>
          BY <1>1, <1>2, <3>1 DEF TasksMean
        <5>2. ToSet(<<>>) = {}
          BY DEF ToSet
        <5> QED BY <1>4, <5>1, <5>2
      <4> QED BY <1>1, <1>3, <1>4, <3>1, <4>1, WorkDoes, SettlesIs
    <3>2. CASE Now.do = "turnDone"
      <4>1. handler.turn \in provider.ended
        BY <1>1, <1>2, <3>2 DEF TasksEnd
      <4> QED BY <1>1, <1>3, <1>4, <3>2, <4>1, WorkDoes, SettleTurnIs
    <3>3. CASE Now.do \notin {"paused", "itemDone", "turnDone", "clear"}
      <4>1. known' = known
        BY <3>3 DEF Work, SetSession, DeliverText, FlushText, FinalizeText, CompleteMessage,
                    SettlePause, SettleItem, SettleTurn, ClearTurns, caches, Does
      <4> QED BY <1>4, <4>1
    <3> QED BY <1>6, <3>1, <3>2, <3>3
  <2> QED BY <1>2, <1>3, <1>4, <2>1, <2>2 DEF KeptPiece, BufferedPiece, Text
<1> QED BY <1>7, <1>8

LEMMA WorkKeepsAwaited ==
    ASSUME KeptInv, Work, Undisturbed, NEW n, n \notin provider.blank, AwaitedPiece(n)
    PROVE  KeptPiece(n)'
<1>1. HandlerInv /\ TypedInv /\ TypeInv /\ TasksFit /\ TasksMean /\ TasksOrdered /\ Lasting
  BY DEF KeptInv, StreamInv, SteadyInv, HandlerInv, TypedInv, Undisturbed, Unsettled
<1>2. /\ ~Idle /\ provider' = provider /\ 1 \in DOMAIN Todo /\ Now = Todo[1]
      /\ MovesOn \/ TurnsToCompletion
  BY <1>1, WorkIs, FirstTask DEF Todo
<1>3. PICK k \in DOMAIN Todo : Awaits(Todo[k], n)
  BY DEF AwaitedPiece
<1>4. CASE k = 1
  <2>1. CASE Now.do = "deliver" /\ n \in ToSet(Now.text)
    <3>1. Now.text \in Seq(Piece)
      BY <1>1, <1>2, <2>1, FirstTexts DEF MessageTasks
    <3> QED BY <1>1, <2>1, <3>1, WorkDoes, DeliverTextIs, SendsShow DEF KeptPiece
  <2>2. CASE Now.do # "deliver"
    <3>1. /\ Now.do \in {"flush", "finalize"}
          /\ \/ n \in ToSet(Text(Now.message))
             \/ Now.do = "finalize" /\ Text(Now.message) = <<>> /\ n \in ToSet(Now.text)
      BY <1>2, <1>3, <1>4, <2>2 DEF Awaits
    <3> QED BY <1>1, <3>1, TakenShows DEF KeptPiece
  <2> QED BY <1>2, <1>3, <1>4, <2>1, <2>2 DEF Awaits
<1>5. CASE k # 1
  <2>1. Todo[k].do \in {"flush", "finalize"} /\ n \in ToSet(Text(Todo[k].message))
    <3>1. Todo[k].do # "deliver"
      BY <1>1, <1>5 DEF TasksOrdered
    <3>2. Todo[k].do = "finalize" => Todo[k].text = <<>>
      BY <1>1, <1>5 DEF TasksOrdered
    <3>3. ToSet(<<>>) = {}
      BY DEF ToSet
    <3> QED BY <1>3, <3>1, <3>2, <3>3 DEF Awaits
  <2>2. Todo[k].message \in MessageId
    BY <1>1, <2>1 DEF TasksFit, MessageTasks, Todo
  <2>3. CASE Now.do \in {"flush", "finalize"} /\ Todo[k].message = Now.message
    BY <1>1, <2>1, <2>3, TakenShows DEF KeptPiece
  <2>4. CASE ~(Now.do \in {"flush", "finalize"} /\ Todo[k].message = Now.message)
    <3>1. Now.do # "clear"
      BY <1>1, <1>2 DEF TasksMean
    <3>2. buffered'[Todo[k].message] = buffered[Todo[k].message]
      BY <1>1, <2>2, <2>4, <3>1, WorkBuffers
    <3>3. \E j \in DOMAIN handler'.todo : handler'.todo[j] = Todo[k]
      <4>1. CASE MovesOn
        BY <1>1, <1>2, <1>5, <4>1, MovedOn, Zenon
      <4>2. CASE TurnsToCompletion
        <5>1. k \in DOMAIN handler'.todo /\ handler'.todo[k] = Todo[k]
          BY <1>1, <1>2, <1>5, <4>2, TurnedToCompletion, Zenon
        <5> QED BY <5>1
      <4> QED BY <1>2, <4>1, <4>2
    <3>4. PICK j \in DOMAIN handler'.todo : handler'.todo[j] = Todo[k]
      BY <3>3
    <3>5. /\ j \in DOMAIN handler'.todo /\ handler'.todo[j].do \in {"flush", "finalize"}
          /\ n \in ToSet(buffered'[handler'.todo[j].message])
      BY <2>1, <3>2, <3>4 DEF Text
    <3>6. AwaitedPiece(n)'
      BY <3>5 DEF AwaitedPiece, Awaits, Text, Todo
    <3> QED BY <3>6 DEF KeptPiece
  <2> QED BY <2>3, <2>4
<1> QED BY <1>4, <1>5


\* A piece that stays where it is.
LEMMA StaysKept ==
    ASSUME Idle, thread' = thread, NEW n, KeptPiece(n),
           \A t \in Turn \ provider.ended : \A m \in ToSet(known[t]) : n \in ToSet(Text(m)) =>
              \/ /\ t \notin provider'.ended /\ m \in ToSet(known'[t])
                 /\ n \in ToSet(buffered'[m])
              \/ \E k \in DOMAIN handler'.todo :
                    /\ handler'.todo[k].do = "deliver"
                    /\ n \in ToSet(handler'.todo[k].text)
              \/ \E k \in DOMAIN handler'.todo :
                    /\ handler'.todo[k].do = "finalize"
                    /\ n \in ToSet(buffered'[handler'.todo[k].message])
    PROVE  KeptPiece(n)'
<1>1. CASE ShownPiece(n)
  BY <1>1 DEF ShownPiece, KeptPiece
<1>2. CASE BufferedPiece(n)
  <2>1. PICK t \in Turn \ provider.ended : \E m \in ToSet(known[t]) : n \in ToSet(Text(m))
    BY <1>2 DEF BufferedPiece
  <2>2. PICK m \in ToSet(known[t]) : n \in ToSet(Text(m))
    BY <2>1
  <2>3. CASE t \notin provider'.ended /\ m \in ToSet(known'[t]) /\ n \in ToSet(buffered'[m])
    BY <2>1, <2>3 DEF BufferedPiece, KeptPiece, Text
  <2>4. CASE \E k \in DOMAIN handler'.todo :
                /\ handler'.todo[k].do = "deliver"
                /\ n \in ToSet(handler'.todo[k].text)
    BY <2>4 DEF AwaitedPiece, KeptPiece, Awaits, Todo
  <2>5. CASE \E k \in DOMAIN handler'.todo :
                /\ handler'.todo[k].do = "finalize"
                /\ n \in ToSet(buffered'[handler'.todo[k].message])
    BY <2>5 DEF AwaitedPiece, KeptPiece, Awaits, Todo, Text
  <2> QED BY <2>1, <2>2, <2>3, <2>4, <2>5
<1>3. ~AwaitedPiece(n)
  BY IdleIs DEF AwaitedPiece, Todo
<1> QED BY <1>1, <1>2, <1>3 DEF KeptPiece

LEMMA DeltaKeepsText ==
    ASSUME KeptInv, ContentDelta, Undisturbed, Steady'
    PROVE  EveryPieceKept'
<1>1. SteadyInv /\ TypedInv /\ TypeInv /\ EveryPieceKept /\ buffered \in [MessageId -> Seq(Piece)]
  BY DEF KeptInv, StreamInv, SteadyInv, HandlerInv, TypedInv, TypeInv
<1>2. Idle /\ thread' = thread
  BY DEF ContentDelta
<1>3. PICK item \in Item, t \in {NoTurn} \cup Turn, turn \in {NoTurn} \cup Turn, id \in MessageId :
          DeltaStep(item, t, turn, id)
  BY <1>1, ContentDeltaIs
<1>14. PICK new \in Piece : new = Len(provider.said) + 1
  BY <1>3 DEF DeltaStep, Says
<1>4. turn = Running /\ Running \in Turn \ provider.ended
  BY <1>1, <1>2, <1>3, DeltaTurn
<1>5. /\ \A s \in Turn : ToSet(known[s]) \subseteq ToSet(known'[s])
      /\ id \in ToSet(known'[Running])
  <2>1. Remember(turn, id) /\ turn # NoTurn
    BY <1>3, <1>4, Names DEF DeltaStep
  <2>2. /\ \A s \in Turn : ToSet(known[s]) \subseteq ToSet(known'[s])
        /\ id \in ToSet(known'[turn])
    BY <1>1, <2>1, RememberedIs
  <2> QED BY <1>4, <2>2
<1>6. /\ provider'.ended = provider.ended /\ provider'.blank = provider.blank /\ new \in Piece
      /\ DOMAIN provider'.said = DOMAIN provider.said \cup {new}
  BY <1>3, <1>14 DEF DeltaStep, SameTurns, Says
<1>7. DeltaLeaves(turn, id, new)
  BY <1>3, <1>14 DEF DeltaStep
<1>8. ToSet(Append(buffered[id], new)) = ToSet(buffered[id]) \cup {new} /\ ToSet(<<new>>) = {new}
  BY <1>1, <1>6, PiecesAnd
<1>9. \A m \in MessageId : m # id => buffered'[m] = buffered[m]
  BY <1>1, <1>7 DEF DeltaLeaves
<1>10. \/ buffered'[id] = Append(buffered[id], new)
       \/ /\ 1 \in DOMAIN handler'.todo /\ handler'.todo[1].do = "deliver"
          /\ \/ handler'.todo[1].text = Append(buffered[id], new)
             \/ buffered'[id] = buffered[id] /\ handler'.todo[1].text = <<new>>
  BY <1>1, <1>7 DEF DeltaLeaves
<1>11. KeptPiece(new)'
  <2>1. CASE new \in ToSet(buffered'[id])
    BY <1>4, <1>5, <1>6, <2>1 DEF KeptPiece, BufferedPiece, Text
  <2>2. CASE /\ 1 \in DOMAIN handler'.todo /\ handler'.todo[1].do = "deliver"
             /\ new \in ToSet(handler'.todo[1].text)
    BY <2>2 DEF KeptPiece, AwaitedPiece, Awaits, Todo
  <2> QED BY <1>8, <1>10, <2>1, <2>2
<1>12. ASSUME NEW n \in DOMAIN provider.said \ provider.blank
       PROVE  KeptPiece(n)'
  <2>1. KeptPiece(n)
    BY <1>1, <1>12 DEF EveryPieceKept
  <2>2. ASSUME NEW s \in Turn \ provider.ended, NEW m \in ToSet(known[s]), n \in ToSet(Text(m))
        PROVE  \/ /\ s \notin provider'.ended /\ m \in ToSet(known'[s])
                  /\ n \in ToSet(buffered'[m])
               \/ \E k \in DOMAIN handler'.todo :
                     /\ handler'.todo[k].do = "deliver"
                     /\ n \in ToSet(handler'.todo[k].text)
    <3>1. m \in MessageId
      <4>1. known[s] \in Seq(MessageId)
        BY <1>1 DEF TypeInv
      <4> QED BY <2>2, <4>1, ElementOfSeq, LenProperties DEF ToSet
    <3>2. s \notin provider'.ended /\ m \in ToSet(known'[s])
      BY <1>5, <1>6, <2>2
    <3> QED BY <1>8, <1>9, <1>10, <2>2, <3>1, <3>2 DEF Text
  <2> QED BY <1>2, <2>1, <2>2, StaysKept
<1>13. SUFFICES ASSUME NEW n \in DOMAIN provider'.said \ provider'.blank
       PROVE  KeptPiece(n)'
  BY DEF EveryPieceKept
<1> QED BY <1>6, <1>11, <1>12, <1>13

LEMMA ItemKeepsText ==
    ASSUME KeptInv, ItemCompleted, Undisturbed, Steady', Apart, Apart'
    PROVE  EveryPieceKept'
<1>1. SteadyInv /\ TypedInv /\ TypeInv /\ EveryPieceKept /\ ApartInv /\ Homes
  BY DEF KeptInv, StreamInv, SteadyInv, HandlerInv, TypedInv, Apart, Steady, Without
<1>2. Idle /\ UNCHANGED <<thread, buffered>>
  BY DEF ItemCompleted
<1>3. PICK item \in Item, turn \in {NoTurn} \cup Turn, detail \in Seq(Piece) :
          ItemStep(item, turn, detail)
  BY <1>1, ItemCompletedIs
<1>11. PICK new : new = Len(provider.said) + 1
  OBVIOUS
<1>4. provider'.ended = provider.ended /\ provider'.blank = provider.blank
  BY <1>3 DEF ItemStep, SameTurns
<1>5. \A s \in Turn : ToSet(known[s]) \subseteq ToSet(known'[s])
  BY <1>1, <1>3, RememberedIs DEF ItemStep, ItemLeaves
<1>6. ASSUME NEW n \in DOMAIN provider.said \ provider.blank
      PROVE  KeptPiece(n)'
  <2>1. KeptPiece(n)
    BY <1>1, <1>6 DEF EveryPieceKept
  <2>2. ASSUME NEW s \in Turn \ provider.ended, NEW m \in ToSet(known[s]), n \in ToSet(Text(m))
        PROVE  s \notin provider'.ended /\ m \in ToSet(known'[s]) /\ n \in ToSet(buffered'[m])
    BY <1>2, <1>4, <1>5, <2>2 DEF Text
  <2> QED BY <1>2, <2>1, <2>2, StaysKept
<1>7. ASSUME Added(item), Says(item), detail = <<new>>, turn \in {Running, active},
             \A o \in provider.open : provider.home[o] # Running, new \notin provider.blank
      PROVE  KeptPiece(new)'
  <2>1. turn = Running /\ Running \in Turn
    BY <1>1, <1>2, <1>3, <1>7, ItemTurn
  <2>2. segment[turn].active = NoMessage
    BY <1>1, <1>2, <1>7, <2>1, NoneActive
  <2>3. new \in Piece
    BY <1>7, <1>11 DEF Says
  <2>4. ToSet(<<new>>) = {new}
    BY DEF ToSet
  <2>5. Renderable(detail) /\ turn # NoTurn
    BY <1>7, <2>1, <2>4, Names DEF Renderable
  <2>6. PICK id \in MessageId :
          /\ \/ id = <<item, 0>>
             \/ turn \in Turn /\ id = segment[turn].active
          /\ handler'.todo # <<>> /\ 1 \in DOMAIN handler'.todo
          /\ handler'.todo[1].do = "finalize" /\ handler'.todo[1].message = id
          /\ \/ handler'.todo[1].text = <<>>
                /\ \E k \in DOMAIN thread : thread[k].id = id /\ thread[k].text # <<>>
             \/ handler'.todo[1].text = detail
    BY <1>3, <2>5 DEF ItemStep, ItemLeaves
  <2>7. id = <<item, 0>>
    BY <2>2, <2>6, Names
  <2>8. item \notin DOMAIN provider.home
    BY <1>7 DEF Added
  <2>9. \A k \in DOMAIN thread : thread[k].id # id
    BY <1>1, <2>7, <2>8 DEF Homes, RowHome
  <2>10. buffered[id] = <<>>
    BY <1>1, <2>6, <2>7, <2>8 DEF Homes, TextHome, Text
  <2>11. new \in ToSet(handler'.todo[1].text) /\ buffered'[handler'.todo[1].message] = <<>>
    BY <1>2, <1>7, <2>4, <2>6, <2>9, <2>10
  <2> QED BY <2>6, <2>11 DEF KeptPiece, AwaitedPiece, Awaits, Todo, Text
<1>8. SUFFICES ASSUME NEW n \in DOMAIN provider'.said \ provider'.blank
      PROVE  KeptPiece(n)'
  BY DEF EveryPieceKept
<1>9. CASE n \in DOMAIN provider.said
  BY <1>4, <1>6, <1>8, <1>9
<1>10. CASE n \notin DOMAIN provider.said
  <2>1. /\ Added(item) /\ Says(item) /\ detail = <<new>> /\ turn \in {Running, active}
        /\ "overlap" \in ToSet(upset') \/ \A o \in provider.open : provider.home[o] # Running
    BY <1>3, <1>8, <1>10, <1>11 DEF ItemStep
  <2>2. "overlap" \notin ToSet(upset')
    BY DEF Apart, Without
  <2>3. n = new
    BY <1>8, <1>10, <1>11, <2>1 DEF Says
  <2> QED BY <1>4, <1>7, <1>8, <2>1, <2>2, <2>3
<1> QED BY <1>9, <1>10

LEMMA TurnKeepsText ==
    ASSUME KeptInv, TurnCompleted, Undisturbed
    PROVE  EveryPieceKept'
<1>1. TypedInv /\ EveryPieceKept
  BY DEF KeptInv, StreamInv, SteadyInv, HandlerInv
<1>2. Idle /\ UNCHANGED <<thread, buffered, known>>
  BY DEF TurnCompleted, caches
<1>3. PICK t \in Turn : TurnStep(t)
  BY <1>1, TurnTyped
<1>4. /\ TurnLeaves(t) /\ provider'.ended = provider.ended \cup {t}
      /\ provider'.said = provider.said /\ provider'.blank = provider.blank
  BY <1>3 DEF TurnStep
<1>5. SUFFICES ASSUME NEW n \in DOMAIN provider.said \ provider.blank
      PROVE  KeptPiece(n)'
  BY <1>4 DEF EveryPieceKept
<1>6. KeptPiece(n)
  BY <1>1, <1>5 DEF EveryPieceKept
<1>7. ASSUME NEW s \in Turn \ provider.ended, NEW m \in ToSet(known[s]), n \in ToSet(Text(m))
      PROVE  \/ /\ s \notin provider'.ended /\ m \in ToSet(known'[s])
                /\ n \in ToSet(buffered'[m])
             \/ \E k \in DOMAIN handler'.todo :
                   /\ handler'.todo[k].do = "finalize"
                   /\ n \in ToSet(buffered'[handler'.todo[k].message])
  <2>1. CASE s = t
    <3>1. PICK k \in DOMAIN handler'.todo : handler'.todo[k].do = "finalize" /\ handler'.todo[k].message = m
      BY <1>4, <1>7, <2>1 DEF TurnLeaves
    <3> QED BY <1>2, <1>7, <3>1 DEF Text
  <2>2. CASE s # t
    BY <1>2, <1>4, <1>7, <2>2 DEF Text
  <2> QED BY <2>1, <2>2
<1> QED BY <1>2, <1>6, <1>7, StaysKept

LEMMA KeptKept ==
    ASSUME KeptInv, [Next]_vars
    PROVE  KeptInv'
<1>1. StreamInv' /\ ApartInv' /\ TypedInv
  BY StreamKept, ApartKept DEF KeptInv, StreamInv, SteadyInv, HandlerInv
<1>2. ToSet(upset) \subseteq ToSet(upset')
  BY <1>1, StepTyped
<1>3. SUFFICES ASSUME Undisturbed' PROVE EveryPieceKept'
  BY <1>1 DEF KeptInv
<1>4. /\ ToSet(upset') \cap {"failure", "exit", "restart", "expiry", "late", "overlap"} = {}
      /\ Undisturbed /\ Steady' /\ Apart /\ Apart'
  BY <1>2, <1>3 DEF Undisturbed, Unsettled, Lasting, Without, Steady, Apart
<1>5. EveryPieceKept
  BY <1>4 DEF KeptInv
<1>6. CASE Work
  <2>1. provider' = provider
    BY <1>1, <1>6, WorkIs
  <2>2. SUFFICES ASSUME NEW n \in DOMAIN provider.said \ provider.blank PROVE KeptPiece(n)'
    BY <2>1 DEF EveryPieceKept
  <2>3. KeptPiece(n)
    BY <1>5 DEF EveryPieceKept
  <2>4. CASE ShownPiece(n)
    BY <1>1, <1>6, <2>4, WorkShows DEF KeptPiece
  <2> QED BY <1>4, <1>6, <2>3, <2>4, WorkKeepsBuffered, WorkKeepsAwaited DEF KeptPiece
<1>7. CASE TurnStarted \/ QuestionAsked \/ SwitchMode
  <2>1. /\ Idle /\ UNCHANGED <<thread, buffered, known>> /\ provider'.ended = provider.ended
        /\ provider'.said = provider.said /\ provider'.blank = provider.blank
    BY <1>1, <1>7, NewTurnTyped DEF TurnStarted, QuestionAsked, SwitchMode, caches
  <2>2. SUFFICES ASSUME NEW n \in DOMAIN provider.said \ provider.blank PROVE KeptPiece(n)'
    BY <2>1 DEF EveryPieceKept
  <2>3. KeptPiece(n)
    BY <1>5 DEF EveryPieceKept
  <2> QED BY <2>1, <2>3, StaysKept DEF Text
<1>8. CASE UNCHANGED vars
  BY <1>5, <1>8 DEF vars, caches, EveryPieceKept, KeptPiece, ShownPiece, BufferedPiece, AwaitedPiece,
                    Awaits, Text, Todo
<1>9. ~CommandFails /\ ~SessionExited /\ ~EntryExpires /\ ~Restart
  BY <1>1, <1>4, FailureTyped, ExitTyped, ExpiryTyped, RestartTyped
<1> QED
  BY <1>4, <1>6, <1>7, <1>8, <1>9, DeltaKeepsText, ItemKeepsText, TurnKeepsText DEF Next

LEMMA KeptBegins == Init => KeptInv
<1> SUFFICES ASSUME Init PROVE KeptInv
  OBVIOUS
<1>1. StreamInv /\ ApartInv
  BY StreamBegins, ApartBegins
<1>2. EveryPieceKept
  BY DEF Init, EveryPieceKept
<1> QED BY <1>1, <1>2 DEF KeptInv

\* No text of a provider is lost while the caches last and its items follow
\* each other: between two events every piece that is not blank is shown, or
\* is buffered in a message that a turn which still runs will finalize, however
\* the mode changes and questions split the items (appendBufferedAssistantText,
\* flushBufferedAssistantMessagesForTurn, finalizeAssistantMessage).
THEOREM AssistantTextKept == Spec => []TextKept
<1>1. Init => KeptInv
  BY KeptBegins
<1>2. KeptInv /\ [Next]_vars => KeptInv'
  BY KeptKept
<1>3. KeptInv => TextKept
  <2>1. SUFFICES ASSUME KeptInv, Idle, Lasting, Without({"overlap", "late"}),
                        NEW n \in DOMAIN provider.said \ provider.blank
        PROVE  \/ \E row \in ToSet(thread) : Contains(row.text, n)
               \/ \E t \in Turn \ provider.ended :
                  \E m \in ToSet(known[t]) : Contains(Text(m), n)
    BY DEF TextKept
  <2>2. TypeInv /\ EveryPieceKept
    BY <2>1 DEF KeptInv, Undisturbed, Unsettled, Without, StreamInv, SteadyInv, HandlerInv, TypedInv
  <2>3. ShownPiece(n) \/ BufferedPiece(n)
    BY <2>1, <2>2, IdleIs DEF EveryPieceKept, KeptPiece, AwaitedPiece, Todo
  <2>4. \A s \in Seq(Piece) : n \in ToSet(s) => Contains(s, n)
    BY LenProperties DEF Contains, ToSet
  <2>5. ASSUME NEW k \in DOMAIN thread, n \in ToSet(thread[k].text)
        PROVE  \E row \in ToSet(thread) : Contains(row.text, n)
    <3>1. thread[k] \in Row /\ thread[k] \in ToSet(thread)
      BY <2>2, ElementOfSeq, LenProperties DEF TypeInv, ToSet
    <3>2. thread[k].text \in Seq(Piece)
      BY <3>1 DEF Row
    <3> QED BY <2>4, <2>5, <3>1, <3>2
  <2>6. ASSUME NEW t \in Turn, NEW m \in ToSet(known[t]), n \in ToSet(Text(m))
        PROVE  Contains(Text(m), n)
    <3>1. known[t] \in Seq(MessageId) /\ buffered \in [MessageId -> Seq(Piece)]
      BY <2>2 DEF TypeInv
    <3>2. m \in MessageId
      BY <3>1, ElementOfSeq, LenProperties DEF ToSet
    <3>3. Text(m) \in Seq(Piece)
      BY <3>1, <3>2 DEF Text
    <3> QED BY <2>4, <2>6, <3>3
  <2> QED BY <2>3, <2>5, <2>6 DEF ShownPiece, BufferedPiece
<1> QED BY <1>1, <1>2, <1>3, PTL DEF Spec


-----------------------------------------------------------------------------
(* Texts, one after the other *)

\* Every entry is related to those after it.
Ordered(s, R) == \A i, j \in DOMAIN s : i < j => <<s[i], s[j]>> \in R
Related(s, t, R) == \A x \in ToSet(s), y \in ToSet(t) : <<x, y>> \in R

LEMMA OrderedConcat ==
    ASSUME NEW R, NEW s \in Seq(Piece), NEW t \in Seq(Piece), Ordered(s, R), Ordered(t, R),
           Related(s, t, R)
    PROVE  Ordered(s \o t, R)
<1> DEFINE c == s \o t
<1>1. /\ \A n \in DOMAIN s : c[n] = s[n]
      /\ \A n \in DOMAIN c : n \in DOMAIN s
             \/ (n > Len(s) /\ n - Len(s) \in DOMAIN t /\ c[n] = t[n - Len(s)])
      /\ DOMAIN c = 1..Len(c) /\ DOMAIN s = 1..Len(s) /\ DOMAIN t = 1..Len(t)
      /\ Len(s) \in Nat /\ Len(t) \in Nat /\ Len(c) \in Nat
  BY ConcatIs, LenProperties
<1> HIDE DEF c
<1>2. SUFFICES ASSUME NEW i \in DOMAIN c, NEW j \in DOMAIN c, i < j PROVE <<c[i], c[j]>> \in R
  BY DEF Ordered, c
<1>3. CASE j \in DOMAIN s
  <2>1. i \in DOMAIN s
    BY <1>1, <1>2, <1>3
  <2> QED BY <1>1, <1>2, <1>3, <2>1 DEF Ordered
<1>4. CASE j \notin DOMAIN s
  <2>1. j - Len(s) \in DOMAIN t /\ c[j] = t[j - Len(s)]
    BY <1>1, <1>4
  <2>2. CASE i \in DOMAIN s
    BY <1>1, <2>1, <2>2 DEF Related, ToSet
  <2>3. CASE i \notin DOMAIN s
    <3>1. i - Len(s) \in DOMAIN t /\ c[i] = t[i - Len(s)]
      BY <1>1, <2>3
    <3>2. i - Len(s) < j - Len(s)
      BY <1>1, <1>2
    <3> QED BY <2>1, <3>1, <3>2 DEF Ordered
  <2> QED BY <2>2, <2>3
<1> QED BY <1>3, <1>4

Flattens(f, s, n) == f = [i \in 1..n |-> IF i = 1 THEN s[i] ELSE f[i - 1] \o s[i]]

LEMMA SomeFlattens ==
    ASSUME NEW s, NEW n \in Nat, n # 0
    PROVE  \E f : Flattens(f, s, n)
<1> DEFINE Bad == {k \in 1..n : ~\E f : Flattens(f, s, k)}
<1>1. SUFFICES ASSUME Bad # {} PROVE FALSE
  OBVIOUS
<1>2. PICK k \in Bad : \A j \in Bad : k <= j
  <2>1. Bad \subseteq Nat
    OBVIOUS
  <2> HIDE DEF Bad
  <2> QED BY <1>1, <2>1, LeastOf
<1>3. k \in 1..n /\ ~\E f : Flattens(f, s, k)
  OBVIOUS
<1>4. CASE k = 1
  <2> DEFINE f == [i \in 1..1 |-> s[i]]
  <2>1. f = [i \in 1..1 |-> IF i = 1 THEN s[i] ELSE f[i - 1] \o s[i]]
    OBVIOUS
  <2> QED BY <1>3, <1>4, <2>1 DEF Flattens
<1>5. CASE k # 1
  <2>1. k - 1 \in 1..n
    BY <1>3, <1>5
  <2>2. \E f : Flattens(f, s, k - 1)
    BY <1>2, <1>3, <2>1
  <2>3. PICK f : Flattens(f, s, k - 1)
    BY <2>2
  <2> HIDE DEF Bad
  <2> DEFINE g == [i \in 1..k |-> IF i = 1 THEN s[i] ELSE f[i - 1] \o s[i]]
  <2>4. \A i \in 1..(k - 1) : f[i] = IF i = 1 THEN s[i] ELSE f[i - 1] \o s[i]
    BY <2>3 DEF Flattens
  <2>5. \A i \in 1..k : i # 1 => i - 1 \in 1..(k - 1) /\ i - 1 \in 1..k
    BY <1>3
  <2>6. \A i \in 1..k : i # 1 => g[i - 1] = f[i - 1]
    BY <2>4, <2>5
  <2>7. g = [i \in 1..k |-> IF i = 1 THEN s[i] ELSE g[i - 1] \o s[i]]
    BY <2>6
  <2> QED BY <1>3, <2>7 DEF Flattens
<1> QED BY <1>4, <1>5

\* A sequence of texts that are ordered, and each before the next, is ordered
\* as one text.
LEMMA FlattenOrdered ==
    ASSUME NEW R, NEW ss \in Seq(Seq(Piece)),
           \A k \in DOMAIN ss : Ordered(ss[k], R),
           \A k, l \in DOMAIN ss : k < l => Related(ss[k], ss[l], R)
    PROVE  FlattenSeq(ss) \in Seq(Piece) /\ Ordered(FlattenSeq(ss), R)
<1>1. Len(ss) \in Nat /\ DOMAIN ss = 1..Len(ss) /\ \A k \in DOMAIN ss : ss[k] \in Seq(Piece)
  BY LenProperties, ElementOfSeq
<1>2. CASE Len(ss) = 0
  <2>1. FlattenSeq(ss) = ss /\ DOMAIN ss = {} /\ ss = <<>>
    BY <1>1, <1>2, EmptySeq DEF FlattenSeq
  <2> QED BY <2>1, EmptySeq DEF Ordered
<1>3. CASE Len(ss) # 0
  <2> DEFINE n == Len(ss)
             f == CHOOSE g : g = [i \in 1..n |-> IF i = 1 THEN ss[i] ELSE g[i - 1] \o ss[i]]
  <2>1. \E g : g = [i \in 1..n |-> IF i = 1 THEN ss[i] ELSE g[i - 1] \o ss[i]]
    <3>1. \E g : Flattens(g, ss, n)
      BY <1>1, <1>3, SomeFlattens
    <3> QED BY <3>1, Zenon DEF Flattens
  <2>2. f = [i \in 1..n |-> IF i = 1 THEN ss[i] ELSE f[i - 1] \o ss[i]]
    BY <2>1, Zenon
  <2>3. FlattenSeq(ss) = f[n]
    BY <1>3 DEF FlattenSeq
  <2> DEFINE Good(k) == /\ f[k] \in Seq(Piece) /\ Ordered(f[k], R)
                        /\ \A x \in ToSet(f[k]) : \E j \in 1..k : x \in ToSet(ss[j])
             Bad == {k \in 1..n : ~Good(k)}
  <2> HIDE DEF f
  <2>4. n \in 1..n /\ n \in Nat
    BY <1>1, <1>3
  <2> HIDE DEF n
  <2>5. /\ Bad \subseteq 1..n /\ Bad \subseteq Nat
        /\ \A k \in 1..n : k \in Bad <=> ~Good(k)
    OBVIOUS
  <2>6. SUFFICES ASSUME Bad # {} PROVE FALSE
    BY <2>3, <2>4, <2>5
  <2> HIDE DEF Bad
  <2>7. PICK k \in Bad : \A j \in Bad : k <= j
    BY <2>5, <2>6, LeastOf
  <2>8. k \in 1..n /\ ~Good(k) /\ k \in DOMAIN ss
    BY <1>1, <2>5 DEF n
  <2>9. CASE k = 1
    <3>1. f[1] = ss[1]
      BY <2>2, <2>8, <2>9
    <3> QED BY <1>1, <2>8, <2>9, <3>1
  <2>10. CASE k # 1
    <3>1. k - 1 \in 1..n /\ k - 1 < k
      BY <2>4, <2>8, <2>10
    <3>2. Good(k - 1)
      <4>1. k - 1 \notin Bad
        BY <2>5, <2>7, <3>1
      <4> QED BY <2>5, <3>1, <4>1
    <3>3. f[k] = f[k - 1] \o ss[k]
      BY <2>2, <2>8, <2>10
    <3>4. PICK p \in Seq(Piece) : p = f[k - 1]
      BY <3>2
    <3>5. /\ Ordered(p, R)
          /\ \A x \in ToSet(p) : \E j \in 1..(k - 1) : x \in ToSet(ss[j])
      BY <3>2, <3>4
    <3>6. \A j \in 1..(k - 1) : j \in DOMAIN ss /\ j < k /\ j \in 1..k
      BY <1>1, <2>8 DEF n
    <3>7. Related(p, ss[k], R)
      <4>1. SUFFICES ASSUME NEW x \in ToSet(p), NEW y \in ToSet(ss[k]) PROVE <<x, y>> \in R
        BY DEF Related
      <4>2. PICK j \in 1..(k - 1) : x \in ToSet(ss[j])
        BY <3>5
      <4>3. Related(ss[j], ss[k], R)
        BY <2>8, <3>6
      <4> QED BY <4>2, <4>3 DEF Related
    <3>8. p \o ss[k] \in Seq(Piece) /\ Ordered(p \o ss[k], R)
      BY <1>1, <2>8, <3>5, <3>7, OrderedConcat, ConcatProperties
    <3>9. ToSet(p \o ss[k]) = ToSet(p) \cup ToSet(ss[k])
      BY <1>1, <2>8, PiecesOf
    <3>10. \A x \in ToSet(p \o ss[k]) : \E j \in 1..k : x \in ToSet(ss[j])
      BY <2>8, <3>5, <3>6, <3>9
    <3>11. Good(k)
      BY <3>3, <3>4, <3>8, <3>10
    <3> QED BY <2>8, <3>11
  <2> QED BY <2>9, <2>10
<1> QED BY <1>2, <1>3


-----------------------------------------------------------------------------
(* Text that is shown once *)

\* A message has one row.
RowsApart == \A i, j \in DOMAIN thread : thread[i].id = thread[j].id => i = j

LEMMA RowsApartKept ==
    ASSUME TypedInv, RowsApart, [Next]_vars
    PROVE  RowsApart'
<1>1. CASE thread' = thread
  BY <1>1 DEF RowsApart
<1>2. CASE thread' # thread
  <2>1. Work
    BY <1>2, Zenon DEF Next, CommandFails, TurnStarted, ContentDelta, QuestionAsked, ItemCompleted,
                       TurnCompleted, SessionExited, SwitchMode, EntryExpires, Restart, vars
  <2>2. PICK text \in Seq(Piece), streaming \in BOOLEAN : Sends(text, streaming)
    BY <1>2, <2>1, WorkSends
  <2>3. /\ \A k \in DOMAIN thread : thread'[k].id = thread[k].id
        /\ \A k \in DOMAIN thread' : k \notin DOMAIN thread =>
              /\ k = Len(thread) + 1 /\ thread'[k].id = Now.message
              /\ \A j \in DOMAIN thread : thread[j].id # Now.message
    BY <2>2 DEF Sends, Sent
  <2> QED BY <2>3 DEF RowsApart
<1> QED BY <1>1, <1>2

Once == provider.blank = {} /\ Without({"failure", "expiry", "overlap", "late"})

Single(s) == \A i, j \in DOMAIN s : s[i] = s[j] => i = j
Disjoint(s, t) == \A x \in ToSet(s) : x \notin ToSet(t)

\* A text that waits outside of a buffer, where its message has none.
Owes(task) == task.do = "deliver" \/ (task.do = "finalize" /\ Text(task.message) = <<>>)

\* A piece that was said is at one place: in one row, in one buffer, or owed by
\* a task.
ThreadOnce ==
    /\ \A k \in DOMAIN thread : Single(thread[k].text)
    /\ \A j, k \in DOMAIN thread : j # k => Disjoint(thread[j].text, thread[k].text)
BuffersOnce ==
    /\ \A m \in MessageId : Single(buffered[m])
    /\ \A m, q \in MessageId : m # q => Disjoint(buffered[m], buffered[q])
    /\ \A m \in MessageId : \A k \in DOMAIN thread : Disjoint(buffered[m], thread[k].text)
TasksOnce ==
    \A n \in DOMAIN Todo : Owes(Todo[n]) =>
        /\ Single(Todo[n].text)
        /\ \A k \in DOMAIN thread : Disjoint(Todo[n].text, thread[k].text)
        /\ \A m \in MessageId : Disjoint(Todo[n].text, buffered[m])
        /\ ToSet(Todo[n].text) \subseteq DOMAIN provider.said
PlacesSaid ==
    /\ \A k \in DOMAIN thread : ToSet(thread[k].text) \subseteq DOMAIN provider.said
    /\ \A m \in MessageId : ToSet(buffered[m]) \subseteq DOMAIN provider.said

\* Text of an item that is open can be found at its completion, in the message
\* of its turn's segment or in the first of the item.
HasText(m) ==
    \/ ToSet(buffered[m]) # {}
    \/ \E k \in DOMAIN thread : thread[k].id = m /\ ToSet(thread[k].text) # {}
    \/ \E n \in DOMAIN Todo :
          Todo[n].do = "deliver" /\ Todo[n].message = m /\ ToSet(Todo[n].text) # {}
OpenHasText ==
    /\ \A o \in provider.open : HasText(<<o, 0>>)
    /\ \A t \in Turn :
          segment[t].active # NoMessage /\ segment[t].active[1] \in provider.open =>
             HasText(segment[t].active)

OnceInv ==
    /\ ApartInv /\ RowsApart
    /\ Once => ThreadOnce /\ BuffersOnce /\ TasksOnce /\ PlacesSaid /\ OpenHasText

LEMMA SingleConcat ==
    ASSUME NEW s \in Seq(Piece), NEW t \in Seq(Piece), Single(s), Single(t), Disjoint(s, t)
    PROVE  Single(s \o t)
<1> DEFINE c == s \o t
<1>1. /\ \A n \in DOMAIN s : c[n] = s[n]
      /\ \A n \in DOMAIN c : n \in DOMAIN s
             \/ (n > Len(s) /\ n - Len(s) \in DOMAIN t /\ c[n] = t[n - Len(s)])
      /\ DOMAIN c = 1..Len(c) /\ DOMAIN s = 1..Len(s) /\ DOMAIN t = 1..Len(t)
      /\ Len(s) \in Nat /\ Len(t) \in Nat /\ Len(c) \in Nat
  BY ConcatIs, LenProperties
<1> HIDE DEF c
<1>2. SUFFICES ASSUME NEW i \in DOMAIN c, NEW j \in DOMAIN c, c[i] = c[j] PROVE i = j
  BY DEF Single, c
<1>3. CASE i \in DOMAIN s /\ j \in DOMAIN s
  BY <1>1, <1>2, <1>3 DEF Single
<1>4. CASE i \in DOMAIN s /\ j \notin DOMAIN s
  BY <1>1, <1>2, <1>4 DEF Disjoint, ToSet
<1>5. CASE i \notin DOMAIN s /\ j \in DOMAIN s
  BY <1>1, <1>2, <1>5 DEF Disjoint, ToSet
<1>6. CASE i \notin DOMAIN s /\ j \notin DOMAIN s
  <2>1. i - Len(s) \in DOMAIN t /\ c[i] = t[i - Len(s)] /\ j - Len(s) \in DOMAIN t /\ c[j] = t[j - Len(s)]
    BY <1>1, <1>6
  <2>2. i - Len(s) = j - Len(s)
    BY <1>2, <2>1 DEF Single
  <2> QED BY <1>1, <2>2
<1> QED BY <1>3, <1>4, <1>5, <1>6

LEMMA SingleWith ==
    ASSUME NEW s \in Seq(Piece), NEW n \in Piece, Single(s), n \notin ToSet(s)
    PROVE  Single(Append(s, n)) /\ Single(<<n>>)
<1> DEFINE c == Append(s, n)
<1>1. /\ DOMAIN c = DOMAIN s \cup {Len(s) + 1}
      /\ \A k \in DOMAIN s : c[k] = s[k]
      /\ c[Len(s) + 1] = n
  BY AppendIs
<1> HIDE DEF c
<1>2. Single(c)
  BY <1>1 DEF Single, ToSet
<1>3. Single(<<n>>)
  BY DEF Single
<1> QED BY <1>2, <1>3 DEF c

\* A text is sent that is not shown yet.
LEMMA SentOnce ==
    ASSUME TypedInv, RowsApart, ThreadOnce, NEW text \in Seq(Piece), NEW streaming,
           Sends(text, streaming), Single(text),
           \A k \in DOMAIN thread : Disjoint(text, thread[k].text)
    PROVE  /\ ThreadOnce'
           /\ \A k \in DOMAIN thread' : \A x \in ToSet(thread'[k].text) :
                 \/ x \in ToSet(text)
                 \/ \E j \in DOMAIN thread : x \in ToSet(thread[j].text)
<1>1. \A k \in DOMAIN thread : thread[k].text \in Seq(Piece)
  <2>1. SUFFICES ASSUME NEW k \in DOMAIN thread PROVE thread[k].text \in Seq(Piece)
    OBVIOUS
  <2>2. thread[k] \in Row
    BY ElementOfSeq, LenProperties DEF TypedInv, TypeInv
  <2> QED BY <2>2 DEF Row
<1>2. \A k \in DOMAIN thread' :
         \/ k \in DOMAIN thread /\ thread[k].id # Now.message /\ thread'[k].text = thread[k].text
         \/ k \in DOMAIN thread /\ thread[k].id = Now.message
            /\ thread'[k].text = thread[k].text \o text
         \/ /\ k \notin DOMAIN thread /\ k = Len(thread) + 1 /\ thread'[k].text = text
            /\ \A j \in DOMAIN thread : thread[j].id # Now.message
  <2>1. SUFFICES ASSUME NEW k \in DOMAIN thread'
        PROVE  \/ k \in DOMAIN thread /\ thread[k].id # Now.message /\ thread'[k].text = thread[k].text
               \/ k \in DOMAIN thread /\ thread[k].id = Now.message
                  /\ thread'[k].text = thread[k].text \o text
               \/ /\ k \notin DOMAIN thread /\ k = Len(thread) + 1 /\ thread'[k].text = text
                  /\ \A j \in DOMAIN thread : thread[j].id # Now.message
    OBVIOUS
  <2>2. CASE k \in DOMAIN thread
    BY <2>2 DEF Sends, Sent
  <2>3. CASE k \notin DOMAIN thread
    BY <2>1, <2>3 DEF Sends, Sent
  <2> QED BY <2>2, <2>3
<1>3. ASSUME NEW k \in DOMAIN thread
      PROVE  /\ Disjoint(thread[k].text, text)
             /\ Single(thread[k].text \o text)
             /\ ToSet(thread[k].text \o text) = ToSet(thread[k].text) \cup ToSet(text)
  <2>1. Disjoint(thread[k].text, text) /\ Single(thread[k].text)
    BY DEF Disjoint, ThreadOnce
  <2> QED BY <1>1, <2>1, SingleConcat, PiecesOf
<1>4. \A k \in DOMAIN thread' : Single(thread'[k].text)
  BY <1>2, <1>3 DEF ThreadOnce
<1>5. \A k \in DOMAIN thread' : \A x \in ToSet(thread'[k].text) :
         \/ /\ x \in ToSet(text)
            /\ k \in DOMAIN thread => thread[k].id = Now.message
            /\ k \notin DOMAIN thread => \A j \in DOMAIN thread : thread[j].id # Now.message
         \/ k \in DOMAIN thread /\ x \in ToSet(thread[k].text)
  BY <1>2, <1>3
<1>6. ASSUME NEW j \in DOMAIN thread', NEW k \in DOMAIN thread', NEW x \in ToSet(thread'[j].text),
             x \in ToSet(thread'[k].text)
      PROVE  j = k
  <2>1. j \in DOMAIN thread \/ j = Len(thread) + 1
    BY <1>2
  <2>2. k \in DOMAIN thread \/ k = Len(thread) + 1
    BY <1>2
  <2>3. CASE x \in ToSet(text)
    <3>1. \A i \in DOMAIN thread : x \notin ToSet(thread[i].text)
      BY <2>3 DEF Disjoint
    <3> QED BY <1>5, <1>6, <2>1, <2>2, <3>1 DEF RowsApart
  <2>4. CASE x \notin ToSet(text)
    BY <1>5, <1>6, <2>4 DEF ThreadOnce, Disjoint
  <2> QED BY <2>3, <2>4
<1>7. ThreadOnce'
  BY <1>4, <1>6 DEF ThreadOnce, Disjoint
<1> QED BY <1>5, <1>7


\* A task that is not the first one owes nothing.
LEMMA WorkOwesNothing ==
    ASSUME HandlerInv, Work
    PROVE  \A n \in DOMAIN handler'.todo :
              handler'.todo[n].do \in {"deliver", "finalize"} => handler'.todo[n].text = <<>>
<1>1. TypedInv /\ TasksOrdered /\ ~Idle /\ (MovesOn \/ TurnsToCompletion)
  BY WorkIs DEF HandlerInv
<1>2. SUFFICES ASSUME NEW n \in DOMAIN handler'.todo
      PROVE  handler'.todo[n].do \in {"deliver", "finalize"} => handler'.todo[n].text = <<>>
  OBVIOUS
<1>3. CASE MovesOn
  <2>1. n + 1 \in DOMAIN Todo /\ handler'.todo[n] = Todo[n + 1] /\ n \in Nat /\ n >= 1
    BY <1>1, <1>3, MovedOn, Zenon
  <2>2. n + 1 # 1
    BY <2>1
  <2> QED BY <1>1, <2>1, <2>2 DEF TasksOrdered
<1>4. CASE TurnsToCompletion
  <2>1. /\ DOMAIN handler'.todo = DOMAIN Todo
        /\ \A k \in DOMAIN Todo : k # 1 => handler'.todo[k] = Todo[k]
        /\ handler'.todo[1].do = "complete"
    BY <1>1, <1>4, TurnedToCompletion, Zenon
  <2> QED BY <1>1, <2>1 DEF TasksOrdered
<1> QED BY <1>1, <1>3, <1>4

LEMMA EmptyOnce ==
    /\ ToSet(<<>>) = {} /\ Single(<<>>)
    /\ \A s : Disjoint(<<>>, s) /\ Disjoint(s, <<>>)
BY DEF ToSet, Single, Disjoint

LEMMA NothingOwed ==
    ASSUME \A n \in DOMAIN handler'.todo :
              handler'.todo[n].do \in {"deliver", "finalize"} => handler'.todo[n].text = <<>>
    PROVE  TasksOnce'
BY EmptyOnce DEF TasksOnce, Todo, Owes

\* Text moves from its place to a row, or nowhere.
LEMMA MovedOnce ==
    ASSUME TypedInv, RowsApart, ThreadOnce, BuffersOnce, PlacesSaid,
           DOMAIN provider.said \subseteq DOMAIN provider'.said,
           \A m \in MessageId : buffered'[m] = buffered[m] \/ buffered'[m] = <<>>,
           \/ thread' = thread
           \/ \E text \in Seq(Piece), streaming \in BOOLEAN :
                 /\ Sends(text, streaming) /\ Single(text)
                 /\ \A k \in DOMAIN thread : Disjoint(text, thread[k].text)
                 /\ \A m \in MessageId : Disjoint(text, buffered'[m])
                 /\ ToSet(text) \subseteq DOMAIN provider.said
    PROVE  ThreadOnce' /\ BuffersOnce' /\ PlacesSaid'
<1>1. /\ \A m \in MessageId : Single(buffered'[m])
      /\ \A m, q \in MessageId : m # q => Disjoint(buffered'[m], buffered'[q])
      /\ \A m \in MessageId : \A k \in DOMAIN thread : Disjoint(buffered'[m], thread[k].text)
      /\ \A m \in MessageId : ToSet(buffered'[m]) \subseteq DOMAIN provider'.said
  BY EmptyOnce DEF BuffersOnce, PlacesSaid
<1>2. CASE thread' = thread
  BY <1>1, <1>2 DEF ThreadOnce, BuffersOnce, PlacesSaid
<1>3. CASE thread' # thread
  <2>1. PICK text \in Seq(Piece), streaming \in BOOLEAN :
                 /\ Sends(text, streaming) /\ Single(text)
                 /\ \A k \in DOMAIN thread : Disjoint(text, thread[k].text)
                 /\ \A m \in MessageId : Disjoint(text, buffered'[m])
                 /\ ToSet(text) \subseteq DOMAIN provider.said
    BY <1>3
  <2>2. /\ ThreadOnce'
        /\ \A k \in DOMAIN thread' : \A x \in ToSet(thread'[k].text) :
              \/ x \in ToSet(text)
              \/ \E j \in DOMAIN thread : x \in ToSet(thread[j].text)
    BY <2>1, SentOnce
  <2>3. \A m \in MessageId : \A k \in DOMAIN thread' : Disjoint(buffered'[m], thread'[k].text)
    BY <1>1, <2>1, <2>2 DEF Disjoint
  <2>4. \A k \in DOMAIN thread' : ToSet(thread'[k].text) \subseteq DOMAIN provider'.said
    BY <2>1, <2>2 DEF PlacesSaid
  <2> QED BY <1>1, <2>2, <2>3, <2>4 DEF BuffersOnce, PlacesSaid
<1> QED BY <1>2, <1>3

LEMMA WorkKeepsPlaces ==
    ASSUME OnceInv, Once, Work
    PROVE  ThreadOnce' /\ BuffersOnce' /\ PlacesSaid' /\ TasksOnce'
<1>1. /\ HandlerInv /\ TypedInv /\ RowsApart /\ ThreadOnce /\ BuffersOnce /\ TasksOnce /\ PlacesSaid
      /\ buffered \in [MessageId -> Seq(Piece)]
  BY DEF OnceInv, ApartInv, SteadyInv, HandlerInv, TypedInv, TypeInv
<1>2. /\ ~Idle /\ provider' = provider /\ Now \in Tasks /\ 1 \in DOMAIN Todo /\ Now = Todo[1]
  BY <1>1, WorkIs, FirstTask DEF Todo, TypedInv
<1>3. TasksOnce'
  BY <1>1, WorkOwesNothing, NothingOwed
<1>4. Owes(Now) =>
        /\ Single(Now.text)
        /\ \A k \in DOMAIN thread : Disjoint(Now.text, thread[k].text)
        /\ \A m \in MessageId : Disjoint(Now.text, buffered[m])
        /\ ToSet(Now.text) \subseteq DOMAIN provider.said
  BY <1>1, <1>2 DEF TasksOnce
<1>5. SUFFICES
         /\ \A m \in MessageId : buffered'[m] = buffered[m] \/ buffered'[m] = <<>>
         /\ \/ thread' = thread
            \/ \E text \in Seq(Piece), streaming \in BOOLEAN :
                  /\ Sends(text, streaming) /\ Single(text)
                  /\ \A k \in DOMAIN thread : Disjoint(text, thread[k].text)
                  /\ \A m \in MessageId : Disjoint(text, buffered'[m])
                  /\ ToSet(text) \subseteq DOMAIN provider.said
  BY <1>1, <1>2, <1>3, MovedOnce
<1>6. CASE Now.do = "deliver"
  <2>1. Now.text \in Seq(Piece) /\ Owes(Now)
    BY <1>1, <1>2, <1>6, FirstTexts DEF MessageTasks, Owes
  <2>2. Sends(Now.text, TRUE) /\ buffered' = buffered
    BY <1>1, <1>6, WorkDoes, DeliverTextIs
  <2> QED BY <1>4, <2>1, <2>2
<1>7. ASSUME Took, Now.message \in MessageId, Text(Now.message) \in Seq(Piece)
      PROVE  /\ \A m \in MessageId : buffered'[m] = buffered[m] \/ buffered'[m] = <<>>
             /\ Single(Text(Now.message))
             /\ \A k \in DOMAIN thread : Disjoint(Text(Now.message), thread[k].text)
             /\ \A m \in MessageId : Disjoint(Text(Now.message), buffered'[m])
             /\ ToSet(Text(Now.message)) \subseteq DOMAIN provider.said
  BY <1>1, <1>7, EmptyOnce DEF Took, BuffersOnce, PlacesSaid, Text
<1>8. CASE Now.do = "flush"
  <2>1. Text(Now.message) \in Seq(Piece) /\ Now.message \in MessageId
    BY <1>1, <1>2, <1>8, FirstTexts DEF MessageTasks
  <2>2. Took /\ (thread' = thread \/ Sends(Text(Now.message), TRUE))
    BY <1>1, <1>8, WorkDoes, FlushTextIs
  <2> QED BY <1>7, <2>1, <2>2
<1>9. CASE Now.do = "finalize"
  <2>1. /\ Text(Now.message) \in Seq(Piece) /\ FinalText \in Seq(Piece) /\ Now.message \in MessageId
        /\ Now.text \in Seq(Piece)
    BY <1>1, <1>2, <1>9, FirstTexts DEF MessageTasks
  <2>2. Took /\ (thread' = thread \/ Sends(FinalText, TRUE))
    BY <1>1, <1>9, WorkDoes, FinalizeTextIs
  <2>3. CASE Text(Now.message) # <<>>
    <3>1. FinalText = Text(Now.message)
      BY <2>3 DEF FinalText
    <3> QED BY <1>7, <2>1, <2>2, <3>1
  <2>4. CASE Text(Now.message) = <<>>
    <3>1. FinalText = Now.text /\ Owes(Now)
      BY <1>9, <2>4 DEF FinalText, Owes
    <3>2. \A m \in MessageId : buffered'[m] = buffered[m] \/ buffered'[m] = <<>>
      BY <2>2 DEF Took
    <3>3. \A m \in MessageId : Disjoint(Now.text, buffered'[m])
      BY <1>4, <3>1, <3>2, EmptyOnce
    <3> QED BY <1>4, <2>1, <2>2, <3>1, <3>2, <3>3
  <2> QED BY <2>3, <2>4
<1>10. CASE Now.do = "complete"
  <2>1. Sends(<<>>, FALSE) /\ buffered' = buffered /\ <<>> \in Seq(Piece)
    BY <1>1, <1>10, WorkDoes, CompleteMessageIs, Names
  <2> QED BY <2>1, EmptyOnce
<1>11. CASE Now.do \in {"running", "over", "paused", "itemDone", "turnDone"}
  BY <1>11, WorkDoes DEF SetSession, SettlePause, SettleItem, SettleTurn, caches
<1>12. CASE Now.do = "clear"
  BY <1>1, <1>12, WorkDoes, ClearTurnsIs
<1> QED
  BY <1>2, <1>6, <1>8, <1>9, <1>10, <1>11, <1>12 DEF Tasks, Doings, MessageTasks, TurnTasks


LEMMA WorkKeepsHasText ==
    ASSUME OnceInv, Once, Work, Now.do # "clear", NEW m \in MessageId, HasText(m)
    PROVE  HasText(m)'
<1>1. HandlerInv /\ TypedInv /\ TasksOrdered /\ provider.blank = {}
  BY DEF OnceInv, ApartInv, SteadyInv, HandlerInv, Once
<1>2. /\ ~Idle /\ Now \in Tasks /\ 1 \in DOMAIN Todo /\ Now = Todo[1]
  BY <1>1, WorkIs, FirstTask DEF Todo, TypedInv
<1>3. ASSUME NEW text \in Seq(Piece), NEW streaming, Sends(text, streaming), Now.message = m,
             ToSet(text) # {}
      PROVE  HasText(m)'
  BY <1>1, <1>3, RowsGrow DEF HasText
<1>4. CASE \E k \in DOMAIN thread : thread[k].id = m /\ ToSet(thread[k].text) # {}
  <2>1. CASE thread' = thread
    BY <1>4, <2>1 DEF HasText
  <2>2. CASE thread' # thread
    <3>1. \A k \in DOMAIN thread :
             /\ k \in DOMAIN thread' /\ thread'[k].id = thread[k].id
             /\ ToSet(thread[k].text) \subseteq ToSet(thread'[k].text)
      BY <1>1, <2>2, WorkSends, RowsGrow
    <3> QED BY <1>4, <3>1 DEF HasText
  <2> QED BY <2>1, <2>2
<1>5. CASE ToSet(buffered[m]) # {}
  <2>1. CASE Now.do \in {"flush", "finalize"} /\ m = Now.message
    <3>1. PICK x \in ToSet(Text(Now.message)) : TRUE
      BY <1>5, <2>1 DEF Text
    <3>2. Renderable(Text(Now.message)) /\ Text(Now.message) # <<>>
      BY <1>1, <3>1, EmptyOnce DEF Renderable
    <3>3. Text(Now.message) \in Seq(Piece)
      BY <1>1, <1>2, <2>1, FirstTexts DEF MessageTasks
    <3>4. CASE Now.do = "flush"
      BY <1>1, <1>3, <2>1, <3>1, <3>2, <3>3, <3>4, WorkDoes, FlushTextIs
    <3>5. CASE Now.do = "finalize"
      <4>1. FinalText = Text(Now.message)
        BY <3>2 DEF FinalText
      <4>2. Sends(Text(Now.message), TRUE)
        BY <1>1, <3>2, <3>5, <4>1, WorkDoes, FinalizeTextIs
      <4> QED BY <1>3, <2>1, <3>1, <3>3, <4>2
    <3> QED BY <2>1, <3>4, <3>5
  <2>2. CASE ~(Now.do \in {"flush", "finalize"} /\ m = Now.message)
    <3>1. buffered'[m] = buffered[m]
      BY <1>1, <2>2, WorkBuffers
    <3> QED BY <1>5, <3>1 DEF HasText
  <2> QED BY <2>1, <2>2
<1>6. CASE \E n \in DOMAIN Todo :
              Todo[n].do = "deliver" /\ Todo[n].message = m /\ ToSet(Todo[n].text) # {}
  <2>1. Now.do = "deliver" /\ Now.message = m /\ ToSet(Now.text) # {}
    BY <1>1, <1>2, <1>6 DEF TasksOrdered
  <2>2. Now.text \in Seq(Piece)
    BY <1>1, <1>2, <2>1, FirstTexts DEF MessageTasks
  <2> QED BY <1>1, <1>3, <2>1, <2>2, WorkDoes, DeliverTextIs
<1> QED BY <1>4, <1>5, <1>6 DEF HasText

LEMMA WorkKeepsOpenText ==
    ASSUME OnceInv, Once, Work
    PROVE  OpenHasText'
<1>1. /\ HandlerInv /\ TypedInv /\ TasksMean /\ OpenHasText
      /\ segment \in [Turn -> Segment] /\ provider.open \subseteq Item
  BY DEF OnceInv, ApartInv, SteadyInv, HandlerInv, TypedInv, TypeInv, Provider
<1>2. ~Idle /\ provider' = provider /\ 1 \in DOMAIN Todo /\ Now = Todo[1]
  BY <1>1, WorkIs, FirstTask DEF Todo, TypedInv
<1>3. CASE Now.do = "clear"
  <2>1. provider'.open = {}
    BY <1>1, <1>2, <1>3 DEF TasksMean
  <2> QED BY <2>1 DEF OpenHasText
<1>4. CASE Now.do # "clear"
  <2>1. \A m \in MessageId : HasText(m) => HasText(m)'
    BY <1>4, WorkKeepsHasText
  <2>2. \A o \in provider'.open : HasText(<<o, 0>>)'
    <3>1. SUFFICES ASSUME NEW o \in provider.open PROVE HasText(<<o, 0>>)'
      BY <1>2
    <3>2. <<o, 0>> \in MessageId /\ HasText(<<o, 0>>)
      BY <1>1, Names DEF OpenHasText
    <3> QED BY <2>1, <3>2
  <2>3. \A t \in Turn : segment'[t] = segment[t] \/ segment'[t].active = NoMessage
    <3>1. CASE Now.do \in {"paused", "itemDone"}
      BY <1>1, <3>1, WorkDoes, SettlesIs
    <3>2. CASE Now.do = "turnDone"
      BY <1>1, <3>2, WorkDoes, SettleTurnIs DEF NoSegment
    <3>3. CASE Now.do \notin {"paused", "itemDone", "turnDone", "clear"}
      <4>1. segment' = segment
        BY <3>3 DEF Work, SetSession, DeliverText, FlushText, FinalizeText, CompleteMessage,
                    SettlePause, SettleItem, SettleTurn, ClearTurns, caches, Does
      <4> QED BY <4>1
    <3> QED BY <1>4, <3>1, <3>2, <3>3
  <2>4. ASSUME NEW t \in Turn, segment'[t].active # NoMessage, segment'[t].active[1] \in provider'.open
        PROVE  \E m \in MessageId : m = segment'[t].active /\ HasText(m)
    <3>1. segment'[t] = segment[t] /\ segment[t] \in Segment
      BY <1>1, <2>3, <2>4
    <3>2. segment[t].active \in MessageId
      BY <2>4, <3>1 DEF Segment
    <3>3. HasText(segment[t].active)
      BY <1>1, <1>2, <2>4, <3>1 DEF OpenHasText
    <3> QED BY <3>1, <3>2, <3>3
  <2>5. ASSUME NEW t \in Turn, segment'[t].active # NoMessage, segment'[t].active[1] \in provider'.open
        PROVE  HasText(segment[t].active)'
    <3>1. PICK m \in MessageId : m = segment'[t].active /\ HasText(m)
      BY <2>4, <2>5
    <3>2. HasText(m)'
      BY <2>1, <3>1
    <3> QED BY <3>1, <3>2 DEF HasText
  <2> QED BY <2>2, <2>5 DEF OpenHasText
<1> QED BY <1>3, <1>4


\* No text moves between two events, and no item is opened.
LEMMA QuietOpenText ==
    ASSUME OnceInv, Once, Idle, thread' = thread, buffered' = buffered,
           provider'.open \subseteq provider.open,
           \A t \in Turn : segment'[t] = segment[t] \/ segment'[t].active = NoMessage
    PROVE  OpenHasText'
<1>1. TypedInv /\ OpenHasText
  BY DEF OnceInv, ApartInv, SteadyInv, HandlerInv
<1>2. \A m \in MessageId : HasText(m) => HasText(m)'
  BY IdleIs DEF HasText, Todo
<1>3. ASSUME NEW o \in provider'.open PROVE HasText(<<o, 0>>)'
  <2>1. <<o, 0>> \in MessageId /\ HasText(<<o, 0>>)
    BY <1>1, <1>3, Names DEF OpenHasText, TypedInv, TypeInv, Provider
  <2> QED BY <1>2, <2>1
<1>4. ASSUME NEW t \in Turn, segment'[t].active # NoMessage, segment'[t].active[1] \in provider'.open
      PROVE  HasText(segment[t].active)'
  <2>1. segment'[t] = segment[t] /\ segment[t] \in Segment
    BY <1>1, <1>4 DEF TypedInv, TypeInv
  <2>2. PICK m \in MessageId : m = segment[t].active
    BY <1>4, <2>1 DEF Segment
  <2>3. HasText(m)
    BY <1>1, <1>4, <2>1, <2>2 DEF OpenHasText
  <2>4. HasText(m)'
    BY <1>2, <2>3
  <2> QED BY <2>1, <2>2, <2>4 DEF HasText
<1> QED BY <1>3, <1>4 DEF OpenHasText

\* Nothing is owed by an event that is not about a piece, and no text moves.
LEMMA QuietOnce ==
    ASSUME OnceInv, Once, thread' = thread,
           DOMAIN provider.said \subseteq DOMAIN provider'.said,
           \A n \in DOMAIN handler'.todo :
              handler'.todo[n].do \in {"deliver", "finalize"} => handler'.todo[n].text = <<>>,
           \/ /\ provider'.open = {}
              /\ buffered' = buffered \/ \A m \in MessageId : buffered'[m] = <<>>
           \/ /\ Idle /\ buffered' = buffered /\ provider'.open \subseteq provider.open
              /\ \A t \in Turn : segment'[t] = segment[t] \/ segment'[t].active = NoMessage
    PROVE  ThreadOnce' /\ BuffersOnce' /\ PlacesSaid' /\ TasksOnce' /\ OpenHasText'
<1>1. TypedInv /\ RowsApart /\ ThreadOnce /\ BuffersOnce /\ PlacesSaid /\ OpenHasText
  BY DEF OnceInv, ApartInv, SteadyInv, HandlerInv
<1>2. ThreadOnce' /\ BuffersOnce' /\ PlacesSaid'
  <2>1. \A m \in MessageId : buffered'[m] = buffered[m] \/ buffered'[m] = <<>>
    OBVIOUS
  <2> QED BY <1>1, <2>1, MovedOnce
<1>3. TasksOnce'
  BY NothingOwed
<1>4. CASE provider'.open = {}
  BY <1>2, <1>3, <1>4 DEF OpenHasText
<1>5. CASE /\ Idle /\ buffered' = buffered /\ provider'.open \subseteq provider.open
           /\ \A t \in Turn : segment'[t] = segment[t] \/ segment'[t].active = NoMessage
  BY <1>2, <1>3, <1>5, QuietOpenText
<1> QED BY <1>4, <1>5

\* A piece is said.
LEMMA DeltaKeepsPlaces ==
    ASSUME OnceInv, Once, ContentDelta, NEW item, NEW t, NEW turn, NEW id \in MessageId,
           DeltaStep(item, t, turn, id)
    PROVE  /\ ThreadOnce' /\ BuffersOnce' /\ PlacesSaid' /\ TasksOnce' /\ HasText(id)'
           /\ \A m \in MessageId : HasText(m) => HasText(m)'
<1>1. /\ TypedInv /\ RowsApart /\ ThreadOnce /\ BuffersOnce /\ PlacesSaid
      /\ buffered \in [MessageId -> Seq(Piece)] /\ Idle /\ thread' = thread
  BY DEF OnceInv, ApartInv, SteadyInv, HandlerInv, TypedInv, TypeInv, ContentDelta
<1>2. PICK new \in Piece : new = Len(provider.said) + 1
  BY DEF DeltaStep, Says
<1>3. /\ DOMAIN provider'.said = DOMAIN provider.said \cup {new} /\ new \notin DOMAIN provider.said
      /\ DeltaLeaves(turn, id, new)
  BY <1>2 DEF DeltaStep, Says
<1> DEFINE longer == Append(buffered[id], new)
<1>4. /\ new \notin ToSet(buffered[id])
      /\ ToSet(longer) = ToSet(buffered[id]) \cup {new} /\ ToSet(<<new>>) = {new}
      /\ Single(longer) /\ Single(<<new>>)
  <2>1. buffered[id] \in Seq(Piece) /\ new \notin ToSet(buffered[id]) /\ Single(buffered[id])
    BY <1>1, <1>3 DEF PlacesSaid, BuffersOnce
  <2> QED BY <2>1, PiecesAnd, SingleWith
<1>5. \/ /\ \A m \in MessageId : buffered'[m] = IF m = id THEN longer ELSE buffered[m]
         /\ DOMAIN handler'.todo = {}
      \/ /\ DOMAIN handler'.todo = {1} /\ handler'.todo[1].do = "deliver"
         /\ handler'.todo[1].message = id
         /\ \/ buffered' = buffered /\ handler'.todo[1].text = <<new>>
            \/ /\ \A m \in MessageId : buffered'[m] = IF m = id THEN <<>> ELSE buffered[m]
               /\ handler'.todo[1].text = longer
  <2>1. DOMAIN handler.todo = {}
    BY <1>1, IdleIs
  <2> QED BY <1>1, <1>3, <2>1 DEF DeltaLeaves
<1> HIDE DEF longer
<1>6. /\ \A m \in MessageId : new \notin ToSet(buffered[m])
      /\ \A k \in DOMAIN thread : new \notin ToSet(thread[k].text)
  BY <1>1, <1>3 DEF PlacesSaid
<1>7. /\ \A k \in DOMAIN thread : Disjoint(longer, thread[k].text) /\ Disjoint(<<new>>, thread[k].text)
      /\ \A m \in MessageId : /\ Disjoint(<<new>>, buffered[m])
                              /\ m # id => Disjoint(longer, buffered[m]) /\ Disjoint(buffered[m], longer)
  BY <1>1, <1>4, <1>6 DEF Disjoint, BuffersOnce
<1>8. ToSet(longer) \subseteq DOMAIN provider'.said /\ ToSet(<<new>>) \subseteq DOMAIN provider'.said
  BY <1>1, <1>3, <1>4 DEF PlacesSaid
<1>9. CASE /\ \A m \in MessageId : buffered'[m] = IF m = id THEN longer ELSE buffered[m]
           /\ DOMAIN handler'.todo = {}
  <2>1. BuffersOnce'
    BY <1>1, <1>4, <1>7, <1>9 DEF BuffersOnce
  <2>2. PlacesSaid'
    BY <1>1, <1>3, <1>8, <1>9 DEF PlacesSaid
  <2>3. ThreadOnce' /\ TasksOnce'
    BY <1>1, <1>9 DEF ThreadOnce, TasksOnce, Todo
  <2>4. /\ ToSet(buffered'[id]) # {}
        /\ \A m \in MessageId : ToSet(buffered[m]) \subseteq ToSet(buffered'[m])
    BY <1>4, <1>9
  <2>5. HasText(id)' /\ \A m \in MessageId : HasText(m) => HasText(m)'
    BY <1>1, <2>4, IdleIs DEF HasText, Todo
  <2> QED BY <2>1, <2>2, <2>3, <2>5
<1>10. CASE /\ DOMAIN handler'.todo = {1} /\ handler'.todo[1].do = "deliver"
            /\ handler'.todo[1].message = id
            /\ \/ buffered' = buffered /\ handler'.todo[1].text = <<new>>
               \/ /\ \A m \in MessageId : buffered'[m] = IF m = id THEN <<>> ELSE buffered[m]
                  /\ handler'.todo[1].text = longer
  <2>1. \A m \in MessageId : buffered'[m] = buffered[m] \/ buffered'[m] = <<>>
    BY <1>10
  <2>2. ThreadOnce' /\ BuffersOnce' /\ PlacesSaid'
    BY <1>1, <1>3, <2>1, MovedOnce
  <2>3. /\ Single(handler'.todo[1].text)
        /\ \A k \in DOMAIN thread' : Disjoint(handler'.todo[1].text, thread'[k].text)
        /\ \A m \in MessageId : Disjoint(handler'.todo[1].text, buffered'[m])
        /\ ToSet(handler'.todo[1].text) \subseteq DOMAIN provider'.said
        /\ ToSet(handler'.todo[1].text) # {}
    BY <1>1, <1>4, <1>7, <1>8, <1>10, EmptyOnce
  <2>4. TasksOnce'
    BY <1>10, <2>3 DEF TasksOnce, Todo
  <2>5. HasText(id)'
    BY <1>10, <2>3 DEF HasText, Todo
  <2>6. \A m \in MessageId : m # id => buffered'[m] = buffered[m]
    BY <1>10
  <2>7. ASSUME NEW m \in MessageId, HasText(m) PROVE HasText(m)'
    <3>1. CASE m = id
      BY <2>5, <3>1
    <3>2. CASE m # id
      BY <1>1, <2>6, <2>7, <3>2, IdleIs DEF HasText, Todo
    <3> QED BY <3>1, <3>2
  <2> QED BY <2>2, <2>4, <2>5, <2>7
<1> QED BY <1>5, <1>9, <1>10

LEMMA DeltaKeepsOnce ==
    ASSUME OnceInv, Once, ContentDelta, Apart, Apart'
    PROVE  ThreadOnce' /\ BuffersOnce' /\ PlacesSaid' /\ TasksOnce' /\ OpenHasText'
<1>1. /\ SteadyInv /\ TypedInv /\ TypeInv /\ OpenHasText /\ BasesFit /\ ApartInv /\ Homes /\ Steady'
      /\ "overlap" \notin ToSet(upset') /\ Idle /\ provider.open \subseteq DOMAIN provider.home
  BY DEF OnceInv, ApartInv, SteadyInv, HandlerInv, TypedInv, ProviderFits, ContentDelta, Apart,
         Steady, Without
<1>2. PICK item \in Item, t \in {NoTurn} \cup Turn, turn \in {NoTurn} \cup Turn, id \in MessageId :
          DeltaStep(item, t, turn, id)
  BY <1>1, ContentDeltaIs
<1>3. /\ ThreadOnce' /\ BuffersOnce' /\ PlacesSaid' /\ TasksOnce' /\ HasText(id)'
      /\ \A m \in MessageId : HasText(m) => HasText(m)'
  BY <1>2, DeltaKeepsPlaces
<1>4. turn = Running /\ Running \in Turn /\ NoTurn \notin Turn
  BY <1>1, <1>2, DeltaTurn, Names
<1>5. /\ segment \in [Turn -> Segment] /\ Segments(turn, item, id)
      /\ \/ /\ Added(item) /\ provider'.open = provider.open \cup {item}
            /\ \A o \in provider.open : provider.home[o] # Running
         \/ item \in provider.open /\ provider'.open = provider.open
  BY <1>1, <1>2 DEF DeltaStep, TypeInv
<1>6. Added(item) => id = <<item, 0>>
  <2>1. SUFFICES ASSUME Added(item) PROVE id = <<item, 0>>
    OBVIOUS
  <2>2. item \notin DOMAIN provider.home
    BY <2>1 DEF Added
  <2>3. \A o \in provider.open : provider.home[o] # Running
    BY <1>1, <1>5, <2>2
  <2>4. segment[Running].active = NoMessage
    BY <1>1, <1>4, <2>3, NoneActive DEF Apart
  <2>5. segment[Running].base # item
    <3>1. segment[Running].base \in {0} \cup DOMAIN provider.home /\ item # 0
      BY <1>1, <1>4, Bounds DEF BasesFit, Item
    <3> QED BY <2>2, <3>1
  <2> QED BY <1>4, <1>5, <2>4, <2>5 DEF Segments
<1>7. \A o \in provider'.open : HasText(<<o, 0>>)'
  <2>1. SUFFICES ASSUME NEW o \in provider'.open PROVE HasText(<<o, 0>>)'
    OBVIOUS
  <2>2. CASE o \in provider.open
    <3>1. <<o, 0>> \in MessageId /\ HasText(<<o, 0>>)
      BY <1>1, <2>2, Names DEF OpenHasText, TypeInv, Provider
    <3> QED BY <1>3, <3>1
  <2>3. CASE o \notin provider.open
    <3>1. id = <<o, 0>>
      BY <1>5, <1>6, <2>1, <2>3
    <3> QED BY <1>3, <3>1
  <2> QED BY <2>2, <2>3
<1>8. ASSUME NEW s \in Turn, segment'[s].active # NoMessage, segment'[s].active[1] \in provider'.open
      PROVE  HasText(segment[s].active)'
  <2>1. \/ segment'[s] = segment[s]
        \/ segment'[s].active = id
    BY <1>4, <1>5 DEF Segments
  <2>2. CASE segment'[s].active = id
    BY <1>3, <2>2 DEF HasText
  <2>3. CASE segment'[s] = segment[s]
    <3>1. PICK m \in MessageId : m = segment[s].active
      BY <1>5, <1>8, <2>3 DEF Segment
    <3>2. m[1] \in DOMAIN provider.home
      BY <1>1, <1>8, <2>3, <3>1 DEF Homes, SegmentHome, Of
    <3>3. m[1] \in provider.open
      BY <1>5, <1>8, <2>3, <3>1, <3>2 DEF Added
    <3>4. HasText(m)
      BY <1>1, <1>8, <2>3, <3>1, <3>3 DEF OpenHasText
    <3>5. HasText(m)'
      BY <1>3, <3>4
    <3> QED BY <2>3, <3>1, <3>5 DEF HasText
  <2> QED BY <2>1, <2>2, <2>3
<1> QED BY <1>3, <1>7, <1>8 DEF OpenHasText

\* An item that completes with none of its text in its message has only begun.
LEMMA ItemOwes ==
    ASSUME OnceInv, Once, Apart, Steady', Idle, NEW item \in Item, NEW turn \in {NoTurn} \cup Turn,
           NEW detail, ItemStep(item, turn, detail), NEW id \in MessageId,
           id = <<item, 0>> \/ (turn \in Turn /\ id = segment[turn].active),
           buffered[id] = <<>>, \A k \in DOMAIN thread : thread[k].id = id => thread[k].text = <<>>
    PROVE  item \notin provider.open
<1>1. /\ SteadyInv /\ OpenHasText /\ SegmentsOpen /\ provider.open \subseteq DOMAIN provider.home
  BY DEF OnceInv, ApartInv, SteadyInv, HandlerInv, TypedInv, ProviderFits
<1>2. turn \in {NoTurn, provider'.home[item]}
  BY <1>1, ItemTurn
<1>3. ~HasText(id)
  BY IdleIs, EmptyOnce DEF HasText, Todo
<1>4. SUFFICES ASSUME item \in provider.open PROVE HasText(id)
  BY <1>3
<1>5. CASE id = <<item, 0>>
  BY <1>1, <1>4, <1>5 DEF OpenHasText
<1>6. CASE turn \in Turn /\ id = segment[turn].active
  <2>1. turn = provider.home[item]
    <3>1. item \in DOMAIN provider.home /\ NoTurn \notin Turn
      BY <1>1, <1>4, Names
    <3>2. provider'.home[item] = provider.home[item]
      BY <3>1 DEF ItemStep, Added, Continued
    <3> QED BY <1>2, <1>6, <3>1, <3>2
  <2>2. id # NoMessage
    BY Names
  <2>3. segment[turn].active[1] \in provider.open
    BY <1>1, <1>4, <1>6, <2>1, <2>2, IdleIs DEF SegmentsOpen, Todo
  <2> QED BY <1>1, <1>6, <2>2, <2>3 DEF OpenHasText
<1> QED BY <1>5, <1>6

\* What came with a completed item is shown only if none of its text is known.
LEMMA ItemKeepsOnce ==
    ASSUME OnceInv, Once, ItemCompleted, Apart, Apart'
    PROVE  ThreadOnce' /\ BuffersOnce' /\ PlacesSaid' /\ TasksOnce' /\ OpenHasText'
<1>1. /\ SteadyInv /\ TypedInv /\ RowsApart /\ ThreadOnce /\ BuffersOnce /\ PlacesSaid /\ OpenHasText
      /\ Steady' /\ Idle /\ thread' = thread /\ buffered' = buffered
      /\ SegmentsOpen /\ SegmentHome /\ provider.open \subseteq DOMAIN provider.home
  BY DEF OnceInv, ApartInv, SteadyInv, HandlerInv, TypedInv, ProviderFits, ItemCompleted, Apart,
         Steady, Without, Homes
<1>2. PICK item \in Item, turn \in {NoTurn} \cup Turn, detail \in Seq(Piece) :
          ItemStep(item, turn, detail)
  BY <1>1, ItemCompletedIs
<1>3. turn \in {NoTurn, provider'.home[item]}
  BY <1>1, <1>2, ItemTurn
<1>4. /\ provider'.open \subseteq provider.open
      /\ DOMAIN provider.said \subseteq DOMAIN provider'.said
      /\ ItemLeaves(item, turn, detail)
  BY <1>2 DEF ItemStep, Says
<1>5. \A s \in Turn : segment'[s] = segment[s] \/ segment'[s].active = NoMessage
  BY <1>1, <1>4 DEF ItemLeaves, TypedInv, TypeInv, NoSegment
<1>6. OpenHasText'
  BY <1>1, <1>4, <1>5, QuietOpenText
<1>7. ThreadOnce' /\ BuffersOnce' /\ PlacesSaid'
  BY <1>1, <1>4, MovedOnce
<1>8. CASE handler' = handler
  <2>1. DOMAIN handler'.todo = {}
    BY <1>1, <1>8, IdleIs
  <2>2. TasksOnce'
    BY <2>1 DEF TasksOnce, Todo
  <2> QED BY <1>6, <1>7, <2>2
<1>9. CASE handler' # handler
  <2>1. PICK id \in MessageId :
          /\ id = <<item, 0>> \/ (turn \in Turn /\ id = segment[turn].active)
          /\ DOMAIN handler'.todo \in {{1}, {1, 2}}
          /\ handler'.todo[1].do = "finalize" /\ handler'.todo[1].message = id
          /\ \/ handler'.todo[1].text = <<>>
             \/ /\ handler'.todo[1].text = detail
                /\ \A k \in DOMAIN thread : thread[k].id = id => thread[k].text = <<>>
          /\ 2 \in DOMAIN handler'.todo => handler'.todo[2].do = "itemDone"
    BY <1>4, <1>9 DEF ItemLeaves
  <2>2. /\ \A n \in DOMAIN handler'.todo :
              n = 1 \/ handler'.todo[n].do \notin {"deliver", "finalize"}
        /\ 1 \in DOMAIN handler'.todo
    BY <2>1
  <2>11. CASE \/ buffered[id] # <<>> \/ handler'.todo[1].text = <<>>
              \/ /\ Single(detail)
                 /\ \A k \in DOMAIN thread : Disjoint(detail, thread[k].text)
                 /\ \A m \in MessageId : Disjoint(detail, buffered[m])
                 /\ ToSet(detail) \subseteq DOMAIN provider'.said
    <3>1. ASSUME NEW n \in DOMAIN handler'.todo,
                 \/ handler'.todo[n].do = "deliver"
                 \/ handler'.todo[n].do = "finalize" /\ buffered'[handler'.todo[n].message] = <<>>
          PROVE  /\ Single(handler'.todo[n].text)
                 /\ \A k \in DOMAIN thread' : Disjoint(handler'.todo[n].text, thread'[k].text)
                 /\ \A m \in MessageId : Disjoint(handler'.todo[n].text, buffered'[m])
                 /\ ToSet(handler'.todo[n].text) \subseteq DOMAIN provider'.said
      <4>1. n = 1 /\ buffered[id] = <<>>
        BY <1>1, <2>1, <2>2, <3>1
      <4>2. handler'.todo[1].text \in {<<>>, detail}
        BY <2>1
      <4> QED BY <1>1, <2>11, <4>1, <4>2, EmptyOnce
    <3>2. TasksOnce'
      BY <3>1 DEF TasksOnce, Owes, Text, Todo
    <3> QED BY <1>6, <1>7, <3>2
  <2>3. SUFFICES ASSUME buffered[id] = <<>>, handler'.todo[1].text # <<>>
        PROVE  /\ Single(detail)
               /\ \A k \in DOMAIN thread : Disjoint(detail, thread[k].text)
               /\ \A m \in MessageId : Disjoint(detail, buffered[m])
               /\ ToSet(detail) \subseteq DOMAIN provider'.said
    BY <2>11
  <2>4. /\ \A k \in DOMAIN thread : thread[k].id = id => thread[k].text = <<>>
        /\ detail # <<>>
    BY <2>1, <2>3
  <2>6. item \notin provider.open
    BY <1>1, <1>2, <2>1, <2>3, <2>4, ItemOwes
  <2>7. Says(item) /\ detail = <<Len(provider.said) + 1>>
    BY <1>2, <2>6 DEF ItemStep
  <2>8. PICK new \in Piece : new = Len(provider.said) + 1
    BY <2>7 DEF Says
  <2>9. detail = <<new>> /\ new \notin DOMAIN provider.said /\ new \in DOMAIN provider'.said
    BY <2>7, <2>8 DEF Says
  <2>10. ToSet(detail) = {new} /\ Single(detail)
    <3>1. <<>> \in Seq(Piece) /\ Single(<<new>>)
      BY Names DEF Single
    <3> QED BY <2>9, <3>1, PiecesAnd
  <2> QED BY <1>1, <2>9, <2>10 DEF PlacesSaid, Disjoint
<1> QED BY <1>6, <1>7, <1>8, <1>9

LEMMA BlankKept ==
    ASSUME TypedInv, [Next]_vars
    PROVE  /\ provider'.blank = provider.blank
           /\ DOMAIN provider.said \subseteq DOMAIN provider'.said
<1>1. provider \in Provider
  BY DEF TypedInv, TypeInv
<1>2. CASE provider' = provider
  BY <1>2
<1>3. CASE TurnStarted \/ TurnCompleted \/ SessionExited \/ Restart
  BY <1>1, <1>3, Zenon DEF TurnStarted, TurnCompleted, SessionExited, Restart, ProviderGone, Provider
<1>4. CASE ContentDelta
  <2>1. PICK item \in Item, t \in {NoTurn} \cup Turn, turn \in {NoTurn} \cup Turn, id \in MessageId :
            DeltaStep(item, t, turn, id)
    BY <1>4, ContentDeltaIs
  <2> QED BY <2>1 DEF DeltaStep, SameTurns, Says
<1>5. CASE ItemCompleted
  <2>1. PICK item \in Item, turn \in {NoTurn} \cup Turn, detail \in Seq(Piece) :
            ItemStep(item, turn, detail)
    BY <1>5, ItemCompletedIs
  <2> QED BY <2>1 DEF ItemStep, SameTurns, Says
<1>6. CASE \/ Work \/ CommandFails \/ QuestionAsked \/ SwitchMode \/ EntryExpires \/ UNCHANGED vars
  <2>1. provider' = provider
    BY <1>6, WorkIs DEF CommandFails, QuestionAsked, SwitchMode, EntryExpires, vars
  <2> QED BY <2>1
<1> QED BY <1>2, <1>3, <1>4, <1>5, <1>6 DEF Next

LEMMA OnceKept ==
    ASSUME OnceInv, [Next]_vars
    PROVE  OnceInv'
<1>1. ApartInv' /\ RowsApart' /\ TypedInv
  BY ApartKept, RowsApartKept DEF OnceInv, ApartInv, SteadyInv, HandlerInv
<1>2. /\ ToSet(upset) \subseteq ToSet(upset') /\ provider'.blank = provider.blank
      /\ DOMAIN provider.said \subseteq DOMAIN provider'.said
  BY <1>1, StepTyped, BlankKept
<1>3. SUFFICES ASSUME Once' PROVE ThreadOnce' /\ BuffersOnce' /\ PlacesSaid' /\ TasksOnce' /\ OpenHasText'
  BY <1>1 DEF OnceInv
<1>4. Once /\ Apart /\ Apart' /\ ToSet(upset') \cap {"failure", "expiry"} = {}
  BY <1>2, <1>3 DEF Once, Apart, Without
<1>5. ThreadOnce /\ BuffersOnce /\ PlacesSaid /\ TasksOnce /\ OpenHasText
  BY <1>4 DEF OnceInv
<1>6. CASE Work
  BY <1>4, <1>6, WorkKeepsPlaces, WorkKeepsOpenText
<1>7. CASE TurnStarted \/ QuestionAsked \/ TurnCompleted \/ SwitchMode
  <2>1. Idle /\ UNCHANGED <<thread, buffered, segment>>
    BY <1>7 DEF TurnStarted, QuestionAsked, TurnCompleted, SwitchMode, caches
  <2>2. /\ \A n \in DOMAIN handler'.todo : handler'.todo[n].text = <<>>
        /\ provider'.open = provider.open
    <3>1. CASE TurnStarted
      BY <1>1, <3>1, NewTurnTyped
    <3>2. CASE QuestionAsked
      BY <1>1, <3>2, QuestionIs DEF QuestionAsked, QuestionLeaves
    <3>3. CASE TurnCompleted
      BY <1>1, <3>3, TurnTyped DEF TurnStep, TurnLeaves
    <3>4. CASE SwitchMode
      BY <2>1, <3>4, IdleIs DEF SwitchMode
    <3> QED BY <1>7, <3>1, <3>2, <3>3, <3>4
  <2> QED BY <1>2, <1>4, <2>1, <2>2, QuietOnce
<1>8. CASE SessionExited \/ Restart
  <2>1. /\ thread' = thread /\ provider'.open = {}
        /\ buffered' = buffered \/ \A m \in MessageId : buffered'[m] = <<>>
    BY <1>1, <1>8, GoneIs DEF SessionExited, Restart, caches
  <2>2. \A n \in DOMAIN handler'.todo : handler'.todo[n].text = <<>>
    BY <1>1, <1>8, ExitTyped, RestingIs DEF ExitLeaves, Restart
  <2> QED BY <1>2, <1>4, <2>1, <2>2, QuietOnce
<1>9. CASE UNCHANGED vars
  BY <1>5, <1>9 DEF vars, caches, ThreadOnce, BuffersOnce, PlacesSaid, TasksOnce, OpenHasText, HasText,
                    Owes, Text, Todo
<1>10. ~CommandFails /\ ~EntryExpires
  BY <1>1, <1>4, FailureTyped, ExpiryTyped
<1> QED
  BY <1>4, <1>6, <1>7, <1>8, <1>9, <1>10, DeltaKeepsOnce, ItemKeepsOnce DEF Next

LEMMA OnceBegins == Init => OnceInv
<1> SUFFICES ASSUME Init PROVE OnceInv
  OBVIOUS
<1>1. ApartInv
  BY ApartBegins
<1>2. /\ DOMAIN thread = {} /\ DOMAIN handler.todo = {} /\ provider.open = {}
      /\ \A m \in MessageId : buffered[m] = <<>>
      /\ \A t \in Turn : segment[t].active = NoMessage
  BY DEF Init, Resting, NoSegment
<1>3. RowsApart /\ ThreadOnce /\ TasksOnce /\ OpenHasText
  BY <1>2 DEF RowsApart, ThreadOnce, TasksOnce, OpenHasText, Todo
<1>4. BuffersOnce /\ PlacesSaid
  BY <1>2, EmptyOnce DEF BuffersOnce, PlacesSaid
<1> QED BY <1>1, <1>3, <1>4 DEF OnceInv

\* The pieces on display, as FlattenOrdered needs them.
LEMMA ShownIs ==
    ASSUME TypedInv
    PROVE  \E texts \in Seq(Seq(Piece)) :
              /\ DOMAIN texts = DOMAIN thread /\ \A k \in DOMAIN thread : texts[k] = thread[k].text
              /\ Shown = FlattenSeq(texts)
<1> DEFINE texts == [n \in DOMAIN thread |-> thread[n].text]
<1>1. \A k \in DOMAIN thread : thread[k].text \in Seq(Piece)
  <2>1. SUFFICES ASSUME NEW k \in DOMAIN thread PROVE thread[k].text \in Seq(Piece)
    OBVIOUS
  <2>2. thread[k] \in Row
    BY ElementOfSeq, LenProperties DEF TypedInv, TypeInv
  <2> QED BY <2>2 DEF Row
<1>2. DOMAIN thread = 1..Len(thread) /\ Len(thread) \in Nat
  BY LenProperties DEF TypedInv, TypeInv
<1>3. texts \in Seq(Seq(Piece))
  BY <1>1, <1>2
<1>4. Shown = FlattenSeq(texts)
  BY DEF Shown
<1> QED BY <1>3, <1>4

\* No text of a provider is shown twice: a piece is in one message, and once in
\* it, whether it was streamed, buffered or came again with the item that
\* completes, and however often a question split the item; restarts and exits
\* of the session do not repeat it (shouldApplyFallbackCompletionText,
\* takeBufferedAssistantText).
THEOREM AssistantTextShownOnce == Spec => []ShownOnce
<1>1. Init => OnceInv
  BY OnceBegins
<1>2. OnceInv /\ [Next]_vars => OnceInv'
  BY OnceKept
<1>3. OnceInv => ShownOnce
  <2>1. SUFFICES ASSUME OnceInv, Once PROVE IsInjective(Shown)
    BY DEF ShownOnce, Once
  <2>2. TypedInv /\ ThreadOnce
    BY <2>1 DEF OnceInv, ApartInv, SteadyInv, HandlerInv
  <2>3. PICK texts \in Seq(Seq(Piece)) :
              /\ DOMAIN texts = DOMAIN thread /\ \A k \in DOMAIN thread : texts[k] = thread[k].text
              /\ Shown = FlattenSeq(texts)
    BY <2>2, ShownIs
  <2>4. PICK R : R = {p \in Piece \X Piece : p[1] # p[2]}
    OBVIOUS
  <2>5. \A x, y \in Piece : <<x, y>> \in R <=> x # y
    BY <2>4
  <2>6. \A k \in DOMAIN texts : Ordered(texts[k], R)
    <3>1. SUFFICES ASSUME NEW k \in DOMAIN texts, NEW i \in DOMAIN texts[k], NEW j \in DOMAIN texts[k], i < j
          PROVE  <<texts[k][i], texts[k][j]>> \in R
      BY DEF Ordered
    <3>2. texts[k] \in Seq(Piece)
      BY <2>3, ElementOfSeq, LenProperties
    <3>3. texts[k][i] \in Piece /\ texts[k][j] \in Piece /\ i \in Nat /\ j \in Nat
      BY <3>1, <3>2, ElementOfSeq, LenProperties
    <3>4. i # j
      BY <3>1, <3>3
    <3>5. Single(thread[k].text) /\ texts[k] = thread[k].text
      BY <2>2, <2>3 DEF ThreadOnce
    <3>6. texts[k][i] # texts[k][j]
      BY <3>1, <3>4, <3>5 DEF Single
    <3> QED BY <2>5, <3>3, <3>6
  <2>7. \A k, l \in DOMAIN texts : k < l => Related(texts[k], texts[l], R)
    <3>1. SUFFICES ASSUME NEW k \in DOMAIN texts, NEW l \in DOMAIN texts, k < l,
                          NEW x \in ToSet(texts[k]), NEW y \in ToSet(texts[l])
          PROVE  <<x, y>> \in R
      BY DEF Related
    <3>2. texts[k] \in Seq(Piece) /\ texts[l] \in Seq(Piece) /\ k \in Nat /\ l \in Nat
      BY <2>3, ElementOfSeq, LenProperties
    <3>3. x \in Piece /\ y \in Piece
      BY <3>2, ElementOfSeq, LenProperties DEF ToSet
    <3>4. k # l
      BY <3>1, <3>2
    <3>5. Disjoint(texts[k], texts[l])
      BY <2>2, <2>3, <3>4 DEF ThreadOnce
    <3> QED BY <2>5, <3>3, <3>5 DEF Disjoint
  <2>8. Shown \in Seq(Piece) /\ Ordered(Shown, R)
    BY <2>3, <2>6, <2>7, FlattenOrdered
  <2>9. ASSUME NEW i \in DOMAIN Shown, NEW j \in DOMAIN Shown, i < j PROVE Shown[i] # Shown[j]
    <3>1. Shown[i] \in Piece /\ Shown[j] \in Piece
      BY <2>8, <2>9, ElementOfSeq, LenProperties
    <3>2. <<Shown[i], Shown[j]>> \in R
      BY <2>8, <2>9 DEF Ordered
    <3> QED BY <2>5, <3>1, <3>2
  <2>10. DOMAIN Shown \subseteq Nat
    BY <2>8, LenProperties
  <2>11. \A i, j \in DOMAIN Shown : Shown[i] = Shown[j] => i = j
    <3>1. SUFFICES ASSUME NEW i \in DOMAIN Shown, NEW j \in DOMAIN Shown, Shown[i] = Shown[j], i # j
          PROVE  FALSE
      OBVIOUS
    <3>2. i < j \/ j < i
      BY <2>10, <3>1
    <3> QED BY <2>9, <3>1, <3>2
  <2> QED BY <2>11 DEF IsInjective
<1> QED BY <1>1, <1>2, <1>3, PTL DEF Spec


-----------------------------------------------------------------------------
(* Text in the order it was said *)

InTurn == Once /\ Without({"switch", "superseded"})

Less == {p \in Piece \X Piece : p[1] < p[2]}
Increasing(s) == Ordered(s, Less)
Before(s, t) == Related(s, t, Less)
After(rows, text) == Increasing(text) /\ \A k \in DOMAIN rows : Before(rows[k].text, text)
RowsInOrder(rows) ==
    /\ \A k \in DOMAIN rows : Increasing(rows[k].text)
    /\ \A j, k \in DOMAIN rows : j < k => Before(rows[j].text, rows[k].text)

\* Text for a message does not have to pass others: its row is the last one, or
\* it has none.
Target(rows, m) == \A k \in DOMAIN rows : rows[k].id = m => k = Len(rows)
HasRow(rows, m) == \E k \in DOMAIN rows : rows[k].id = m

\* The segment of the turn that was started last, and the messages before it.
Newest == IF provider.turns \in Turn THEN segment[provider.turns] ELSE NoSegment
Numbered(s, m) == m[1] = s.base => m[2] < s.next

NewestFits ==
    /\ \A k \in DOMAIN thread : Numbered(Newest, thread[k].id)
    /\ Newest.active # NoMessage => Numbered(Newest, Newest.active) /\ Target(thread, Newest.active)
    /\ \A o \in provider.open : provider.home[o] = Running => Newest.base = o

\* Only the newest segment has text in a buffer, and only until its turn ends.
Unfinished(m) ==
    \/ Running # NoTurn
    \/ \E n \in DOMAIN Todo : \/ Todo[n].do = "clear"
                              \/ Todo[n].do = "finalize" /\ Todo[n].message = m
BuffersInOrder ==
    \A m \in MessageId : buffered[m] # <<>> =>
        /\ m = Newest.active /\ m \in ToSet(known[provider.turns])
        /\ mode = "buffered" /\ After(thread, buffered[m]) /\ Unfinished(m)

\* What a task sends, and what it leaves behind.
TasksInOrder ==
    \A n \in DOMAIN Todo :
        /\ Todo[n].do = "deliver" =>
              /\ Todo[n].message = Newest.active /\ After(thread, Todo[n].text)
              /\ \A m \in MessageId : buffered[m] = <<>>
        /\ Todo[n].do = "finalize" /\ Todo[n].text # <<>> /\ Text(Todo[n].message) = <<>> =>
              /\ Newest.active = NoMessage /\ After(thread, Todo[n].text)
              /\ Target(thread, Todo[n].message) /\ Numbered(Newest, Todo[n].message)
        /\ Todo[n].do = "complete" \/ (Todo[n].do = "finalize" /\ Todo[n].projected) =>
              HasRow(thread, Todo[n].message) \/ Todo[n].message = Newest.active
        /\ Todo[n].do \in {"paused", "itemDone"} /\ handler.turn = provider.turns =>
              Newest.active \in {NoMessage, Todo[n].message}
        /\ Todo[n].do = "itemDone" => \A o \in provider.open : provider.home[o] # handler.turn
        /\ Todo[n].do = "turnDone" => handler.turn \in provider.ended
EarlierEnded == \A t \in Turn : t < provider.turns => t \in provider.ended

OrderInv ==
    /\ OnceInv
    /\ InTurn => /\ RowsInOrder(thread) /\ NewestFits /\ BuffersInOrder /\ TasksInOrder
                 /\ EarlierEnded

LEMMA LessIs == \A x, y \in Piece : <<x, y>> \in Less <=> x < y
BY DEF Less

LEMMA EmptyInOrder ==
    /\ Increasing(<<>>)
    /\ \A s : Before(<<>>, s) /\ Before(s, <<>>)
    /\ \A rows : After(rows, <<>>)
BY EmptyOnce DEF Increasing, Before, After, Ordered, Related

LEMMA NewestIs ==
    ASSUME TypedInv
    PROVE  /\ Newest \in Segment /\ NoSegment.active = NoMessage /\ NoSegment.base = 0
           /\ provider.turns \in Turn => Newest = segment[provider.turns]
           /\ Newest.active # NoMessage => Newest.active \in MessageId /\ provider.turns \in Turn
           /\ Running # NoTurn => Running = provider.turns /\ provider.turns \in Turn
           /\ \A k \in DOMAIN thread : thread[k].id \in MessageId /\ thread[k].text \in Seq(Piece)
           /\ \A o \in provider.open : o \in DOMAIN provider.home /\ provider.home[o] \in Turn
<1>1. NoSegment \in Segment /\ NoSegment.active = NoMessage /\ NoSegment.base = 0
  BY DEF NoSegment, Segment
<1>2. Newest \in Segment
  BY <1>1 DEF Newest, TypedInv, TypeInv
<1>3. provider.turns \in Turn => Newest = segment[provider.turns]
  BY DEF Newest
<1>4. Newest.active # NoMessage => Newest.active \in MessageId /\ provider.turns \in Turn
  BY <1>1, <1>2 DEF Newest, Segment
<1>5. Running # NoTurn => Running = provider.turns /\ provider.turns \in Turn
  BY RunningIs
<1>6. ASSUME NEW k \in DOMAIN thread PROVE thread[k].id \in MessageId /\ thread[k].text \in Seq(Piece)
  <2>1. thread[k] \in Row
    BY ElementOfSeq, LenProperties DEF TypedInv, TypeInv
  <2> QED BY <2>1 DEF Row
<1>7. ASSUME NEW o \in provider.open PROVE o \in DOMAIN provider.home /\ provider.home[o] \in Turn
  <2>1. o \in DOMAIN provider.home /\ provider.home \in Seq(Turn)
    BY DEF TypedInv, TypeInv, ProviderFits, Provider
  <2> QED BY <2>1, ElementOfSeq, LenProperties
<1> QED BY <1>1, <1>2, <1>3, <1>4, <1>5, <1>6, <1>7

LEMMA NewestSame ==
    ASSUME provider'.turns = provider.turns,
           provider.turns \in Turn => segment'[provider.turns] = segment[provider.turns]
    PROVE  Newest' = Newest
BY DEF Newest

\* The rows once text has been sent.
LEMMA SentRows ==
    ASSUME TypedInv, NEW text \in Seq(Piece), NEW streaming, Sends(text, streaming)
    PROVE  \A k \in DOMAIN thread' :
             \/ k \in DOMAIN thread /\ thread[k].id # Now.message /\ thread'[k] = thread[k]
             \/ k \in DOMAIN thread /\ thread[k].id = Now.message /\ thread'[k].id = Now.message
                /\ thread'[k].text = thread[k].text \o text
             \/ /\ k \notin DOMAIN thread /\ k = Len(thread) + 1
                /\ thread'[k].text = text /\ thread'[k].id = Now.message
                /\ \A j \in DOMAIN thread : thread[j].id # Now.message
<1>1. SUFFICES ASSUME NEW k \in DOMAIN thread'
      PROVE  \/ k \in DOMAIN thread /\ thread[k].id # Now.message /\ thread'[k] = thread[k]
             \/ k \in DOMAIN thread /\ thread[k].id = Now.message /\ thread'[k].id = Now.message
                /\ thread'[k].text = thread[k].text \o text
             \/ /\ k \notin DOMAIN thread /\ k = Len(thread) + 1
                /\ thread'[k].text = text /\ thread'[k].id = Now.message
                /\ \A j \in DOMAIN thread : thread[j].id # Now.message
  OBVIOUS
<1>2. CASE k \in DOMAIN thread
  BY <1>2 DEF Sends, Sent
<1>3. CASE k \notin DOMAIN thread
  BY <1>1, <1>3 DEF Sends, Sent
<1> QED BY <1>2, <1>3

\* Text that does not pass others keeps the rows in order.
LEMMA SentInOrder ==
    ASSUME TypedInv, RowsInOrder(thread), NEW text \in Seq(Piece), NEW streaming,
           Sends(text, streaming), After(thread, text),
           Target(thread, Now.message) \/ ToSet(text) = {}
    PROVE  RowsInOrder(thread')
<1>1. /\ \A k \in DOMAIN thread : thread[k].text \in Seq(Piece)
      /\ DOMAIN thread = 1..Len(thread) /\ Len(thread) \in Nat
  BY NewestIs, LenProperties DEF TypedInv, TypeInv
<1>2. \A k \in DOMAIN thread' :
         \/ k \in DOMAIN thread /\ thread'[k].text = thread[k].text
         \/ k \in DOMAIN thread /\ thread[k].id = Now.message
            /\ thread'[k].text = thread[k].text \o text
         \/ /\ k \notin DOMAIN thread /\ k = Len(thread) + 1 /\ thread'[k].text = text
            /\ \A j \in DOMAIN thread : thread[j].id # Now.message
  BY SentRows
<1>3. ASSUME NEW k \in DOMAIN thread
      PROVE  /\ Increasing(thread[k].text \o text)
             /\ ToSet(thread[k].text \o text) = ToSet(thread[k].text) \cup ToSet(text)
  <2>1. Increasing(thread[k].text) /\ Before(thread[k].text, text) /\ Increasing(text)
    BY DEF RowsInOrder, After
  <2> QED BY <1>1, <2>1, OrderedConcat, PiecesOf DEF Increasing, Before
<1>4. \A k \in DOMAIN thread' : Increasing(thread'[k].text)
  BY <1>2, <1>3 DEF RowsInOrder, After
<1>5. ASSUME NEW j \in DOMAIN thread', NEW k \in DOMAIN thread', j < k,
             NEW x \in ToSet(thread'[j].text), NEW y \in ToSet(thread'[k].text)
      PROVE  <<x, y>> \in Less
  <2>1. j \in DOMAIN thread
    BY <1>1, <1>2, <1>5
  <2>2. x \in ToSet(thread[j].text)
    <3>1. CASE thread'[j].text = thread[j].text
      BY <1>5, <3>1
    <3>2. CASE thread[j].id = Now.message /\ thread'[j].text = thread[j].text \o text
      <4>3. k \in DOMAIN thread
        BY <1>2, <1>5, <2>1, <3>2
      <4>1. j # Len(thread)
        BY <1>1, <1>5, <2>1, <4>3
      <4>2. ToSet(text) = {}
        BY <2>1, <3>2, <4>1 DEF Target
      <4> QED BY <1>3, <1>5, <2>1, <3>2, <4>2
    <3> QED BY <1>2, <2>1, <3>1, <3>2
  <2>3. \/ k \in DOMAIN thread /\ y \in ToSet(thread[k].text)
        \/ y \in ToSet(text)
    BY <1>2, <1>3, <1>5
  <2>4. CASE k \in DOMAIN thread /\ y \in ToSet(thread[k].text)
    <3>1. Before(thread[j].text, thread[k].text)
      BY <1>5, <2>1, <2>4 DEF RowsInOrder
    <3> QED BY <2>2, <2>4, <3>1 DEF Before, Related
  <2>5. CASE y \in ToSet(text)
    <3>1. Before(thread[j].text, text)
      BY <2>1 DEF After
    <3> QED BY <2>2, <2>5, <3>1 DEF Before, Related
  <2> QED BY <2>3, <2>4, <2>5
<1> QED BY <1>4, <1>5 DEF RowsInOrder, Before, Related

\* No other message's text is passed by the row that is new.
LEMMA SentTargets ==
    ASSUME TypedInv, NEW text \in Seq(Piece), NEW streaming, Sends(text, streaming)
    PROVE  /\ \A m : Target(thread, m) /\ (m = Now.message \/ HasRow(thread, Now.message)) =>
                        Target(thread', m)
           /\ \A m : HasRow(thread, m) => HasRow(thread', m)
           /\ HasRow(thread', Now.message)
           /\ \A k \in DOMAIN thread' :
                 \/ k \in DOMAIN thread /\ thread'[k].id = thread[k].id
                 \/ thread'[k].id = Now.message /\ ~HasRow(thread, Now.message)
           /\ \A later : After(thread, later) /\ Before(text, later) => After(thread', later)
<1>1. /\ DOMAIN thread = 1..Len(thread) /\ Len(thread) \in Nat
      /\ DOMAIN thread' = 1..Len(thread') /\ Len(thread') \in Nat
      /\ DOMAIN thread \subseteq DOMAIN thread'
      /\ \A k \in DOMAIN thread : thread'[k].id = thread[k].id
      /\ \E k \in DOMAIN thread' : thread'[k].id = Now.message
  <2>1. thread' \in Seq(Row) /\ thread \in Seq(Row)
    BY DEF Sends, Sent, TypedInv, TypeInv
  <2> QED BY <2>1, LenProperties DEF Sends, Sent
<1>2. \A k \in DOMAIN thread' :
         \/ k \in DOMAIN thread /\ thread'[k].id = thread[k].id
         \/ /\ k = Len(thread) + 1 /\ thread'[k].id = Now.message
            /\ \A j \in DOMAIN thread : thread[j].id # Now.message
  BY SentRows
<1>7. PICK l \in Nat, o \in Nat : l = Len(thread') /\ o = Len(thread)
  BY <1>1
<1>3. ASSUME NEW m, Target(thread, m), m = Now.message \/ HasRow(thread, Now.message)
      PROVE  Target(thread', m)
  <2>1. SUFFICES ASSUME NEW k \in DOMAIN thread', thread'[k].id = m PROVE k = l
    BY <1>7 DEF Target
  <2>4. k \in 1..l /\ l \in DOMAIN thread' /\ DOMAIN thread = 1..o
    BY <1>1, <1>7, <2>1
  <2>2. CASE k \in DOMAIN thread
    <3>1. k = o /\ thread[k].id = m
      BY <1>1, <1>3, <1>7, <2>1, <2>2 DEF Target
    <3>2. l \in DOMAIN thread
      BY <1>2, <1>3, <2>2, <2>4, <3>1 DEF HasRow
    <3> QED BY <2>4, <3>1, <3>2
  <2>3. CASE k \notin DOMAIN thread
    <3>1. k = o + 1
      BY <1>2, <1>7, <2>1, <2>3
    <3>2. l \in 1..o \/ l = o + 1
      BY <1>2, <1>7, <2>4
    <3> QED BY <2>4, <3>1, <3>2
  <2> QED BY <2>2, <2>3
<1>4. ASSUME NEW later, After(thread, later), Before(text, later)
      PROVE  After(thread', later)
  <2>1. SUFFICES ASSUME NEW k \in DOMAIN thread', NEW x \in ToSet(thread'[k].text), NEW y \in ToSet(later)
        PROVE  <<x, y>> \in Less
    BY <1>4 DEF After, Before, Related
  <2>2. x \in ToSet(text) \/ (k \in DOMAIN thread /\ x \in ToSet(thread[k].text))
    <3>1. CASE k \in DOMAIN thread
      <4>1. thread[k].text \in Seq(Piece)
        BY <3>1, NewestIs
      <4>2. ToSet(thread[k].text \o text) = ToSet(thread[k].text) \cup ToSet(text)
        BY <4>1, PiecesOf
      <4> QED BY <2>1, <3>1, <4>2, SentRows
    <3>2. CASE k \notin DOMAIN thread
      BY <2>1, <3>2, SentRows
    <3> QED BY <3>1, <3>2
  <2>3. CASE x \in ToSet(text)
    BY <1>4, <2>1, <2>3 DEF Before, Related
  <2>4. CASE k \in DOMAIN thread /\ x \in ToSet(thread[k].text)
    <3>1. Before(thread[k].text, later)
      BY <1>4, <2>4 DEF After
    <3> QED BY <2>1, <2>4, <3>1 DEF Before, Related
  <2> QED BY <2>2, <2>3, <2>4
<1>5. \A m : HasRow(thread, m) => HasRow(thread', m)
  BY <1>1 DEF HasRow
<1>6. \A k \in DOMAIN thread' :
         \/ k \in DOMAIN thread /\ thread'[k].id = thread[k].id
         \/ thread'[k].id = Now.message /\ ~HasRow(thread, Now.message)
  BY <1>2 DEF HasRow
<1> QED BY <1>1, <1>3, <1>4, <1>5, <1>6 DEF HasRow

\* A new piece comes after what was said.
LEMMA AfterWith ==
    ASSUME TypedInv, PlacesSaid, NEW s \in Seq(Piece), After(thread, s),
           ToSet(s) \subseteq DOMAIN provider.said,
           NEW n \in Piece, n = Len(provider.said) + 1
    PROVE  After(thread, Append(s, n)) /\ After(thread, <<n>>)
<1>1. /\ DOMAIN provider.said = 1..Len(provider.said) /\ Len(provider.said) \in Nat
  BY LenProperties DEF TypedInv, TypeInv, Provider
<1>2. \A x \in DOMAIN provider.said : x \in Piece /\ x < n
  <2>1. Len(provider.said) <= MaxPieces
    BY DEF TypedInv, ProviderFits
  <2> QED BY <1>1, <2>1, Bounds DEF Piece
<1>3. \A x \in DOMAIN provider.said : <<x, n>> \in Less
  BY <1>2, LessIs
<1>4. <<n>> \in Seq(Piece) /\ Increasing(<<n>>) /\ ToSet(<<n>>) = {n}
      /\ ToSet(Append(s, n)) = ToSet(s) \cup {n}
  <2>1. <<n>> \in Seq(Piece) /\ DOMAIN <<n>> = {1}
    OBVIOUS
  <2>2. Increasing(<<n>>)
    BY <2>1 DEF Increasing, Ordered
  <2> QED BY <2>1, <2>2, PiecesAnd
<1>5. Before(s, <<n>>) /\ \A k \in DOMAIN thread : Before(thread[k].text, <<n>>)
  BY <1>3, <1>4 DEF Before, Related, PlacesSaid
<1>6. Increasing(s \o <<n>>)
  <2>1. Increasing(s)
    BY DEF After
  <2> QED BY <1>4, <1>5, <2>1, OrderedConcat DEF Increasing, Before
<1>7. s \o <<n>> = Append(s, n)
  OBVIOUS
<1>8. \A k \in DOMAIN thread : Before(thread[k].text, Append(s, n))
  <2>1. \A k \in DOMAIN thread : Before(thread[k].text, s)
    BY DEF After
  <2> QED BY <1>4, <1>5, <2>1 DEF Before, Related
<1> QED BY <1>4, <1>5, <1>6, <1>7, <1>8 DEF After

\* Text that is sent, and the rows it may go to.
Lands(text) ==
    /\ After(thread, text) /\ (Target(thread, Now.message) \/ ToSet(text) = {})
    /\ HasRow(thread, Now.message) \/ Numbered(Newest, Now.message)
    /\ \/ HasRow(thread, Now.message) \/ Now.message = Newest.active \/ Newest.active = NoMessage

\* The first task sends text that comes after the rows and before the buffers.
LEMMA WorkLands ==
    ASSUME OrderInv, InTurn, Work, Now.do \in {"deliver", "flush", "finalize", "complete"}
    PROVE  /\ \/ thread' = thread
              \/ \E text \in Seq(Piece), streaming \in BOOLEAN :
                    /\ Sends(text, streaming) /\ Lands(text)
                    /\ text = <<>> \/ \A m \in MessageId : buffered'[m] = <<>>
           /\ \A m \in MessageId : buffered'[m] # <<>> =>
                    buffered'[m] = buffered[m] /\ ~(Now.do = "finalize" /\ m = Now.message)
           /\ UNCHANGED <<known, segment>>
<1>1. /\ TypedInv /\ BuffersInOrder /\ TasksInOrder /\ NewestFits /\ RowsInOrder(thread)
      /\ provider.blank = {}
  BY DEF OrderInv, OnceInv, ApartInv, SteadyInv, HandlerInv, InTurn, Once
<1>2. ~Idle /\ 1 \in DOMAIN Todo /\ Now = Todo[1] /\ Now.message \in MessageId
  <2>1. ~Idle
    BY <1>1, WorkIs
  <2> QED BY <1>1, <2>1, FirstTask, FirstTexts DEF Todo, TypedInv, MessageTasks
<1>3. \A m \in MessageId : buffered[m] # <<>> => m = Newest.active /\ After(thread, buffered[m])
  BY <1>1 DEF BuffersInOrder
<1>4. Newest.active # NoMessage => Numbered(Newest, Newest.active) /\ Target(thread, Newest.active)
  BY <1>1 DEF NewestFits
<1>5. Now.message # NoMessage
  BY <1>2, Names
<1>6. \A text : Renderable(text) => text # <<>>
  BY EmptyOnce DEF Renderable
<1>7. CASE Now.do = "deliver"
  <2>1. Now.text \in Seq(Piece) /\ Sends(Now.text, TRUE) /\ UNCHANGED <<buffered, known, segment>>
    BY <1>1, <1>2, <1>7, WorkDoes, DeliverTextIs, FirstTexts DEF MessageTasks
  <2>2. /\ Now.message = Newest.active /\ After(thread, Now.text)
        /\ \A m \in MessageId : buffered[m] = <<>>
    BY <1>1, <1>2, <1>7 DEF TasksInOrder
  <2>3. Lands(Now.text)
    BY <1>4, <1>5, <2>2 DEF Lands
  <2> QED BY <1>7, <2>1, <2>2, <2>3
<1>8. ASSUME Took
      PROVE  \A m \in MessageId : buffered'[m] # <<>> => buffered'[m] = buffered[m] /\ m # Now.message
  BY <1>8 DEF Took
<1>9. ASSUME Took, Text(Now.message) # <<>>
      PROVE  Lands(Text(Now.message)) /\ \A m \in MessageId : buffered'[m] = <<>>
  <2>1. Now.message = Newest.active /\ After(thread, Text(Now.message))
    BY <1>2, <1>3, <1>9 DEF Text
  <2>2. Lands(Text(Now.message))
    BY <1>4, <1>5, <2>1 DEF Lands
  <2> QED BY <1>3, <1>8, <1>9, <2>1, <2>2
<1>10. CASE Now.do = "flush"
  <2>1. /\ Took /\ UNCHANGED <<known, segment>> /\ Text(Now.message) \in Seq(Piece)
        /\ \/ Renderable(Text(Now.message)) /\ Sends(Text(Now.message), TRUE)
           \/ thread' = thread
    BY <1>1, <1>2, <1>10, WorkDoes, FlushTextIs, FirstTexts DEF MessageTasks
  <2> QED BY <1>6, <1>8, <1>9, <1>10, <2>1
<1>11. CASE Now.do = "finalize"
  <2>1. /\ Took /\ UNCHANGED <<known, segment>> /\ FinalText \in Seq(Piece)
        /\ \/ Renderable(FinalText) /\ Sends(FinalText, TRUE)
           \/ thread' = thread
    BY <1>1, <1>2, <1>11, WorkDoes, FinalizeTextIs, FirstTexts DEF MessageTasks
  <2>2. CASE Text(Now.message) # <<>>
    <3>1. FinalText = Text(Now.message)
      BY <2>2 DEF FinalText
    <3> QED BY <1>8, <1>9, <2>1, <2>2, <3>1
  <2>3. CASE Text(Now.message) = <<>> /\ FinalText # <<>>
    <3>1. FinalText = Now.text
      BY <2>3 DEF FinalText
    <3>2. /\ Newest.active = NoMessage /\ After(thread, Now.text)
          /\ Target(thread, Now.message) /\ Numbered(Newest, Now.message)
      BY <1>1, <1>2, <1>11, <2>3, <3>1 DEF TasksInOrder
    <3>3. Lands(FinalText)
      BY <3>1, <3>2 DEF Lands
    <3>4. \A m \in MessageId : buffered[m] = <<>>
      BY <1>3, <3>2, Names
    <3> QED BY <1>8, <2>1, <3>3, <3>4
  <2>4. CASE FinalText = <<>>
    BY <1>6, <1>8, <2>1, <2>4
  <2> QED BY <2>2, <2>3, <2>4
<1>12. CASE Now.do = "complete"
  <2>1. Sends(<<>>, FALSE) /\ UNCHANGED <<buffered, known, segment>> /\ <<>> \in Seq(Piece)
    BY <1>1, <1>12, WorkDoes, CompleteMessageIs, Names
  <2>2. HasRow(thread, Now.message) \/ Now.message = Newest.active
    BY <1>1, <1>2, <1>12 DEF TasksInOrder
  <2>3. Lands(<<>>)
    BY <1>4, <1>5, <2>2, EmptyInOrder, EmptyOnce DEF Lands
  <2> QED BY <1>12, <2>1, <2>3
<1> QED BY <1>7, <1>10, <1>11, <1>12

\* The tasks that are left by a step that sends text.
LEMMA TasksLeft ==
    ASSUME OrderInv, InTurn, Work,
           Now.do \in {"running", "over", "deliver", "flush", "finalize", "complete"},
           \A m : HasRow(thread, m) => HasRow(thread', m),
           Newest' = Newest,
           TurnsToCompletion => HasRow(thread', Now.message) \/ Now.message = Newest.active
    PROVE  TasksInOrder'
<1>1. /\ HandlerInv /\ TypedInv /\ TasksOrdered /\ TasksInOrder
  BY DEF OrderInv, OnceInv, ApartInv, SteadyInv, HandlerInv, InTurn
<1>2. ~Idle /\ provider' = provider /\ (MovesOn \/ TurnsToCompletion)
  BY <1>1, WorkIs
<1>3. SUFFICES ASSUME NEW n \in DOMAIN handler'.todo
      PROVE
        /\ handler'.todo[n].do # "deliver"
        /\ ~(handler'.todo[n].do = "finalize" /\ handler'.todo[n].text # <<>>)
        /\ handler'.todo[n].do = "complete" \/ (handler'.todo[n].do = "finalize" /\ handler'.todo[n].projected) =>
              HasRow(thread', handler'.todo[n].message) \/ handler'.todo[n].message = Newest.active
        /\ handler'.todo[n].do \in {"paused", "itemDone"} /\ handler'.turn = provider.turns =>
              Newest.active \in {NoMessage, handler'.todo[n].message}
        /\ handler'.todo[n].do = "itemDone" => \A o \in provider.open : provider.home[o] # handler'.turn
        /\ handler'.todo[n].do = "turnDone" => handler'.turn \in provider.ended
  BY <1>2, Zenon DEF TasksInOrder, Todo
<1>4. handler'.todo[n].do \in {"deliver", "finalize"} => handler'.todo[n].text = <<>>
  BY <1>1, <1>3, WorkOwesNothing
<1>5. ASSUME NEW k \in DOMAIN Todo, k # 1, handler'.todo[n] = Todo[k], handler'.turn = handler.turn
      PROVE
        /\ handler'.todo[n].do # "deliver"
        /\ handler'.todo[n].do = "complete" \/ (handler'.todo[n].do = "finalize" /\ handler'.todo[n].projected) =>
              HasRow(thread', handler'.todo[n].message) \/ handler'.todo[n].message = Newest.active
        /\ handler'.todo[n].do \in {"paused", "itemDone"} /\ handler'.turn = provider.turns =>
              Newest.active \in {NoMessage, handler'.todo[n].message}
        /\ handler'.todo[n].do = "itemDone" => \A o \in provider.open : provider.home[o] # handler'.turn
        /\ handler'.todo[n].do = "turnDone" => handler'.turn \in provider.ended
  <2>1. Todo[k].do # "deliver"
    BY <1>1, <1>5 DEF TasksOrdered
  <2>2. Todo[k].do = "complete" \/ (Todo[k].do = "finalize" /\ Todo[k].projected) =>
              HasRow(thread, Todo[k].message) \/ Todo[k].message = Newest.active
    BY <1>1 DEF TasksInOrder
  <2>3. /\ Todo[k].do \in {"paused", "itemDone"} /\ handler.turn = provider.turns =>
              Newest.active \in {NoMessage, Todo[k].message}
        /\ Todo[k].do = "itemDone" => \A o \in provider.open : provider.home[o] # handler.turn
        /\ Todo[k].do = "turnDone" => handler.turn \in provider.ended
    BY <1>1 DEF TasksInOrder
  <2> QED BY <1>5, <2>1, <2>2, <2>3
<1>6. CASE MovesOn
  <2>1. n + 1 \in DOMAIN Todo /\ handler'.todo[n] = Todo[n + 1] /\ n \in Nat /\ n >= 1
        /\ handler'.turn = handler.turn
    BY <1>1, <1>2, <1>6, MovedOn, Zenon
  <2>2. PICK k \in DOMAIN Todo : k = n + 1
    BY <2>1
  <2>3. k # 1
    BY <2>1, <2>2
  <2> QED BY <1>4, <1>5, <2>1, <2>2, <2>3
<1>7. CASE TurnsToCompletion
  <2>1. /\ DOMAIN handler'.todo = DOMAIN Todo /\ Now = Todo[1]
        /\ \A k \in DOMAIN Todo : k # 1 => handler'.todo[k] = Todo[k]
        /\ handler'.todo[1].do = "complete" /\ handler'.todo[1].message = Todo[1].message
        /\ handler'.turn = handler.turn
    BY <1>1, <1>2, <1>7, TurnedToCompletion, Zenon
  <2>2. CASE n = 1
    BY <1>7, <2>1, <2>2
  <2>3. CASE n # 1
    BY <1>4, <1>5, <2>1, <2>3
  <2> QED BY <2>2, <2>3
<1> QED BY <1>2, <1>6, <1>7

\* What waits in a buffer is left to the same tasks.
LEMMA UnfinishedLeft ==
    ASSUME TypedInv, Work, Now.do # "clear", NEW m, Unfinished(m),
           ~(Now.do = "finalize" /\ m = Now.message)
    PROVE  Unfinished(m)'
<1>1. ~Idle /\ provider' = provider /\ (MovesOn \/ TurnsToCompletion)
  BY WorkIs
<1>2. Running' = Running
  BY <1>1 DEF Running
<1>3. ASSUME NEW n \in DOMAIN Todo,
             Todo[n].do = "clear" \/ (Todo[n].do = "finalize" /\ Todo[n].message = m)
      PROVE  \E k \in DOMAIN handler'.todo : handler'.todo[k] = Todo[n]
  <2>1. Now = Todo[1]
    BY <1>1, FirstTask DEF TypedInv, Todo
  <2>2. n # 1
    BY <1>3, <2>1
  <2>3. CASE MovesOn
    <3>1. n - 1 \in DOMAIN handler'.todo /\ handler'.todo[n - 1] = Todo[n]
      BY <1>1, <2>2, <2>3, MovedOn, Zenon
    <3> QED BY <3>1
  <2>4. CASE TurnsToCompletion
    <3>1. n \in DOMAIN handler'.todo /\ handler'.todo[n] = Todo[n]
      BY <1>1, <2>2, <2>4, TurnedToCompletion, Zenon
    <3> QED BY <3>1
  <2> QED BY <1>1, <2>3, <2>4
<1> QED BY <1>2, <1>3 DEF Unfinished, Todo

LEMMA SendKeepsOrder ==
    ASSUME OrderInv, InTurn, Work, Now.do \in {"deliver", "flush", "finalize", "complete"}
    PROVE  RowsInOrder(thread') /\ NewestFits' /\ BuffersInOrder' /\ TasksInOrder'
<1>1. /\ TypedInv /\ BuffersInOrder /\ TasksInOrder /\ NewestFits /\ RowsInOrder(thread)
  BY DEF OrderInv, OnceInv, ApartInv, SteadyInv, HandlerInv, InTurn
<1>2. ~Idle /\ provider' = provider /\ mode' = mode /\ 1 \in DOMAIN Todo /\ Now = Todo[1]
  <2>1. ~Idle /\ provider' = provider /\ mode' = mode
    BY <1>1, WorkIs
  <2> QED BY <1>1, <2>1, FirstTask DEF Todo, TypedInv
<1>3. /\ \/ thread' = thread
         \/ \E text \in Seq(Piece), streaming \in BOOLEAN :
               /\ Sends(text, streaming) /\ Lands(text)
               /\ text = <<>> \/ \A m \in MessageId : buffered'[m] = <<>>
      /\ \A m \in MessageId : buffered'[m] # <<>> =>
               buffered'[m] = buffered[m] /\ ~(Now.do = "finalize" /\ m = Now.message)
      /\ UNCHANGED <<known, segment>>
  BY WorkLands
<1>4. Newest' = Newest /\ Running' = Running
  BY <1>2, <1>3, NewestSame DEF Running
<1>5. ASSUME NEW m \in MessageId, buffered'[m] # <<>>, After(thread', buffered[m])
      PROVE  /\ m = Newest.active /\ m \in ToSet(known'[provider'.turns])
             /\ mode' = "buffered" /\ After(thread', buffered'[m]) /\ Unfinished(m)'
  <2>1. buffered'[m] = buffered[m] /\ ~(Now.do = "finalize" /\ m = Now.message)
    BY <1>3, <1>5
  <2>2. /\ m = Newest.active /\ m \in ToSet(known[provider.turns])
        /\ mode = "buffered" /\ Unfinished(m)
    BY <1>1, <1>5, <2>1 DEF BuffersInOrder
  <2>3. Unfinished(m)'
    BY <1>1, <2>1, <2>2, UnfinishedLeft
  <2> QED BY <1>2, <1>3, <1>5, <2>1, <2>2, <2>3
<1>6. ASSUME NEW m \in MessageId, buffered'[m] # <<>>
      PROVE  After(thread, buffered[m])
  <2>1. buffered[m] # <<>>
    BY <1>3, <1>6
  <2> QED BY <1>1, <2>1 DEF BuffersInOrder
<1>7. CASE thread' = thread
  <2>1. RowsInOrder(thread') /\ NewestFits'
    BY <1>1, <1>2, <1>4, <1>7 DEF NewestFits
  <2>2. BuffersInOrder'
    BY <1>4, <1>5, <1>6, <1>7 DEF BuffersInOrder
  <2>3. TurnsToCompletion => HasRow(thread, Now.message) \/ Now.message = Newest.active
    <3>1. SUFFICES ASSUME TurnsToCompletion
          PROVE  HasRow(thread, Now.message) \/ Now.message = Newest.active
      OBVIOUS
    <3>2. Now.do = "finalize"
      BY <3>1 DEF TurnsToCompletion
    <3>3. \/ Sends(FinalText, TRUE)
          \/ Now.projected
          \/ MovesOn
      BY <1>1, <3>2, WorkDoes, FinalizeTextIs
    <3>4. CASE Sends(FinalText, TRUE)
      BY <1>7, <3>4 DEF Sends, Sent, HasRow
    <3>5. CASE Now.projected
      BY <1>1, <1>2, <3>2, <3>5 DEF TasksInOrder
    <3>6. CASE MovesOn
      <4>1. Len(handler'.todo) = Len(Todo) - 1 /\ Len(Todo) \in Nat
        BY <1>1, <1>2, <3>6, MovedOn, Zenon
      <4>2. Len(handler'.todo) = Len(Todo)
        BY <3>1 DEF TurnsToCompletion, Todo
      <4> QED BY <4>1, <4>2
    <3> QED BY <3>3, <3>4, <3>5, <3>6
  <2>4. TasksInOrder'
    BY <1>4, <1>7, <2>3, TasksLeft
  <2> QED BY <2>1, <2>2, <2>4
<1>8. CASE thread' # thread
  <2>1. PICK text \in Seq(Piece), streaming \in BOOLEAN :
               /\ Sends(text, streaming) /\ Lands(text)
               /\ text = <<>> \/ \A m \in MessageId : buffered'[m] = <<>>
    BY <1>3, <1>8
  <2>2. RowsInOrder(thread')
    BY <1>1, <2>1, SentInOrder DEF Lands
  <2>3. /\ \A m : Target(thread, m) /\ (m = Now.message \/ HasRow(thread, Now.message)) =>
                        Target(thread', m)
        /\ \A m : HasRow(thread, m) => HasRow(thread', m)
        /\ HasRow(thread', Now.message)
        /\ \A k \in DOMAIN thread' :
              \/ k \in DOMAIN thread /\ thread'[k].id = thread[k].id
              \/ thread'[k].id = Now.message /\ ~HasRow(thread, Now.message)
        /\ \A later : After(thread, later) /\ Before(text, later) => After(thread', later)
    BY <1>1, <2>1, SentTargets
  <2>4. \A k \in DOMAIN thread' : Numbered(Newest, thread'[k].id)
    BY <1>1, <2>1, <2>3 DEF NewestFits, Lands
  <2>5. Newest.active # NoMessage => Numbered(Newest, Newest.active) /\ Target(thread', Newest.active)
    BY <1>1, <2>1, <2>3 DEF NewestFits, Lands
  <2>6. NewestFits'
    BY <1>1, <1>2, <1>4, <2>4, <2>5 DEF NewestFits
  <2>7. ASSUME NEW m \in MessageId, buffered'[m] # <<>>
        PROVE  After(thread', buffered[m])
    <3>1. text = <<>>
      BY <2>1, <2>7
    <3>2. Before(text, buffered[m])
      BY <3>1, EmptyInOrder
    <3> QED BY <1>6, <2>3, <2>7, <3>2
  <2>8. BuffersInOrder'
    BY <1>4, <1>5, <2>7 DEF BuffersInOrder
  <2>9. TasksInOrder'
    BY <1>4, <2>3, TasksLeft
  <2> QED BY <2>2, <2>6, <2>8, <2>9
<1> QED BY <1>7, <1>8

\* A handler of one task has none left.
LEMMA LastIsDone ==
    ASSUME HandlerInv, Work, Now.do \in {"paused", "itemDone", "turnDone", "clear"}
    PROVE  DOMAIN Todo = {1} /\ Now = Todo[1] /\ DOMAIN handler'.todo = {} /\ TasksInOrder'
<1>1. TypedInv /\ TasksOrdered /\ ~Idle /\ (MovesOn \/ TurnsToCompletion)
  BY WorkIs DEF HandlerInv
<1>2. MovesOn
  BY <1>1 DEF TurnsToCompletion
<1>3. /\ 1 \in DOMAIN Todo /\ Now = Todo[1] /\ DOMAIN Todo = 1..Len(Todo)
      /\ Len(handler'.todo) = Len(Todo) - 1 /\ Len(Todo) \in Nat
      /\ DOMAIN handler'.todo = 1..Len(handler'.todo)
  BY <1>1, <1>2, MovedOn, Zenon
<1>4. 1 = Len(Todo)
  BY <1>1, <1>3, Zenon DEF TasksOrdered
<1>5. PICK l, k : l = Len(Todo) /\ k = Len(handler'.todo)
  OBVIOUS
<1>6. l = 1 /\ k = l - 1 /\ DOMAIN Todo = 1..l /\ DOMAIN handler'.todo = 1..k
  BY <1>3, <1>4, <1>5, Zenon
<1>7. DOMAIN Todo = {1} /\ DOMAIN handler'.todo = {}
  <2>1. k = 0
    BY <1>6
  <2> QED BY <1>6, <2>1
<1> QED BY <1>3, <1>7 DEF TasksInOrder, Todo

LEMMA SettleKeepsOrder ==
    ASSUME OrderInv, InTurn, Work, Now.do \in {"paused", "itemDone", "turnDone"}
    PROVE  RowsInOrder(thread') /\ NewestFits' /\ BuffersInOrder' /\ TasksInOrder'
<1>1. /\ HandlerInv /\ TypedInv /\ BuffersInOrder /\ TasksInOrder /\ NewestFits
      /\ RowsInOrder(thread) /\ TasksMean
  BY DEF OrderInv, OnceInv, ApartInv, SteadyInv, HandlerInv, InTurn
<1>2. ~Idle /\ provider' = provider /\ mode' = mode /\ Running' = Running
  BY <1>1, WorkIs DEF Running
<1>3. DOMAIN Todo = {1} /\ Now = Todo[1] /\ DOMAIN handler'.todo = {} /\ TasksInOrder'
  BY <1>1, LastIsDone
<1>4. /\ handler.turn \in Turn /\ UNCHANGED <<thread, buffered>>
      /\ \A t \in Turn \ {handler.turn} : segment'[t] = segment[t]
      /\ segment'[handler.turn].active = NoMessage
      /\ \/ segment'[handler.turn] = NoSegment /\ Now.do # "paused"
         \/ segment'[handler.turn].base = segment[handler.turn].base
            /\ segment'[handler.turn].next = segment[handler.turn].next /\ Now.do = "paused"
      /\ \A t \in Turn : \A m \in ToSet(known[t]) :
            \/ m = Now.message /\ Now.do # "turnDone"
            \/ t = handler.turn /\ Now.do = "turnDone"
            \/ m \in ToSet(known'[t])
  <2>1. CASE Now.do = "turnDone"
    BY <1>1, <2>1, WorkDoes, SettleTurnIs DEF NoSegment
  <2>2. CASE Now.do = "paused"
    <3>1. SettlePause
      BY <2>2, WorkDoes
    <3>2. segment'[handler.turn].base = segment[handler.turn].base
            /\ segment'[handler.turn].next = segment[handler.turn].next
      BY <1>1, <3>1, SettlesIs DEF SettlePause, TypedInv, TypeInv, Segment
    <3> QED BY <1>1, <2>2, <3>1, <3>2, SettlesIs
  <2>3. CASE Now.do = "itemDone"
    <3>1. SettleItem /\ ~SettlePause
      BY <2>3, WorkDoes DEF SettlePause, Does
    <3> QED BY <1>1, <2>3, <3>1, SettlesIs
  <2> QED BY <2>1, <2>2, <2>3
<1>5. Now.do # "turnDone" => Text(Now.message) = <<>>
  BY <1>1, <1>3 DEF TasksMean
<1>6. \A m \in MessageId : buffered[m] # <<>> =>
         /\ m = Newest.active /\ m # NoMessage /\ m \in ToSet(known[provider.turns])
         /\ mode = "buffered" /\ After(thread, buffered[m]) /\ Running # NoTurn
         /\ provider.turns \in Turn
  <2>1. SUFFICES ASSUME NEW m \in MessageId, buffered[m] # <<>>
        PROVE  /\ m = Newest.active /\ m # NoMessage /\ m \in ToSet(known[provider.turns])
               /\ mode = "buffered" /\ After(thread, buffered[m]) /\ Running # NoTurn
               /\ provider.turns \in Turn
    OBVIOUS
  <2>2. /\ m = Newest.active /\ m \in ToSet(known[provider.turns])
        /\ mode = "buffered" /\ After(thread, buffered[m]) /\ Unfinished(m)
    BY <1>1, <2>1 DEF BuffersInOrder
  <2>3. Running # NoTurn
    BY <1>3, <2>2 DEF Unfinished
  <2> QED BY <1>1, <2>2, <2>3, Names, NewestIs
<1>7. CASE handler.turn # provider.turns
  <2>1. Newest' = Newest
    BY <1>2, <1>4, <1>7, NewestSame
  <2>2. NewestFits'
    BY <1>1, <1>2, <1>4, <2>1 DEF NewestFits
  <2>3. ASSUME NEW m \in MessageId, buffered[m] # <<>>
        PROVE  m \in ToSet(known'[provider.turns])
    <3>1. m # Now.message \/ Now.do = "turnDone"
      BY <1>5, <2>3 DEF Text
    <3> QED BY <1>4, <1>6, <1>7, <2>3, <3>1
  <2>4. \A m \in MessageId : buffered[m] # <<>> => Unfinished(m)'
    BY <1>2, <1>6 DEF Unfinished
  <2>5. BuffersInOrder'
    BY <1>2, <1>4, <1>6, <2>1, <2>3, <2>4 DEF BuffersInOrder
  <2> QED BY <1>1, <1>3, <1>4, <2>2, <2>5
<1>8. CASE handler.turn = provider.turns
  <2>1. provider.turns \in Turn /\ Newest = segment[provider.turns] /\ Newest' = segment'[provider.turns]
    BY <1>2, <1>4, <1>8 DEF Newest
  <2>2. \A m \in MessageId : buffered[m] = <<>>
    <3>1. SUFFICES ASSUME NEW m \in MessageId, buffered[m] # <<>> PROVE FALSE
      OBVIOUS
    <3>2. CASE Now.do = "turnDone"
      <4>1. handler.turn \in provider.ended
        BY <1>1, <1>3, <3>2 DEF TasksInOrder
      <4>2. Running = NoTurn
        BY <1>8, <4>1 DEF Running
      <4> QED BY <1>6, <3>1, <4>2
    <3>3. CASE Now.do # "turnDone"
      <4>1. Newest.active \in {NoMessage, Now.message}
        BY <1>1, <1>3, <1>8, <3>3 DEF TasksInOrder
      <4> QED BY <1>5, <1>6, <3>1, <3>3, <4>1 DEF Text
    <3> QED BY <3>2, <3>3
  <2>3. BuffersInOrder'
    BY <1>4, <2>2 DEF BuffersInOrder
  <2>4. \A k \in DOMAIN thread : Numbered(segment'[provider.turns], thread[k].id)
    <3>1. SUFFICES ASSUME NEW k \in DOMAIN thread PROVE Numbered(segment'[provider.turns], thread[k].id)
      OBVIOUS
    <3>2. Numbered(Newest, thread[k].id) /\ thread[k].id[1] # 0
      <4>1. thread[k].id \in MessageId
        BY <1>1, NewestIs
      <4>2. thread[k].id[1] # 0
        BY <4>1, Bounds DEF MessageId, Item
      <4> QED BY <1>1, <4>2 DEF NewestFits
    <3> QED BY <1>4, <1>8, <2>1, <3>2 DEF Numbered, NoSegment
  <2>5. \A o \in provider.open : provider.home[o] = Running => segment'[provider.turns].base = o
    <3>1. SUFFICES ASSUME NEW o \in provider.open, provider.home[o] = Running
          PROVE  segment'[provider.turns].base = o
      OBVIOUS
    <3>2. Running = provider.turns /\ Newest.base = o
      BY <1>1, <3>1, Names, NewestIs DEF NewestFits
    <3>3. Now.do # "turnDone"
      <4>1. handler.turn \notin provider.ended
        BY <1>8, <2>1, <3>2, Names DEF Running
      <4> QED BY <1>1, <1>3, <4>1 DEF TasksInOrder
    <3>4. Now.do # "itemDone"
      BY <1>1, <1>3, <1>8, <3>1, <3>2 DEF TasksInOrder
    <3> QED BY <1>4, <1>8, <2>1, <3>2, <3>3, <3>4
  <2>6. NewestFits'
    BY <1>2, <1>4, <1>8, <2>1, <2>4, <2>5 DEF NewestFits
  <2> QED BY <1>1, <1>3, <1>4, <2>3, <2>6
<1> QED BY <1>7, <1>8

LEMMA WorkKeepsOrder ==
    ASSUME OrderInv, InTurn, Work
    PROVE  RowsInOrder(thread') /\ NewestFits' /\ BuffersInOrder' /\ TasksInOrder' /\ EarlierEnded'
<1>1. /\ HandlerInv /\ TypedInv /\ BuffersInOrder /\ TasksInOrder /\ NewestFits /\ EarlierEnded
      /\ RowsInOrder(thread) /\ TasksMean
  BY DEF OrderInv, OnceInv, ApartInv, SteadyInv, HandlerInv, InTurn
<1>2. ~Idle /\ provider' = provider /\ mode' = mode /\ Running' = Running /\ Now.do \in Doings
  <2>1. ~Idle /\ provider' = provider /\ mode' = mode
    BY <1>1, WorkIs
  <2> QED BY <1>1, <2>1, FirstTask DEF TypedInv, Tasks, Running
<1>3. EarlierEnded'
  BY <1>1, <1>2 DEF EarlierEnded
<1>4. CASE Now.do \in {"running", "over"}
  <2>1. UNCHANGED <<thread, buffered, known, segment>> /\ ~TurnsToCompletion
    BY <1>1, <1>4, WorkDoes, SetSessionIs DEF TurnsToCompletion
  <2>2. Newest' = Newest
    BY <1>2, <2>1, NewestSame
  <2>3. NewestFits'
    BY <1>1, <1>2, <2>1, <2>2 DEF NewestFits
  <2>4. \A m \in MessageId : Unfinished(m) => Unfinished(m)'
    BY <1>1, <1>4, UnfinishedLeft
  <2>5. BuffersInOrder'
    BY <1>1, <1>2, <2>1, <2>2, <2>4 DEF BuffersInOrder
  <2>6. TasksInOrder'
    BY <1>4, <2>1, <2>2, TasksLeft
  <2> QED BY <1>1, <1>3, <2>1, <2>3, <2>5, <2>6
<1>5. CASE Now.do = "clear"
  <2>1. DOMAIN Todo = {1} /\ Now = Todo[1] /\ TasksInOrder'
    BY <1>1, <1>5, LastIsDone
  <2>2. provider.open = {}
    BY <1>1, <1>5, <2>1 DEF TasksMean
  <2>3. /\ \A m \in MessageId : buffered'[m] \in {<<>>, buffered[m]}
        /\ \A t \in Turn : \A m \in ToSet(known[t]) : m \in MessageId => buffered'[m] = <<>>
        /\ \A t \in Turn : segment'[t] = NoSegment
        /\ thread' = thread
    BY <1>1, <1>5, WorkDoes, ClearTurnsIs
  <2>4. \A m \in MessageId : buffered'[m] = <<>>
    <3>1. SUFFICES ASSUME NEW m \in MessageId, buffered[m] # <<>> PROVE buffered'[m] = <<>>
      BY <2>3
    <3>2. m = Newest.active /\ m \in ToSet(known[provider.turns])
      BY <1>1, <3>1 DEF BuffersInOrder
    <3>3. provider.turns \in Turn
      BY <1>1, <3>2, Names, NewestIs
    <3> QED BY <2>3, <3>2, <3>3
  <2>5. Newest' = NoSegment
    BY <1>2, <2>3 DEF Newest
  <2>6. \A k \in DOMAIN thread : thread[k].id[1] # 0
    <3>1. \A k \in DOMAIN thread : thread[k].id \in MessageId
      BY <1>1, NewestIs
    <3> QED BY <3>1, Bounds DEF MessageId, Item
  <2>7. NewestFits'
    BY <1>2, <2>2, <2>3, <2>5, <2>6 DEF NewestFits, NoSegment, Numbered
  <2> QED BY <1>1, <1>3, <2>1, <2>3, <2>4, <2>7 DEF BuffersInOrder
<1> QED
  BY <1>2, <1>3, <1>4, <1>5, SendKeepsOrder, SettleKeepsOrder DEF Doings, MessageTasks, TurnTasks

\* Where no handler is at work, what is buffered is of the running turn.
LEMMA WaitingIs ==
    ASSUME OrderInv, InTurn, Idle
    PROVE  /\ TypedInv /\ RowsInOrder(thread) /\ NewestFits /\ EarlierEnded /\ Homes /\ BasesFit
           /\ OneOpen /\ SegmentsOpen /\ NewTurns
           /\ \A m \in MessageId : buffered[m] # <<>> =>
                 /\ m = Newest.active /\ m # NoMessage /\ m \in ToSet(known[provider.turns])
                 /\ mode = "buffered" /\ After(thread, buffered[m])
                 /\ Running = provider.turns /\ provider.turns \in Turn
<1>1. Once /\ Apart /\ Steady
  BY DEF InTurn, Once, Apart, Steady, Without
<1>2. /\ TypedInv /\ RowsInOrder(thread) /\ NewestFits /\ EarlierEnded /\ BuffersInOrder
      /\ Homes /\ BasesFit /\ OneOpen /\ SegmentsOpen /\ NewTurns
  BY <1>1 DEF OrderInv, OnceInv, ApartInv, SteadyInv, HandlerInv
<1>3. ASSUME NEW m \in MessageId, buffered[m] # <<>>
      PROVE  /\ m = Newest.active /\ m # NoMessage /\ m \in ToSet(known[provider.turns])
             /\ mode = "buffered" /\ After(thread, buffered[m])
             /\ Running = provider.turns /\ provider.turns \in Turn
  <2>1. /\ m = Newest.active /\ m \in ToSet(known[provider.turns])
        /\ mode = "buffered" /\ After(thread, buffered[m]) /\ Unfinished(m)
    BY <1>2, <1>3 DEF BuffersInOrder
  <2>2. Running # NoTurn
    BY <2>1, IdleIs DEF Unfinished, Todo
  <2> QED BY <1>2, <2>1, <2>2, Names, NewestIs
<1> QED BY <1>2, <1>3

\* Nothing waits, and no message comes before those on display.
LEMMA EmptyKeepsOrder ==
    ASSUME TypedInv, RowsInOrder(thread), thread' = thread, Newest' = NoSegment,
           \A m \in MessageId : buffered'[m] = <<>>,
           \A o \in provider'.open : provider'.home[o] # Running'
    PROVE  RowsInOrder(thread') /\ NewestFits' /\ BuffersInOrder'
<1>1. NoSegment.active = NoMessage /\ NoSegment.base = 0
  BY NewestIs
<1>2. \A k \in DOMAIN thread : thread[k].id[1] # 0
  <2>1. \A k \in DOMAIN thread : thread[k].id \in MessageId
    BY NewestIs
  <2> QED BY <2>1, Bounds DEF MessageId, Item
<1>3. NewestFits'
  BY <1>1, <1>2 DEF NewestFits, Numbered
<1> QED BY <1>3 DEF BuffersInOrder

LEMMA NewTurnKeepsOrder ==
    ASSUME OrderInv, InTurn, InTurn', TurnStarted
    PROVE  RowsInOrder(thread') /\ NewestFits' /\ BuffersInOrder' /\ TasksInOrder' /\ EarlierEnded'
<1>1. Idle /\ provider.turns < MaxTurns /\ UNCHANGED <<thread, buffered, segment>>
  BY DEF TurnStarted, caches
<1>2. /\ TypedInv /\ RowsInOrder(thread) /\ EarlierEnded /\ NewTurns
      /\ \A m \in MessageId : buffered[m] # <<>> => Running = provider.turns /\ provider.turns \in Turn
  BY <1>1, WaitingIs
<1>3. /\ provider'.turns = provider.turns + 1 /\ provider'.ended = provider.ended
      /\ provider'.home = provider.home /\ provider'.open = provider.open
      /\ DOMAIN handler'.todo = {1} /\ handler'.todo[1].do = "running" /\ Running = NoTurn
  BY <1>2, NewTurnTyped DEF InTurn, Without
<1>4. provider.turns \in Nat /\ provider'.turns \in Turn /\ provider'.turns > provider.turns
  <2>1. provider.turns \in Nat
    BY <1>2 DEF TypedInv, TypeInv, Provider
  <2> QED BY <1>1, <1>3, <2>1, Bounds DEF Turn
<1>5. Newest' = NoSegment
  BY <1>1, <1>2, <1>4 DEF Newest, NewTurns
<1>6. \A o \in provider'.open : provider'.home[o] # Running'
  <2>1. SUFFICES ASSUME NEW o \in provider.open PROVE provider.home[o] # Running'
    BY <1>3
  <2>2. provider.home[o] \in Turn /\ provider.home[o] <= provider.turns
    <3>1. o \in DOMAIN provider.home /\ provider.home[o] \in Turn
      BY <1>2, NewestIs
    <3> QED BY <1>2, <3>1 DEF TypedInv, ProviderFits
  <2>3. Running' \in {NoTurn, provider'.turns}
    BY DEF Running
  <2> QED BY <1>3, <1>4, <2>2, <2>3, Names
<1>7. \A m \in MessageId : buffered'[m] = <<>>
  BY <1>1, <1>2, <1>3, Names
<1>8. RowsInOrder(thread') /\ NewestFits' /\ BuffersInOrder'
  BY <1>1, <1>2, <1>5, <1>6, <1>7, EmptyKeepsOrder
<1>9. TasksInOrder'
  BY <1>3 DEF TasksInOrder, Todo
<1>10. EarlierEnded'
  <2>1. SUFFICES ASSUME NEW t \in Turn, t < provider.turns + 1 PROVE t \in provider.ended
    BY <1>3 DEF EarlierEnded
  <2>2. provider.turns \in provider.ended \cup {NoTurn}
    BY <1>2, <1>3, RunningIs
  <2>3. t < provider.turns \/ t = provider.turns
    BY <1>4, <2>1, Names
  <2> QED BY <1>2, <2>2, <2>3, Names DEF EarlierEnded
<1> QED BY <1>8, <1>9, <1>10

\* The message a piece belongs to is the newest one.
LEMMA DeltaIsNewest ==
    ASSUME OrderInv, InTurn, InTurn', Idle, NEW item \in Item, NEW t \in {NoTurn} \cup Turn,
           NEW turn \in {NoTurn} \cup Turn, NEW id \in MessageId,
           DeltaStep(item, t, turn, id), thread' = thread
    PROVE  /\ turn = Running /\ Running = provider.turns /\ Running \in Turn
           /\ Running' = Running /\ provider'.turns = provider.turns
           /\ provider'.ended = provider.ended
           /\ id = Newest'.active /\ NewestFits'
           /\ \A m \in MessageId : buffered[m] # <<>> => m = id
<1>1. /\ TypedInv /\ NewestFits /\ Homes /\ BasesFit /\ SteadyInv /\ ApartInv /\ Apart /\ Steady'
      /\ "overlap" \notin ToSet(upset')
      /\ \A m \in MessageId : buffered[m] # <<>> => m = Newest.active /\ m # NoMessage
  <2>1. /\ SteadyInv /\ ApartInv /\ Apart /\ Steady' /\ "overlap" \notin ToSet(upset')
    BY DEF OrderInv, OnceInv, ApartInv, InTurn, Once, Apart, Steady, Without
  <2> QED BY <2>1, WaitingIs
<1>2. turn = Running /\ Running \in Turn /\ Running # NoTurn
  BY <1>1, DeltaTurn, Names
<1>3. Running = provider.turns /\ provider.turns \in Turn
  BY <1>1, <1>2, NewestIs
<1>4. /\ Running' = Running /\ provider'.turns = provider.turns
      /\ provider'.ended = provider.ended
  BY DEF DeltaStep, SameTurns, Running
<1>5. Newest = segment[Running] /\ Newest' = segment'[Running]
  BY <1>3, <1>4 DEF Newest
<1>6. /\ \/ /\ Added(item) /\ provider'.open = provider.open \cup {item}
            /\ \A o \in provider.open : provider.home[o] # Running
         \/ /\ item \in provider.open /\ Continued(item) /\ provider'.open = provider.open
            /\ provider.home[item] = Running
      /\ Segments(turn, item, id) /\ segment \in [Turn -> Segment]
      /\ provider.open \subseteq DOMAIN provider.home
  <2>1. "late" \notin ToSet(upset')
    BY <1>1 DEF Steady, Without
  <2> QED BY <1>1, <2>1 DEF DeltaStep, TypedInv, TypeInv, ProviderFits
<1>7. CASE segment[Running].active # NoMessage
  <2>1. id = segment[Running].active /\ segment' = segment
    BY <1>2, <1>6, <1>7, Names DEF Segments
  <2>2. ~(\A o \in provider.open : provider.home[o] # Running)
    BY <1>1, <1>2, <1>7, NoneActive
  <2>3. provider'.open = provider.open /\ provider'.home = provider.home
    BY <1>6, <2>2 DEF Continued
  <2>4. NewestFits'
    BY <1>1, <1>4, <1>5, <2>1, <2>3 DEF NewestFits
  <2> QED BY <1>1, <1>2, <1>3, <1>4, <1>5, <2>1, <2>4
<1>8. CASE segment[Running].active = NoMessage
  <2>1. PICK number \in 0..requests :
             /\ number = IF segment[Running].base = item THEN segment[Running].next ELSE 0
             /\ id = <<item, number>>
             /\ segment' = [segment EXCEPT ![Running] =
                               [base |-> item, next |-> number + 1, active |-> id]]
    BY <1>2, <1>6, <1>8, Names DEF Segments
  <2>2. Newest' = [base |-> item, next |-> number + 1, active |-> id] /\ number \in Nat
    BY <1>2, <1>5, <1>6, <2>1
  <2>3. Newest'.base = item /\ Newest'.next = number + 1 /\ Newest'.active = id
    BY <2>2
  <2>4. ASSUME NEW k \in DOMAIN thread, thread[k].id[1] = item
        PROVE  thread[k].id[2] < number
    <3>1. thread[k].id[1] \in DOMAIN provider.home
      BY <1>1 DEF Homes, RowHome
    <3>2. item \in provider.open /\ provider.home[item] = Running
      BY <1>6, <2>4, <3>1 DEF Added
    <3>3. Newest.base = item
      BY <1>1, <3>2 DEF NewestFits
    <3>4. number = Newest.next
      BY <1>5, <2>1, <3>3
    <3>5. Numbered(Newest, thread[k].id)
      BY <1>1 DEF NewestFits
    <3> QED BY <2>4, <3>3, <3>4, <3>5 DEF Numbered
  <2>5. \A k \in DOMAIN thread : thread[k].id \in MessageId
    BY <1>1, NewestIs
  <2>6. ASSUME NEW k \in DOMAIN thread
        PROVE  Numbered(Newest', thread[k].id) /\ thread[k].id # id
    <3>1. thread[k].id[2] \in Nat
      BY <2>5, Names
    <3>2. thread[k].id[1] = item => thread[k].id[2] < number + 1
      BY <2>2, <2>4, <3>1
    <3>3. thread[k].id # id
      <4>1. SUFFICES ASSUME thread[k].id = id PROVE FALSE
        OBVIOUS
      <4>2. thread[k].id[1] = item /\ thread[k].id[2] = number
        BY <2>1, <4>1
      <4> QED BY <2>2, <2>4, <4>2
    <3> QED BY <2>3, <3>2, <3>3 DEF Numbered
  <2>7. Numbered(Newest', id) /\ Target(thread, id)
    <3>1. id[2] = number /\ number < number + 1
      BY <2>1, <2>2
    <3> QED BY <2>3, <2>6, <3>1 DEF Numbered, Target
  <2>8. ASSUME NEW o \in provider'.open, provider'.home[o] = Running PROVE o = item
    <3>1. CASE Added(item)
      <4>1. o # item => o \in provider.open /\ o \in DOMAIN provider.home
        BY <1>6, <2>8, <3>1 DEF Added
      <4>2. \A q \in provider.open : provider.home[q] # Running
        BY <1>6, <3>1 DEF Added
      <4> QED BY <2>8, <3>1, <4>1, <4>2 DEF Added
    <3>2. CASE ~Added(item)
      <4>1. Newest.base = o /\ Newest.base = item
        BY <1>1, <1>6, <2>8, <3>2 DEF NewestFits, Continued
      <4> QED BY <4>1
    <3> QED BY <3>1, <3>2
  <2>9. NewestFits'
    BY <1>4, <2>3, <2>6, <2>7, <2>8 DEF NewestFits
  <2>10. \A m \in MessageId : buffered[m] = <<>>
    BY <1>1, <1>5, <1>8
  <2> QED BY <1>2, <1>3, <1>4, <2>3, <2>9, <2>10
<1> QED BY <1>7, <1>8

LEMMA DeltaKeepsOrder ==
    ASSUME OrderInv, InTurn, InTurn', ContentDelta
    PROVE  RowsInOrder(thread') /\ NewestFits' /\ BuffersInOrder' /\ TasksInOrder' /\ EarlierEnded'
<1>1. Idle /\ thread' = thread /\ mode' = mode
  BY DEF ContentDelta
<1>2. /\ TypedInv /\ RowsInOrder(thread) /\ EarlierEnded
      /\ \A m \in MessageId : buffered[m] # <<>> =>
            /\ m \in ToSet(known[provider.turns])
            /\ mode = "buffered" /\ After(thread, buffered[m])
  BY <1>1, WaitingIs
<1>3. PlacesSaid /\ buffered \in [MessageId -> Seq(Piece)]
  BY <1>2 DEF OrderInv, OnceInv, InTurn, TypedInv, TypeInv
<1>4. PICK item \in Item, t \in {NoTurn} \cup Turn, turn \in {NoTurn} \cup Turn, id \in MessageId :
          DeltaStep(item, t, turn, id)
  BY <1>2, ContentDeltaIs
<1>5. /\ turn = Running /\ Running = provider.turns /\ Running \in Turn
      /\ Running' = Running /\ provider'.turns = provider.turns
      /\ provider'.ended = provider.ended
      /\ id = Newest'.active /\ NewestFits'
      /\ \A m \in MessageId : buffered[m] # <<>> => m = id
  BY <1>1, <1>4, DeltaIsNewest
<1>6. EarlierEnded'
  BY <1>2, <1>5 DEF EarlierEnded
<1>7. PICK n \in Piece : n = Len(provider.said) + 1
  BY <1>4 DEF DeltaStep, Says
<1>8. DeltaLeaves(turn, id, n) /\ Remember(turn, id)
  BY <1>4, <1>7 DEF DeltaStep
<1>9. id \in ToSet(known'[provider.turns]) /\ Running # NoTurn
  <2>1. turn # NoTurn
    BY <1>5, Names
  <2> QED BY <1>2, <1>5, <1>8, <2>1, RememberedIs DEF TypedInv
<1> DEFINE longer == Append(buffered[id], n)
<1>10. After(thread, longer) /\ After(thread, <<n>>)
  <2>1. After(thread, buffered[id])
    BY <1>2, EmptyInOrder
  <2>2. buffered[id] \in Seq(Piece) /\ ToSet(buffered[id]) \subseteq DOMAIN provider.said
    BY <1>3 DEF PlacesSaid
  <2> QED BY <1>2, <1>3, <1>7, <2>1, <2>2, AfterWith
<1>11. \/ /\ \A m \in MessageId : buffered'[m] = IF m = id THEN longer ELSE buffered[m]
          /\ DOMAIN handler'.todo = {} /\ mode = "buffered"
       \/ /\ DOMAIN handler'.todo = {1} /\ handler'.todo[1].do = "deliver"
          /\ handler'.todo[1].message = id
          /\ \/ buffered' = buffered /\ handler'.todo[1].text = <<n>> /\ mode # "buffered"
             \/ /\ \A m \in MessageId : buffered'[m] = IF m = id THEN <<>> ELSE buffered[m]
                /\ handler'.todo[1].text = longer
  <2>1. DOMAIN handler.todo = {}
    BY <1>1, IdleIs
  <2> QED BY <1>3, <1>8, <2>1 DEF DeltaLeaves
<1> HIDE DEF longer
<1>12. CASE /\ \A m \in MessageId : buffered'[m] = IF m = id THEN longer ELSE buffered[m]
            /\ DOMAIN handler'.todo = {} /\ mode = "buffered"
  <2>1. \A m \in MessageId : buffered'[m] # <<>> => m = id
    BY <1>5, <1>12
  <2>2. Running' # NoTurn
    BY <1>5, <1>9
  <2>3. BuffersInOrder'
    BY <1>1, <1>5, <1>9, <1>10, <1>12, <2>1, <2>2 DEF BuffersInOrder, Unfinished
  <2>4. TasksInOrder'
    BY <1>12 DEF TasksInOrder, Todo
  <2> QED BY <1>1, <1>2, <1>5, <1>6, <2>3, <2>4
<1>13. CASE /\ DOMAIN handler'.todo = {1} /\ handler'.todo[1].do = "deliver"
            /\ handler'.todo[1].message = id
            /\ \/ buffered' = buffered /\ handler'.todo[1].text = <<n>> /\ mode # "buffered"
               \/ /\ \A m \in MessageId : buffered'[m] = IF m = id THEN <<>> ELSE buffered[m]
                  /\ handler'.todo[1].text = longer
  <2>1. \A m \in MessageId : buffered'[m] = <<>>
    BY <1>2, <1>5, <1>13
  <2>2. BuffersInOrder'
    BY <2>1 DEF BuffersInOrder
  <2>3. After(thread, handler'.todo[1].text)
    BY <1>10, <1>13
  <2>4. TasksInOrder'
    BY <1>1, <1>5, <1>13, <2>1, <2>3 DEF TasksInOrder, Todo
  <2> QED BY <1>1, <1>2, <1>5, <1>6, <2>2, <2>4
<1> QED BY <1>11, <1>12, <1>13

LEMMA QuestionKeepsOrder ==
    ASSUME OrderInv, InTurn, QuestionAsked
    PROVE  RowsInOrder(thread') /\ NewestFits' /\ BuffersInOrder' /\ TasksInOrder' /\ EarlierEnded'
<1>1. Idle /\ Running # NoTurn /\ UNCHANGED <<mode, thread, active, caches, provider, upset>>
  BY DEF QuestionAsked
<1>2. /\ TypedInv /\ RowsInOrder(thread) /\ NewestFits /\ EarlierEnded
      /\ \A m \in MessageId : buffered[m] # <<>> =>
            /\ m = Newest.active /\ m \in ToSet(known[provider.turns])
            /\ mode = "buffered" /\ After(thread, buffered[m])
  BY <1>1, WaitingIs
<1>3. Running' = Running /\ Newest' = Newest
  BY <1>1, NewestSame DEF caches, Running
<1>4. NewestFits' /\ EarlierEnded'
  BY <1>1, <1>2, <1>3 DEF NewestFits, EarlierEnded
<1>5. BuffersInOrder'
  BY <1>1, <1>2, <1>3 DEF BuffersInOrder, Unfinished, caches
<1>6. QuestionLeaves /\ Newest = segment[Running]
  BY <1>1, <1>2, QuestionIs, NewestIs
<1>7. \A n \in DOMAIN handler'.todo :
         /\ handler'.todo[n].text = <<>>
         /\ handler'.todo[n].do \in {"flush", "finalize", "paused"}
         /\ handler'.todo[n].do \in {"finalize", "paused"} => handler'.todo[n].message = Newest.active
  BY <1>6 DEF QuestionLeaves
<1>8. TasksInOrder'
  BY <1>3, <1>7 DEF TasksInOrder, Todo
<1> QED BY <1>1, <1>2, <1>4, <1>5, <1>8

\* A completed turn is the newest one, and its messages are finalized.
LEMMA TurnKeepsOrder ==
    ASSUME OrderInv, InTurn, TurnCompleted
    PROVE  RowsInOrder(thread') /\ NewestFits' /\ BuffersInOrder' /\ TasksInOrder' /\ EarlierEnded'
<1>1. Idle /\ UNCHANGED <<mode, thread, active, caches, upset>>
  BY DEF TurnCompleted
<1>2. /\ TypedInv /\ RowsInOrder(thread) /\ NewestFits /\ EarlierEnded
      /\ \A m \in MessageId : buffered[m] # <<>> =>
            /\ m = Newest.active /\ m \in ToSet(known[provider.turns])
            /\ mode = "buffered" /\ After(thread, buffered[m])
  BY <1>1, WaitingIs
<1>3. PICK t \in Turn : TurnStep(t)
  BY <1>2, TurnTyped
<1>4. /\ provider'.turns = provider.turns /\ provider'.ended = provider.ended \cup {t}
      /\ provider'.home = provider.home /\ provider'.open = provider.open
      /\ t \notin provider.ended /\ t <= provider.turns
  BY <1>3 DEF TurnStep
<1>5. t = provider.turns
  <2>1. provider.turns \in Nat /\ t \in Nat
    BY <1>2, Names DEF TypedInv, TypeInv, Provider
  <2>2. ~(t < provider.turns)
    BY <1>2, <1>4 DEF EarlierEnded
  <2> QED BY <1>4, <2>1, <2>2
<1>6. Running' = NoTurn /\ Newest' = Newest
  BY <1>1, <1>4, <1>5, NewestSame DEF Running, caches
<1>7. \A o \in provider.open : provider.home[o] # NoTurn
  BY <1>2, NewestIs, Names
<1>8. NewestFits' /\ EarlierEnded'
  BY <1>1, <1>2, <1>4, <1>6, <1>7 DEF NewestFits, EarlierEnded
<1>9. /\ handler'.turn = t
      /\ \A n \in DOMAIN handler'.todo :
            /\ handler'.todo[n].text = <<>>
            /\ handler'.todo[n].do \in {"over", "finalize", "turnDone"}
            /\ handler'.todo[n].do = "finalize" /\ handler'.todo[n].projected =>
                  \E k \in DOMAIN thread : thread[k].id = handler'.todo[n].message
      /\ \A m \in ToSet(known[t]) :
            \E n \in DOMAIN handler'.todo :
               handler'.todo[n].do = "finalize" /\ handler'.todo[n].message = m
  BY <1>3 DEF TurnStep, TurnLeaves
<1>10. BuffersInOrder'
  <2>1. \A m \in MessageId : buffered[m] # <<>> => Unfinished(m)'
    BY <1>2, <1>5, <1>9 DEF Unfinished, Todo
  <2> QED BY <1>1, <1>2, <1>4, <1>6, <2>1 DEF BuffersInOrder, caches
<1>11. TasksInOrder'
  BY <1>1, <1>4, <1>9 DEF TasksInOrder, Todo, HasRow
<1> QED BY <1>1, <1>2, <1>8, <1>10, <1>11

\* The provider is gone: nothing it left behind is out of order.
LEMMA GoneKeepsOrder ==
    ASSUME OrderInv, InTurn, SessionExited \/ Restart
    PROVE  RowsInOrder(thread') /\ NewestFits' /\ BuffersInOrder' /\ TasksInOrder' /\ EarlierEnded'
<1>1. /\ TypedInv /\ RowsInOrder(thread) /\ NewestFits /\ ProviderGone
      /\ thread' = thread
  BY DEF OrderInv, OnceInv, ApartInv, SteadyInv, HandlerInv, InTurn, SessionExited, Restart
<1>2. /\ provider'.turns = provider.turns /\ provider'.ended = 1..provider.turns
      /\ provider'.open = {}
  BY <1>1, GoneIs
<1>3. EarlierEnded'
  <2>1. provider.turns \in Nat
    BY <1>1 DEF TypedInv, TypeInv, Provider
  <2> QED BY <1>2, <2>1, Bounds DEF EarlierEnded, Turn
<1>4. CASE SessionExited
  <2>1. Idle /\ UNCHANGED <<mode, buffered, known, segment>>
    BY <1>4 DEF SessionExited, caches
  <2>2. \A m \in MessageId : buffered[m] # <<>> =>
            /\ m = Newest.active /\ m \in ToSet(known[provider.turns])
            /\ mode = "buffered" /\ After(thread, buffered[m])
    BY <2>1, WaitingIs
  <2>3. /\ DOMAIN handler'.todo = {1, 2} /\ handler'.todo[1].do = "over"
        /\ handler'.todo[2].do = "clear"
    BY <1>1, <1>4, ExitTyped DEF ExitLeaves
  <2>4. Newest' = Newest
    BY <1>2, <2>1, NewestSame
  <2>5. NewestFits'
    BY <1>1, <1>2, <2>4 DEF NewestFits
  <2>6. \A m \in MessageId : Unfinished(m)'
    BY <2>3 DEF Unfinished, Todo
  <2>7. BuffersInOrder'
    BY <1>1, <1>2, <2>1, <2>2, <2>4, <2>6 DEF BuffersInOrder
  <2>8. TasksInOrder'
    BY <2>3 DEF TasksInOrder, Todo
  <2> QED BY <1>1, <1>3, <2>5, <2>7, <2>8
<1>5. CASE Restart
  <2>1. /\ \A m \in MessageId : buffered'[m] = <<>>
        /\ \A t \in Turn : segment'[t] = NoSegment
        /\ DOMAIN handler'.todo = {}
    BY <1>5, RestingIs DEF Restart
  <2>2. Newest' = NoSegment
    BY <1>2, <2>1 DEF Newest
  <2>3. RowsInOrder(thread') /\ NewestFits' /\ BuffersInOrder'
    BY <1>1, <1>2, <2>1, <2>2, EmptyKeepsOrder
  <2>4. TasksInOrder'
    BY <2>1 DEF TasksInOrder, Todo
  <2> QED BY <1>3, <2>3, <2>4
<1> QED BY <1>4, <1>5

LEMMA SwitchKeepsOrder ==
    ASSUME OrderInv, InTurn, InTurn', SwitchMode
    PROVE  RowsInOrder(thread') /\ NewestFits' /\ BuffersInOrder' /\ TasksInOrder' /\ EarlierEnded'
<1>1. Idle /\ UNCHANGED <<thread, buffered, segment, handler, provider>>
  BY DEF SwitchMode, caches
<1>2. TypedInv /\ RowsInOrder(thread) /\ NewestFits /\ EarlierEnded
  BY <1>1, WaitingIs
<1>3. \A m \in MessageId : buffered[m] = <<>>
  BY <1>2, SwitchTyped DEF InTurn, Without, Text
<1>4. Newest' = Newest /\ Running' = Running
  BY <1>1, NewestSame DEF Running
<1>5. NewestFits' /\ EarlierEnded'
  BY <1>1, <1>2, <1>4 DEF NewestFits, EarlierEnded
<1>6. BuffersInOrder' /\ TasksInOrder'
  BY <1>1, <1>3, IdleIs DEF BuffersInOrder, TasksInOrder, Todo
<1> QED BY <1>1, <1>2, <1>5, <1>6

\* The items that are open when one completes: none is of its turn.
LEMMA ItemIsLast ==
    ASSUME TypedInv, OneOpen, "overlap" \notin ToSet(upset'), NEW item \in Item,
           NEW turn \in {NoTurn} \cup Turn, NEW detail, ItemStep(item, turn, detail),
           turn \in {NoTurn, provider'.home[item]}, Added(item) => turn = Running
    PROVE  \A o \in provider'.open :
              /\ o \in provider.open /\ provider'.home[o] = provider.home[o]
              /\ provider'.home[o] # turn
<1>1. SUFFICES ASSUME NEW o \in provider'.open
      PROVE  /\ o \in provider.open /\ provider'.home[o] = provider.home[o]
             /\ provider'.home[o] # turn
  OBVIOUS
<1>2. o \in provider.open
  BY DEF ItemStep
<1>3. o \in DOMAIN provider.home /\ provider.home[o] \in Turn /\ NoTurn \notin Turn
  BY <1>2, NewestIs, Names
<1>4. provider'.home[o] = provider.home[o]
  BY <1>3 DEF ItemStep, Added, Continued
<1>5. CASE Added(item)
  <2>1. item \notin provider.open
    BY <1>5 DEF Added, TypedInv, ProviderFits
  <2>2. provider.home[o] # Running
    BY <1>2, <2>1 DEF ItemStep
  <2> QED BY <1>2, <1>4, <1>5, <2>2
<1>6. CASE ~Added(item)
  <2>1. item \in provider.open /\ o # item /\ provider'.home = provider.home
    BY <1>6 DEF ItemStep, Continued
  <2>2. provider.home[o] # provider.home[item]
    BY <1>2, <2>1 DEF OneOpen
  <2> QED BY <1>2, <1>3, <1>4, <2>1, <2>2
<1> QED BY <1>5, <1>6

\* Text that came with a completed item, and is shown, is of an item that only
\* begins: it comes after all that was said.
LEMMA DetailInOrder ==
    ASSUME OrderInv, InTurn, InTurn', Idle, NEW item \in Item, NEW turn \in {NoTurn} \cup Turn,
           NEW detail, ItemStep(item, turn, detail), NEW id \in MessageId,
           \/ id = <<item, 0>>
           \/ turn \in Turn /\ id = segment[turn].active,
           buffered[id] = <<>>, \A k \in DOMAIN thread : thread[k].id = id => thread[k].text = <<>>
    PROVE  /\ Newest.active = NoMessage /\ After(thread, detail)
           /\ Target(thread, id) /\ Numbered(Newest, id)
<1>1. /\ OnceInv /\ Once /\ Apart /\ Steady' /\ SteadyInv /\ ApartInv /\ PlacesSaid
      /\ "overlap" \notin ToSet(upset')
  BY DEF OrderInv, OnceInv, ApartInv, InTurn, Once, Apart, Steady, Without
<1>2. TypedInv /\ Homes /\ BasesFit
  BY WaitingIs
<1>3. item \notin provider.open
  BY <1>1, ItemOwes
<1>4. /\ Added(item) /\ Says(item) /\ detail = <<Len(provider.said) + 1>>
      /\ \A o \in provider.open : provider.home[o] # Running
  BY <1>1, <1>3 DEF ItemStep
<1>5. turn = Running /\ Running \in Turn /\ Running # NoTurn
  BY <1>1, <1>4, ItemTurn, Names
<1>6. Running = provider.turns /\ Newest = segment[Running]
  BY <1>2, <1>5, NewestIs
<1>7. segment[Running].active = NoMessage
  BY <1>1, <1>4, <1>5, NoneActive
<1>8. id = <<item, 0>>
  BY <1>5, <1>7, Names
<1>9. item \notin DOMAIN provider.home /\ id[1] = item
  BY <1>4, <1>8 DEF Added
<1>10. Target(thread, id)
  <2>1. \A k \in DOMAIN thread : thread[k].id[1] \in DOMAIN provider.home
    BY <1>2 DEF Homes, RowHome
  <2> QED BY <1>9, <2>1 DEF Target
<1>11. Numbered(Newest, id)
  <2>1. segment[Running].base \in {0} \cup DOMAIN provider.home /\ item # 0
    BY <1>2, <1>5, Bounds DEF BasesFit, Item
  <2> QED BY <1>6, <1>9, <2>1 DEF Numbered
<1>12. After(thread, detail)
  <2>1. PICK n \in Piece : n = Len(provider.said) + 1
    BY <1>4 DEF Says
  <2>2. <<>> \in Seq(Piece) /\ After(thread, <<>>) /\ ToSet(<<>>) \subseteq DOMAIN provider.said
    BY Names, EmptyInOrder, EmptyOnce
  <2>3. After(thread, <<n>>)
    BY <1>1, <1>2, <2>1, <2>2, AfterWith
  <2> QED BY <1>4, <2>1, <2>3
<1> QED BY <1>6, <1>7, <1>10, <1>11, <1>12

LEMMA ItemKeepsOrder ==
    ASSUME OrderInv, InTurn, InTurn', ItemCompleted
    PROVE  RowsInOrder(thread') /\ NewestFits' /\ BuffersInOrder' /\ TasksInOrder' /\ EarlierEnded'
<1>1. Idle /\ UNCHANGED <<mode, thread, active, buffered>>
  BY DEF ItemCompleted
<1>2. /\ TypedInv /\ RowsInOrder(thread) /\ NewestFits /\ EarlierEnded /\ OneOpen
      /\ \A m \in MessageId : buffered[m] # <<>> =>
            /\ m = Newest.active /\ m # NoMessage /\ m \in ToSet(known[provider.turns])
            /\ mode = "buffered" /\ After(thread, buffered[m])
            /\ Running = provider.turns /\ provider.turns \in Turn
  BY <1>1, WaitingIs
<1>3. SteadyInv /\ Steady' /\ "overlap" \notin ToSet(upset')
  BY DEF OrderInv, OnceInv, ApartInv, InTurn, Once, Steady, Without
<1>4. PICK item \in Item, turn \in {NoTurn} \cup Turn, detail \in Seq(Piece) :
          ItemStep(item, turn, detail)
  BY <1>2, ItemCompletedIs
<1>5. turn \in {NoTurn, provider'.home[item]} /\ (Added(item) => turn = Running)
  BY <1>1, <1>3, <1>4, ItemTurn
<1>6. \A o \in provider'.open :
         /\ o \in provider.open /\ provider'.home[o] = provider.home[o]
         /\ provider'.home[o] # turn
  BY <1>2, <1>3, <1>4, <1>5, ItemIsLast
<1>7. /\ provider'.turns = provider.turns /\ provider'.ended = provider.ended
      /\ Running' = Running
  BY <1>4 DEF ItemStep, SameTurns, Running
<1>8. EarlierEnded'
  BY <1>2, <1>7 DEF EarlierEnded
<1>9. ItemLeaves(item, turn, detail) /\ segment \in [Turn -> Segment]
  BY <1>2, <1>4 DEF ItemStep, TypedInv, TypeInv
<1>10. CASE handler' = handler
  <2>1. /\ turn \in Turn /\ segment[turn].active = NoMessage /\ known' = known
        /\ segment' = [segment EXCEPT ![turn] = NoSegment]
    BY <1>1, <1>9, <1>10, IdleIs DEF ItemLeaves, Idle
  <2>2. TasksInOrder'
    BY <1>1, <1>10, IdleIs DEF TasksInOrder, Todo
  <2>3. CASE turn = provider.turns
    <3>1. Newest = segment[turn] /\ Newest' = NoSegment
      BY <1>7, <1>9, <2>1, <2>3 DEF Newest
    <3>2. \A m \in MessageId : buffered'[m] = <<>>
      BY <1>1, <1>2, <2>1, <3>1
    <3>3. \A o \in provider'.open : provider'.home[o] # Running'
      <4>1. SUFFICES ASSUME NEW o \in provider'.open PROVE provider'.home[o] # Running
        BY <1>7
      <4>2. Running = turn \/ Running = NoTurn
        BY <1>2, <2>3, NewestIs
      <4>3. provider'.home[o] # NoTurn
        BY <1>2, <1>6, NewestIs, Names
      <4> QED BY <1>6, <4>2, <4>3
    <3> QED BY <1>1, <1>2, <1>8, <2>2, <3>1, <3>2, <3>3, EmptyKeepsOrder
  <2>4. CASE turn # provider.turns
    <3>1. Newest' = Newest
      BY <1>7, <1>9, <2>1, <2>4, NewestSame
    <3>2. NewestFits'
      BY <1>1, <1>2, <1>6, <1>7, <3>1 DEF NewestFits
    <3>3. \A m \in MessageId : buffered[m] # <<>> => Unfinished(m)'
      BY <1>2, <1>7, Names DEF Unfinished
    <3>4. BuffersInOrder'
      BY <1>1, <1>2, <1>7, <2>1, <3>1, <3>3 DEF BuffersInOrder
    <3> QED BY <1>1, <1>2, <1>8, <2>2, <3>2, <3>4
  <2> QED BY <2>3, <2>4
<1>11. CASE handler' # handler
  <2>1. segment' = segment /\ Newest' = Newest
    BY <1>7, <1>9, <1>11, NewestSame DEF ItemLeaves
  <2>2. PICK id \in MessageId :
          /\ \/ /\ id = <<item, 0>> /\ Remember(turn, id)
                /\ turn # NoTurn => segment[turn].active = NoMessage
             \/ turn \in Turn /\ id = segment[turn].active /\ known' = known
          /\ handler'.turn = turn
          /\ DOMAIN handler'.todo = IF turn = NoTurn THEN {1} ELSE {1, 2}
          /\ handler'.todo[1].do = "finalize" /\ handler'.todo[1].message = id
          /\ handler'.todo[1].projected <=> \E k \in DOMAIN thread : thread[k].id = id
          /\ \/ handler'.todo[1].text = <<>>
             \/ /\ handler'.todo[1].text = detail
                /\ \A k \in DOMAIN thread : thread[k].id = id => thread[k].text = <<>>
          /\ turn # NoTurn => handler'.todo[2].do = "itemDone" /\ handler'.todo[2].message = id
    BY <1>9, <1>11 DEF ItemLeaves
  <2>3. NewestFits'
    BY <1>1, <1>2, <1>6, <1>7, <2>1 DEF NewestFits
  <2>4. \A s \in Turn : ToSet(known[s]) \subseteq ToSet(known'[s])
    BY <1>2, <2>2, RememberedIs DEF TypedInv
  <2>5. BuffersInOrder'
    <3>1. \A m \in MessageId : buffered[m] # <<>> => Unfinished(m)'
      BY <1>2, <1>7, Names DEF Unfinished
    <3>2. \A m \in MessageId : buffered[m] # <<>> => m \in ToSet(known'[provider.turns])
      BY <1>2, <2>4
    <3> QED BY <1>1, <1>2, <1>7, <2>1, <3>1, <3>2 DEF BuffersInOrder
  <2>6. handler'.todo[1].text # <<>> /\ buffered[id] = <<>> =>
           /\ Newest.active = NoMessage /\ After(thread, handler'.todo[1].text)
           /\ Target(thread, id) /\ Numbered(Newest, id)
    <3>1. SUFFICES ASSUME handler'.todo[1].text # <<>>, buffered[id] = <<>>
          PROVE  /\ Newest.active = NoMessage /\ After(thread, handler'.todo[1].text)
                 /\ Target(thread, id) /\ Numbered(Newest, id)
      OBVIOUS
    <3>2. /\ handler'.todo[1].text = detail
          /\ \A k \in DOMAIN thread : thread[k].id = id => thread[k].text = <<>>
      BY <2>2, <3>1
    <3>3. /\ Newest.active = NoMessage /\ After(thread, detail)
          /\ Target(thread, id) /\ Numbered(Newest, id)
      BY <1>1, <1>4, <2>2, <3>1, <3>2, DetailInOrder
    <3> QED BY <3>2, <3>3
  <2>7. turn \in Turn /\ turn = provider.turns => Newest.active \in {NoMessage, id}
    BY <2>2, Names DEF Newest
  <2>8. \A o \in provider'.open : provider'.home[o] # turn
    BY <1>6
  <2>9. ASSUME NEW n \in DOMAIN handler'.todo
        PROVE  /\ handler'.todo[n].do \in {"finalize", "itemDone"} /\ handler'.todo[n].message = id
               /\ handler'.todo[n].do = "finalize" => n = 1
               /\ handler'.todo[n].do = "itemDone" => turn \in Turn
    BY <2>2
  <2>10. ASSUME NEW n \in DOMAIN handler'.todo, handler'.todo[n].do = "finalize",
                handler'.todo[n].text # <<>>, buffered'[handler'.todo[n].message] = <<>>
         PROVE  /\ Newest.active = NoMessage /\ After(thread, handler'.todo[n].text)
                /\ Target(thread, handler'.todo[n].message)
                /\ Numbered(Newest, handler'.todo[n].message)
    BY <1>1, <2>6, <2>9, <2>10
  <2>11. ASSUME NEW n \in DOMAIN handler'.todo, handler'.todo[n].do = "finalize",
                handler'.todo[n].projected
         PROVE  HasRow(thread, handler'.todo[n].message)
    BY <2>2, <2>9, <2>11 DEF HasRow
  <2>12. TasksInOrder'
    BY <1>1, <1>7, <2>1, <2>2, <2>7, <2>8, <2>9, <2>10, <2>11 DEF TasksInOrder, Todo, Text
  <2> QED BY <1>1, <1>2, <1>8, <2>3, <2>5, <2>12
<1> QED BY <1>10, <1>11

LEMMA OrderKept ==
    ASSUME OrderInv, [Next]_vars
    PROVE  OrderInv'
<1>1. OnceInv' /\ TypedInv
  BY OnceKept DEF OrderInv, OnceInv, ApartInv, SteadyInv, HandlerInv
<1>2. ToSet(upset) \subseteq ToSet(upset') /\ provider'.blank = provider.blank
  BY <1>1, StepTyped, BlankKept
<1>3. SUFFICES ASSUME InTurn'
      PROVE  /\ RowsInOrder(thread') /\ NewestFits' /\ BuffersInOrder' /\ TasksInOrder'
             /\ EarlierEnded'
  BY <1>1 DEF OrderInv
<1>4. InTurn /\ ToSet(upset') \cap {"failure", "expiry"} = {}
  BY <1>2, <1>3 DEF InTurn, Once, Without
<1>5. RowsInOrder(thread) /\ NewestFits /\ BuffersInOrder /\ TasksInOrder /\ EarlierEnded
  BY <1>4 DEF OrderInv
<1>6. CASE Work
  BY <1>4, <1>6, WorkKeepsOrder
<1>7. CASE TurnStarted \/ ContentDelta \/ QuestionAsked \/ ItemCompleted \/ TurnCompleted
  BY <1>3, <1>4, <1>7, NewTurnKeepsOrder, DeltaKeepsOrder, QuestionKeepsOrder, ItemKeepsOrder,
     TurnKeepsOrder
<1>8. CASE SessionExited \/ Restart \/ SwitchMode
  BY <1>3, <1>4, <1>8, GoneKeepsOrder, SwitchKeepsOrder
<1>9. CASE UNCHANGED vars
  <2>1. Newest' = Newest /\ Running' = Running
    BY <1>9, NewestSame DEF vars, caches, Running
  <2>2. UNCHANGED <<mode, thread, buffered, known, handler, provider>>
    BY <1>9 DEF vars, caches
  <2>3. NewestFits' /\ EarlierEnded'
    BY <1>5, <2>1, <2>2 DEF NewestFits, EarlierEnded
  <2>4. BuffersInOrder'
    BY <1>5, <2>1, <2>2 DEF BuffersInOrder, Unfinished, Todo
  <2>5. TasksInOrder'
    BY <1>5, <2>1, <2>2 DEF TasksInOrder, Text, Todo
  <2> QED BY <1>5, <2>2, <2>3, <2>4, <2>5
<1>10. ~CommandFails /\ ~EntryExpires
  BY <1>1, <1>4, FailureTyped, ExpiryTyped
<1> QED BY <1>6, <1>7, <1>8, <1>9, <1>10 DEF Next

LEMMA OrderBegins == Init => OrderInv
<1> SUFFICES ASSUME Init PROVE OrderInv
  OBVIOUS
<1>1. OnceInv
  BY OnceBegins
<1>2. /\ DOMAIN thread = {} /\ DOMAIN handler.todo = {} /\ provider.open = {}
      /\ \A m \in MessageId : buffered[m] = <<>>
      /\ provider.turns = 0
  BY DEF Init, Resting
<1>3. Newest = NoSegment /\ NoSegment.active = NoMessage
  BY <1>2, Names DEF Newest, NoTurn, NoSegment
<1>4. RowsInOrder(thread) /\ NewestFits /\ BuffersInOrder /\ TasksInOrder
  BY <1>2, <1>3 DEF RowsInOrder, NewestFits, BuffersInOrder, TasksInOrder, Todo
<1>5. EarlierEnded
  BY <1>2, Bounds DEF EarlierEnded, Turn
<1> QED BY <1>1, <1>4, <1>5 DEF OrderInv

\* Text is shown in the order in which it was said, over segments, items and
\* turns, unless something happened that can put it out of order
\* (assistantSegmentMessageId, flushBufferedAssistantMessagesForTurn).
THEOREM AssistantTextShownInOrder == Spec => []ShownInOrder
<1>1. Init => OrderInv
  BY OrderBegins
<1>2. OrderInv /\ [Next]_vars => OrderInv'
  BY OrderKept
<1>3. OrderInv => ShownInOrder
  <2>1. SUFFICES ASSUME OrderInv, InTurn
        PROVE  \A i, j \in DOMAIN Shown : i < j => Shown[i] < Shown[j]
    BY DEF ShownInOrder, InTurn, Once, Without
  <2>2. TypedInv /\ RowsInOrder(thread)
    BY <2>1 DEF OrderInv, OnceInv, ApartInv, SteadyInv, HandlerInv
  <2>3. PICK texts \in Seq(Seq(Piece)) :
           /\ DOMAIN texts = DOMAIN thread /\ \A k \in DOMAIN thread : texts[k] = thread[k].text
           /\ Shown = FlattenSeq(texts)
    BY <2>2, ShownIs
  <2>4. \A k \in DOMAIN texts : Ordered(texts[k], Less)
    BY <2>2, <2>3 DEF RowsInOrder, Increasing
  <2>5. \A k, l \in DOMAIN texts : k < l => Related(texts[k], texts[l], Less)
    BY <2>2, <2>3 DEF RowsInOrder, Before
  <2>6. Shown \in Seq(Piece) /\ Ordered(Shown, Less)
    BY <2>3, <2>4, <2>5, FlattenOrdered
  <2>7. ASSUME NEW i \in DOMAIN Shown, NEW j \in DOMAIN Shown, i < j PROVE Shown[i] < Shown[j]
    <3>1. Shown[i] \in Piece /\ Shown[j] \in Piece
      BY <2>6, <2>7, ElementOfSeq, LenProperties
    <3>2. <<Shown[i], Shown[j]>> \in Less
      BY <2>6, <2>7 DEF Ordered
    <3> QED BY <3>1, <3>2, LessIs
  <2> QED BY <2>7
<1> QED BY <1>1, <1>2, <1>3, PTL DEF Spec
=============================================================================
