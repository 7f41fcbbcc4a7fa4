---------------------------- MODULE AssistantText ----------------------------
(***************************************************************************)
(* ProviderRuntimeIngestion: from a provider's pieces of text to the       *)
(* messages of a thread.                                                   *)
(*                                                                         *)
(* A provider answers a turn with items.  The pieces of an item arrive as  *)
(* content.delta events; item.completed may repeat its whole text.  In the *)
(* mode "streaming" each piece becomes part of a message at once, in the   *)
(* mode "buffered" it waits in memory until its item or turn completes,    *)
(* the user is asked something, or the buffer is full.  Three caches with  *)
(* a time to live carry a message from one event to the next: its buffered *)
(* text, the messages of its turn that are unfinished, and the turn's      *)
(* segment, which names the message that the next piece belongs to.        *)
(*                                                                         *)
(* One worker handles the events one at a time.  A handler is the list of  *)
(* what it has left to do; each entry is one command to the engine with    *)
(* the changes of the caches around it.  A command that fails ends the     *)
(* handler, and the event is not tried again.                              *)
(***************************************************************************)
EXTENDS Naturals, SequencesExt

CONSTANTS
    MaxBuffered,    \* pieces a buffer holds, MAX_BUFFERED_ASSISTANT_CHARS
    MaxTurns,       \* bound: turns of the thread
    MaxItems,       \* bound: items of the provider
    MaxPieces,      \* bound: pieces of text
    MaxRequests,    \* bound: questions to the user
    MaxUpsets       \* bound: disturbances of a behaviour

ASSUME TextAssumption ==
    {MaxBuffered, MaxTurns, MaxItems, MaxPieces, MaxRequests, MaxUpsets} \subseteq Nat

VARIABLES
    mode,           \* serverSettings.enableAssistantStreaming
    thread,         \* SQL: the thread's assistant messages, in the order they were created
    active,         \* SQL: activeTurnId of the thread's session
    buffered,       \* bufferedAssistantTextByMessageId
    known,          \* turnMessageIdsByTurnKey, in the order of insertion
    segment,        \* assistantSegmentStateByTurnKey
    handler,        \* the turn of the event being handled, and what is left to do
    provider,       \* the provider's turns and items
    requests,       \* questions to the user so far
    upset           \* ghost: the disturbances so far

caches == <<buffered, known, segment>>
vars == <<mode, thread, active, caches, handler, provider, requests, upset>>

NoTurn == 0
Turn == 1..MaxTurns
Item == 1..MaxItems
Piece == 1..MaxPieces

\* A message is named for its item, and numbered where a question split it.
MessageId == Item \X (0..MaxRequests)
NoMessage == <<0, 0>>
NoSegment == [base |-> 0, next |-> 0, active |-> NoMessage]
Resting == [turn |-> NoTurn, todo |-> <<>>]

\* provider: turns started, those that ended, the turn of each item, the items
\* that are not complete, the item of each piece, the pieces that are blank.
Init ==
    /\ mode \in {"streaming", "buffered"}
    /\ thread = <<>>
    /\ active = NoTurn
    /\ buffered = [m \in MessageId |-> <<>>]
    /\ known = [t \in Turn |-> <<>>]
    /\ segment = [t \in Turn |-> NoSegment]
    /\ handler = Resting
    /\ provider \in [turns : {0}, ended : {{}}, home : {<<>>}, open : {{}}, said : {<<>>},
                     blank : {{}} \cup {{n} : n \in Piece}]
    /\ requests = 0
    /\ upset = <<>>

Idle == handler.todo = <<>>
Busy == ~Idle

\* Something happens that the properties may depend on.
Upsets(kind) ==
    /\ Len(upset) < MaxUpsets
    /\ upset' = Append(upset, kind)
UpsetsIf(condition, kind) == IF condition THEN Upsets(kind) ELSE UNCHANGED upset

-----------------------------------------------------------------------------
(* The projection of messages *)

Renderable(text) == \E n \in ToSet(text) : n \notin provider.blank

Find(id) == {n \in DOMAIN thread : thread[n].id = id}

\* Mutant: new text is put in front.
JoinedInFront(old, new) == new \o old

Joined(old, new) == old \o new

\* Text is added to a message, or creates it.
AddText(id, turn, text, streaming) ==
    IF Find(id) = {}
    THEN Append(thread, [id |-> id, turn |-> turn, text |-> text, streaming |-> streaming])
    ELSE [n \in DOMAIN thread |->
             IF n \notin Find(id) THEN thread[n]
             ELSE [thread[n] EXCEPT !.text = Joined(@, text),
                                    !.streaming = streaming,
                                    !.turn = IF turn = NoTurn THEN @ ELSE turn]]

\* thread.message-sent
MessageSent(id, text, streaming) == thread' = AddText(id, handler.turn, text, streaming)

-----------------------------------------------------------------------------
(* A handler, entry by entry *)

Task(do, message, text, projected) ==
    [do |-> do, message |-> message, text |-> text, projected |-> projected]
Simply(do) == Task(do, NoMessage, <<>>, FALSE)
Deliver(id, text) == Task("deliver", id, text, FALSE)
Flush(id) == Task("flush", id, <<>>, FALSE)
Finalize(id, fallback, projected) == Task("finalize", id, fallback, projected)

Handle(turn, todo) == handler' = IF todo = <<>> THEN Resting ELSE [turn |-> turn, todo |-> todo]

Now == Head(handler.todo)
Does(what) == ~Idle /\ Now.do \in what
GoesOn == Handle(handler.turn, Tail(handler.todo))
Text(id) == buffered[id]
Forget(id) == known' = IF handler.turn = NoTurn THEN known
                       ELSE [known EXCEPT ![handler.turn] = RemoveFirst(@, id)]

\* thread.session.set
SetSession ==
    /\ Does({"running", "over"})
    /\ active' = IF Now.do = "running" THEN handler.turn ELSE NoTurn
    /\ GoesOn
    /\ UNCHANGED <<mode, thread, caches, provider, requests, upset>>

DeliverText ==
    /\ Does({"deliver"})
    /\ MessageSent(Now.message, Now.text, TRUE)
    /\ GoesOn
    /\ UNCHANGED <<mode, active, caches, provider, requests, upset>>

TakeBuffered(id) == buffered' = [buffered EXCEPT ![id] = <<>>]

\* flushBufferedAssistantMessage
FlushText ==
    /\ Does({"flush"})
    /\ TakeBuffered(Now.message)
    /\ IF Renderable(Text(Now.message))
       THEN MessageSent(Now.message, Text(Now.message), TRUE)
       ELSE UNCHANGED thread
    /\ GoesOn
    /\ UNCHANGED <<mode, active, known, segment, provider, requests, upset>>

\* Mutant: the text that came with the completion is preferred.
FallbackText == IF Now.text # <<>> THEN Now.text ELSE Text(Now.message)

\* The text a message is finalized with.
FinalText == IF Text(Now.message) # <<>> THEN Text(Now.message) ELSE Now.text

\* Mutant: only text that is finalized here completes its message.
CompletionDueForText == Renderable(FinalText)

CompletionDue == Now.projected \/ Renderable(FinalText)

\* finalizeAssistantMessage, its delta; its completion follows if it is due.
FinalizeText ==
    /\ Does({"finalize"})
    /\ TakeBuffered(Now.message)
    /\ IF Renderable(FinalText)
       THEN MessageSent(Now.message, FinalText, TRUE)
       ELSE UNCHANGED thread
    /\ IF CompletionDue
       THEN handler' = [handler EXCEPT !.todo[1].do = "complete"]
       ELSE GoesOn
    /\ UNCHANGED <<mode, active, known, segment, provider, requests, upset>>

CompleteMessage ==
    /\ Does({"complete"})
    /\ MessageSent(Now.message, <<>>, FALSE)
    /\ GoesOn
    /\ UNCHANGED <<mode, active, caches, provider, requests, upset>>

\* The end of finalizeActiveAssistantSegmentForTurn.
SettlePause ==
    /\ Does({"paused"})
    /\ Forget(Now.message)
    /\ segment' = [segment EXCEPT ![handler.turn].active = NoMessage]
    /\ GoesOn
    /\ UNCHANGED <<mode, thread, active, buffered, provider, requests, upset>>

\* The end of a completed item.
SettleItem ==
    /\ Does({"itemDone"})
    /\ Forget(Now.message)
    /\ segment' = [segment EXCEPT ![handler.turn] = NoSegment]
    /\ GoesOn
    /\ UNCHANGED <<mode, thread, active, buffered, provider, requests, upset>>

\* The end of a completed turn.
SettleTurn ==
    /\ Does({"turnDone"})
    /\ known' = [known EXCEPT ![handler.turn] = <<>>]
    /\ segment' = [segment EXCEPT ![handler.turn] = NoSegment]
    /\ GoesOn
    /\ UNCHANGED <<mode, thread, active, buffered, provider, requests, upset>>

\* clearTurnStateForSession
ClearTurns ==
    /\ Does({"clear"})
    /\ buffered' = [m \in MessageId |-> IF \E t \in Turn : Contains(known[t], m) THEN <<>>
                                        ELSE buffered[m]]
    /\ known' = [t \in Turn |-> <<>>]
    /\ segment' = [t \in Turn |-> NoSegment]
    /\ GoesOn
    /\ UNCHANGED <<mode, thread, active, provider, requests, upset>>

\* Has this entry a command to dispatch?
Dispatches ==
    \/ Does({"running", "over", "deliver", "complete"})
    \/ Does({"flush"}) /\ Renderable(Text(Now.message))
    \/ Does({"finalize"}) /\ Renderable(FinalText)

\* processInputSafely: the event is given up, whatever was taken from a buffer.
CommandFails ==
    /\ Dispatches
    /\ IF Does({"flush", "finalize"}) THEN TakeBuffered(Now.message) ELSE UNCHANGED buffered
    /\ handler' = Resting
    /\ Upsets("failure")
    /\ UNCHANGED <<mode, thread, active, known, segment, provider, requests>>

Work ==
    \/ SetSession \/ DeliverText \/ FlushText \/ FinalizeText \/ CompleteMessage
    \/ SettlePause \/ SettleItem \/ SettleTurn \/ ClearTurns

-----------------------------------------------------------------------------
(* The provider's events, one at a time *)

Running == IF provider.turns \in provider.ended THEN NoTurn ELSE provider.turns

\* An event without a turn is taken for one of the session's active turn.
Packed(t) == IF t = NoTurn THEN active ELSE t

TextOf(item) ==
    LET pieces == {n \in DOMAIN provider.said : provider.said[n] = item}
    IN  CHOOSE text \in [1..Cardinality(pieces) -> pieces] :
            \A i, j \in DOMAIN text : i < j => text[i] < text[j]

\* The running turn begins its next item.  Items follow each other: an item
\* of the turn that is still open is a disturbance.
BeginsItem(item, t) ==
    /\ Running # NoTurn /\ t \in {Running, NoTurn}
    /\ item = Len(provider.home) + 1 /\ item \in Item
    /\ UpsetsIf(\E o \in provider.open : provider.home[o] = Running, "overlap")

\* An open item goes on, perhaps after its turn.  Text that comes late or is
\* taken for another turn is a disturbance, and so is the end of an item that
\* is taken for another turn.
ContinuesItem(item, t) ==
    /\ item \in provider.open
    /\ t \in {provider.home[item], Running, NoTurn}
Astray(item, t) == Packed(t) # provider.home[item]

Begun(item) == [provider EXCEPT !.home = Append(@, Running), !.open = @ \cup {item}]

TurnStarted ==
    /\ Idle
    /\ provider.turns < MaxTurns
    /\ UpsetsIf(Running # NoTurn, "superseded")
    /\ provider' = [provider EXCEPT !.turns = @ + 1]
    /\ Handle(provider.turns + 1, <<Simply("running")>>)
    /\ UNCHANGED <<mode, thread, active, caches, requests>>

\* startAssistantSegmentForTurn
StartSegment(s, item) ==
    LET number == IF s.base = item THEN s.next ELSE 0
    IN  [base |-> item, next |-> number + 1, active |-> <<item, number>>]

\* getOrCreateAssistantMessageId: the segment of the turn after it.
SegmentFor(turn, item) ==
    IF segment[turn].active # NoMessage THEN segment[turn] ELSE StartSegment(segment[turn], item)

Remember(turn, id) ==
    known' = IF turn = NoTurn \/ Contains(known[turn], id) THEN known
             ELSE [known EXCEPT ![turn] = Append(@, id)]

\* Mutant: a piece that does not fit is delivered without those before it.
BufferTextDropping(turn, id, text) ==
    IF Len(text) <= MaxBuffered
    THEN buffered' = [buffered EXCEPT ![id] = text] /\ UNCHANGED handler
    ELSE /\ buffered' = [buffered EXCEPT ![id] = <<>>]
         /\ Handle(turn, <<Deliver(id, <<Last(text)>>)>>)

\* appendBufferedAssistantText: a full buffer is delivered as a whole.
BufferText(turn, id, text) ==
    IF Len(text) <= MaxBuffered
    THEN buffered' = [buffered EXCEPT ![id] = text] /\ UNCHANGED handler
    ELSE buffered' = [buffered EXCEPT ![id] = <<>>] /\ Handle(turn, <<Deliver(id, text)>>)

ContentDelta ==
    /\ Idle
    /\ \E item \in Item, t \in {NoTurn} \cup Turn :
       LET turn == Packed(t)
           id == IF turn = NoTurn THEN <<item, 0>> ELSE SegmentFor(turn, item).active
           n == Len(provider.said) + 1
       IN  /\ n <= MaxPieces
           /\ \/ BeginsItem(item, t)
                 /\ provider' = [Begun(item) EXCEPT !.said = Append(@, item)]
              \/ ContinuesItem(item, t)
                 /\ UpsetsIf(provider.home[item] # Running \/ Astray(item, t), "late")
                 /\ provider' = [provider EXCEPT !.said = Append(@, item)]
           /\ Remember(turn, id)
           /\ segment' = IF turn = NoTurn THEN segment
                         ELSE [segment EXCEPT ![turn] = SegmentFor(turn, item)]
           /\ IF mode = "buffered" THEN BufferText(turn, id, Append(Text(id), n))
              ELSE Handle(turn, <<Deliver(id, <<n>>)>>) /\ UNCHANGED buffered
    /\ UNCHANGED <<mode, thread, active, requests>>

\* request.opened, user-input.requested
QuestionAsked ==
    /\ Idle
    /\ Running # NoTurn
    /\ requests < MaxRequests
    /\ requests' = requests + 1
    /\ LET turn == Running
           id == segment[turn].active
           flushes == IF mode = "buffered"
                      THEN [n \in DOMAIN known[turn] |-> Flush(known[turn][n])] ELSE <<>>
           projected == \/ \E n \in DOMAIN thread :
                              thread[n].turn = turn /\ thread[n].streaming
                        \/ \E n \in DOMAIN flushes :
                              flushes[n].message = id /\ Renderable(Text(id))
       IN  Handle(turn, flushes \o IF id = NoMessage THEN <<>>
                                   ELSE <<Finalize(id, <<>>, projected),
                                          Task("paused", id, <<>>, FALSE)>>)
    /\ UNCHANGED <<mode, thread, active, caches, provider, upset>>

\* item.completed of an assistant message, whose detail may be its text.
FinishItem(item, turn, detail) ==
    LET current == IF turn = NoTurn THEN NoMessage ELSE segment[turn].active
        id == IF current = NoMessage THEN <<item, 0>> ELSE current
        fallback == IF \E n \in Find(id) : thread[n].text # <<>> THEN <<>> ELSE detail
        redundant == /\ current = NoMessage /\ turn # NoTurn
                     /\ \E n \in DOMAIN thread : thread[n].turn = turn
                     /\ ~Renderable(detail)
    IN  IF redundant
        THEN /\ segment' = [segment EXCEPT ![turn] = NoSegment]
             /\ UNCHANGED <<known, handler>>
        ELSE /\ IF current = NoMessage THEN Remember(turn, id) ELSE UNCHANGED known
             /\ Handle(turn, <<Finalize(id, fallback, Find(id) # {})>>
                             \o IF turn = NoTurn THEN <<>>
                                ELSE <<Task("itemDone", id, <<>>, FALSE)>>)
             /\ UNCHANGED segment

ItemCompleted ==
    /\ Idle
    /\ \E item \in Item, t \in {NoTurn} \cup Turn :
       \/ /\ ContinuesItem(item, t)
          /\ UpsetsIf(Packed(t) # NoTurn /\ Astray(item, t), "late")
          /\ provider' = [provider EXCEPT !.open = @ \ {item}]
          /\ \E detail \in {<<>>, TextOf(item)} : FinishItem(item, Packed(t), detail)
       \/ LET n == Len(provider.said) + 1
          IN  /\ n <= MaxPieces
              /\ BeginsItem(item, t)
              /\ provider' = [provider EXCEPT !.home = Append(@, Running),
                                              !.said = Append(@, item)]
              /\ FinishItem(item, Packed(t), <<n>>)
    /\ UNCHANGED <<mode, thread, active, buffered, requests>>

\* turn.completed, which ends the session's turn unless another is active.
TurnCompleted ==
    /\ Idle
    /\ \E t \in (1..provider.turns) \ provider.ended :
       /\ provider' = [provider EXCEPT !.ended = @ \cup {t}]
       /\ Handle(t, (IF active \in {NoTurn, t} THEN <<Simply("over")>> ELSE <<>>)
                    \o [n \in DOMAIN known[t] |->
                           Finalize(known[t][n], <<>>, Find(known[t][n]) # {})]
                    \o <<Simply("turnDone")>>)
    /\ UNCHANGED <<mode, thread, active, caches, requests, upset>>

ProviderGone == provider' = [provider EXCEPT !.ended = 1..provider.turns, !.open = {}]

SessionExited ==
    /\ Idle
    /\ Running # NoTurn \/ provider.open # {}
    /\ ProviderGone
    /\ Upsets("exit")
    /\ Handle(NoTurn, <<Simply("over"), Simply("clear")>>)
    /\ UNCHANGED <<mode, thread, active, caches, requests>>

-----------------------------------------------------------------------------
(* What else happens *)

\* The setting.  A piece that is streamed overtakes those that are buffered.
SwitchMode ==
    /\ Idle
    /\ mode' \in {"streaming", "buffered"} \ {mode}
    /\ UpsetsIf(\E m \in MessageId : Text(m) # <<>>, "switch")
    /\ UNCHANGED <<thread, active, caches, handler, provider, requests>>

\* The time to live of an entry of a cache runs out.
EntryExpires ==
    /\ Idle
    /\ \/ \E m \in MessageId : Text(m) # <<>> /\ TakeBuffered(m) /\ UNCHANGED <<known, segment>>
       \/ \E t \in Turn : known[t] # <<>> /\ known' = [known EXCEPT ![t] = <<>>]
                          /\ UNCHANGED <<buffered, segment>>
       \/ \E t \in Turn : segment[t] # NoSegment
                          /\ segment' = [segment EXCEPT ![t] = NoSegment]
                          /\ UNCHANGED <<buffered, known>>
    /\ Upsets("expiry")
    /\ UNCHANGED <<mode, thread, active, handler, provider, requests>>

\* The server restarts, in the middle of a handler too; the startup of the
\* command reactor ends the session's turn.
Restart ==
    /\ provider.turns > 0
    /\ ProviderGone
    /\ buffered' = [m \in MessageId |-> <<>>]
    /\ known' = [t \in Turn |-> <<>>]
    /\ segment' = [t \in Turn |-> NoSegment]
    /\ handler' = Resting
    /\ active' = NoTurn
    /\ Upsets("restart")
    /\ UNCHANGED <<mode, thread, requests>>

Next ==
    \/ Work \/ CommandFails
    \/ TurnStarted \/ ContentDelta \/ QuestionAsked \/ ItemCompleted \/ TurnCompleted
    \/ SessionExited
    \/ SwitchMode \/ EntryExpires \/ Restart

Spec == Init /\ [][Next]_vars

-----------------------------------------------------------------------------
(* Properties *)

Without(kinds) == ToSet(upset) \cap kinds = {}

\* The caches and the handler last from the first piece of a text to its end.
Lasting == Without({"failure", "exit", "restart", "expiry"})

\* No text is lost: whatever a provider has said is shown, or is buffered in a
\* message that the end of its turn will finalize, in both modes and when the
\* setting changes in between (bufferedAssistantTextByMessageId,
\* turnMessageIdsByTurnKey); but for what is blank.
TextKept ==
    Idle /\ Lasting /\ Without({"overlap", "late"}) =>
    \A n \in DOMAIN provider.said \ provider.blank :
        \/ \E row \in ToSet(thread) : Contains(row.text, n)
        \/ \E t \in Turn \ provider.ended :
           \E m \in ToSet(known[t]) : Contains(Text(m), n)

\* The pieces on display, in the order a reader meets them.
Shown == FlattenSeq([n \in DOMAIN thread |-> thread[n].text])

\* No text is shown twice: the detail of a completed item is shown only if
\* none of its text was (shouldApplyFallbackCompletionText), however often a
\* question split the item.  An item that begins with a blank piece is not
\* known by its first segment, and is left out.
ShownOnce ==
    provider.blank = {} /\ Without({"failure", "expiry", "overlap", "late"}) =>
    IsInjective(Shown)

\* Text is shown in the order it was said, over segments, items and turns
\* (assistantSegmentMessageId, flushBufferedAssistantMessagesForTurn).
ShownInOrder ==
    provider.blank = {}
    /\ Without({"failure", "expiry", "overlap", "late", "switch", "superseded"}) =>
    \A i, j \in DOMAIN Shown : i < j => Shown[i] < Shown[j]

\* No message is left streaming when its turn has ended (finalizeAssistant-
\* Message): one that is streaming is among those the end will complete.
StreamingEnds ==
    Idle /\ Lasting /\ Without({"late"}) =>
    \A row \in ToSet(thread) :
        row.streaming => \E t \in Turn \ provider.ended : Contains(known[t], row.id)
=============================================================================
