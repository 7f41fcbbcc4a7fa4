------------------------ MODULE ProviderSessionsProofs ------------------------
(***************************************************************************)
(* ProviderSessions for any number of instances, turns and events: its     *)
(* types; that the binding of a thread and the sessions inside the         *)
(* adapters stay in step while no call fails and the worker's switches and *)
(* stops meet no other call; that the turns stay in one conversation; and  *)
(* that the reaper spares the turns a thread knows of.                     *)
(***************************************************************************)
EXTENDS ProviderSessions, FiniteSetTheorems, SequenceTheorems, TLAPS

USE SessionsAssumption

\* TypeOK in two parts: the fibers, each of which is at a typed call, ...
TypedCall(o) ==
    /\ o \in CallOf
    /\ o.at \in {"look", "start", "stale", "read", "write", "act"} => o.instance \in Instance

FibersTyped ==
    /\ fiber \in [Fiber -> CallOf]
    /\ \A f \in Fiber : TypedCall(fiber[f])

\* ... and the rest.
ShellTyped ==
    shell \in [status : {"none", "ready", "running", "stopped", "interrupted"}, turn : Nat]
RuntimeTyped == runtime \in Seq([type : {"started", "ended", "exited"}, turn : Nat])
GhostsTyped ==
    /\ conversations \subseteq Nat /\ announced \subseteq Nat
    /\ died \in BOOLEAN /\ crossed \in BOOLEAN /\ astray \in BOOLEAN

DataTyped ==
    /\ binding \in Row /\ sessions \in [Instance -> Session] /\ ShellTyped /\ RuntimeTyped
    /\ opened \in Nat /\ GhostsTyped
    /\ budget \in [turns : 0..MaxTurns, events : 0..MaxEvents]

LEMMA TypeSplit == TypeOK <=> FibersTyped /\ DataTyped
  BY DEF TypeOK, FibersTyped, TypedCall, DataTyped, ShellTyped, RuntimeTyped, GhostsTyped

LEMMA CallWritten ==
    ASSUME FibersTyped, NEW f \in Fiber, NEW o, TypedCall(o), fiber' = [fiber EXCEPT ![f] = o]
    PROVE  FibersTyped'
<1>1. fiber' \in [Fiber -> CallOf]
  BY DEF FibersTyped, TypedCall
<1>2. ASSUME NEW g \in Fiber PROVE TypedCall(fiber'[g])
  BY DEF FibersTyped
<1>. QED  BY <1>1, <1>2 DEF FibersTyped, TypedCall

LEMMA FibersKept == ASSUME FibersTyped, UNCHANGED fiber PROVE FibersTyped'
  BY DEF FibersTyped, TypedCall

LEMMA NewCalls ==
    /\ TypedCall(Rest)
    /\ \A does \in Operation : TypedCall(Call(does))
  BY DEF Rest, Call, CallOf, Row, NoRow, Place, Operation, NoCursor, TypedCall

\* A call moves on, with what it learned.
LEMMA CallMoves ==
    ASSUME NEW o, TypedCall(o), NEW place \in Place, NEW i \in Instance, NEW cursor \in Nat,
           NEW recovering \in BOOLEAN, NEW r \in Row
    PROVE  TypedCall([o EXCEPT !.at = place, !.instance = i, !.cursor = cursor,
                               !.recovering = recovering, !.row = r])
  BY DEF TypedCall, CallOf

LEMMA GivesUpTyped ==
    ASSUME FibersTyped, ShellTyped, NEW f \in Fiber, GivesUp(f)
    PROVE  FibersTyped' /\ ShellTyped'
<1>1. FibersTyped'
  BY CallWritten, NewCalls DEF GivesUp, Rests
<1>2. ShellTyped'
  BY DEF GivesUp, ShellTyped, TurnStartFailed, NoTurn
<1>. QED  BY <1>1, <1>2

LEMMA EventEmitted ==
    ASSUME RuntimeTyped, NEW type \in {"started", "ended", "exited"}, NEW turn \in Nat,
           Emit([type |-> type, turn |-> turn])
    PROVE  RuntimeTyped'
  BY DEF RuntimeTyped, Emit

LEMMA SessionStopped ==
    ASSUME DataTyped, NEW i, Stopped(i)
    PROVE  sessions' \in [Instance -> Session] /\ RuntimeTyped'
  BY EventEmitted DEF Stopped, Exited, NoTurn, NoSession, NoCursor, Session, DataTyped

LEMMA Spent ==
    ASSUME DataTyped, NEW what \in {"turns", "events"}, Spend(what)
    PROVE  budget' \in [turns : 0..MaxTurns, events : 0..MaxEvents]
  BY DEF DataTyped, Spend

\* The command reactor.
LEMMA EnsureSessionTyped ==
    ASSUME FibersTyped, DataTyped, NEW j \in Instance, EnsureSession(j), crossed' \in BOOLEAN
    PROVE  FibersTyped' /\ DataTyped'
<1>. DEFINE used == shell.status \notin {"none", "stopped"} /\ Live # {}
            active == CHOOSE i \in Live : TRUE
            cursor == IF used THEN ActiveCursor(active) ELSE NoCursor
            o == [Rest EXCEPT !.at = "look", !.does = "start", !.instance = j, !.cursor = cursor]
<1>1. \/ died' = TRUE /\ TurnStartFailed /\ UNCHANGED <<fiber, announced>>
      \/ fiber' = [fiber EXCEPT !["send"] = Call("send")] /\ UNCHANGED <<shell, ghosts>>
      \/ fiber' = [fiber EXCEPT !["worker"] = o] /\ UNCHANGED <<shell, ghosts>>
  BY DEF EnsureSession
<1>2. TypedCall(o)
  <2>1. cursor \in Nat
    BY DEF DataTyped, Session, Row, Live, ActiveCursor, NoCursor
  <2>. QED  BY <2>1 DEF TypedCall, CallOf, Rest, Row, NoRow, NoCursor, Place, Operation
<1>3. FibersTyped'
  BY <1>1, <1>2, CallWritten, FibersKept, NewCalls DEF Fiber, Operation
<1>4. ShellTyped' /\ died' \in BOOLEAN /\ announced' \subseteq Nat
  <2>1. ShellTyped'
    BY <1>1 DEF TurnStartFailed, NoTurn, DataTyped, ShellTyped
  <2>2. announced' \in SUBSET Nat
    BY <1>1 DEF ghosts, DataTyped, GhostsTyped
  <2>3. died' = TRUE \/ died' = died
    BY <1>1 DEF ghosts
  <2>4. died' \in BOOLEAN
    BY <2>3, Zenon DEF DataTyped, GhostsTyped
  <2>. QED  BY <2>1, <2>2, <2>4
<1>5. Spend("turns") /\ UNCHANGED <<binding, adapters, astray>>
  BY DEF EnsureSession
<1>6. DataTyped'
  BY <1>4, <1>5, Spent DEF DataTyped, ShellTyped, RuntimeTyped, GhostsTyped, adapters, ghosts
<1>. QED  BY <1>3, <1>6

LEMMA StopRequestedTyped ==
    ASSUME FibersTyped, DataTyped, StopRequested, crossed' \in BOOLEAN
    PROVE  FibersTyped' /\ DataTyped'
<1>1. FibersTyped'
  BY CallWritten, FibersKept, NewCalls DEF StopRequested, Fiber, Operation
<1>2. DataTyped'
  BY Spent DEF StopRequested, NoTurn, DataTyped, ShellTyped, RuntimeTyped, GhostsTyped, adapters, ghosts
<1>. QED  BY <1>1, <1>2

LEMMA ApprovalRememberedTyped ==
    ASSUME FibersTyped, DataTyped, ApprovalRemembered, crossed' \in BOOLEAN
    PROVE  FibersTyped' /\ DataTyped'
<1>1. FibersTyped'
  BY CallWritten, NewCalls DEF ApprovalRemembered, Fiber, Operation
<1>2. DataTyped'
  BY Spent DEF ApprovalRemembered, DataTyped, ShellTyped, RuntimeTyped, GhostsTyped, adapters, ghosts
<1>. QED  BY <1>1, <1>2

LEMMA BindTyped ==
    ASSUME FibersTyped, DataTyped, Bind, crossed' \in BOOLEAN
    PROVE  FibersTyped' /\ DataTyped'
<1>1. FibersTyped'
  BY NewCalls DEF Bind, Rests, Fiber, Operation, FibersTyped, TypedCall
<1>2. DataTyped'
  BY DEF Bind, NoTurn, DataTyped, ShellTyped, RuntimeTyped, GhostsTyped, adapters, ghosts
<1>. QED  BY <1>1, <1>2

\* The checkpoint reactor and the reaper.
LEMMA RevertRequestedTyped ==
    ASSUME FibersTyped, DataTyped, RevertRequested, crossed' \in BOOLEAN
    PROVE  FibersTyped' /\ DataTyped'
<1>. DEFINE o == [Rest EXCEPT !.at = "list", !.seen = Live]
<1>1. fiber' = [fiber EXCEPT !["checkpoint"] = o]
  BY DEF RevertRequested, Rest, Call, Row, NoRow, NoCursor, Live, FibersTyped, TypedCall
<1>2. TypedCall(o)
  BY DEF TypedCall, CallOf, Rest, Row, NoRow, NoCursor, Place, Operation, Live
<1>3. FibersTyped'
  BY <1>1, <1>2, CallWritten DEF Fiber
<1>4. DataTyped'
  BY Spent DEF RevertRequested, DataTyped, ShellTyped, RuntimeTyped, GhostsTyped, adapters, ghosts
<1>. QED  BY <1>3, <1>4

LEMMA SessionsListedTyped ==
    ASSUME FibersTyped, DataTyped, SessionsListed, crossed' \in BOOLEAN
    PROVE  FibersTyped' /\ DataTyped'
<1>1. FibersTyped'
  BY CallWritten, NewCalls DEF SessionsListed, Fiber, Operation
<1>2. DataTyped'
  BY DEF SessionsListed, DataTyped, ShellTyped, RuntimeTyped, GhostsTyped, adapters, ghosts
<1>. QED  BY <1>1, <1>2

LEMMA SweepTyped ==
    ASSUME FibersTyped, DataTyped, Sweep, crossed' \in BOOLEAN
    PROVE  FibersTyped' /\ DataTyped'
<1>. DEFINE o == [Rest EXCEPT !.at = "decide"]
<1>1. fiber' = [fiber EXCEPT !["reaper"] = o]
  BY DEF Sweep, Rest, Call, Row, NoRow, NoCursor, FibersTyped, TypedCall
<1>2. TypedCall(o)
  BY DEF TypedCall, CallOf, Rest, Row, NoRow, NoCursor, Place, Operation
<1>3. FibersTyped'
  BY <1>1, <1>2, CallWritten DEF Fiber
<1>4. DataTyped'
  BY DEF Sweep, DataTyped, ShellTyped, RuntimeTyped, GhostsTyped, adapters, ghosts
<1>. QED  BY <1>3, <1>4

LEMMA DecideTyped ==
    ASSUME FibersTyped, DataTyped, Decide, crossed' \in BOOLEAN
    PROVE  FibersTyped' /\ DataTyped'
<1>. DEFINE o == [Call("stop") EXCEPT !.seen = announced]
<1>1. TypedCall(o)
  BY DEF DataTyped, GhostsTyped, TypedCall, CallOf, Rest, Call, Row, NoRow, NoCursor, Place, Operation
<1>2. FibersTyped'
  BY <1>1, CallWritten, NewCalls DEF Decide, Rests, Fiber
<1>3. DataTyped'
  BY DEF Decide, DataTyped, ShellTyped, RuntimeTyped, GhostsTyped, adapters, ghosts
<1>. QED  BY <1>2, <1>3

\* ProviderService.
LEMMA LookUpCursorTyped ==
    ASSUME FibersTyped, DataTyped, LookUpCursor, crossed' \in BOOLEAN
    PROVE  FibersTyped' /\ DataTyped'
<1>. DEFINE o == fiber["worker"]
            next == [o EXCEPT !.at = "start", !.cursor = StartCursor(o)]
<1>1. TypedCall(o) /\ o.instance \in Instance
  BY DEF LookUpCursor, At, FibersTyped, TypedCall, Fiber
<1>2. StartCursor(o) \in Nat
  BY <1>1 DEF StartCursor, NoCursor, DataTyped, Row, TypedCall, CallOf
<1>3. TypedCall(next)
  BY <1>1, <1>2 DEF TypedCall, CallOf, Place
<1>4. fiber' = [fiber EXCEPT !["worker"] = next]
  BY DEF LookUpCursor, FibersTyped
<1>5. FibersTyped'
  BY <1>3, <1>4, CallWritten DEF Fiber
<1>6. DataTyped'
  BY DEF LookUpCursor, DataTyped, ShellTyped, RuntimeTyped, GhostsTyped, adapters, ghosts
<1>. QED  BY <1>5, <1>6

LEMMA RouteTyped ==
    ASSUME FibersTyped, DataTyped, NEW f \in Fiber, Route(f), crossed' \in BOOLEAN
    PROVE  FibersTyped' /\ DataTyped'
<1>. DEFINE i == binding.instance
            o == fiber[f]
            used == [o EXCEPT !.instance = i,
                              !.at = IF o.does = "respond" THEN "read" ELSE "act"]
            gone == [o EXCEPT !.instance = i, !.at = "read"]
            resumed == [o EXCEPT !.instance = i, !.at = "start", !.recovering = TRUE,
                                 !.cursor = binding.cursor]
<1>1. \/ i \in Live /\ Rests(f) /\ UNCHANGED shell
      \/ i \in Live /\ fiber' = [fiber EXCEPT ![f] = used] /\ UNCHANGED shell
      \/ i \in Instance /\ fiber' = [fiber EXCEPT ![f] = gone] /\ UNCHANGED shell
      \/ i \in Instance /\ fiber' = [fiber EXCEPT ![f] = resumed] /\ UNCHANGED shell
      \/ GivesUp(f)
  BY DEF Route
<1>2. ASSUME i \in Instance PROVE TypedCall(used) /\ TypedCall(gone) /\ TypedCall(resumed)
  <2>1. o \in CallOf /\ binding \in Row
    BY DEF FibersTyped, DataTyped, TypedCall
  <2>2. TypedCall(used)
    BY <1>2, <2>1 DEF TypedCall, CallOf, Place
  <2>3. TypedCall(gone)
    BY <1>2, <2>1 DEF TypedCall, CallOf, Place
  <2>4. TypedCall(resumed)
    BY <1>2, <2>1 DEF TypedCall, CallOf, Place, Row
  <2>. QED  BY <2>2, <2>3, <2>4
<1>3. FibersTyped' /\ ShellTyped'
  BY <1>1, <1>2, CallWritten, NewCalls, GivesUpTyped DEF Rests, Live, DataTyped, ShellTyped
<1>4. DataTyped'
  BY <1>3 DEF Route, DataTyped, ShellTyped, RuntimeTyped, GhostsTyped, adapters, ghosts
<1>. QED  BY <1>3, <1>4

LEMMA AdoptTyped ==
    ASSUME FibersTyped, DataTyped, NEW f \in Fiber, Adopt(f), crossed' \in BOOLEAN
    PROVE  FibersTyped' /\ DataTyped'
<1>. DEFINE o == fiber[f]
            session == sessions[o.instance]
            cursor == IF session.known THEN session.conversation ELSE NoCursor
            next == [o EXCEPT !.at = "read", !.cursor = cursor]
<1>1. TypedCall(o) /\ o.instance \in Instance
  BY DEF Adopt, At, FibersTyped, TypedCall
<1>2. cursor \in Nat
  BY <1>1 DEF DataTyped, Session, NoCursor
<1>3. TypedCall(next)
  BY <1>1, <1>2 DEF TypedCall, CallOf, Place
<1>4. fiber' = [fiber EXCEPT ![f] = next]
  BY DEF Adopt, FibersTyped
<1>5. FibersTyped'
  BY <1>3, <1>4, CallWritten
<1>6. DataTyped'
  BY DEF Adopt, DataTyped, ShellTyped, RuntimeTyped, GhostsTyped, adapters, ghosts
<1>. QED  BY <1>5, <1>6

LEMMA NothingToResumeTyped ==
    ASSUME FibersTyped, DataTyped, NEW f \in Fiber, NothingToResume(f), crossed' \in BOOLEAN
    PROVE  FibersTyped' /\ DataTyped'
<1>1. FibersTyped' /\ ShellTyped'
  BY GivesUpTyped DEF NothingToResume, DataTyped
<1>2. DataTyped'
  BY <1>1 DEF NothingToResume, DataTyped, ShellTyped, RuntimeTyped, GhostsTyped, adapters, ghosts
<1>. QED  BY <1>1, <1>2

LEMMA AdapterStartsTyped ==
    ASSUME FibersTyped, DataTyped, NEW f \in Fiber, AdapterStarts(f), crossed' \in BOOLEAN
    PROVE  FibersTyped' /\ DataTyped'
<1>. DEFINE o == fiber[f]
            fresh == o.cursor = NoCursor
            conversation == IF fresh THEN opened + 1 ELSE o.cursor
<1>1. o.instance \in Instance /\ conversation \in Nat /\ TypedCall(o)
  BY DEF AdapterStarts, At, FibersTyped, DataTyped, TypedCall, CallOf
<1>2. PICK known \in BOOLEAN :
         /\ sessions' = [sessions EXCEPT ![o.instance] =
                [on |-> TRUE, conversation |-> conversation, known |-> known, turn |-> NoTurn]]
         /\ fiber' = [fiber EXCEPT ![f].at = IF o.recovering THEN "read" ELSE "stale",
                                  ![f].cursor = IF known THEN conversation ELSE NoCursor]
  BY DEF AdapterStarts
<1>3. FibersTyped'
  <2>. DEFINE next == [o EXCEPT !.at = IF o.recovering THEN "read" ELSE "stale",
                              !.cursor = IF known THEN conversation ELSE NoCursor]
  <2>1. fiber' = [fiber EXCEPT ![f] = next]
    BY <1>2 DEF FibersTyped
  <2>2. TypedCall(next)
    BY <1>1 DEF TypedCall, CallOf, Place, NoCursor
  <2>. QED  BY <2>1, <2>2, CallWritten
<1>4. sessions' \in [Instance -> Session]
  BY <1>1, <1>2 DEF DataTyped, Session, NoTurn
<1>5. DataTyped'
  BY <1>1, <1>4 DEF AdapterStarts, DataTyped, ShellTyped, RuntimeTyped, GhostsTyped, adapters, ghosts
<1>. QED  BY <1>3, <1>5

LEMMA GoesTyped ==
    ASSUME FibersTyped, NEW f \in Fiber, NEW place \in Place, Goes(f, place),
           fiber[f].instance \in Instance
    PROVE  FibersTyped'
<1>. DEFINE o == [fiber[f] EXCEPT !.at = place]
<1>1. fiber' = [fiber EXCEPT ![f] = o] /\ TypedCall(o)
  BY DEF Goes, FibersTyped, TypedCall, CallOf
<1>. QED  BY <1>1, CallWritten

LEMMA StopStaleTyped ==
    ASSUME FibersTyped, DataTyped, StopStale, crossed' \in BOOLEAN
    PROVE  FibersTyped' /\ DataTyped'
<1>1. FibersTyped'
  BY FibersKept, GoesTyped DEF StopStale, At, FibersTyped, TypedCall, Fiber, Place
<1>2. sessions' \in [Instance -> Session] /\ RuntimeTyped'
  BY SessionStopped DEF StopStale, DataTyped, RuntimeTyped
<1>3. DataTyped'
  BY <1>2 DEF StopStale, DataTyped, ShellTyped, RuntimeTyped, GhostsTyped, adapters, ghosts
<1>. QED  BY <1>1, <1>3

LEMMA StopStaleFailsTyped ==
    ASSUME FibersTyped, DataTyped, StopStaleFails, crossed' \in BOOLEAN
    PROVE  FibersTyped' /\ DataTyped'
<1>1. FibersTyped'
  BY GoesTyped DEF StopStaleFails, At, FibersTyped, TypedCall, Fiber, Place
<1>2. DataTyped'
  BY Spent DEF StopStaleFails, DataTyped, ShellTyped, RuntimeTyped, GhostsTyped, adapters, ghosts
<1>. QED  BY <1>1, <1>2

LEMMA ReadRowTyped ==
    ASSUME FibersTyped, DataTyped, NEW f \in Fiber, ReadRow(f), crossed' \in BOOLEAN
    PROVE  FibersTyped' /\ DataTyped'
<1>. DEFINE o == [fiber[f] EXCEPT !.at = "write", !.row = binding]
<1>1. fiber' = [fiber EXCEPT ![f] = o]
  BY DEF ReadRow, adapters, FibersTyped, TypedCall
<1>2. TypedCall(o)
  BY ZenonT(40) DEF ReadRow, At, adapters, Fiber, FibersTyped, DataTyped, TypedCall, CallOf, Place
<1>3. FibersTyped'
  BY <1>1, <1>2, CallWritten DEF Fiber
<1>4. DataTyped'
  BY DEF ReadRow, DataTyped, ShellTyped, RuntimeTyped, GhostsTyped, adapters, ghosts
<1>. QED  BY <1>3, <1>4

LEMMA WriteRowTyped ==
    ASSUME FibersTyped, DataTyped, NEW f \in Fiber, WriteRow(f), crossed' \in BOOLEAN
    PROVE  FibersTyped' /\ DataTyped'
<1>. DEFINE o == fiber[f]
            back == [Rest EXCEPT !.at = "bind", !.does = o.does]
            on == [Rest EXCEPT !.at = IF o.does = "send" THEN "act" ELSE "read",
                               !.does = o.does, !.instance = o.instance]
<1>1. TypedCall(o) /\ o.instance \in Instance
  BY DEF WriteRow, At, FibersTyped, TypedCall
<1>2. TypedCall(back) /\ TypedCall(on)
  BY <1>1 DEF TypedCall, CallOf, Rest, Row, NoRow, NoCursor, Place, Operation
<1>3. \/ fiber' = [fiber EXCEPT ![f] = back]
      \/ fiber' = [fiber EXCEPT ![f] = on]
      \/ fiber' = [fiber EXCEPT ![f] = Rest]
  BY DEF WriteRow, Continued
<1>4. FibersTyped'
  BY <1>2, <1>3, CallWritten, NewCalls
<1>5. RowOf(o) \in Row
  BY <1>1 DEF RowOf, StatusOf, Row, TypedCall, CallOf
<1>6. DataTyped'
  BY <1>5 DEF WriteRow, DataTyped, ShellTyped, RuntimeTyped, GhostsTyped, adapters, ghosts
<1>. QED  BY <1>4, <1>6

LEMMA SendTurnTyped ==
    ASSUME FibersTyped, DataTyped, SendTurn, crossed' \in BOOLEAN
    PROVE  FibersTyped' /\ DataTyped'
<1>. DEFINE o == fiber["send"]
            session == sessions[o.instance]
            next == [o EXCEPT !.at = "read", !.cursor = session.conversation]
<1>1. TypedCall(o) /\ o.instance \in Instance
  BY DEF SendTurn, At, FibersTyped, TypedCall, Fiber
<1>2. session \in Session /\ Turn \in Nat
  BY <1>1 DEF DataTyped, Turn
<1>3. CASE ~session.on
  <2>1. FibersTyped' /\ ShellTyped' /\ RuntimeTyped'
    BY <1>3, GivesUpTyped DEF SendTurn, DataTyped, Fiber, RuntimeTyped
  <2>2. DataTyped'
    BY <1>3, <2>1 DEF SendTurn, DataTyped, ShellTyped, RuntimeTyped, GhostsTyped, adapters, ghosts
  <2>. QED  BY <2>1, <2>2
<1>4. CASE session.on
  <2>1. fiber' = [fiber EXCEPT !["send"] = next]
    BY <1>4 DEF SendTurn, FibersTyped
  <2>2. TypedCall(next)
    BY <1>1, <1>2 DEF TypedCall, CallOf, Place, Session
  <2>3. FibersTyped'
    BY <2>1, <2>2, CallWritten DEF Fiber
  <2>4. RuntimeTyped'
    BY <1>2, <1>4, EventEmitted DEF SendTurn, DataTyped
  <2>5. sessions' \in [Instance -> Session]
    <3>1. sessions' = [sessions EXCEPT ![o.instance] =
                          [session EXCEPT !.turn = Turn, !.known = TRUE]]
      BY <1>4 DEF SendTurn, DataTyped
    <3>2. [session EXCEPT !.turn = Turn, !.known = TRUE] \in Session
      BY <1>2 DEF Session
    <3>. QED  BY <3>1, <3>2 DEF DataTyped
  <2>6. conversations' \subseteq Nat
    BY <1>2, <1>4 DEF SendTurn, DataTyped, GhostsTyped, Session
  <2>7. DataTyped'
    BY <1>4, <2>4, <2>5, <2>6
    DEF SendTurn, DataTyped, ShellTyped, RuntimeTyped, GhostsTyped, adapters, ghosts
  <2>. QED  BY <2>3, <2>7
<1>. QED  BY <1>3, <1>4

LEMMA StopSessionTyped ==
    ASSUME FibersTyped, DataTyped, NEW f \in Fiber, StopSession(f), crossed' \in BOOLEAN
    PROVE  FibersTyped' /\ DataTyped'
<1>1. fiber[f].instance \in Instance
  BY DEF StopSession, At, FibersTyped, TypedCall
<1>2. Goes(f, "read") \/ Rests(f)
  BY DEF StopSession
<1>3. FibersTyped'
  BY <1>1, <1>2, GoesTyped, CallWritten, NewCalls DEF Rests, Place
<1>4. sessions' \in [Instance -> Session] /\ RuntimeTyped'
  BY SessionStopped DEF StopSession, DataTyped, RuntimeTyped
<1>5. DataTyped'
  BY <1>4 DEF StopSession, DataTyped, ShellTyped, RuntimeTyped, GhostsTyped, adapters, ghosts
<1>. QED  BY <1>3, <1>5

LEMMA CallFailsTyped ==
    ASSUME FibersTyped, DataTyped, NEW f \in Fiber, CallFails(f), crossed' \in BOOLEAN
    PROVE  FibersTyped' /\ DataTyped'
<1>1. FibersTyped' /\ ShellTyped'
  BY GivesUpTyped DEF CallFails, DataTyped
<1>2. DataTyped'
  BY <1>1, Spent DEF CallFails, DataTyped, ShellTyped, RuntimeTyped, GhostsTyped, adapters, ghosts
<1>. QED  BY <1>1, <1>2

\* The providers, the ingestion and the server.
LEMMA TurnEndsTyped ==
    ASSUME FibersTyped, DataTyped, NEW i \in Instance, TurnEnds(i), crossed' \in BOOLEAN
    PROVE  FibersTyped' /\ DataTyped'
<1>1. FibersTyped'
  BY FibersKept DEF TurnEnds
<1>2. sessions[i] \in Session
  BY DEF DataTyped
<1>3. RuntimeTyped'
  BY <1>2, EventEmitted DEF TurnEnds, DataTyped, Session
<1>4. sessions' \in [Instance -> Session]
  <2>1. [sessions[i] EXCEPT !.turn = NoTurn] \in Session
    BY <1>2 DEF Session, NoTurn
  <2>. QED  BY <2>1 DEF TurnEnds, DataTyped
<1>5. DataTyped'
  BY <1>3, <1>4 DEF TurnEnds, DataTyped, ShellTyped, RuntimeTyped, GhostsTyped, adapters, ghosts
<1>. QED  BY <1>1, <1>5

LEMMA SessionExitsTyped ==
    ASSUME FibersTyped, DataTyped, NEW i \in Instance, SessionExits(i), crossed' \in BOOLEAN
    PROVE  FibersTyped' /\ DataTyped'
<1>1. FibersTyped'
  BY FibersKept DEF SessionExits
<1>2. sessions' \in [Instance -> Session] /\ RuntimeTyped'
  BY SessionStopped DEF SessionExits
<1>3. DataTyped'
  BY <1>2, Spent DEF SessionExits, DataTyped, ShellTyped, RuntimeTyped, GhostsTyped, adapters, ghosts
<1>. QED  BY <1>1, <1>3

LEMMA IngestTyped ==
    ASSUME FibersTyped, DataTyped, Ingest, crossed' \in BOOLEAN
    PROVE  FibersTyped' /\ DataTyped'
<1>1. FibersTyped'
  BY FibersKept DEF Ingest
<1>. DEFINE Event == [type : {"started", "ended", "exited"}, turn : Nat]
<1>2. RuntimeTyped' /\ Head(runtime) \in Event
  <2>. HIDE DEF Event
  <2>1. runtime \in Seq(Event) /\ runtime # <<>> /\ runtime' = Tail(runtime)
    BY DEF Ingest, DataTyped, RuntimeTyped, Event
  <2>2. Head(runtime) \in Event /\ Tail(runtime) \in Seq(Event)
    BY <2>1
  <2>. QED  BY <2>1, <2>2 DEF RuntimeTyped, Event
<1>3. ShellTyped'
  BY <1>2 DEF Ingest, DataTyped, ShellTyped, NoTurn
<1>4. DataTyped'
  BY <1>2, <1>3 DEF Ingest, DataTyped, ShellTyped, RuntimeTyped, GhostsTyped, adapters, ghosts
<1>. QED  BY <1>1, <1>4

LEMMA RestartTyped ==
    ASSUME FibersTyped, DataTyped, Restart, crossed' \in BOOLEAN
    PROVE  FibersTyped' /\ DataTyped'
<1>1. FibersTyped'
  BY NewCalls DEF Restart, FibersTyped, TypedCall
<1>2. binding' \in Row
  BY DEF Restart, StopAll, ActiveCursor, Live, DataTyped, Row, Session
<1>3. sessions' \in [Instance -> Session] /\ ShellTyped' /\ RuntimeTyped'
  BY DEF Restart, NoSession, NoCursor, NoTurn, Session, DataTyped, ShellTyped, RuntimeTyped
<1>4. DataTyped'
  BY <1>2, <1>3, Spent DEF Restart, DataTyped, ShellTyped, RuntimeTyped, GhostsTyped, adapters, ghosts
<1>. QED  BY <1>1, <1>4

LEMMA TypesKept == TypeOK /\ [Next]_vars => TypeOK'
<1>. SUFFICES ASSUME FibersTyped, DataTyped, [Next]_vars
              PROVE  FibersTyped' /\ DataTyped'
  BY TypeSplit DEF TypeOK, FibersTyped, TypedCall, DataTyped, ShellTyped, RuntimeTyped, GhostsTyped
<1>1. CASE UNCHANGED vars
  <2>1. FibersTyped'
    BY <1>1, FibersKept DEF vars
  <2>. QED  BY <1>1, <2>1 DEF vars, DataTyped, ShellTyped, RuntimeTyped, GhostsTyped, adapters, ghosts
<1>2. CASE Next
  <2>1. crossed' \in BOOLEAN
    BY <1>2 DEF Next, Crossing, DataTyped, GhostsTyped
  <2>2. ASSUME NEW f \in Fiber, Step(f)
        PROVE  FibersTyped' /\ DataTyped'
    BY <2>1, <2>2, RouteTyped, AdoptTyped, NothingToResumeTyped, AdapterStartsTyped, ReadRowTyped,
       WriteRowTyped, StopSessionTyped, BindTyped, LookUpCursorTyped, StopStaleTyped,
       SendTurnTyped, SessionsListedTyped, SweepTyped, DecideTyped
    DEF Step, Worker
  <2>. QED
    BY <1>2, <2>1, <2>2, EnsureSessionTyped, StopRequestedTyped, ApprovalRememberedTyped,
       RevertRequestedTyped, TurnEndsTyped, SessionExitsTyped, IngestTyped, RestartTyped,
       StopStaleFailsTyped, CallFailsTyped
    DEF Next
<1>. QED  BY <1>1, <1>2

LEMMA InitTyped == ASSUME Init PROVE TypeOK
<1>1. FibersTyped
  BY NewCalls DEF Init, FibersTyped, TypedCall
<1>2. DataTyped
  <2>1. binding \in Row /\ sessions \in [Instance -> Session]
    BY DEF Init, NoRow, Row, NoSession, NoCursor, NoTurn, Session
  <2>2. ShellTyped /\ RuntimeTyped
    BY DEF Init, ShellTyped, RuntimeTyped, NoTurn
  <2>3. GhostsTyped
    BY DEF Init, GhostsTyped
  <2>4. opened \in Nat /\ budget \in [turns : 0..MaxTurns, events : 0..MaxEvents]
    BY DEF Init
  <2>. QED  BY <2>1, <2>2, <2>3, <2>4 DEF DataTyped
<1>. QED  BY <1>1, <1>2, TypeSplit

\* Every record ProviderService keeps of a thread is of its kind, and a call
\* that goes on after its routing is about a session of an instance.
THEOREM SessionsTypeCorrect == Spec => []TypeOK
<1>1. Init => TypeOK
  BY InitTyped
<1>. QED  BY <1>1, TypesKept, PTL DEF Spec

-----------------------------------------------------------------------------
(* The binding and the sessions in step *)

Others == Fiber \ {"worker"}
Moving == fiber["worker"].does = "start" /\ ~At("worker", "bind")

\* Which calls a fiber makes.
Shaped(f, o) ==
    /\ f # "worker" => o.does # "start" /\ o.at \notin {"look", "stale", "bind"}
    /\ f # "checkpoint" => o.at # "list"
    /\ f = "worker" /\ o.does = "start" =>
          ~o.recovering /\ o.at \in {"look", "start", "stale", "read", "write", "bind"}
    /\ o.at \in {"look", "stale"} => o.does = "start"
    /\ o.at = "start" => o.recovering \/ o.does = "start"

Shape == \A f \in Fiber : Shaped(f, fiber[f])

Placed(f) ==
    fiber[f].at \in {"start", "read", "write", "act"} => fiber[f].instance = binding.instance

CallsPlaced ==
    /\ \A f \in Others : Placed(f)
    /\ ~Moving => Placed("worker")

LivePlaced ==
    \A i \in Live :
        \/ i = binding.instance /\ ~(Moving /\ fiber["worker"].at \in {"read", "write"})
        \/ i = fiber["worker"].instance /\ Moving /\ fiber["worker"].at \in {"stale", "read", "write"}

SeenPlaced ==
    At("checkpoint", "list") =>
        \A i \in fiber["checkpoint"].seen :
            /\ i \in Instance
            /\ \/ i = binding.instance
               \/ binding.instance = None /\ Moving /\ i = fiber["worker"].instance

MovesAlone ==
    Moving /\ binding.instance \notin {None, fiber["worker"].instance}
        => \A f \in Others : At(f, "rest")

InStep == CallsPlaced /\ LivePlaced /\ SeenPlaced /\ MovesAlone

-----------------------------------------------------------------------------
(* Each fiber makes its own calls *)

LEMMA ShapeWritten ==
    ASSUME TypeOK, Shape, NEW f \in Fiber, NEW o, Shaped(f, o), fiber' = [fiber EXCEPT ![f] = o]
    PROVE  Shape'
  BY DEF TypeOK, Shape

LEMMA ShapeKept == ASSUME Shape, UNCHANGED fiber PROVE Shape'
  BY DEF Shape

LEMMA NewCallsShaped ==
    \A f \in Fiber :
        /\ Shaped(f, Rest)
        /\ \A does \in Operation \ {"start"} : Shaped(f, Call(does))
  BY DEF Shaped, Rest, Call, Operation

LEMMA EnsureSessionShape ==
    ASSUME TypeOK, Shape, NEW j \in Instance, EnsureSession(j)
    PROVE  Shape'
<1>1. PICK o :
         /\ o.at = "look" /\ o.does = "start" /\ ~o.recovering
         /\ \/ UNCHANGED fiber
            \/ fiber' = [fiber EXCEPT !["send"] = Call("send")]
            \/ fiber' = [fiber EXCEPT !["worker"] = o]
  <2>. DEFINE used == shell.status \notin {"none", "stopped"} /\ Live # {}
              active == CHOOSE i \in Live : TRUE
              o == [Rest EXCEPT !.at = "look", !.does = "start", !.instance = j,
                                !.cursor = IF used THEN ActiveCursor(active) ELSE NoCursor]
  <2>1. o.at = "look" /\ o.does = "start" /\ ~o.recovering
    BY DEF Rest
  <2>. QED  BY <2>1 DEF EnsureSession
<1>2. Shaped("worker", o)
  BY <1>1 DEF Shaped
<1>. QED  BY <1>1, <1>2, ShapeWritten, ShapeKept, NewCallsShaped DEF Fiber, Operation

LEMMA StopRequestedShape ==
    ASSUME TypeOK, Shape, StopRequested
    PROVE  Shape'
  BY ShapeWritten, ShapeKept, NewCallsShaped DEF StopRequested, Rests, Fiber, Operation

LEMMA ApprovalRememberedShape ==
    ASSUME TypeOK, Shape, ApprovalRemembered
    PROVE  Shape'
  BY ShapeWritten, ShapeKept, NewCallsShaped DEF ApprovalRemembered, Rests, Fiber, Operation

LEMMA BindShape ==
    ASSUME TypeOK, Shape, Bind
    PROVE  Shape'
<1>1. \/ fiber' = [fiber EXCEPT !["worker"] = Rest, !["send"] = Call("send")]
      \/ fiber' = [fiber EXCEPT !["worker"] = Rest]
  BY DEF Bind, Rests
<1>. QED  BY <1>1, NewCallsShaped DEF TypeOK, Shape, Fiber, Operation

LEMMA RevertRequestedShape ==
    ASSUME TypeOK, Shape, RevertRequested
    PROVE  Shape'
  BY DEF RevertRequested, TypeOK, Shape, Shaped, Rest, Fiber

LEMMA SessionsListedShape ==
    ASSUME TypeOK, Shape, SessionsListed
    PROVE  Shape'
  BY ShapeWritten, NewCallsShaped DEF SessionsListed, Fiber, Operation

LEMMA SweepShape ==
    ASSUME TypeOK, Shape, Sweep
    PROVE  Shape'
  BY DEF Sweep, TypeOK, Shape, Shaped, Rest, Fiber

LEMMA DecideShape ==
    ASSUME TypeOK, Shape, Decide
    PROVE  Shape'
<1>. DEFINE o == [Call("stop") EXCEPT !.seen = announced]
<1>1. Shaped("reaper", o)
  BY DEF Shaped, Call, Rest
<1>. QED  BY <1>1, ShapeWritten, NewCallsShaped DEF Decide, Rests, Fiber

LEMMA LookUpCursorShape ==
    ASSUME TypeOK, Shape, LookUpCursor
    PROVE  Shape'
  BY ZenonT(40) DEF LookUpCursor, At, TypeOK, CallOf, Shape, Shaped, Fiber

LEMMA RouteShape ==
    ASSUME TypeOK, Shape, NEW f \in Fiber, Route(f)
    PROVE  Shape'
<1>. DEFINE i == binding.instance
            o == fiber[f]
            used == [o EXCEPT !.instance = i,
                              !.at = IF o.does = "respond" THEN "read" ELSE "act"]
            gone == [o EXCEPT !.instance = i, !.at = "read"]
            resumed == [o EXCEPT !.instance = i, !.at = "start", !.recovering = TRUE,
                                 !.cursor = binding.cursor]
<1>1. \/ fiber' = [fiber EXCEPT ![f] = Rest]
      \/ fiber' = [fiber EXCEPT ![f] = used]
      \/ fiber' = [fiber EXCEPT ![f] = gone]
      \/ fiber' = [fiber EXCEPT ![f] = resumed]
  BY DEF Route, GivesUp, Rests
<1>2. Shaped(f, used) /\ Shaped(f, gone) /\ Shaped(f, resumed)
  BY DEF Route, At, TypeOK, CallOf, Shape, Shaped
<1>. QED  BY <1>1, <1>2, ShapeWritten, NewCallsShaped

LEMMA AdoptShape ==
    ASSUME TypeOK, Shape, NEW f \in Fiber, Adopt(f)
    PROVE  Shape'
<1>1. PICK cursor : fiber' = [fiber EXCEPT ![f].at = "read", ![f].cursor = cursor]
  BY DEF Adopt
<1>. DEFINE o == [fiber[f] EXCEPT !.at = "read", !.cursor = cursor]
<1>2. fiber' = [fiber EXCEPT ![f] = o]
  BY <1>1 DEF TypeOK
<1>3. Shaped(f, o)
  BY DEF Adopt, Adoptable, At, TypeOK, CallOf, Shape, Shaped
<1>. QED  BY <1>2, <1>3, ShapeWritten

LEMMA NothingToResumeShape ==
    ASSUME TypeOK, Shape, NEW f \in Fiber, NothingToResume(f)
    PROVE  Shape'
  BY ShapeWritten, NewCallsShaped DEF NothingToResume, GivesUp, Rests

LEMMA AdapterStartsShape ==
    ASSUME TypeOK, Shape, NEW f \in Fiber, AdapterStarts(f)
    PROVE  Shape'
<1>1. PICK cursor :
         fiber' = [fiber EXCEPT ![f].at = IF fiber[f].recovering THEN "read" ELSE "stale",
                              ![f].cursor = cursor]
  BY DEF AdapterStarts
<1>. DEFINE o == [fiber[f] EXCEPT !.at = IF fiber[f].recovering THEN "read" ELSE "stale",
                                !.cursor = cursor]
<1>2. fiber' = [fiber EXCEPT ![f] = o]
  BY <1>1 DEF TypeOK
<1>3. Shaped(f, o)
  BY DEF AdapterStarts, At, TypeOK, CallOf, Shape, Shaped
<1>. QED  BY <1>2, <1>3, ShapeWritten

LEMMA StopStaleShape ==
    ASSUME TypeOK, Shape, StopStale
    PROVE  Shape'
<1>1. UNCHANGED fiber \/ Goes("worker", "read")
  BY Zenon DEF StopStale
<1>2. At("worker", "stale")
  BY DEF StopStale
<1>. DEFINE o == [fiber["worker"] EXCEPT !.at = "read"]
<1>3. Goes("worker", "read") => fiber' = [fiber EXCEPT !["worker"] = o]
  BY DEF Goes, TypeOK
<1>4. Shaped("worker", o)
  BY <1>2 DEF At, TypeOK, CallOf, Shape, Shaped, Fiber
<1>. QED  BY <1>1, <1>3, <1>4, ShapeKept, ShapeWritten DEF Fiber

LEMMA StopStaleFailsShape ==
    ASSUME TypeOK, Shape, StopStaleFails
    PROVE  Shape'
  BY DEF StopStaleFails, Goes, At, TypeOK, CallOf, Shape, Shaped, Fiber

LEMMA ReadRowShape ==
    ASSUME TypeOK, Shape, NEW f \in Fiber, ReadRow(f)
    PROVE  Shape'
<1>. DEFINE o == [fiber[f] EXCEPT !.at = "write", !.row = binding]
<1>1. fiber' = [fiber EXCEPT ![f] = o]
  BY DEF ReadRow, TypeOK
<1>2. Shaped(f, o)
  BY DEF ReadRow, At, TypeOK, CallOf, Shape, Shaped
<1>. QED  BY <1>1, <1>2, ShapeWritten

LEMMA WriteRowShape ==
    ASSUME TypeOK, Shape, NEW f \in Fiber, WriteRow(f)
    PROVE  Shape'
  BY DEF WriteRow, Continued, Rest, At, TypeOK, Shape, Shaped

LEMMA SendTurnShape ==
    ASSUME TypeOK, Shape, SendTurn
    PROVE  Shape'
  BY DEF SendTurn, GivesUp, Rests, Rest, TypeOK, CallOf, Shape, Shaped, Fiber

LEMMA StopSessionShape ==
    ASSUME TypeOK, Shape, NEW f \in Fiber, StopSession(f)
    PROVE  Shape'
<1>. DEFINE o == [fiber[f] EXCEPT !.at = "read"]
<1>1. fiber' = [fiber EXCEPT ![f] = o] \/ fiber' = [fiber EXCEPT ![f] = Rest]
  BY DEF StopSession, Goes, Rests, TypeOK
<1>2. Shaped(f, o)
  BY DEF StopSession, TypeOK, CallOf, Shape, Shaped
<1>. QED  BY <1>1, <1>2, ShapeWritten, NewCallsShaped

LEMMA CallFailsShape ==
    ASSUME TypeOK, Shape, NEW f \in Fiber, CallFails(f)
    PROVE  Shape'
  BY ShapeWritten, NewCallsShaped DEF CallFails, GivesUp, Rests

LEMMA RestartShape ==
    ASSUME TypeOK, Shape, Restart
    PROVE  Shape'
  BY NewCallsShaped DEF Restart, Shape

-----------------------------------------------------------------------------
(* Each step keeps binding and sessions in step *)

\* Where a call of f can go without parting binding and sessions.
Fits(f, o) ==
    LET moves == o.does = "start" /\ o.at # "bind"
    IN  /\ o.at # "list"
        /\ ~(f = "worker" /\ moves) /\ o.at \in {"start", "read", "write", "act"}
              => o.instance = binding.instance
        /\ f = "worker" /\ ~Moving /\ moves => o.at = "look"
        /\ f = "worker" /\ Moving =>
              /\ moves /\ o.instance = fiber[f].instance
              /\ fiber[f].at \in {"look", "start"} => o.at \in {"look", "start"}
              /\ fiber[f].at \in {"read", "write"} => o.at \in {"read", "write"}
              /\ fiber[f].at = "stale" =>
                    o.at \in {"read", "write"} /\ \A i \in Live : i = o.instance

LEMMA CallFits ==
    ASSUME TypeOK, Shape, InStep, MovesAlone', NEW f \in Fiber, NEW o, Fits(f, o),
           fiber' = [fiber EXCEPT ![f] = o], UNCHANGED binding, Live' \subseteq Live
    PROVE  InStep'
<1>1. fiber'[f] = o /\ \A g \in Fiber \ {f} : fiber'[g] = fiber[g]
  BY DEF TypeOK
<1>2. f = "worker" /\ Moving => fiber[f].at \in {"look", "start", "stale", "read", "write"}
  BY DEF Shape, Shaped, Moving, At
<1>3. CallsPlaced'
  BY <1>1, <1>2 DEF InStep, CallsPlaced, Placed, Fits, Moving, At, Others, Fiber
<1>4. LivePlaced'
  <2>1. CASE f = "worker"
    <3>1. fiber'["worker"] = o
      BY <1>1, <2>1
    <3>2. CASE Moving
      BY <1>2, <2>1, <3>1, <3>2 DEF InStep, LivePlaced, Fits, Moving, At
    <3>3. CASE ~Moving
      BY <2>1, <3>1, <3>3 DEF InStep, LivePlaced, Fits, Moving, At
    <3>. QED  BY <3>2, <3>3
  <2>2. CASE f # "worker"
    <3>1. fiber'["worker"] = fiber["worker"]
      BY <1>1, <2>2 DEF Fiber
    <3>. QED  BY <3>1 DEF InStep, LivePlaced, Moving, At
  <2>. QED  BY <2>1, <2>2
<1>5. SeenPlaced'
  BY <1>1, <1>2 DEF InStep, SeenPlaced, Fits, Moving, At, Fiber
<1>. QED  BY <1>3, <1>4, <1>5 DEF InStep

LEMMA FibersStay ==
    ASSUME InStep, UNCHANGED <<fiber, binding>>, Live' \subseteq Live
    PROVE  InStep'
  BY DEF InStep, CallsPlaced, LivePlaced, SeenPlaced, MovesAlone, Placed, Moving, At

LEMMA RestFits == \A f \in Fiber : ~(f = "worker" /\ Moving) => Fits(f, Rest)
  BY DEF Fits, Rest

LEMMA CallsFit ==
    \A f \in Fiber : \A does \in Operation \ {"start"} :
        ~(f = "worker" /\ Moving) => Fits(f, Call(does))
  BY DEF Fits, Call, Rest, Operation

LEMMA Ending ==
    ASSUME TypeOK, NEW i \in Instance, Stopped(i)
    PROVE  Live' = Live \ {i}
  BY DEF TypeOK, Stopped, NoSession, Live

LEMMA EnsureSessionInStep ==
    ASSUME TypeOK, Shape, InStep, NEW j \in Instance, EnsureSession(j), MovesAlone'
    PROVE  InStep'
<1>1. PICK o :
         /\ o.at = "look" /\ o.does = "start"
         /\ \/ UNCHANGED fiber
            \/ fiber' = [fiber EXCEPT !["send"] = Call("send")]
            \/ fiber' = [fiber EXCEPT !["worker"] = o]
  <2>. DEFINE used == shell.status \notin {"none", "stopped"} /\ Live # {}
              active == CHOOSE i \in Live : TRUE
              o == [Rest EXCEPT !.at = "look", !.does = "start", !.instance = j,
                                !.cursor = IF used THEN ActiveCursor(active) ELSE NoCursor]
  <2>1. o.at = "look" /\ o.does = "start"
    BY DEF Rest
  <2>. QED  BY <2>1 DEF EnsureSession
<1>2. ~Moving /\ UNCHANGED <<binding, Live>>
  BY DEF EnsureSession, At, Shape, Shaped, Fiber, Moving, Live, adapters
<1>3. Fits("worker", o)
  BY <1>1, <1>2 DEF Fits
<1>. QED  BY <1>1, <1>2, <1>3, CallFits, CallsFit, FibersStay DEF Fiber, Operation

LEMMA StopRequestedInStep ==
    ASSUME TypeOK, Shape, InStep, StopRequested, MovesAlone'
    PROVE  InStep'
<1>1. ~Moving /\ UNCHANGED <<binding, Live>>
  BY DEF StopRequested, At, Shape, Shaped, Fiber, Moving, Live, adapters
<1>. QED  BY <1>1, CallFits, CallsFit, FibersStay DEF StopRequested, Fiber, Operation

LEMMA ApprovalRememberedInStep ==
    ASSUME TypeOK, Shape, InStep, ApprovalRemembered, MovesAlone'
    PROVE  InStep'
<1>1. ~Moving /\ UNCHANGED <<binding, Live>>
  BY DEF ApprovalRemembered, At, Shape, Shaped, Fiber, Moving, Live, adapters
<1>. QED  BY <1>1, CallFits, CallsFit, FibersStay DEF ApprovalRemembered, Fiber, Operation

LEMMA BindInStep ==
    ASSUME TypeOK, Shape, InStep, Bind, MovesAlone'
    PROVE  InStep'
<1>. DEFINE set == [fiber EXCEPT !["worker"] = Rest]
<1>1. ~Moving /\ UNCHANGED <<binding, Live>>
  BY DEF Bind, At, Moving, Live, adapters
<1>2. CASE fiber["worker"].does # "start"
  BY <1>1, <1>2, CallFits, RestFits DEF Bind, Rests, Fiber
<1>3. CASE fiber["worker"].does = "start"
  <2>1. fiber' = [fiber EXCEPT !["worker"] = Rest, !["send"] = Call("send")]
    BY <1>3 DEF Bind
  <2>2. /\ fiber'["worker"] = Rest /\ fiber'["send"] = Call("send")
        /\ \A f \in {"checkpoint", "reaper"} : fiber'[f] = fiber[f]
    BY <2>1 DEF TypeOK, Fiber
  <2>3. Call("send").at = "route" /\ Rest.at = "rest" /\ Rest.does = "nothing"
    BY DEF Call, Rest
  <2>4. CallsPlaced'
    BY <1>1, <2>2, <2>3 DEF InStep, CallsPlaced, Placed, Moving, At, Others, Fiber
  <2>5. LivePlaced' /\ SeenPlaced'
    BY <1>1, <2>2, <2>3 DEF InStep, LivePlaced, SeenPlaced, Moving, At
  <2>. QED  BY <2>4, <2>5 DEF InStep
<1>. QED  BY <1>2, <1>3

LEMMA RevertRequestedInStep ==
    ASSUME TypeOK, Shape, InStep, RevertRequested, MovesAlone'
    PROVE  InStep'
<1>. DEFINE o == [Rest EXCEPT !.at = "list", !.seen = Live]
<1>1. UNCHANGED <<binding, Live>> /\ fiber' = [fiber EXCEPT !["checkpoint"] = o]
  BY DEF RevertRequested, Live, adapters
<1>2. /\ o.at = "list" /\ o.seen = Live /\ fiber'["checkpoint"] = o
      /\ \A f \in Fiber \ {"checkpoint"} : fiber'[f] = fiber[f]
  BY <1>1 DEF Rest, TypeOK, Fiber
<1>3. CallsPlaced' /\ LivePlaced'
  BY <1>1, <1>2 DEF InStep, CallsPlaced, LivePlaced, Placed, Moving, At, Others, Fiber
<1>4. SeenPlaced'
  <2>1. ASSUME NEW i \in Live
        PROVE  \/ i = binding.instance
               \/ binding.instance = None /\ Moving /\ i = fiber["worker"].instance
    <3>1. CASE i = fiber["worker"].instance /\ Moving /\ binding.instance # None /\ binding.instance # i
      <4>1. At("checkpoint", "rest")'
        BY <1>1, <1>2, <3>1 DEF MovesAlone, Moving, At, Others, Fiber
      <4>. QED  BY <4>1, <1>2 DEF At
    <3>. QED  BY <3>1 DEF InStep, LivePlaced
  <2>. QED  BY <1>1, <1>2, <2>1 DEF SeenPlaced, Moving, At, Fiber, Live
<1>. QED  BY <1>3, <1>4 DEF InStep

LEMMA SessionsListedInStep ==
    ASSUME TypeOK, Shape, InStep, SessionsListed, MovesAlone'
    PROVE  InStep'
<1>1. UNCHANGED <<binding, Live>>
  BY DEF SessionsListed, Live, adapters
<1>. QED  BY <1>1, CallFits, RestFits, CallsFit DEF SessionsListed, Fiber, Operation

LEMMA SweepInStep ==
    ASSUME TypeOK, Shape, InStep, Sweep, MovesAlone'
    PROVE  InStep'
<1>. DEFINE o == [Rest EXCEPT !.at = "decide"]
<1>1. UNCHANGED <<binding, Live>> /\ Fits("reaper", o)
  BY DEF Sweep, Live, adapters, Fits, Rest
<1>. QED  BY <1>1, CallFits DEF Sweep, Fiber

LEMMA DecideInStep ==
    ASSUME TypeOK, Shape, InStep, Decide, MovesAlone'
    PROVE  InStep'
<1>. DEFINE o == [Call("stop") EXCEPT !.seen = announced]
<1>1. UNCHANGED <<binding, Live>> /\ Fits("reaper", o)
  BY DEF Decide, Live, adapters, Fits, Call, Rest
<1>. QED  BY <1>1, CallFits, RestFits DEF Decide, Rests, Fiber

LEMMA LookUpCursorInStep ==
    ASSUME TypeOK, Shape, InStep, LookUpCursor, MovesAlone'
    PROVE  InStep'
<1>. DEFINE o == [fiber["worker"] EXCEPT !.at = "start", !.cursor = StartCursor(fiber["worker"])]
<1>1. UNCHANGED <<binding, Live>> /\ fiber' = [fiber EXCEPT !["worker"] = o]
  BY DEF LookUpCursor, Live, adapters, TypeOK
<1>2. fiber["worker"].at = "look" /\ fiber["worker"].does = "start"
  BY DEF LookUpCursor, At, Shape, Shaped, Fiber
<1>3. o.at = "start" /\ o.does = "start" /\ o.instance = fiber["worker"].instance
  BY <1>2 DEF TypeOK, CallOf, Fiber
<1>4. Fits("worker", o)
  BY <1>2, <1>3 DEF Fits, Moving, At
<1>. QED  BY <1>1, <1>4, CallFits DEF Fiber

LEMMA RouteInStep ==
    ASSUME TypeOK, Shape, InStep, NEW f \in Fiber, Route(f), MovesAlone'
    PROVE  InStep'
<1>. DEFINE i == binding.instance
            o == fiber[f]
            used == [o EXCEPT !.instance = i,
                              !.at = IF o.does = "respond" THEN "read" ELSE "act"]
            gone == [o EXCEPT !.instance = i, !.at = "read"]
            resumed == [o EXCEPT !.instance = i, !.at = "start", !.recovering = TRUE,
                                 !.cursor = binding.cursor]
<1>1. \/ fiber' = [fiber EXCEPT ![f] = Rest]
      \/ fiber' = [fiber EXCEPT ![f] = used]
      \/ fiber' = [fiber EXCEPT ![f] = gone]
      \/ fiber' = [fiber EXCEPT ![f] = resumed]
  BY DEF Route, GivesUp, Rests
<1>2. UNCHANGED <<binding, Live>>
  BY DEF Route, Live, adapters
<1>3. o.does # "start" /\ ~(f = "worker" /\ Moving)
  BY DEF Route, At, Shape, Shaped, Moving
<1>4. Fits(f, used) /\ Fits(f, gone) /\ Fits(f, resumed)
  BY <1>3 DEF Fits, TypeOK, CallOf
<1>. QED  BY <1>1, <1>2, <1>3, <1>4, CallFits, RestFits

LEMMA AdoptInStep ==
    ASSUME TypeOK, Shape, InStep, NEW f \in Fiber, Adopt(f), MovesAlone'
    PROVE  InStep'
<1>. DEFINE o == fiber[f]
            session == sessions[o.instance]
            next == [o EXCEPT !.at = "read",
                              !.cursor = IF session.known THEN session.conversation ELSE NoCursor]
<1>1. fiber' = [fiber EXCEPT ![f] = next] /\ UNCHANGED <<binding, Live>>
  BY DEF Adopt, Live, adapters, TypeOK
<1>2. o.at = "start" /\ o.recovering /\ ~(f = "worker" /\ Moving) /\ o.does # "start"
  BY DEF Adopt, Adoptable, At, Shape, Shaped, Moving, Fiber
<1>3. o.instance = binding.instance
  BY <1>2 DEF InStep, CallsPlaced, Placed, Others, Fiber
<1>4. Fits(f, next)
  BY <1>2, <1>3 DEF Fits, TypeOK, CallOf
<1>. QED  BY <1>1, <1>4, CallFits

LEMMA NothingToResumeInStep ==
    ASSUME TypeOK, Shape, InStep, NEW f \in Fiber, NothingToResume(f), MovesAlone'
    PROVE  InStep'
<1>1. UNCHANGED <<binding, Live>> /\ fiber' = [fiber EXCEPT ![f] = Rest]
  BY DEF NothingToResume, GivesUp, Rests, Live, adapters
<1>2. ~(f = "worker" /\ Moving)
  BY DEF NothingToResume, At, Shape, Shaped, Moving, Fiber
<1>. QED  BY <1>1, <1>2, CallFits, RestFits

LEMMA AdapterStartsInStep ==
    ASSUME TypeOK, Shape, InStep, NEW f \in Fiber, AdapterStarts(f), MovesAlone'
    PROVE  InStep'
<1>. DEFINE o == fiber[f]
<1>1. PICK cursor :
         fiber' = [fiber EXCEPT ![f].at = IF o.recovering THEN "read" ELSE "stale",
                              ![f].cursor = cursor]
  BY DEF AdapterStarts
<1>. DEFINE next == [o EXCEPT !.at = IF o.recovering THEN "read" ELSE "stale", !.cursor = cursor]
<1>2. /\ fiber'[f] = next /\ next.does = o.does /\ next.instance = o.instance
      /\ next.at = IF o.recovering THEN "read" ELSE "stale"
      /\ next.seen = o.seen
      /\ \A g \in Fiber \ {f} : fiber'[g] = fiber[g]
  BY <1>1 DEF TypeOK, CallOf
<1>3. UNCHANGED binding /\ Live' \subseteq Live \cup {o.instance}
  BY DEF AdapterStarts, Live, TypeOK
<1>4. o.at = "start"
  BY DEF AdapterStarts, At
<1>5. CASE f = "worker" /\ Moving
  <2>1. ~o.recovering /\ o.does = "start"
    BY <1>5 DEF Shape, Shaped, Moving, Fiber
  <2>2. next.at = "stale" /\ next.does = "start"
    BY <1>2, <2>1
  <2>3. CallsPlaced'
    BY <1>2, <1>3, <1>5, <2>2 DEF InStep, CallsPlaced, Placed, Moving, At, Others, Fiber
  <2>4. LivePlaced'
    BY <1>2, <1>3, <1>4, <1>5, <2>2 DEF InStep, LivePlaced, Moving, At
  <2>5. SeenPlaced'
    <3>1. fiber'["checkpoint"] = fiber["checkpoint"] /\ fiber'["worker"] = next
      BY <1>2, <1>5 DEF Fiber
    <3>. QED  BY <1>2, <1>3, <1>5, <2>2, <3>1 DEF InStep, SeenPlaced, Moving, At
  <2>. QED  BY <2>3, <2>4, <2>5 DEF InStep
<1>6. CASE ~(f = "worker" /\ Moving)
  <2>1. o.does # "start" /\ o.recovering
    BY <1>4, <1>6 DEF Shape, Shaped, Moving, At, Fiber
  <2>2. o.instance = binding.instance /\ o.instance \in Instance
    BY <1>4, <1>6 DEF InStep, CallsPlaced, Placed, Others, TypeOK
  <2>3. next.at = "read"
    BY <1>2, <2>1
  <2>4. CallsPlaced'
    BY <1>2, <1>3, <1>6, <2>1, <2>2, <2>3, ZenonT(30) DEF InStep, CallsPlaced, Placed, Moving, At, Others, Fiber
  <2>5. LivePlaced'
    <3>1. CASE f = "worker"
      BY <1>2, <1>3, <1>6, <2>1, <2>2, <2>3, <3>1 DEF InStep, LivePlaced, Moving, At
    <3>2. CASE f # "worker"
      <4>1. fiber'["worker"] = fiber["worker"] /\ ~At(f, "rest")'
        BY <1>2, <2>3, <3>2 DEF Fiber, At
      <4>2. Moving => binding.instance = fiber["worker"].instance
        BY <1>3, <2>2, <3>2, <4>1 DEF MovesAlone, Moving, At, Others, TypeOK
      <4>. QED  BY <1>3, <2>2, <4>1, <4>2 DEF InStep, LivePlaced, Moving, At
    <3>. QED  BY <3>1, <3>2
  <2>6. SeenPlaced'
    <3>1. At("checkpoint", "list")' => fiber'["checkpoint"] = fiber["checkpoint"]
      BY <1>2, <2>3 DEF At, Fiber
    <3>2. Moving => fiber'["worker"] = fiber["worker"]
      BY <1>2, <1>6 DEF Fiber
    <3>. QED  BY <1>3, <3>1, <3>2 DEF InStep, SeenPlaced, Moving, At
  <2>. QED  BY <2>4, <2>5, <2>6 DEF InStep
<1>. QED  BY <1>5, <1>6

LEMMA StopStaleInStep ==
    ASSUME TypeOK, Shape, InStep, StopStale, MovesAlone'
    PROVE  InStep'
<1>. DEFINE o == [fiber["worker"] EXCEPT !.at = "read"]
<1>1. UNCHANGED binding
  BY DEF StopStale
<1>2. CASE \E i \in Stale : Stopped(i)
  <2>1. Live' \subseteq Live
    BY <1>2, Ending DEF Stale, Live
  <2>2. CASE UNCHANGED fiber
    BY <1>1, <2>1, <2>2, FibersStay
  <2>. QED  BY <1>2, <2>2 DEF StopStale
<1>3. CASE Stale = {} /\ Goes("worker", "read") /\ UNCHANGED sessions
  <2>1. fiber' = [fiber EXCEPT !["worker"] = o] /\ UNCHANGED Live
    BY <1>3 DEF Goes, TypeOK, Live
  <2>2. fiber["worker"].at = "stale" /\ fiber["worker"].does = "start"
    BY DEF StopStale, At, Shape, Shaped, Fiber
  <2>3. o.at = "read" /\ o.does = "start" /\ o.instance = fiber["worker"].instance
    BY <2>2 DEF TypeOK, CallOf, Fiber
  <2>4. Fits("worker", o)
    BY <1>3, <2>2, <2>3 DEF Fits, Moving, At, Stale
  <2>. QED  BY <1>1, <2>1, <2>4, CallFits DEF Fiber
<1>. QED  BY <1>2, <1>3 DEF StopStale

LEMMA ReadRowInStep ==
    ASSUME TypeOK, Shape, InStep, NEW f \in Fiber, ReadRow(f), MovesAlone'
    PROVE  InStep'
<1>. DEFINE o == fiber[f]
            next == [o EXCEPT !.at = "write", !.row = binding]
<1>1. fiber' = [fiber EXCEPT ![f] = next] /\ UNCHANGED <<binding, Live>>
  BY DEF ReadRow, Live, adapters, TypeOK
<1>2. /\ o.at = "read"
      /\ next.at = "write" /\ next.does = o.does /\ next.instance = o.instance
  BY DEF ReadRow, At, TypeOK, CallOf
<1>3. ~(f = "worker" /\ Moving) => o.does # "start" /\ o.instance = binding.instance
  BY <1>2 DEF InStep, CallsPlaced, Placed, Others, Moving, At, Shape, Shaped
<1>4. Fits(f, next)
  BY <1>2, <1>3 DEF Fits, Moving, At
<1>. QED  BY <1>1, <1>4, CallFits

LEMMA WriteRowInStep ==
    ASSUME TypeOK, Shape, InStep, NEW f \in Fiber, WriteRow(f), MovesAlone'
    PROVE  InStep'
<1>. DEFINE o == fiber[f]
<1>1. o.at = "write" /\ binding'.instance = o.instance /\ UNCHANGED Live
  BY DEF WriteRow, At, RowOf, Live, adapters
<1>2. PICK next :
         /\ fiber' = [fiber EXCEPT ![f] = next]
         /\ next.at \in {"rest", "bind", "act", "read"}
         /\ next.at # "bind" => next.does # "start"
         /\ next.at \in {"act", "read"} => next.instance = o.instance
  <2>. DEFINE back == [Rest EXCEPT !.at = "bind", !.does = o.does]
              on == [Rest EXCEPT !.at = IF o.does = "send" THEN "act" ELSE "read",
                                 !.does = o.does, !.instance = o.instance]
  <2>1. /\ back.at = "bind" /\ Rest.at = "rest" /\ Rest.does = "nothing"
        /\ on.at \in {"act", "read"} /\ on.does = o.does /\ on.instance = o.instance
    BY DEF Rest
  <2>2. o.recovering => o.does # "start"
    BY DEF Shape, Shaped
  <2>3. \/ fiber' = [fiber EXCEPT ![f] = back]
        \/ o.recovering /\ fiber' = [fiber EXCEPT ![f] = on]
        \/ fiber' = [fiber EXCEPT ![f] = Rest]
    <3>1. fiber' = [fiber EXCEPT ![f] = back] \/ fiber' = [fiber EXCEPT ![f] = Continued(o)]
      BY DEF WriteRow
    <3>2. (o.recovering /\ Continued(o) = on) \/ Continued(o) = Rest
      BY DEF Continued
    <3>. QED  BY <3>1, <3>2
  <2>. HIDE DEF back, on
  <2>4. CASE fiber' = [fiber EXCEPT ![f] = back]
    BY <2>1, <2>4
  <2>5. CASE o.recovering /\ fiber' = [fiber EXCEPT ![f] = on]
    BY <2>1, <2>2, <2>5
  <2>6. CASE fiber' = [fiber EXCEPT ![f] = Rest]
    BY <2>1, <2>6
  <2>. QED  BY <2>3, <2>4, <2>5, <2>6
<1>3. /\ fiber'[f] = next
      /\ \A g \in Fiber \ {f} : fiber'[g] = fiber[g]
  BY <1>2 DEF TypeOK
<1>4. CASE f = "worker" /\ Moving
  <2>1. \A g \in Others : At(g, "rest") \/ binding.instance \in {None, o.instance}
    BY <1>4 DEF InStep, MovesAlone
  <2>2. o.does = "start" /\ ~o.recovering
    BY <1>4 DEF Moving, Shape, Shaped, Fiber
  <2>3. fiber'["worker"].at = "bind"
    <3>1. fiber' = [fiber EXCEPT !["worker"] = [Rest EXCEPT !.at = "bind", !.does = o.does]]
      BY <1>4, <2>2 DEF WriteRow
    <3>. QED  BY <3>1 DEF TypeOK, Fiber, Rest
  <2>4. CallsPlaced'
    <3>1. Placed("worker")'
      BY <2>3 DEF Placed
    <3>2. ASSUME NEW g \in Others PROVE Placed(g)'
      <4>1. fiber'[g] = fiber[g] /\ g \in Fiber
        BY <1>3, <1>4 DEF Others, Fiber
      <4>2. CASE binding.instance \in {None, o.instance}
        BY <1>1, <4>1, <4>2 DEF InStep, CallsPlaced, Placed, TypeOK
      <4>3. CASE At(g, "rest")
        BY <4>1, <4>3 DEF Placed, At
      <4>. QED  BY <2>1, <4>2, <4>3
    <3>. QED  BY <3>1, <3>2 DEF CallsPlaced
  <2>5. LivePlaced'
    BY <1>1, <1>4, <2>3 DEF InStep, LivePlaced, Moving, At
  <2>6. SeenPlaced'
    <3>1. fiber'["checkpoint"] = fiber["checkpoint"] /\ "checkpoint" \in Others
      BY <1>3, <1>4 DEF Others, Fiber
    <3>2. CASE At("checkpoint", "rest")
      BY <3>1, <3>2 DEF SeenPlaced, At
    <3>3. CASE binding.instance \in {None, o.instance}
      BY <1>1, <1>4, <3>1, <3>3 DEF InStep, SeenPlaced, At
    <3>. QED  BY <2>1, <3>1, <3>2, <3>3
  <2>. QED  BY <2>4, <2>5, <2>6 DEF InStep
<1>5. CASE ~(f = "worker" /\ Moving)
  <2>1. o.instance = binding.instance
    BY <1>1, <1>5 DEF InStep, CallsPlaced, Placed, Others
  <2>2. binding'.instance = binding.instance
    BY <1>1, <2>1
  <2>3. f = "worker" => ~Moving'
    <3>1. next.does = "start" => next.at = "bind"
      BY <1>2
    <3>2. f = "worker" => fiber'["worker"] = next
      BY <1>3
    <3>. QED  BY <3>1, <3>2 DEF Moving, At
  <2>4. CallsPlaced'
    BY <1>2, <1>3, <1>5, <2>1, <2>2, <2>3 DEF InStep, CallsPlaced, Placed, Moving, At, Others, Fiber
  <2>5. LivePlaced'
    BY <1>1, <1>3, <1>5, <2>2, <2>3 DEF InStep, LivePlaced, Moving, At, Fiber
  <2>6. SeenPlaced'
    BY <1>2, <1>3, <1>5, <2>2, <2>3 DEF InStep, SeenPlaced, Moving, At, Fiber
  <2>. QED  BY <2>4, <2>5, <2>6 DEF InStep
<1>. QED  BY <1>4, <1>5

LEMMA SendTurnInStep ==
    ASSUME TypeOK, Shape, InStep, SendTurn, MovesAlone'
    PROVE  InStep'
<1>. DEFINE o == fiber["send"]
            next == [o EXCEPT !.at = "read", !.cursor = sessions[o.instance].conversation]
<1>1. UNCHANGED binding /\ o.at = "act"
  BY DEF SendTurn, At
<1>2. Live' \subseteq Live
  BY DEF SendTurn, Live, TypeOK, Session
<1>3. fiber' = [fiber EXCEPT !["send"] = next] \/ fiber' = [fiber EXCEPT !["send"] = Rest]
  BY DEF SendTurn, GivesUp, Rests, TypeOK
<1>4. Fits("send", next)
  BY <1>1 DEF Fits, InStep, CallsPlaced, Placed, Others, Fiber, TypeOK, CallOf
<1>. QED  BY <1>1, <1>2, <1>3, <1>4, CallFits, RestFits DEF Fiber

LEMMA StopSessionInStep ==
    ASSUME TypeOK, Shape, InStep, NEW f \in Fiber, StopSession(f), MovesAlone'
    PROVE  InStep'
<1>. DEFINE o == fiber[f]
            next == [o EXCEPT !.at = "read"]
<1>1. UNCHANGED binding /\ o.at = "act" /\ o.does = "stop"
  BY DEF StopSession, At
<1>2. Live' \subseteq Live
  <2>1. o.instance \in Instance
    BY <1>1 DEF TypeOK
  <2>. QED  BY <2>1, Ending DEF StopSession, Live
<1>3. ~(f = "worker" /\ Moving)
  BY <1>1 DEF Moving
<1>4. fiber' = [fiber EXCEPT ![f] = next] \/ fiber' = [fiber EXCEPT ![f] = Rest]
  BY DEF StopSession, Goes, Rests, TypeOK
<1>5. next.at = "read" /\ next.does = "stop" /\ next.instance = o.instance
  BY <1>1 DEF TypeOK, CallOf
<1>6. Fits(f, next)
  BY <1>1, <1>3, <1>5 DEF Fits, InStep, CallsPlaced, Placed, Others
<1>. QED  BY <1>1, <1>2, <1>3, <1>4, <1>6, CallFits, RestFits

LEMMA TurnEndsInStep ==
    ASSUME TypeOK, Shape, InStep, NEW i \in Instance, TurnEnds(i), MovesAlone'
    PROVE  InStep'
<1>1. Live' \subseteq Live
  <2>1. \A k \in Instance : sessions'[k].on = sessions[k].on
    BY DEF TurnEnds, TypeOK, Session
  <2>. QED  BY <2>1 DEF Live
<1>. QED  BY <1>1, FibersStay DEF TurnEnds

LEMMA SessionExitsInStep ==
    ASSUME TypeOK, Shape, InStep, NEW i \in Instance, SessionExits(i), MovesAlone'
    PROVE  InStep'
  BY Ending, FibersStay DEF SessionExits

LEMMA RestartInStep ==
    ASSUME TypeOK, Shape, InStep, Restart, MovesAlone'
    PROVE  InStep'
<1>1. \A f \in Fiber : fiber'[f] = Rest
  BY DEF Restart
<1>2. Live' = {}
  BY DEF Restart, Live, NoSession
<1>. QED
  BY <1>1, <1>2
  DEF InStep, CallsPlaced, LivePlaced, SeenPlaced, Placed, Moving, At, Others, Fiber, Rest

-----------------------------------------------------------------------------
(* The theorem *)

\* What listSessions compares is in step.
LEMMA DeathsNeedConflict ==
    ASSUME TypeOK, Shape, InStep, ~died,
           \/ \E j \in Instance : EnsureSession(j)
           \/ SessionsListed
    PROVE  ~died'
<1>1. CASE \E j \in Instance : EnsureSession(j)
  <2>1. ~Moving
    BY <1>1 DEF EnsureSession, At, Shape, Shaped, Fiber, Moving
  <2>2. ~Conflict(Live)
    BY <2>1 DEF InStep, LivePlaced, Conflict
  <2>. QED  BY <1>1, <2>2 DEF EnsureSession, ghosts
<1>2. CASE SessionsListed
  <2>1. ~Conflict(fiber["checkpoint"].seen)
    BY <1>2 DEF SessionsListed, InStep, SeenPlaced, Conflict
  <2>. QED  BY <1>2, <2>1 DEF SessionsListed
<1>. QED  BY <1>1, <1>2

SessionsInv == TypeOK /\ Shape /\ (~crossed => InStep /\ ~died)

LEMMA ShapePreserved == ASSUME TypeOK, Shape, Next PROVE Shape'
<1>1. ASSUME NEW f \in Fiber, Step(f) PROVE Shape'
  BY <1>1, RouteShape, AdoptShape, NothingToResumeShape, AdapterStartsShape, ReadRowShape,
     WriteRowShape, StopSessionShape, BindShape, LookUpCursorShape, StopStaleShape,
     SendTurnShape, SessionsListedShape, SweepShape, DecideShape
  DEF Step, Worker
<1>2. ASSUME NEW i \in Instance, TurnEnds(i) \/ SessionExits(i) PROVE Shape'
  BY <1>2, ShapeKept DEF TurnEnds, SessionExits
<1>3. ASSUME Ingest PROVE Shape'
  BY <1>3, ShapeKept DEF Ingest
<1>. QED
  BY <1>1, <1>2, <1>3, EnsureSessionShape, StopRequestedShape, ApprovalRememberedShape,
     RevertRequestedShape, RestartShape, StopStaleFailsShape, CallFailsShape
  DEF Next

LEMMA InStepPreserved ==
    ASSUME TypeOK, Shape, InStep, ~died, Next, ~crossed'
    PROVE  InStep' /\ ~died'
<1>1. MovesAlone'
  <2>1. crossed' = (crossed \/ Crossing') \/ crossed' = TRUE
    BY Zenon DEF Next
  <2>2. ~Crossing'
    <3>1. SUFFICES ASSUME Crossing' PROVE FALSE
      OBVIOUS
    <3>2. (crossed \/ Crossing') = TRUE
      BY <3>1
    <3>3. crossed' = TRUE
      BY <2>1, <3>2
    <3>. QED  BY <3>3
  <2>. QED  BY <2>2 DEF Crossing, MovesAlone, Moving, At, Others
<1>2. ASSUME NEW f \in Fiber, Step(f) PROVE InStep' /\ ~died'
  <2>1. InStep'
    BY <1>1, <1>2, RouteInStep, AdoptInStep, NothingToResumeInStep, AdapterStartsInStep,
       ReadRowInStep, WriteRowInStep, StopSessionInStep, BindInStep, LookUpCursorInStep,
       StopStaleInStep, SendTurnInStep, SessionsListedInStep, SweepInStep, DecideInStep
    DEF Step, Worker
  <2>2. SessionsListed \/ UNCHANGED died
    BY <1>2 DEF Step, Worker, Route, Adopt, NothingToResume, AdapterStarts, ReadRow, WriteRow,
               StopSession, Bind, LookUpCursor, StopStale, SendTurn, Sweep, Decide, ghosts
  <2>. QED  BY <2>1, <2>2, DeathsNeedConflict
<1>3. ASSUME NEW j \in Instance, EnsureSession(j) PROVE InStep' /\ ~died'
  BY <1>1, <1>3, EnsureSessionInStep, DeathsNeedConflict
<1>4. ASSUME StopRequested \/ ApprovalRemembered \/ RevertRequested \/ Restart
      PROVE  InStep' /\ ~died'
  <2>1. InStep'
    BY <1>1, <1>4, StopRequestedInStep, ApprovalRememberedInStep, RevertRequestedInStep,
       RestartInStep
  <2>2. UNCHANGED died
    BY <1>4 DEF StopRequested, ApprovalRemembered, RevertRequested, Restart, ghosts
  <2>. QED  BY <2>1, <2>2
<1>5. ASSUME NEW i \in Instance, TurnEnds(i) \/ SessionExits(i) PROVE InStep' /\ ~died'
  BY <1>1, <1>5, TurnEndsInStep, SessionExitsInStep DEF TurnEnds, SessionExits, ghosts
<1>6. ASSUME Ingest PROVE InStep' /\ ~died'
  BY <1>6, FibersStay DEF Ingest, Live
<1>. QED  BY <1>2, <1>3, <1>4, <1>5, <1>6 DEF Next

LEMMA SessionsInvHolds == Spec => []SessionsInv
<1>1. ASSUME Init PROVE SessionsInv
  <2>1. TypeOK
    BY <1>1, InitTyped
  <2>2. /\ \A f \in Fiber : fiber[f] = Rest
        /\ Live = {}
    BY <1>1 DEF Init, Live, NoSession
  <2>3. Shape
    BY <2>2, NewCallsShaped DEF Shape
  <2>4. InStep
    BY <2>2
    DEF InStep, CallsPlaced, LivePlaced, SeenPlaced, MovesAlone, Placed, Moving, At, Others, Fiber,
        Rest
  <2>. QED  BY <1>1, <2>1, <2>3, <2>4 DEF SessionsInv, Init
<1>2. ASSUME SessionsInv, [Next]_vars PROVE SessionsInv'
  <2>1. TypeOK'
    BY <1>2, TypesKept DEF SessionsInv
  <2>2. CASE Next
    <3>1. Shape'
      BY <1>2, <2>2, ShapePreserved DEF SessionsInv
    <3>2. ASSUME ~crossed' PROVE InStep' /\ ~died'
      <4>1. ~crossed
        BY <2>2, <3>2 DEF Next
      <4>. QED  BY <1>2, <2>2, <3>2, <4>1, InStepPreserved DEF SessionsInv
    <3>. QED  BY <2>1, <3>1, <3>2 DEF SessionsInv
  <2>3. CASE UNCHANGED vars
    <3>1. UNCHANGED <<fiber, binding, sessions, died, crossed>>
      BY <2>3 DEF vars, adapters, ghosts
    <3>2. Shape'
      BY <1>2, <3>1, ShapeKept DEF SessionsInv
    <3>3. InStep => InStep'
      BY <3>1, FibersStay DEF Live
    <3>. QED  BY <1>2, <2>1, <3>1, <3>2, <3>3 DEF SessionsInv
  <2>. QED  BY <1>2, <2>2, <2>3
<1>. QED  BY <1>1, <1>2, PTL DEF Spec

\* The sessions and the binding of a thread name the same instance whenever a
\* listSessions compares them, unless a call failed, or a switch of instances
\* or a stop met another call on the thread: ensureSessionForThread, the
\* routing, startSession and the upserts keep them in step by themselves.
THEOREM ListingDiesOnlyWhenCrossed == Spec => []DiesOnlyWhenCrossed
<1>1. SessionsInv => DiesOnlyWhenCrossed
  BY DEF SessionsInv, DiesOnlyWhenCrossed
<1>. QED  BY <1>1, SessionsInvHolds, PTL

-----------------------------------------------------------------------------
(* One conversation *)

\* No turn is sent while the worker starts a session, and one is sent to the
\* session of the thread's instance.
SendAlone == fiber["worker"].does = "start" => At("send", "rest")

SendPlaced ==
    /\ fiber["send"].at \in {"route", "act"} => ~fiber["send"].recovering
    /\ At("send", "act") => fiber["send"].instance = binding.instance

\* The cursor a call resumes with is still the one of the row.
Captured ==
    \A f \in Fiber :
        At(f, "start") /\ fiber[f].recovering => fiber[f].cursor \in {NoCursor, binding.cursor}

Named ==
    /\ binding.instance = None => binding.cursor = NoCursor
    /\ \A i \in Live : sessions[i].conversation # NoCursor

\* A start that leads to conversation c, if it starts at all.
Leads(o, c) ==
    o.does = "start" =>
        /\ o.at = "look" => o.cursor \in {NoCursor, c}
        /\ o.at \in {"start", "stale", "read", "write"} => o.cursor = c
        /\ o.at \in {"stale", "read", "write"} /\ o.instance \in Live
              => sessions[o.instance].conversation = c

\* The row has the cursor of c, or the send that has just used c is about to
\* store it; and the next turn goes to c.
Recorded(c) == binding.cursor = c \/ (Unrecorded /\ fiber["send"].cursor = c)
Used(c) ==
    binding.cursor \in {NoCursor, c} /\ binding.instance \in Live
        => sessions[binding.instance].conversation = c

WorkerLeads(c) ==
    fiber["worker"].does = "start" =>
        /\ At("worker", "look") => fiber["worker"].cursor \in {NoCursor, c}
        /\ fiber["worker"].at \in {"start", "stale", "read", "write"} => fiber["worker"].cursor = c
        /\ fiber["worker"].at \in {"stale", "read", "write"} /\ fiber["worker"].instance \in Live
              => sessions[fiber["worker"].instance].conversation = c

Kept(c) == c # NoCursor /\ Recorded(c) /\ Used(c) /\ WorkerLeads(c)

OneKept == \A c \in conversations : conversations = {c} /\ Kept(c)

KeptInv == SendAlone /\ SendPlaced /\ Captured /\ Named /\ OneKept

\* Where a call of f can go without leading the thread to another conversation.
Keeps(f, o) ==
    /\ f = "worker" => (o.does = "start" => At("send", "rest"))
    /\ f = "worker" => \A c \in conversations : Leads(o, c)
    /\ f = "send" =>
          /\ o.at # "rest" => fiber["worker"].does # "start"
          /\ o.at \in {"route", "act"} => ~o.recovering
          /\ o.at = "act" => o.instance = binding.instance
          /\ Unrecorded =>
                o.at \in {"read", "write"} /\ ~o.recovering /\ o.cursor = fiber["send"].cursor
    /\ o.at = "start" /\ o.recovering => o.cursor \in {NoCursor, binding.cursor}

\* Sessions only end, and do not change their conversations.
SessionsKeep ==
    \A i \in Live' : i \in Live /\ sessions'[i].conversation = sessions[i].conversation

LEMMA CallKeeps ==
    ASSUME TypeOK, KeptInv, NEW f \in Fiber, NEW o, Keeps(f, o),
           fiber' = [fiber EXCEPT ![f] = o], UNCHANGED <<binding, conversations>>, SessionsKeep
    PROVE  KeptInv'
<1>1. fiber'[f] = o /\ \A g \in Fiber \ {f} : fiber'[g] = fiber[g]
  BY DEF TypeOK
<1>2. SendAlone'
  BY <1>1 DEF KeptInv, SendAlone, Keeps, At, Fiber
<1>3. SendPlaced'
  BY <1>1 DEF KeptInv, SendPlaced, Keeps, At, Fiber
<1>4. Captured'
  BY <1>1 DEF KeptInv, Captured, Keeps, At, Fiber
<1>5. Named'
  BY DEF KeptInv, Named, SessionsKeep
<1>6. ASSUME NEW c \in conversations PROVE Kept(c)'
  <2>1. Kept(c)
    BY DEF KeptInv, OneKept
  <2>2. Recorded(c)'
    <3>1. CASE f = "send"
      BY <1>1, <2>1, <3>1 DEF Kept, Recorded, Unrecorded, Keeps
    <3>2. CASE f # "send"
      BY <1>1, <2>1, <3>2 DEF Kept, Recorded, Unrecorded, Fiber
    <3>. QED  BY <3>1, <3>2
  <2>3. Used(c)'
    BY <2>1 DEF Kept, Used, SessionsKeep
  <2>4. WorkerLeads(c)'
    <3>1. CASE f = "worker"
      <4>1. Leads(o, c) /\ fiber'["worker"] = o
        BY <1>1, <3>1 DEF Keeps
      <4>. QED  BY <4>1 DEF Leads, WorkerLeads, SessionsKeep, At
    <3>2. CASE f # "worker"
      <4>1. fiber'["worker"] = fiber["worker"]
        BY <1>1, <3>2 DEF Fiber
      <4>. QED  BY <2>1, <4>1 DEF Kept, WorkerLeads, SessionsKeep, At
    <3>. QED  BY <3>1, <3>2
  <2>. QED  BY <2>1, <2>2, <2>3, <2>4 DEF Kept
<1>. QED  BY <1>2, <1>3, <1>4, <1>5, <1>6 DEF KeptInv, OneKept

LEMMA FibersKeep ==
    ASSUME KeptInv, UNCHANGED <<fiber, binding, conversations>>, SessionsKeep
    PROVE  KeptInv'
<1>1. SendAlone' /\ SendPlaced' /\ Captured' /\ Named'
  BY DEF KeptInv, SendAlone, SendPlaced, Captured, Named, At, SessionsKeep
<1>2. ASSUME NEW c \in conversations PROVE Kept(c)'
  BY DEF KeptInv, OneKept, Kept, Recorded, Unrecorded, Used, WorkerLeads, At, SessionsKeep
<1>. QED  BY <1>1, <1>2 DEF KeptInv, OneKept

\* While no turn is sent the row has the cursor of the thread's conversation.
LEMMA CursorStored ==
    ASSUME KeptInv, ~Unrecorded, NEW c \in conversations
    PROVE  c # NoCursor /\ binding.cursor = c /\ binding.instance # None
  BY DEF KeptInv, OneKept, Kept, Recorded, Named

LEMMA NothingUnrecorded ==
    ASSUME KeptInv, fiber["worker"].does = "start" PROVE ~Unrecorded
  BY DEF KeptInv, SendAlone, Unrecorded, At

\* A call that ends, or begins.
LEMMA RestKeeps == \A f \in Fiber : (f = "send" => ~Unrecorded) => Keeps(f, Rest)
  BY DEF Keeps, Leads, Rest

LEMMA CallsKeep ==
    ASSUME TypeOK, Shape, KeptInv, NEW f \in Fiber, NEW does \in Operation \ {"start"},
           f = "send" => ~Unrecorded /\ fiber["worker"].does # "start"
    PROVE  Keeps(f, Call(does))
<1>1. Call(does).at = "route" /\ Call(does).does = does /\ ~Call(does).recovering
  BY DEF Call, Rest
<1>. QED  BY <1>1 DEF Keeps, Leads

LEMMA SameSessions ==
    ASSUME UNCHANGED sessions PROVE SessionsKeep
  BY DEF SessionsKeep, Live

LEMMA EndingKeeps ==
    ASSUME TypeOK, NEW i \in Instance, Stopped(i) PROVE SessionsKeep
  BY DEF TypeOK, Stopped, NoSession, Live, SessionsKeep

LEMMA EnsureSessionKeeps ==
    ASSUME TypeOK, Shape, KeptInv, NEW j \in Instance, EnsureSession(j)
    PROVE  KeptInv'
<1>. DEFINE used == shell.status \notin {"none", "stopped"} /\ Live # {}
            active == CHOOSE i \in Live : TRUE
            cursor == IF used THEN ActiveCursor(active) ELSE NoCursor
            o == [Rest EXCEPT !.at = "look", !.does = "start", !.instance = j, !.cursor = cursor]
<1>1. /\ At("worker", "rest") /\ At("send", "rest")
      /\ \/ UNCHANGED fiber
         \/ fiber' = [fiber EXCEPT !["send"] = Call("send")]
         \/ ~Conflict(Live) /\ fiber' = [fiber EXCEPT !["worker"] = o]
  BY DEF EnsureSession, Busy
<1>2. UNCHANGED <<binding, conversations, sessions>>
  BY DEF EnsureSession, adapters
<1>3. ~Unrecorded /\ fiber["worker"].does # "start"
  BY <1>1 DEF Unrecorded, At, Shape, Shaped, Fiber
<1>4. CASE UNCHANGED fiber
  BY <1>2, <1>4, FibersKeep, SameSessions
<1>5. CASE fiber' = [fiber EXCEPT !["send"] = Call("send")]
  BY <1>2, <1>3, <1>5, CallKeeps, CallsKeep, SameSessions DEF Fiber, Operation
<1>6. CASE ~Conflict(Live) /\ fiber' = [fiber EXCEPT !["worker"] = o]
  <2>1. /\ o.at = "look" /\ o.does = "start" /\ o.cursor = cursor
    BY DEF Rest
  <2>2. ASSUME NEW c \in conversations PROVE cursor \in {NoCursor, c}
    <3>1. binding.cursor = c /\ binding.instance # None
      BY <1>3, CursorStored
    <3>2. ASSUME used PROVE active = binding.instance /\ active \in Live
      BY <1>6, <3>1, <3>2 DEF Conflict
    <3>3. ASSUME used PROVE sessions[active].conversation = c
      <4>. HIDE DEF active
      <4>1. Used(c)
        BY DEF KeptInv, OneKept, Kept
      <4>2. active = binding.instance /\ active \in Live
        BY <3>2, <3>3
      <4>. QED  BY <3>1, <4>1, <4>2 DEF Used
    <3>. QED  BY <3>1, <3>3 DEF ActiveCursor
  <2>. HIDE DEF o, cursor
  <2>3. Keeps("worker", o)
    BY <1>1, <2>1, <2>2 DEF Keeps, Leads
  <2>. QED  BY <1>2, <1>6, <2>3, CallKeeps, SameSessions DEF Fiber
<1>. QED  BY <1>1, <1>4, <1>5, <1>6

LEMMA StopRequestedKeeps ==
    ASSUME TypeOK, Shape, KeptInv, StopRequested
    PROVE  KeptInv'
<1>1. UNCHANGED <<binding, conversations, sessions>>
  BY DEF StopRequested, adapters
<1>. QED
  BY <1>1, CallKeeps, CallsKeep, FibersKeep, SameSessions DEF StopRequested, Fiber, Operation

LEMMA ApprovalRememberedKeeps ==
    ASSUME TypeOK, Shape, KeptInv, ApprovalRemembered
    PROVE  KeptInv'
<1>1. UNCHANGED <<binding, conversations, sessions>>
  BY DEF ApprovalRemembered, adapters
<1>. QED
  BY <1>1, CallKeeps, CallsKeep, SameSessions DEF ApprovalRemembered, Fiber, Operation

LEMMA BindKeeps ==
    ASSUME TypeOK, Shape, KeptInv, Bind
    PROVE  KeptInv'
<1>1. UNCHANGED <<binding, conversations, sessions>>
  BY DEF Bind, adapters
<1>2. CASE fiber["worker"].does # "start"
  BY <1>1, <1>2, CallKeeps, RestKeeps, SameSessions DEF Bind, Rests, Fiber
<1>3. CASE fiber["worker"].does = "start"
  <2>1. fiber' = [fiber EXCEPT !["worker"] = Rest, !["send"] = Call("send")]
    BY <1>3 DEF Bind
  <2>2. /\ fiber'["worker"] = Rest /\ fiber'["send"] = Call("send")
        /\ \A f \in {"checkpoint", "reaper"} : fiber'[f] = fiber[f]
    BY <2>1 DEF TypeOK, Fiber
  <2>3. /\ Rest.at = "rest" /\ Rest.does = "nothing"
        /\ Call("send").at = "route" /\ ~Call("send").recovering
    BY DEF Call, Rest
  <2>4. SendAlone' /\ SendPlaced' /\ Captured' /\ Named'
    BY <1>1, <2>2, <2>3 DEF KeptInv, SendAlone, SendPlaced, Captured, Named, At, Fiber, Live
  <2>5. ASSUME NEW c \in conversations PROVE Kept(c)'
    <3>1. c # NoCursor /\ binding.cursor = c
      BY <1>3, NothingUnrecorded, CursorStored
    <3>2. Recorded(c)' /\ WorkerLeads(c)'
      BY <1>1, <2>2, <2>3, <3>1 DEF Recorded, WorkerLeads
    <3>3. Used(c)'
      BY <1>1 DEF KeptInv, OneKept, Kept, Used, Live
    <3>. QED  BY <3>1, <3>2, <3>3 DEF Kept
  <2>. QED  BY <1>1, <2>4, <2>5 DEF KeptInv, OneKept
<1>. QED  BY <1>2, <1>3

LEMMA RevertRequestedKeeps ==
    ASSUME TypeOK, Shape, KeptInv, RevertRequested
    PROVE  KeptInv'
<1>. DEFINE o == [Rest EXCEPT !.at = "list", !.seen = Live]
<1>1. UNCHANGED <<binding, conversations, sessions>> /\ Keeps("checkpoint", o)
  BY DEF RevertRequested, adapters, Keeps, Rest
<1>. QED  BY <1>1, CallKeeps, SameSessions DEF RevertRequested, Fiber

LEMMA SessionsListedKeeps ==
    ASSUME TypeOK, Shape, KeptInv, SessionsListed
    PROVE  KeptInv'
<1>1. UNCHANGED <<binding, conversations, sessions>>
  BY DEF SessionsListed, adapters
<1>. QED
  BY <1>1, CallKeeps, RestKeeps, CallsKeep, SameSessions DEF SessionsListed, Fiber, Operation

LEMMA SweepKeeps ==
    ASSUME TypeOK, Shape, KeptInv, Sweep
    PROVE  KeptInv'
<1>. DEFINE o == [Rest EXCEPT !.at = "decide"]
<1>1. UNCHANGED <<binding, conversations, sessions>> /\ Keeps("reaper", o)
  BY DEF Sweep, adapters, Keeps, Rest
<1>. QED  BY <1>1, CallKeeps, SameSessions DEF Sweep, Fiber

LEMMA DecideKeeps ==
    ASSUME TypeOK, Shape, KeptInv, Decide
    PROVE  KeptInv'
<1>. DEFINE o == [Call("stop") EXCEPT !.seen = announced]
<1>1. UNCHANGED <<binding, conversations, sessions>> /\ Keeps("reaper", o)
  BY DEF Decide, adapters, Keeps, Call, Rest
<1>. QED  BY <1>1, CallKeeps, RestKeeps, SameSessions DEF Decide, Rests, Fiber

LEMMA LookUpCursorKeeps ==
    ASSUME TypeOK, Shape, KeptInv, LookUpCursor, ~astray'
    PROVE  KeptInv'
<1>. DEFINE o == fiber["worker"]
            cursor == StartCursor(o)
            next == [o EXCEPT !.at = "start", !.cursor = cursor]
<1>1. UNCHANGED <<binding, conversations, sessions>> /\ fiber' = [fiber EXCEPT !["worker"] = next]
  BY DEF LookUpCursor, adapters, TypeOK
<1>2. o.at = "look" /\ o.does = "start" /\ ~o.recovering
  BY DEF LookUpCursor, At, Shape, Shaped, Fiber
<1>3. /\ next.at = "start" /\ next.does = "start" /\ ~next.recovering /\ next.cursor = cursor
  BY <1>2 DEF TypeOK, CallOf, Fiber
<1>4. cursor # NoCursor \/ binding.cursor = NoCursor
  BY DEF LookUpCursor
<1>5. ASSUME NEW c \in conversations PROVE cursor = c
  <2>1. c # NoCursor /\ binding.cursor = c
    BY <1>2, NothingUnrecorded, CursorStored
  <2>2. o.cursor \in {NoCursor, c}
    BY <1>2 DEF KeptInv, OneKept, Kept, WorkerLeads, At
  <2>. QED  BY <1>4, <2>1, <2>2 DEF StartCursor
<1>6. At("send", "rest")
  BY <1>2 DEF KeptInv, SendAlone
<1>7. Keeps("worker", next)
  <2>. HIDE DEF next, cursor
  <2>. QED  BY <1>3, <1>5, <1>6 DEF Keeps, Leads
<1>. QED  BY <1>1, <1>7, CallKeeps, SameSessions DEF Fiber

LEMMA RouteKeeps ==
    ASSUME TypeOK, Shape, KeptInv, NEW f \in Fiber, Route(f)
    PROVE  KeptInv'
<1>. DEFINE i == binding.instance
            o == fiber[f]
            used == [o EXCEPT !.instance = i,
                              !.at = IF o.does = "respond" THEN "read" ELSE "act"]
            gone == [o EXCEPT !.instance = i, !.at = "read"]
            resumed == [o EXCEPT !.instance = i, !.at = "start", !.recovering = TRUE,
                                 !.cursor = binding.cursor]
<1>1. \/ fiber' = [fiber EXCEPT ![f] = Rest]
      \/ fiber' = [fiber EXCEPT ![f] = used]
      \/ fiber' = [fiber EXCEPT ![f] = gone]
      \/ fiber' = [fiber EXCEPT ![f] = resumed]
  BY DEF Route, GivesUp, Rests
<1>2. UNCHANGED <<binding, conversations, sessions>>
  BY DEF Route, adapters
<1>3. o.at = "route" /\ o.does # "start"
  BY DEF Route, At, Shape, Shaped
<1>4. f = "send" => ~Unrecorded /\ fiber["worker"].does # "start" /\ ~o.recovering
  BY <1>3 DEF KeptInv, SendAlone, SendPlaced, Unrecorded, At
<1>5. Keeps(f, used)
  <2>1. used.at # "start" /\ used.does # "start" /\ used.instance = i /\ used.recovering = o.recovering
    BY <1>3 DEF TypeOK, CallOf
  <2>. HIDE DEF used
  <2>. QED  BY <1>4, <2>1 DEF Keeps, Leads
<1>6. Keeps(f, gone)
  <2>1. gone.at = "read" /\ gone.does # "start"
    BY <1>3 DEF TypeOK, CallOf
  <2>. HIDE DEF gone
  <2>. QED  BY <1>4, <2>1 DEF Keeps, Leads
<1>7. Keeps(f, resumed)
  <2>1. resumed.at = "start" /\ resumed.does # "start" /\ resumed.cursor = binding.cursor
    BY <1>3 DEF TypeOK, CallOf
  <2>. HIDE DEF resumed
  <2>. QED  BY <1>4, <2>1 DEF Keeps, Leads
<1>. QED  BY <1>1, <1>2, <1>4, <1>5, <1>6, <1>7, CallKeeps, RestKeeps, SameSessions

LEMMA AdoptKeeps ==
    ASSUME TypeOK, Shape, KeptInv, NEW f \in Fiber, Adopt(f)
    PROVE  KeptInv'
<1>. DEFINE o == fiber[f]
            session == sessions[o.instance]
            next == [o EXCEPT !.at = "read",
                              !.cursor = IF session.known THEN session.conversation ELSE NoCursor]
<1>1. fiber' = [fiber EXCEPT ![f] = next] /\ UNCHANGED <<binding, conversations, sessions>>
  BY DEF Adopt, adapters, TypeOK
<1>2. o.at = "start" /\ (f = "worker" => o.does # "start")
  BY DEF Adopt, Adoptable, At, Shape, Shaped, Fiber
<1>3. next.at = "read" /\ next.does = o.does
  BY DEF TypeOK, CallOf
<1>4. f = "send" => ~Unrecorded /\ fiber["worker"].does # "start"
  BY <1>2 DEF KeptInv, SendAlone, Unrecorded, At
<1>5. Keeps(f, next)
  <2>. HIDE DEF next
  <2>. QED  BY <1>2, <1>3, <1>4 DEF Keeps, Leads
<1>. QED  BY <1>1, <1>5, CallKeeps, SameSessions

LEMMA NothingToResumeKeeps ==
    ASSUME TypeOK, Shape, KeptInv, NEW f \in Fiber, NothingToResume(f)
    PROVE  KeptInv'
<1>1. UNCHANGED <<binding, conversations, sessions>> /\ fiber' = [fiber EXCEPT ![f] = Rest]
  BY DEF NothingToResume, GivesUp, Rests, adapters
<1>2. f = "send" => ~Unrecorded
  BY DEF NothingToResume, At, Unrecorded
<1>. QED  BY <1>1, <1>2, CallKeeps, RestKeeps, SameSessions

LEMMA CallFailsKeeps ==
    ASSUME TypeOK, Shape, KeptInv, NEW f \in Fiber, CallFails(f), ~astray'
    PROVE  KeptInv'
<1>1. UNCHANGED <<binding, conversations, sessions>> /\ fiber' = [fiber EXCEPT ![f] = Rest]
  BY DEF CallFails, GivesUp, Rests, adapters
<1>2. f = "send" => ~Unrecorded
  BY DEF CallFails
<1>. QED  BY <1>1, <1>2, CallKeeps, RestKeeps, SameSessions

LEMMA StopStaleKeeps ==
    ASSUME TypeOK, Shape, KeptInv, StopStale \/ StopStaleFails
    PROVE  KeptInv'
<1>. DEFINE o == fiber["worker"]
            next == [o EXCEPT !.at = "read"]
<1>1. o.at = "stale" /\ o.does = "start" /\ UNCHANGED <<binding, conversations>>
  BY DEF StopStale, StopStaleFails, At, Shape, Shaped, Fiber, adapters
<1>2. CASE (\E i \in Stale : Stopped(i)) /\ UNCHANGED fiber
  BY <1>1, <1>2, EndingKeeps, FibersKeep DEF Stale, Live
<1>3. CASE Goes("worker", "read") /\ UNCHANGED sessions
  <2>1. fiber' = [fiber EXCEPT !["worker"] = next]
    BY <1>3 DEF Goes, TypeOK
  <2>2. /\ next.at = "read" /\ next.does = "start"
        /\ next.cursor = o.cursor /\ next.instance = o.instance
    BY <1>1 DEF TypeOK, CallOf, Fiber
  <2>3. ASSUME NEW c \in conversations PROVE Leads(next, c)
    <3>1. WorkerLeads(c)
      BY DEF KeptInv, OneKept, Kept
    <3>. HIDE DEF next
    <3>. QED  BY <1>1, <2>2, <3>1 DEF WorkerLeads, Leads
  <2>4. At("send", "rest")
    BY <1>1 DEF KeptInv, SendAlone
  <2>5. Keeps("worker", next)
    <3>. HIDE DEF next
    <3>. QED  BY <2>2, <2>3, <2>4 DEF Keeps
  <2>. QED  BY <1>1, <1>3, <2>1, <2>5, CallKeeps, SameSessions DEF Fiber
<1>4. \/ (\E i \in Stale : Stopped(i)) /\ UNCHANGED fiber
      \/ Goes("worker", "read") /\ UNCHANGED sessions
  BY Zenon DEF StopStale, StopStaleFails, adapters
<1>. QED  BY <1>2, <1>3, <1>4

LEMMA ReadRowKeeps ==
    ASSUME TypeOK, Shape, KeptInv, NEW f \in Fiber, ReadRow(f)
    PROVE  KeptInv'
<1>. DEFINE o == fiber[f]
            next == [o EXCEPT !.at = "write", !.row = binding]
<1>1. fiber' = [fiber EXCEPT ![f] = next] /\ UNCHANGED <<binding, conversations, sessions>>
  BY DEF ReadRow, adapters, TypeOK
<1>2. /\ o.at = "read"
      /\ next.at = "write" /\ next.does = o.does /\ next.instance = o.instance
      /\ next.cursor = o.cursor /\ next.recovering = o.recovering
  BY DEF ReadRow, At, TypeOK, CallOf
<1>. HIDE DEF next
<1>3. f = "worker" => \A c \in conversations : Leads(next, c)
  BY <1>2 DEF KeptInv, OneKept, Kept, WorkerLeads, Leads
<1>4. /\ f = "worker" => (next.does = "start" => At("send", "rest"))
      /\ f = "send" => fiber["worker"].does # "start"
  BY <1>2 DEF KeptInv, SendAlone, At
<1>5. Keeps(f, next)
  BY <1>2, <1>3, <1>4 DEF Keeps, Unrecorded
<1>. QED  BY <1>1, <1>5, CallKeeps, SameSessions

LEMMA StopSessionKeeps ==
    ASSUME TypeOK, Shape, KeptInv, NEW f \in Fiber, StopSession(f)
    PROVE  KeptInv'
<1>. DEFINE o == fiber[f]
            next == [o EXCEPT !.at = "read"]
<1>1. UNCHANGED <<binding, conversations>> /\ o.at = "act" /\ o.does = "stop"
  BY DEF StopSession, At
<1>2. SessionsKeep
  BY <1>1, EndingKeeps, SameSessions DEF StopSession, TypeOK
<1>3. fiber' = [fiber EXCEPT ![f] = next] \/ fiber' = [fiber EXCEPT ![f] = Rest]
  BY DEF StopSession, Goes, Rests, TypeOK
<1>4. next.at = "read" /\ next.does = "stop"
  BY <1>1 DEF TypeOK, CallOf
<1>5. f = "send" => ~Unrecorded /\ fiber["worker"].does # "start"
  BY <1>1 DEF KeptInv, SendAlone, Unrecorded, At
<1>6. Keeps(f, next)
  <2>. HIDE DEF next
  <2>. QED  BY <1>4, <1>5 DEF Keeps, Leads
<1>. QED  BY <1>1, <1>2, <1>3, <1>5, <1>6, CallKeeps, RestKeeps

LEMMA AdapterStartsKeeps ==
    ASSUME TypeOK, Shape, KeptInv, NEW f \in Fiber, AdapterStarts(f)
    PROVE  KeptInv'
<1>. DEFINE o == fiber[f]
            fresh == o.cursor = NoCursor
            conversation == IF fresh THEN opened + 1 ELSE o.cursor
<1>1. PICK known \in {TRUE, ~fresh} :
         /\ sessions' = [sessions EXCEPT ![o.instance] =
                [on |-> TRUE, conversation |-> conversation, known |-> known, turn |-> NoTurn]]
         /\ fiber' = [fiber EXCEPT ![f].at = IF o.recovering THEN "read" ELSE "stale",
                                  ![f].cursor = IF known THEN conversation ELSE NoCursor]
  BY DEF AdapterStarts
<1>. DEFINE next == [o EXCEPT !.at = IF o.recovering THEN "read" ELSE "stale",
                            !.cursor = IF known THEN conversation ELSE NoCursor]
<1>2. UNCHANGED <<binding, conversations>> /\ o.at = "start" /\ (o.recovering => ~fresh)
  BY DEF AdapterStarts, At
<1>3. /\ fiber'[f] = next /\ \A g \in Fiber \ {f} : fiber'[g] = fiber[g]
      /\ next.does = o.does /\ next.instance = o.instance
      /\ next.at = IF o.recovering THEN "read" ELSE "stale"
      /\ next.cursor = IF known THEN conversation ELSE NoCursor
  BY <1>1 DEF TypeOK, CallOf
<1>4. /\ o.instance \in Instance /\ sessions'[o.instance].conversation = conversation
      /\ \A i \in Instance \ {o.instance} : sessions'[i] = sessions[i]
  BY <1>1, <1>2 DEF TypeOK
<1>5. conversation # NoCursor /\ (~fresh => conversation = o.cursor)
  BY DEF TypeOK, NoCursor
<1>6. o.recovering => conversation = binding.cursor
  BY <1>2, <1>5 DEF KeptInv, Captured, At
<1>7. ~o.recovering => f = "worker" /\ o.does = "start"
  BY <1>2 DEF Shape, Shaped
<1>8. o.recovering /\ f = "worker" => o.does # "start"
  BY DEF Shape, Shaped
<1>9. f = "send" => ~Unrecorded /\ fiber["worker"].does # "start"
  BY <1>2 DEF KeptInv, SendAlone, Unrecorded, At
<1>. HIDE DEF next, conversation, fresh
<1>10. SendAlone' /\ SendPlaced' /\ Captured'
  <2>1. SendAlone'
    BY <1>2, <1>3, <1>9 DEF KeptInv, SendAlone, At, Fiber
  <2>2. SendPlaced'
    BY <1>2, <1>3 DEF KeptInv, SendPlaced, At, Fiber
  <2>3. Captured'
    BY <1>2, <1>3 DEF KeptInv, Captured, At
  <2>. QED  BY <2>1, <2>2, <2>3
<1>11. Named'
  BY <1>2, <1>4, <1>5 DEF KeptInv, Named, Live
<1>12. ASSUME NEW c \in conversations PROVE Kept(c)'
  <2>1. Kept(c)
    BY DEF KeptInv, OneKept
  <2>2. Recorded(c)'
    BY <1>2, <1>3, <1>9, <2>1 DEF Kept, Recorded, Unrecorded, Fiber
  <2>3. ASSUME ~o.recovering
        PROVE  o.cursor = c /\ conversation = c /\ known = TRUE /\ next.cursor = c
    <3>1. o.cursor = c
      BY <1>2, <1>7, <2>1, <2>3 DEF Kept, WorkerLeads
    <3>2. ~fresh
      BY <2>1, <3>1 DEF Kept, fresh
    <3>. QED  BY <1>1, <1>3, <1>5, <3>1, <3>2
  <2>4. Used(c)'
    <3>1. ASSUME binding.cursor \in {NoCursor, c}, binding.instance = o.instance
          PROVE  conversation = c
      BY <1>5, <1>6, <2>3, <3>1
    <3>. QED  BY <1>2, <1>4, <2>1, <3>1 DEF Kept, Used, Live
  <2>5. WorkerLeads(c)'
    <3>1. CASE f = "worker" /\ ~o.recovering
      BY <1>3, <1>4, <2>3, <3>1 DEF WorkerLeads, At
    <3>2. CASE f = "worker" /\ o.recovering
      BY <1>3, <1>8, <3>2 DEF WorkerLeads
    <3>3. CASE f # "worker"
      <4>1. fiber'["worker"] = fiber["worker"] /\ o.recovering
        BY <1>3, <1>7, <3>3 DEF Fiber
      <4>2. fiber["worker"].does = "start" => conversation = c
        BY <1>6, <4>1, NothingUnrecorded, CursorStored
      <4>. QED  BY <1>4, <2>1, <4>1, <4>2 DEF Kept, WorkerLeads, Live, At
    <3>. QED  BY <3>1, <3>2, <3>3
  <2>. QED  BY <2>1, <2>2, <2>4, <2>5 DEF Kept
<1>. QED  BY <1>2, <1>10, <1>11, <1>12 DEF KeptInv, OneKept

LEMMA WriteRowKeeps ==
    ASSUME TypeOK, Shape, KeptInv, NEW f \in Fiber, WriteRow(f), ~astray'
    PROVE  KeptInv'
<1>. DEFINE o == fiber[f]
<1>1. /\ o.at = "write" /\ o.instance \in Instance /\ binding' = RowOf(o)
      /\ UNCHANGED <<sessions, conversations>> /\ UNCHANGED Live
  BY DEF WriteRow, At, adapters, Live, TypeOK
<1>2. ~Replaced(o.cursor) /\ ~Overtaken(o)
  BY DEF WriteRow
<1>3. /\ binding'.instance = o.instance
      /\ binding'.cursor = IF o.cursor # NoCursor THEN o.cursor ELSE binding.cursor
      /\ binding.cursor # NoCursor => binding'.cursor = binding.cursor
      /\ o.does = "start" \/ o.instance = binding.instance
  BY <1>1, <1>2 DEF RowOf, Replaced, Overtaken
<1>4. PICK next :
         /\ fiber' = [fiber EXCEPT ![f] = next]
         /\ next.at \in {"rest", "bind", "act", "read"} /\ ~next.recovering
         /\ next.at = "bind" => f = "worker" /\ next.does = o.does
         /\ next.at # "bind" => next.does # "start"
         /\ next.at = "act" => next.instance = o.instance
  <2>. DEFINE back == [Rest EXCEPT !.at = "bind", !.does = o.does]
              on == [Rest EXCEPT !.at = IF o.does = "send" THEN "act" ELSE "read",
                                 !.does = o.does, !.instance = o.instance]
  <2>1. /\ back.at = "bind" /\ back.does = o.does /\ ~back.recovering
        /\ Rest.at = "rest" /\ Rest.does = "nothing" /\ ~Rest.recovering
        /\ on.at \in {"act", "read"} /\ on.does = o.does /\ on.instance = o.instance
        /\ ~on.recovering
    BY DEF Rest
  <2>2. o.recovering => o.does # "start"
    BY DEF Shape, Shaped
  <2>3. \/ f = "worker" /\ fiber' = [fiber EXCEPT ![f] = back]
        \/ o.recovering /\ fiber' = [fiber EXCEPT ![f] = on]
        \/ fiber' = [fiber EXCEPT ![f] = Rest]
    <3>1. \/ f = "worker" /\ fiber' = [fiber EXCEPT ![f] = back]
          \/ fiber' = [fiber EXCEPT ![f] = Continued(o)]
      BY DEF WriteRow
    <3>2. (o.recovering /\ Continued(o) = on) \/ Continued(o) = Rest
      BY DEF Continued
    <3>. QED  BY <3>1, <3>2
  <2>. HIDE DEF back, on
  <2>4. CASE f = "worker" /\ fiber' = [fiber EXCEPT ![f] = back]
    BY <2>1, <2>4
  <2>5. CASE o.recovering /\ fiber' = [fiber EXCEPT ![f] = on]
    BY <2>1, <2>2, <2>5
  <2>6. CASE fiber' = [fiber EXCEPT ![f] = Rest]
    BY <2>1, <2>6
  <2>. QED  BY <2>3, <2>4, <2>5, <2>6
<1>5. fiber'[f] = next /\ \A g \in Fiber \ {f} : fiber'[g] = fiber[g]
  BY <1>4 DEF TypeOK
<1>6. o.does = "start" => f = "worker" /\ At("send", "rest")
  BY DEF Shape, Shaped, KeptInv, SendAlone
<1>7. f = "send" => fiber["worker"].does # "start"
  BY <1>1 DEF KeptInv, SendAlone, At
<1>8. SendAlone'
  BY <1>4, <1>5, <1>6, <1>7 DEF KeptInv, SendAlone, At, Fiber
<1>9. SendPlaced'
  <2>1. CASE f = "send"
    BY <1>3, <1>4, <1>5, <2>1 DEF SendPlaced, At
  <2>2. CASE f # "send"
    <3>1. fiber'["send"] = fiber["send"]
      BY <1>5, <2>2 DEF Fiber
    <3>. QED  BY <1>3, <1>6, <3>1 DEF KeptInv, SendPlaced, At
  <2>. QED  BY <2>1, <2>2
<1>10. Captured'
  BY <1>3, <1>4, <1>5 DEF KeptInv, Captured, At
<1>11. Named'
  BY <1>1, <1>3 DEF KeptInv, Named
<1>12. ASSUME NEW c \in conversations PROVE Kept(c)'
  <2>1. Kept(c)
    BY DEF KeptInv, OneKept
  <2>2. Recorded(c)'
    <3>1. CASE binding.cursor = c
      BY <1>3, <2>1, <3>1 DEF Kept, Recorded
    <3>2. CASE Unrecorded /\ fiber["send"].cursor = c /\ f = "send"
      BY <1>3, <2>1, <3>2 DEF Kept, Recorded
    <3>3. CASE Unrecorded /\ fiber["send"].cursor = c /\ f # "send"
      BY <1>5, <3>3 DEF Recorded, Unrecorded, Fiber
    <3>. QED  BY <2>1, <3>1, <3>2, <3>3 DEF Kept, Recorded
  <2>3. Used(c)'
    <3>1. CASE o.instance = binding.instance
      BY <1>1, <1>3, <2>1, <3>1 DEF Kept, Used
    <3>2. CASE o.does = "start"
      BY <1>1, <1>3, <1>6, <2>1, <3>2 DEF Kept, Used, WorkerLeads
    <3>. QED  BY <1>3, <3>1, <3>2
  <2>4. WorkerLeads(c)'
    <3>1. CASE f = "worker"
      BY <1>4, <1>5, <3>1 DEF WorkerLeads, At
    <3>2. CASE f # "worker"
      <4>1. fiber'["worker"] = fiber["worker"]
        BY <1>5, <3>2 DEF Fiber
      <4>. QED  BY <1>1, <2>1, <4>1 DEF Kept, WorkerLeads, At
    <3>. QED  BY <3>1, <3>2
  <2>. QED  BY <2>1, <2>2, <2>3, <2>4 DEF Kept
<1>. QED  BY <1>1, <1>8, <1>9, <1>10, <1>11, <1>12 DEF KeptInv, OneKept

LEMMA SendTurnKeeps ==
    ASSUME TypeOK, Shape, KeptInv, SendTurn
    PROVE  KeptInv'
<1>. DEFINE o == fiber["send"]
            i == o.instance
            session == sessions[i]
            next == [o EXCEPT !.at = "read", !.cursor = session.conversation]
<1>1. UNCHANGED binding /\ o.at = "act" /\ i \in Instance
  BY DEF SendTurn, At, TypeOK, Fiber
<1>2. ~Unrecorded /\ ~o.recovering /\ i = binding.instance /\ fiber["worker"].does # "start"
  BY <1>1 DEF Unrecorded, KeptInv, SendAlone, SendPlaced, At
<1>3. CASE ~session.on
  BY <1>1, <1>2, <1>3, CallKeeps, RestKeeps, SameSessions DEF SendTurn, GivesUp, Rests, Fiber
<1>4. CASE session.on
  <2>. PICK c : c = session.conversation
    OBVIOUS
  <2>1. /\ conversations' = conversations \cup {c}
        /\ sessions' = [sessions EXCEPT ![i].turn = Turn, ![i].known = TRUE]
    BY <1>4 DEF SendTurn
  <2>0. fiber' = [fiber EXCEPT !["send"] = next]
    BY <1>4 DEF SendTurn, TypeOK
  <2>2. /\ fiber'["send"] = next /\ \A g \in Fiber \ {"send"} : fiber'[g] = fiber[g]
        /\ next.at = "read" /\ next.cursor = c /\ ~next.recovering
    BY <1>2, <2>0 DEF TypeOK, CallOf, Fiber
  <2>3. \A k \in Instance : /\ sessions'[k].on = sessions[k].on
                            /\ sessions'[k].conversation = sessions[k].conversation
    BY <2>1 DEF TypeOK, Session
  <2>4. i \in Live /\ c # NoCursor
    BY <1>1, <1>4 DEF Live, KeptInv, Named
  <2>5. \A d \in conversations : d = c
    <3>1. ASSUME NEW d \in conversations PROVE d = c
      <4>1. binding.cursor = d /\ Used(d)
        BY <1>2, CursorStored DEF KeptInv, OneKept, Kept
      <4>. QED  BY <1>2, <2>4, <4>1 DEF Used
    <3>. QED  BY <3>1
  <2>. HIDE DEF next
  <2>6. conversations' = {c}
    BY <2>1, <2>5
  <2>7. SendAlone' /\ SendPlaced' /\ Captured'
    BY <1>1, <1>2, <2>2 DEF KeptInv, SendAlone, SendPlaced, Captured, At, Fiber
  <2>8. Named'
    BY <1>1, <2>3 DEF KeptInv, Named, Live
  <2>9. Used(c)'
    BY <1>1, <1>2, <2>3 DEF Used
  <2>10. Recorded(c)' /\ WorkerLeads(c)'
    BY <1>2, <2>2 DEF Recorded, Unrecorded, WorkerLeads, Fiber
  <2>. QED  BY <2>4, <2>6, <2>7, <2>8, <2>9, <2>10 DEF KeptInv, OneKept, Kept
<1>. QED  BY <1>3, <1>4

LEMMA RestartKeeps ==
    ASSUME TypeOK, Shape, KeptInv, Restart, ~astray'
    PROVE  KeptInv'
<1>1. /\ \A f \in Fiber : fiber'[f] = Rest
      /\ Rest.at = "rest" /\ Rest.does = "nothing"
      /\ Live' = {} /\ UNCHANGED conversations
  BY DEF Restart, Live, NoSession, Rest
<1>2. ~Replaced(binding'.cursor) /\ (Unrecorded => binding'.cursor = fiber["send"].cursor)
  BY DEF Restart
<1>3. \/ binding'.instance = binding.instance /\ binding'.cursor = binding.cursor
      \/ binding'.instance \in Instance /\ (binding.cursor # NoCursor => binding'.cursor # NoCursor)
  BY DEF Restart, StopAll, ActiveCursor, KeptInv, Named, Live, TypeOK, Row
<1>4. SendAlone' /\ SendPlaced' /\ Captured'
  BY <1>1 DEF SendAlone, SendPlaced, Captured, At, Fiber
<1>5. Named'
  BY <1>1, <1>3 DEF KeptInv, Named
<1>6. ASSUME NEW c \in conversations PROVE Kept(c)'
  <2>1. Kept(c)
    BY DEF KeptInv, OneKept
  <2>2. binding'.cursor = c
    BY <1>2, <1>3, <2>1 DEF Kept, Recorded, Replaced
  <2>. QED  BY <1>1, <2>1, <2>2 DEF Kept, Recorded, Used, WorkerLeads, Fiber
<1>. QED  BY <1>1, <1>4, <1>5, <1>6 DEF KeptInv, OneKept

LEMMA KeptPreserved ==
    ASSUME TypeOK, Shape, KeptInv, Next, ~astray'
    PROVE  KeptInv'
<1>1. ASSUME NEW f \in Fiber, Step(f) PROVE KeptInv'
  BY <1>1, RouteKeeps, AdoptKeeps, NothingToResumeKeeps, AdapterStartsKeeps, ReadRowKeeps,
     WriteRowKeeps, StopSessionKeeps, BindKeeps, LookUpCursorKeeps, StopStaleKeeps,
     SendTurnKeeps, SessionsListedKeeps, SweepKeeps, DecideKeeps
  DEF Step, Worker
<1>2. ASSUME NEW i \in Instance, TurnEnds(i) PROVE KeptInv'
  <2>1. SessionsKeep
    BY <1>2 DEF TurnEnds, SessionsKeep, Live, TypeOK, Session
  <2>. QED  BY <1>2, <2>1, FibersKeep DEF TurnEnds
<1>3. ASSUME NEW i \in Instance, SessionExits(i) PROVE KeptInv'
  BY <1>3, EndingKeeps, FibersKeep DEF SessionExits
<1>4. ASSUME Ingest PROVE KeptInv'
  BY <1>4, SameSessions, FibersKeep DEF Ingest
<1>. QED
  BY <1>1, <1>2, <1>3, <1>4, EnsureSessionKeeps, StopRequestedKeeps, ApprovalRememberedKeeps,
     RevertRequestedKeeps, RestartKeeps, StopStaleKeeps, CallFailsKeeps
  DEF Next

\* A ghost that is set stays set.
LEMMA AstrayStays == ASSUME [Next]_vars, ~astray' PROVE ~astray
<1>1. ASSUME NEW f \in Fiber, Step(f) PROVE ~astray
  BY <1>1 DEF Step, Worker, Route, Adopt, NothingToResume, AdapterStarts, ReadRow, WriteRow,
             StopSession, Bind, LookUpCursor, StopStale, SendTurn, SessionsListed, Sweep, Decide
<1>2. CASE ~\E f \in Fiber : Step(f)
  BY <1>2 DEF Next, vars, EnsureSession, StopRequested, ApprovalRemembered, RevertRequested,
             TurnEnds, SessionExits, Ingest, Restart, StopStaleFails, CallFails
<1>. QED  BY <1>1, <1>2

ConversationInv == TypeOK /\ Shape /\ (~astray => KeptInv)

\* All turns of a thread go to one conversation, over switches of instances,
\* sessions that end or are reaped, calls that fail or meet and restarts of
\* the server, while every cursor is recorded, used and not replaced and no
\* call is overtaken: the cursor startSession looks up, the row upsert keeps
\* and the session resolveRoutableSession finds are all of that conversation.
THEOREM TurnsStayInOneConversation == Spec => []ConversationKept
<1>1. ASSUME Init PROVE ConversationInv
  <2>1. TypeOK /\ \A f \in Fiber : fiber[f] = Rest
    BY <1>1, InitTyped DEF Init
  <2>2. Shape
    BY <2>1, NewCallsShaped DEF Shape
  <2>3. KeptInv
    BY <1>1, <2>1
    DEF Init, NoRow, NoSession, Rest, KeptInv, SendAlone, SendPlaced, Captured, Named, OneKept, At,
        Live, Fiber
  <2>. QED  BY <2>1, <2>2, <2>3 DEF ConversationInv
<1>2. ASSUME ConversationInv, [Next]_vars PROVE ConversationInv'
  <2>1. TypeOK'
    BY <1>2, TypesKept DEF ConversationInv
  <2>2. ASSUME ~astray' PROVE ~astray
    BY <1>2, <2>2, AstrayStays
  <2>3. CASE Next
    <3>1. Shape'
      BY <1>2, <2>3, ShapePreserved DEF ConversationInv
    <3>2. ASSUME ~astray' PROVE KeptInv'
      BY <1>2, <2>2, <2>3, <3>2, KeptPreserved DEF ConversationInv
    <3>. QED  BY <2>1, <3>1, <3>2 DEF ConversationInv
  <2>4. CASE UNCHANGED vars
    <3>1. UNCHANGED <<fiber, binding, sessions, conversations>>
      BY <2>4 DEF vars, adapters
    <3>2. Shape' /\ (KeptInv => KeptInv')
      BY <1>2, <3>1, ShapeKept, SameSessions, FibersKeep DEF ConversationInv
    <3>. QED  BY <1>2, <2>1, <2>2, <3>2 DEF ConversationInv
  <2>. QED  BY <1>2, <2>3, <2>4
<1>3. ConversationInv => ConversationKept
  <2>1. SUFFICES ASSUME ConversationInv, ~astray PROVE Cardinality(conversations) <= 1
    BY DEF ConversationKept
  <2>2. CASE conversations = {}
    BY <2>2, FS_EmptySet
  <2>3. CASE conversations # {}
    <3>1. PICK c \in conversations : conversations = {c}
      BY <2>1, <2>3 DEF ConversationInv, KeptInv, OneKept
    <3>. QED  BY <3>1, FS_Singleton
  <2>. QED  BY <2>2, <2>3
<1>. QED  BY <1>1, <1>2, <1>3, PTL DEF Spec

-----------------------------------------------------------------------------
(* What the reaper stops *)

\* A turn that was requested and has not come to the adapter.
Pending == fiber["worker"].does = "start" \/ (~At("send", "rest") /\ ~Unrecorded)
Starts == {n \in DOMAIN runtime : runtime[n].type = "started"}
Takes == {i \in Instance : sessions[i].turn # NoTurn}

SendFresh == fiber["send"].at \in {"route", "act"} => ~fiber["send"].recovering

StopsAlone == fiber["worker"].does = "stop" => \A f \in Others : At(f, "rest")

\* A stop that goes on to the row has stopped the session.
StopDone ==
    /\ At("worker", "bind") => fiber["worker"].does \in {"start", "stop"}
    /\ fiber["worker"].does = "stop" => ~At("worker", "start")
    /\ fiber["worker"].does = "stop" /\ fiber["worker"].at \in {"read", "write", "bind"}
          => Live = {}

SendsOnly == \A f \in Fiber \ {"send"} : fiber[f].does # "send"

CallsInv == SendAlone /\ SendFresh /\ StopsAlone /\ StopDone /\ SendsOnly

ShellPlain ==
    /\ shell.status # "running" => shell.turn = NoTurn
    /\ shell.turn \in {NoTurn, Turn}

\* The start of the turn that was requested last is told once.
StartsOnce == \A n \in Starts : Starts = {n} /\ runtime[n].turn = Turn /\ Turn \notin announced

TurnPending ==
    Pending =>
        shell.turn = NoTurn /\ Starts = {} /\ Turn # NoTurn /\ Turn \notin announced /\ Takes = {}

\* While a session has a turn nothing is told after the turn's start.
TurnRuns ==
    \A i \in Takes :
        /\ i \in Live /\ sessions[i].turn = Turn
        /\ \/ runtime # <<>> /\ Len(runtime) \in Starts
           \/ runtime = <<>> /\ shell.turn = Turn

Unseen ==
    /\ announced \subseteq 0..Turn
    /\ fiber["reaper"].seen \subseteq announced
    /\ \A i \in Takes : sessions[i].turn \notin fiber["reaper"].seen

TurnsInv == ShellPlain /\ StartsOnce /\ TurnPending /\ TurnRuns /\ Unseen

RunInv == CallsInv /\ TurnsInv

\* What a step may do to the turns.
SessionsRun == \A i \in Takes' : sessions'[i] = sessions[i]
ShellRuns ==
    shell' = shell \/ (shell'.turn = NoTurn /\ (Takes' = {} \/ shell.turn = NoTurn))
RuntimeRuns ==
    \/ runtime' = runtime
    \/ Takes' = {} /\ \E e : e.type # "started" /\ runtime' = Append(runtime, e)

LEMMA TurnsKeep ==
    ASSUME TypeOK, TurnsInv, Pending' => Pending, SessionsRun, ShellRuns, RuntimeRuns,
           fiber'["reaper"].seen \subseteq fiber["reaper"].seen, UNCHANGED <<announced, budget.turns>>
    PROVE  TurnsInv'
<1>1. Turn' = Turn /\ Turn \in Nat
  BY DEF Turn, TypeOK, SessionsAssumption
<1>2. Starts' = Starts /\ \A n \in Starts : runtime'[n] = runtime[n]
  <2>1. CASE runtime' = runtime
    BY <2>1 DEF Starts
  <2>2. CASE \E e : e.type # "started" /\ runtime' = Append(runtime, e)
    <3>1. PICK e : e.type # "started" /\ runtime' = Append(runtime, e)
      BY <2>2
    <3>. DEFINE Event == [type : {"started", "ended", "exited"}, turn : Nat]
    <3>2. runtime \in Seq(Event)
      BY DEF TypeOK
    <3>. HIDE DEF Event
    <3>3. /\ DOMAIN runtime = 1..Len(runtime) /\ Len(runtime) \in Nat
          /\ DOMAIN runtime' = 1..(Len(runtime) + 1)
          /\ \A n \in 1..Len(runtime) : runtime'[n] = runtime[n]
          /\ runtime'[Len(runtime) + 1] = e
      BY <3>1, <3>2
    <3>. QED  BY <3>1, <3>3 DEF Starts
  <2>. QED  BY <2>1, <2>2 DEF RuntimeRuns
<1>3. Takes' \subseteq Takes /\ \A i \in Takes' : sessions'[i] = sessions[i]
  BY DEF SessionsRun, Takes
<1>4. ShellPlain'
  BY <1>1 DEF TurnsInv, ShellPlain, ShellRuns
<1>5. StartsOnce'
  BY <1>1, <1>2 DEF TurnsInv, StartsOnce
<1>6. TurnPending'
  BY <1>1, <1>2, <1>3 DEF TurnsInv, TurnPending, ShellRuns
<1>7. TurnRuns'
  <2>1. ASSUME NEW i \in Takes'
        PROVE  /\ i \in Live' /\ sessions'[i].turn = Turn'
               /\ \/ runtime' # <<>> /\ Len(runtime') \in Starts'
                  \/ runtime' = <<>> /\ shell'.turn = Turn'
    <3>1. i \in Takes /\ i \in Live /\ sessions[i].turn = Turn /\ Turn # NoTurn
      BY <1>3 DEF TurnsInv, TurnRuns, Takes
    <3>2. i \in Live' /\ sessions'[i].turn = Turn'
      BY <1>1, <1>3, <3>1 DEF Live
    <3>3. runtime' = runtime
      BY DEF RuntimeRuns
    <3>4. shell.turn = Turn => shell'.turn = Turn
      BY <3>1 DEF ShellRuns
    <3>. QED  BY <1>1, <1>2, <3>1, <3>2, <3>3, <3>4 DEF TurnsInv, TurnRuns
  <2>. QED  BY <2>1 DEF TurnRuns
<1>8. Unseen'
  BY <1>1, <1>3 DEF TurnsInv, Unseen
<1>. QED  BY <1>4, <1>5, <1>6, <1>7, <1>8 DEF TurnsInv

\* Where a call of f can go without beginning a turn, or forgetting one.
Runs(f, o) ==
    /\ f = "worker" =>
          /\ o.does = "start" => fiber["worker"].does = "start"
          /\ o.at = "bind" => o.does \in {"start", "stop"}
          /\ o.at = "start" => o.does # "stop"
          /\ o.does = "stop" /\ o.at \in {"read", "write", "bind"} => Live' = {}
    /\ f = "send" =>
          /\ o.at # "rest" => fiber["worker"].does # "start" /\ fiber["send"].at # "rest"
          /\ o.at \notin {"rest", "read", "write"} \/ (o.at # "rest" /\ o.recovering) => ~Unrecorded
          /\ o.at \in {"route", "act"} => ~o.recovering
    /\ f = "reaper" => o.seen \subseteq fiber["reaper"].seen
    /\ f # "send" => o.does # "send"

LEMMA CallRuns ==
    ASSUME TypeOK, CallsInv, StopsAlone', NEW f \in Fiber, NEW o, Runs(f, o),
           fiber' = [fiber EXCEPT ![f] = o],
           f # "worker" /\ fiber["worker"].does = "stop" => Live' \subseteq Live
    PROVE  /\ CallsInv' /\ (Pending' => Pending)
           /\ fiber'["reaper"].seen \subseteq fiber["reaper"].seen
<1>1. fiber'[f] = o /\ \A g \in Fiber \ {f} : fiber'[g] = fiber[g]
  BY DEF TypeOK
<1>2. SendAlone'
  BY <1>1 DEF CallsInv, SendAlone, Runs, At, Fiber
<1>3. SendFresh'
  BY <1>1 DEF CallsInv, SendFresh, Runs, At, Fiber
<1>4. StopDone'
  <2>1. CASE f = "worker"
    BY <1>1, <2>1 DEF StopDone, Runs, At
  <2>2. CASE f # "worker"
    BY <1>1, <2>2 DEF CallsInv, StopDone, At, Fiber
  <2>. QED  BY <2>1, <2>2
<1>5. Pending' => Pending
  BY <1>1 DEF CallsInv, SendAlone, Pending, Unrecorded, Runs, At, Fiber
<1>6. fiber'["reaper"].seen \subseteq fiber["reaper"].seen
  BY <1>1 DEF Runs, Fiber
<1>7. SendsOnly'
  BY <1>1 DEF CallsInv, SendsOnly, Runs
<1>. QED  BY <1>2, <1>3, <1>4, <1>5, <1>6, <1>7 DEF CallsInv

LEMMA FibersRun ==
    ASSUME CallsInv, UNCHANGED fiber, Live' \subseteq Live
    PROVE  CallsInv' /\ (Pending' => Pending) /\ fiber'["reaper"].seen \subseteq fiber["reaper"].seen
  BY DEF CallsInv, SendAlone, SendFresh, StopsAlone, StopDone, SendsOnly, Pending, Unrecorded, At

LEMMA RestRuns == \A f \in Fiber : Runs(f, Rest)
  BY DEF Runs, Rest

LEMMA SameTurns ==
    ASSUME UNCHANGED <<sessions, runtime>> PROVE SessionsRun /\ RuntimeRuns /\ UNCHANGED Live
  BY DEF SessionsRun, RuntimeRuns, Live

\* A live session has no turn beside it.
LEMMA OneTakes ==
    ASSUME TypeOK, Shape, InStep, RunInv, NEW i \in Live
    PROVE  Takes \subseteq {i} /\ (Moving => Takes = {}) /\ (~Moving => Live = {i})
<1>1. CASE Moving
  BY <1>1 DEF Moving, RunInv, TurnsInv, TurnPending, Pending
<1>2. CASE ~Moving
  <2>1. Live = {i}
    BY <1>2 DEF InStep, LivePlaced
  <2>. QED  BY <1>2, <2>1 DEF RunInv, TurnsInv, TurnRuns
<1>. QED  BY <1>1, <1>2

LEMMA EndingRuns ==
    ASSUME TypeOK, Shape, InStep, RunInv, NEW i \in Live, Stopped(i)
    PROVE  SessionsRun /\ RuntimeRuns /\ Live' = Live \ {i} /\ (~Moving => Live' = {})
<1>1. /\ sessions' = [sessions EXCEPT ![i] = NoSession] /\ runtime' = Append(runtime, Exited)
      /\ i \in Instance /\ Exited.type # "started" /\ NoSession.turn = NoTurn
  BY DEF Stopped, Emit, Exited, NoSession, Live
<1>2. Takes' = {}
  <2>1. \A k \in Instance : sessions'[k] = IF k = i THEN NoSession ELSE sessions[k]
    BY <1>1 DEF TypeOK
  <2>2. Takes \subseteq {i}
    BY OneTakes
  <2>. QED  BY <1>1, <2>1, <2>2 DEF Takes
<1>3. Live' = Live \ {i}
  BY <1>1, Ending
<1>. QED  BY <1>1, <1>2, <1>3, OneTakes DEF SessionsRun, RuntimeRuns

LEMMA EnsureSessionRuns ==
    ASSUME TypeOK, Shape, RunInv, StopsAlone', NEW j \in Instance, EnsureSession(j)
    PROVE  RunInv'
<1>1. PICK o :
         /\ o.at = "look" /\ o.does = "start"
         /\ \/ UNCHANGED fiber
            \/ fiber' = [fiber EXCEPT !["send"] = Call("send")]
            \/ fiber' = [fiber EXCEPT !["worker"] = o]
  <2>. DEFINE used == shell.status \notin {"none", "stopped"} /\ Live # {}
              active == CHOOSE i \in Live : TRUE
              o == [Rest EXCEPT !.at = "look", !.does = "start", !.instance = j,
                                !.cursor = IF used THEN ActiveCursor(active) ELSE NoCursor]
  <2>1. o.at = "look" /\ o.does = "start"
    BY DEF Rest
  <2>. QED  BY <2>1 DEF EnsureSession
<1>2. /\ At("worker", "rest") /\ At("send", "rest") /\ shell.turn = NoTurn /\ Starts = {}
      /\ UNCHANGED <<sessions, runtime>> /\ UNCHANGED Live /\ UNCHANGED Takes
      /\ Starts' = Starts
  BY DEF EnsureSession, Busy, Starts, Live, Takes, adapters
<1>3. /\ shell'.turn = NoTurn /\ (shell' = shell \/ shell'.status = "ready")
      /\ UNCHANGED announced
  BY <1>2 DEF EnsureSession, TurnStartFailed, ghosts
<1>4. Takes = {}
  BY <1>2 DEF RunInv, TurnsInv, TurnRuns, Starts, Takes
<1>5. Turn' = Turn + 1 /\ Turn \in Nat
  BY DEF EnsureSession, Spend, Turn, TypeOK
<1>6. fiber["worker"].does \notin {"start"}
  BY <1>2 DEF At, Shape, Shaped, Fiber
<1>7. Call("send").at = "route" /\ ~Call("send").recovering
  BY DEF Call, Rest
<1>8. /\ \A f \in Fiber \ {"worker", "send"} : fiber'[f] = fiber[f]
      /\ \/ UNCHANGED fiber
         \/ fiber'["send"] = Call("send") /\ fiber'["worker"] = fiber["worker"]
         \/ fiber'["send"] = fiber["send"] /\ fiber'["worker"] = o
  BY <1>1 DEF TypeOK, Fiber
<1>9. CallsInv'
  BY <1>1, <1>2, <1>6, <1>7, <1>8
  DEF RunInv, CallsInv, SendAlone, SendFresh, StopDone, SendsOnly, At, Fiber
<1>10. TurnsInv'
  <2>1. announced \subseteq 0..Turn /\ fiber["reaper"].seen \subseteq announced
    BY DEF RunInv, TurnsInv, Unseen
  <2>2. announced' \subseteq 0..Turn' /\ Turn' \notin announced' /\ Turn' # NoTurn
    BY <1>3, <1>5, <2>1 DEF NoTurn
  <2>3. ShellPlain'
    BY <1>3 DEF RunInv, TurnsInv, ShellPlain
  <2>4. StartsOnce' /\ TurnPending' /\ TurnRuns'
    BY <1>2, <1>3, <1>4, <2>2 DEF StartsOnce, TurnPending, TurnRuns
  <2>5. Unseen'
    BY <1>2, <1>3, <1>4, <1>8, <2>1, <2>2 DEF Unseen, Fiber
  <2>. QED  BY <2>3, <2>4, <2>5 DEF TurnsInv
<1>. QED  BY <1>9, <1>10 DEF RunInv

LEMMA BindRuns ==
    ASSUME TypeOK, Shape, RunInv, StopsAlone', Bind
    PROVE  RunInv'
<1>1. /\ UNCHANGED <<sessions, runtime>> /\ UNCHANGED <<announced, budget.turns>>
      /\ fiber["worker"].at = "bind"
  BY DEF Bind, At, adapters, ghosts
<1>2. SessionsRun /\ RuntimeRuns /\ UNCHANGED Live /\ UNCHANGED Takes
  BY <1>1, SameTurns DEF Takes
<1>3. Takes = {} /\ shell'.turn = NoTurn
  <2>1. CASE fiber["worker"].does = "start"
    BY <2>1 DEF Bind, RunInv, TurnsInv, TurnPending, Pending
  <2>2. CASE fiber["worker"].does # "start"
    <3>1. Live = {}
      BY <1>1, <2>2 DEF RunInv, CallsInv, StopDone, At
    <3>. QED  BY <2>2, <3>1 DEF Bind, RunInv, TurnsInv, TurnRuns
  <2>. QED  BY <2>1, <2>2
<1>4. ShellRuns
  BY <1>2, <1>3 DEF ShellRuns
<1>5. CASE fiber["worker"].does # "start"
  <2>1. fiber' = [fiber EXCEPT !["worker"] = Rest]
    BY <1>5 DEF Bind, Rests
  <2>. QED  BY <1>1, <1>2, <1>4, <2>1, RestRuns, CallRuns, TurnsKeep DEF RunInv, Fiber
<1>6. CASE fiber["worker"].does = "start"
  <2>1. fiber' = [fiber EXCEPT !["worker"] = Rest, !["send"] = Call("send")]
    BY <1>6 DEF Bind
  <2>2. /\ fiber'["worker"] = Rest /\ fiber'["send"] = Call("send")
        /\ \A f \in Fiber \ {"worker", "send"} : fiber'[f] = fiber[f]
    BY <2>1 DEF TypeOK, Fiber
  <2>3. /\ Rest.at = "rest" /\ Rest.does = "nothing"
        /\ Call("send").at = "route" /\ ~Call("send").recovering
    BY DEF Call, Rest
  <2>4. CallsInv'
    BY <2>2, <2>3 DEF RunInv, CallsInv, SendAlone, SendFresh, StopDone, SendsOnly, At, Fiber
  <2>5. TurnsInv'
    BY <1>1, <1>2, <1>4, <1>6, <2>2, TurnsKeep DEF RunInv, Pending, Fiber
  <2>. QED  BY <2>4, <2>5 DEF RunInv
<1>. QED  BY <1>5, <1>6

\* A call that gives up tells the shell, which has no turn while one is pending.
LEMMA GivesUpRuns ==
    ASSUME TypeOK, Shape, RunInv, StopsAlone', NEW f \in Fiber, GivesUp(f),
           fiber[f].does # "start", f = "send" => Pending,
           UNCHANGED <<sessions, runtime, announced, budget.turns>>
    PROVE  RunInv'
<1>1. fiber' = [fiber EXCEPT ![f] = Rest]
  BY DEF GivesUp, Rests
<1>2. SessionsRun /\ RuntimeRuns /\ UNCHANGED Live /\ UNCHANGED Takes
  BY SameTurns DEF Takes
<1>3. CallsInv' /\ (Pending' => Pending) /\ fiber'["reaper"].seen \subseteq fiber["reaper"].seen
  BY <1>1, <1>2, RestRuns, CallRuns DEF RunInv
<1>4. ShellRuns
  <2>1. shell' = shell \/ (fiber[f].does = "send" /\ shell'.turn = NoTurn)
    BY DEF GivesUp, TurnStartFailed
  <2>2. fiber[f].does = "send" => f = "send"
    BY DEF RunInv, CallsInv, SendsOnly
  <2>3. ASSUME f = "send" PROVE Takes' = {}
    BY <1>2, <2>3 DEF RunInv, TurnsInv, TurnPending
  <2>. QED  BY <2>1, <2>2, <2>3 DEF ShellRuns
<1>. QED  BY <1>2, <1>3, <1>4, TurnsKeep DEF RunInv

\* A step that changes no more than one call.
LEMMA StepRuns ==
    ASSUME TypeOK, Shape, RunInv, StopsAlone', NEW f \in Fiber, NEW o, Runs(f, o),
           fiber' = [fiber EXCEPT ![f] = o],
           UNCHANGED <<sessions, runtime, shell, announced, budget.turns>>
    PROVE  RunInv'
<1>1. SessionsRun /\ RuntimeRuns /\ UNCHANGED Live
  BY SameTurns
<1>2. CallsInv' /\ (Pending' => Pending) /\ fiber'["reaper"].seen \subseteq fiber["reaper"].seen
  BY <1>1, CallRuns DEF RunInv
<1>3. ShellRuns
  BY DEF ShellRuns
<1>. QED  BY <1>1, <1>2, <1>3, TurnsKeep DEF RunInv

LEMMA CallsRun ==
    \A f \in Fiber : \A does \in Operation \ {"start", "send"} : f # "send" => Runs(f, Call(does))
  BY DEF Runs, Call, Rest, Operation

LEMMA EventsOnly == ASSUME TypeOK, Spend("events") PROVE UNCHANGED budget.turns
  BY DEF TypeOK, Spend

LEMMA StopRequestedRuns ==
    ASSUME TypeOK, Shape, RunInv, StopsAlone', StopRequested
    PROVE  RunInv'
<1>1. UNCHANGED <<sessions, runtime, announced, budget.turns>>
  BY EventsOnly DEF StopRequested, adapters, ghosts
<1>2. CASE UNCHANGED fiber
  <2>1. CallsInv' /\ (Pending' => Pending) /\ fiber'["reaper"].seen \subseteq fiber["reaper"].seen
    BY <1>1, <1>2, SameTurns, FibersRun DEF RunInv
  <2>2. ShellRuns
    BY DEF StopRequested, RunInv, TurnsInv, ShellPlain, ShellRuns
  <2>. QED  BY <1>1, <2>1, <2>2, SameTurns, TurnsKeep DEF RunInv
<1>3. CASE fiber' = [fiber EXCEPT !["worker"] = Call("stop")] /\ UNCHANGED shell
  BY <1>1, <1>3, CallsRun, StepRuns DEF Fiber, Operation
<1>. QED  BY <1>2, <1>3 DEF StopRequested

LEMMA ApprovalRememberedRuns ==
    ASSUME TypeOK, Shape, RunInv, StopsAlone', ApprovalRemembered
    PROVE  RunInv'
  BY EventsOnly, CallsRun, StepRuns DEF ApprovalRemembered, adapters, ghosts, Fiber, Operation

LEMMA RevertRequestedRuns ==
    ASSUME TypeOK, Shape, RunInv, StopsAlone', RevertRequested
    PROVE  RunInv'
<1>. DEFINE o == [Rest EXCEPT !.at = "list", !.seen = Live]
<1>1. /\ UNCHANGED <<sessions, runtime, shell, announced, budget.turns>>
      /\ fiber' = [fiber EXCEPT !["checkpoint"] = o]
  BY EventsOnly DEF RevertRequested, adapters, ghosts
<1>2. Runs("checkpoint", o)
  BY DEF Runs, Rest
<1>. QED  BY <1>1, <1>2, StepRuns DEF Fiber

LEMMA SessionsListedRuns ==
    ASSUME TypeOK, Shape, RunInv, StopsAlone', SessionsListed
    PROVE  RunInv'
<1>1. /\ UNCHANGED <<sessions, runtime, shell, announced, budget.turns>>
      /\ \/ fiber' = [fiber EXCEPT !["checkpoint"] = Rest]
         \/ fiber' = [fiber EXCEPT !["checkpoint"] = Call("rollback")]
  BY DEF SessionsListed, adapters
<1>. QED  BY <1>1, RestRuns, CallsRun, StepRuns DEF Fiber, Operation

LEMMA SweepRuns ==
    ASSUME TypeOK, Shape, RunInv, StopsAlone', Sweep
    PROVE  RunInv'
<1>. DEFINE o == [Rest EXCEPT !.at = "decide"]
<1>1. /\ UNCHANGED <<sessions, runtime, shell, announced, budget.turns>>
      /\ fiber' = [fiber EXCEPT !["reaper"] = o]
  BY DEF Sweep, adapters, ghosts
<1>2. Runs("reaper", o)
  BY DEF Runs, Rest
<1>. QED  BY <1>1, <1>2, StepRuns DEF Fiber

\* The reaper reads the thread without an active turn: the start of a turn
\* that a session has is not ingested.
LEMMA DecideRuns ==
    ASSUME TypeOK, Shape, RunInv, StopsAlone', Decide
    PROVE  RunInv'
<1>1. UNCHANGED <<sessions, runtime, shell, announced, budget.turns>>
  BY DEF Decide, adapters, ghosts
<1>2. CASE Rests("reaper")
  BY <1>1, <1>2, RestRuns, StepRuns DEF Rests, Fiber
<1>3. CASE ~Rests("reaper")
  <2>. DEFINE o == [Call("stop") EXCEPT !.seen = announced]
  <2>1. /\ shell.turn = NoTurn /\ fiber' = [fiber EXCEPT !["reaper"] = o]
        /\ o.at = "route" /\ o.does = "stop" /\ o.seen = announced
    BY <1>3 DEF Decide, Call, Rest
  <2>. HIDE DEF o
  <2>2. fiber'["reaper"] = o /\ \A f \in Fiber \ {"reaper"} : fiber'[f] = fiber[f]
    BY <2>1 DEF TypeOK, Fiber
  <2>3. CallsInv' /\ (Pending' => Pending)
    <3>1. UNCHANGED Live
      BY <1>1, SameTurns
    <3>. QED
      BY <2>1, <2>2, <3>1
      DEF RunInv, CallsInv, SendAlone, SendFresh, StopDone, SendsOnly, Pending, Unrecorded, At,
          Fiber
  <2>4. UNCHANGED <<Takes, Starts, Turn, Live>>
    BY <1>1 DEF Takes, Starts, Turn, Live
  <2>5. ASSUME NEW i \in Takes PROVE sessions[i].turn \notin announced
    <3>1. sessions[i].turn = Turn /\ Turn # NoTurn
      BY DEF RunInv, TurnsInv, TurnRuns, Takes
    <3>2. Len(runtime) \in Starts
      BY <2>1, <3>1 DEF RunInv, TurnsInv, TurnRuns
    <3>. QED  BY <3>1, <3>2 DEF RunInv, TurnsInv, StartsOnce
  <2>6. Unseen'
    BY <1>1, <2>1, <2>2, <2>4, <2>5 DEF RunInv, TurnsInv, Unseen
  <2>7. ShellPlain' /\ StartsOnce' /\ TurnPending' /\ TurnRuns'
    BY <1>1, <2>3, <2>4 DEF RunInv, TurnsInv, ShellPlain, StartsOnce, TurnPending, TurnRuns
  <2>. QED  BY <2>3, <2>6, <2>7 DEF RunInv, TurnsInv
<1>. QED  BY <1>2, <1>3

LEMMA LookUpCursorRuns ==
    ASSUME TypeOK, Shape, RunInv, StopsAlone', LookUpCursor
    PROVE  RunInv'
<1>1. PICK cursor : fiber' = [fiber EXCEPT !["worker"].at = "start", !["worker"].cursor = cursor]
  BY DEF LookUpCursor
<1>. DEFINE o == [fiber["worker"] EXCEPT !.at = "start", !.cursor = cursor]
<1>2. /\ UNCHANGED <<sessions, runtime, shell, announced, budget.turns>>
      /\ fiber' = [fiber EXCEPT !["worker"] = o]
  BY <1>1 DEF LookUpCursor, adapters, ghosts, TypeOK
<1>3. o.at = "start" /\ o.does = "start" /\ fiber["worker"].does = "start"
  BY DEF LookUpCursor, At, Shape, Shaped, TypeOK, CallOf, Fiber
<1>4. Runs("worker", o)
  <2>. HIDE DEF o
  <2>. QED  BY <1>3 DEF Runs
<1>. QED  BY <1>2, <1>4, StepRuns DEF Fiber

LEMMA NothingToResumeRuns ==
    ASSUME TypeOK, Shape, RunInv, StopsAlone', NEW f \in Fiber, NothingToResume(f)
    PROVE  RunInv'
<1>1. /\ GivesUp(f) /\ UNCHANGED <<sessions, runtime, announced, budget.turns>>
      /\ fiber[f].at = "start" /\ fiber[f].recovering
  BY DEF NothingToResume, adapters, ghosts, At
<1>2. fiber[f].does # "start" /\ (f = "send" => Pending)
  BY <1>1 DEF Shape, Shaped, Pending, Unrecorded, At
<1>. QED  BY <1>1, <1>2, GivesUpRuns

LEMMA AdoptRuns ==
    ASSUME TypeOK, Shape, RunInv, StopsAlone', NEW f \in Fiber, Adopt(f)
    PROVE  RunInv'
<1>1. PICK cursor : fiber' = [fiber EXCEPT ![f].at = "read", ![f].cursor = cursor]
  BY DEF Adopt
<1>. DEFINE o == [fiber[f] EXCEPT !.at = "read", !.cursor = cursor]
<1>2. /\ UNCHANGED <<sessions, runtime, shell, announced, budget.turns>>
      /\ fiber' = [fiber EXCEPT ![f] = o]
  BY <1>1 DEF Adopt, adapters, ghosts, TypeOK
<1>3. /\ o.at = "read" /\ o.does = fiber[f].does /\ o.recovering = fiber[f].recovering
      /\ o.seen = fiber[f].seen
      /\ fiber[f].at = "start" /\ fiber[f].recovering
  BY DEF Adopt, Adoptable, At, TypeOK, CallOf
<1>4. f = "worker" => o.does \notin {"start", "stop"}
  BY <1>3 DEF RunInv, CallsInv, StopDone, At, Shape, Shaped, Fiber
<1>5. Runs(f, o)
  <2>. HIDE DEF o
  <2>. QED  BY <1>3, <1>4 DEF Runs, RunInv, CallsInv, SendAlone, SendsOnly, Unrecorded, At
<1>. QED  BY <1>2, <1>5, StepRuns

LEMMA ReadRowRuns ==
    ASSUME TypeOK, Shape, RunInv, StopsAlone', NEW f \in Fiber, ReadRow(f)
    PROVE  RunInv'
<1>. DEFINE o == [fiber[f] EXCEPT !.at = "write", !.row = binding]
<1>1. /\ UNCHANGED <<sessions, runtime, shell, announced, budget.turns>>
      /\ fiber' = [fiber EXCEPT ![f] = o]
  BY DEF ReadRow, adapters, ghosts, TypeOK
<1>2. /\ o.at = "write" /\ o.does = fiber[f].does /\ o.recovering = fiber[f].recovering
      /\ o.seen = fiber[f].seen /\ fiber[f].at = "read"
  BY DEF ReadRow, At, TypeOK, CallOf
<1>3. Runs(f, o)
  <2>. HIDE DEF o
  <2>1. UNCHANGED Live
    BY <1>1, SameTurns
  <2>. QED
    BY <1>2, <2>1 DEF Runs, RunInv, CallsInv, SendAlone, StopDone, SendsOnly, Unrecorded, At
<1>. QED  BY <1>1, <1>3, StepRuns

LEMMA WriteRowRuns ==
    ASSUME TypeOK, Shape, RunInv, StopsAlone', NEW f \in Fiber, WriteRow(f)
    PROVE  RunInv'
<1>. DEFINE o == fiber[f]
            done == [Rest EXCEPT !.at = "bind", !.does = o.does]
            next == IF f = "worker" /\ o.does \in {"start", "stop"} THEN done ELSE Continued(o)
<1>1. /\ UNCHANGED <<sessions, runtime, shell, announced, budget.turns>>
      /\ fiber' = [fiber EXCEPT ![f] = next] /\ o.at = "write"
  BY DEF WriteRow, adapters, ghosts, At
<1>2. done.at = "bind" /\ done.does = o.does /\ done.seen = {}
  BY DEF Rest
<1>3. /\ Continued(o).seen = {} /\ ~Continued(o).recovering
      /\ \/ Continued(o).at = "rest" /\ Continued(o).does = "nothing"
         \/ Continued(o).at \in {"act", "read"} /\ Continued(o).does = o.does /\ o.recovering
  BY DEF Continued, Rest
<1>4. UNCHANGED Live
  BY <1>1, SameTurns
<1>5. Runs(f, next)
  <2>. HIDE DEF done
  <2>1. CASE f = "worker" /\ o.does \in {"start", "stop"}
    BY <1>1, <1>2, <1>4, <2>1 DEF Runs, RunInv, CallsInv, StopDone, At
  <2>2. CASE ~(f = "worker" /\ o.does \in {"start", "stop"})
    <3>. PICK c : c = Continued(o)
      OBVIOUS
    <3>1. next = c
      BY <2>2
    <3>. HIDE DEF next
    <3>. QED
      BY <1>1, <1>3, <2>2, <3>1 DEF Runs, RunInv, CallsInv, SendAlone, SendsOnly, Unrecorded, At
  <2>. QED  BY <2>1, <2>2
<1>. HIDE DEF next
<1>. QED  BY <1>1, <1>5, StepRuns

LEMMA StopStaleRuns ==
    ASSUME TypeOK, Shape, InStep, RunInv, StopsAlone', StopStale
    PROVE  RunInv'
<1>. DEFINE next == [fiber["worker"] EXCEPT !.at = "read"]
<1>1. /\ UNCHANGED <<shell, announced, budget.turns>>
      /\ fiber["worker"].at = "stale" /\ fiber["worker"].does = "start"
  BY DEF StopStale, ghosts, At, Shape, Shaped, Fiber
<1>2. CASE (\E i \in Stale : Stopped(i)) /\ UNCHANGED fiber
  <2>1. PICK i \in Live : Stopped(i)
    BY <1>2 DEF Stale
  <2>2. SessionsRun /\ RuntimeRuns /\ Live' = Live \ {i}
    BY <2>1, EndingRuns
  <2>3. ShellRuns
    BY <1>1 DEF ShellRuns
  <2>. QED  BY <1>1, <1>2, <2>2, <2>3, FibersRun, TurnsKeep DEF RunInv
<1>3. CASE Goes("worker", "read") /\ UNCHANGED <<sessions, runtime>>
  <2>1. fiber' = [fiber EXCEPT !["worker"] = next]
    BY <1>3 DEF Goes, TypeOK
  <2>2. next.at = "read" /\ next.does = "start"
    BY <1>1 DEF TypeOK, CallOf, Fiber
  <2>3. Runs("worker", next)
    <3>. HIDE DEF next
    <3>. QED  BY <1>1, <2>2 DEF Runs
  <2>. QED  BY <1>1, <1>3, <2>1, <2>3, StepRuns DEF Fiber
<1>. QED  BY <1>2, <1>3 DEF StopStale

LEMMA TurnEndsRuns ==
    ASSUME TypeOK, Shape, InStep, RunInv, StopsAlone', NEW i \in Instance, TurnEnds(i)
    PROVE  RunInv'
<1>1. /\ UNCHANGED <<fiber, shell, announced, budget.turns>> /\ sessions[i].turn # NoTurn
      /\ sessions' = [sessions EXCEPT ![i].turn = NoTurn]
  BY DEF TurnEnds, ghosts
<1>2. i \in Live /\ Takes \subseteq {i}
  <2>1. i \in Takes
    BY <1>1 DEF Takes
  <2>2. i \in Live
    BY <2>1 DEF RunInv, TurnsInv, TurnRuns
  <2>. QED  BY <2>2, OneTakes
<1>3. /\ sessions'[i].turn = NoTurn /\ sessions'[i].on = sessions[i].on
      /\ \A k \in Instance \ {i} : sessions'[k] = sessions[k]
  BY <1>1 DEF TypeOK, Session
<1>4. Takes' = {} /\ UNCHANGED Live
  BY <1>2, <1>3 DEF Takes, Live
<1>5. RuntimeRuns
  <2>. DEFINE event == [type |-> "ended", turn |-> sessions[i].turn]
  <2>1. runtime' = Append(runtime, event) /\ event.type = "ended"
    BY DEF TurnEnds, Emit
  <2>. HIDE DEF event
  <2>. QED  BY <1>4, <2>1 DEF RuntimeRuns
<1>6. SessionsRun /\ ShellRuns
  BY <1>1, <1>4 DEF SessionsRun, ShellRuns
<1>. QED  BY <1>1, <1>4, <1>5, <1>6, FibersRun, TurnsKeep DEF RunInv

LEMMA SessionExitsRuns ==
    ASSUME TypeOK, Shape, InStep, RunInv, StopsAlone', NEW i \in Instance, SessionExits(i)
    PROVE  RunInv'
<1>1. UNCHANGED <<fiber, shell, announced, budget.turns>> /\ i \in Live /\ Stopped(i)
  BY EventsOnly DEF SessionExits, ghosts, Live
<1>2. SessionsRun /\ RuntimeRuns /\ Live' = Live \ {i} /\ ShellRuns
  BY <1>1, EndingRuns DEF ShellRuns
<1>. QED  BY <1>1, <1>2, FibersRun, TurnsKeep DEF RunInv

LEMMA RestartRuns ==
    ASSUME TypeOK, Shape, RunInv, StopsAlone', Restart
    PROVE  RunInv'
<1>1. /\ \A f \in Fiber : fiber'[f] = Rest
      /\ Rest.at = "rest" /\ Rest.does = "nothing" /\ Rest.seen = {}
      /\ Live' = {} /\ Takes' = {} /\ runtime' = <<>> /\ Starts' = {}
      /\ UNCHANGED <<announced, budget.turns>> /\ Turn' = Turn
  BY EventsOnly DEF Restart, ghosts, Live, Takes, Starts, Turn, NoSession, Rest
<1>2. CallsInv'
  BY <1>1 DEF CallsInv, SendAlone, SendFresh, StopsAlone, StopDone, SendsOnly, At, Fiber
<1>3. ShellPlain'
  BY <1>1 DEF Restart, RunInv, TurnsInv, ShellPlain
<1>4. StartsOnce' /\ TurnPending' /\ TurnRuns'
  BY <1>1 DEF StartsOnce, TurnPending, TurnRuns, Pending, Unrecorded, At, Fiber
<1>5. Unseen'
  BY <1>1 DEF RunInv, TurnsInv, Unseen, Fiber
<1>. QED  BY <1>2, <1>3, <1>4, <1>5 DEF RunInv, TurnsInv

LEMMA StopSessionRuns ==
    ASSUME TypeOK, Shape, InStep, RunInv, StopsAlone', NEW f \in Fiber, StopSession(f)
    PROVE  RunInv'
<1>. DEFINE o == fiber[f]
            next == [o EXCEPT !.at = "read"]
<1>1. /\ UNCHANGED <<shell, announced, budget.turns>> /\ o.at = "act" /\ o.does = "stop"
      /\ o.instance \in Instance
  BY DEF StopSession, ghosts, At, TypeOK
<1>2. /\ SessionsRun /\ RuntimeRuns /\ Live' \subseteq Live
      /\ f = "worker" => Live' = {}
  <2>1. CASE sessions[o.instance].on
    <3>1. o.instance \in Live /\ Stopped(o.instance)
      BY <1>1, <2>1 DEF StopSession, Live
    <3>2. f = "worker" => ~Moving
      BY <1>1 DEF Moving
    <3>. QED  BY <3>1, <3>2, EndingRuns
  <2>2. CASE ~sessions[o.instance].on
    <3>1. SessionsRun /\ RuntimeRuns /\ UNCHANGED Live
      BY <2>2, SameTurns DEF StopSession
    <3>2. ASSUME f = "worker" PROVE Live = {}
      <4>1. ~Moving /\ o.instance = binding.instance
        BY <1>1, <3>2 DEF Moving, InStep, CallsPlaced, Placed
      <4>. QED  BY <2>2, <4>1 DEF InStep, LivePlaced, Live
    <3>. QED  BY <3>1, <3>2
  <2>. QED  BY <2>1, <2>2
<1>3. fiber' = [fiber EXCEPT ![f] = next] \/ fiber' = [fiber EXCEPT ![f] = Rest]
  BY DEF StopSession, Goes, Rests, TypeOK
<1>4. /\ next.at = "read" /\ next.does = "stop" /\ next.seen = o.seen
      /\ next.recovering = o.recovering
  BY <1>1 DEF TypeOK, CallOf
<1>5. Runs(f, next)
  <2>. HIDE DEF next
  <2>. QED  BY <1>1, <1>2, <1>4 DEF Runs, RunInv, CallsInv, SendAlone, Unrecorded, At
<1>6. CallsInv' /\ (Pending' => Pending) /\ fiber'["reaper"].seen \subseteq fiber["reaper"].seen
  <2>. HIDE DEF next
  <2>. QED  BY <1>2, <1>3, <1>5, RestRuns, CallRuns DEF RunInv
<1>7. ShellRuns
  BY <1>1 DEF ShellRuns
<1>. QED  BY <1>1, <1>2, <1>6, <1>7, TurnsKeep DEF RunInv

LEMMA AdapterStartsRuns ==
    ASSUME TypeOK, Shape, RunInv, StopsAlone', NEW f \in Fiber, AdapterStarts(f)
    PROVE  RunInv'
<1>. DEFINE o == fiber[f]
            conversation == IF o.cursor = NoCursor THEN opened + 1 ELSE o.cursor
<1>1. PICK known \in BOOLEAN :
         /\ sessions' = [sessions EXCEPT ![o.instance] =
                [on |-> TRUE, conversation |-> conversation, known |-> known, turn |-> NoTurn]]
         /\ fiber' = [fiber EXCEPT ![f].at = IF o.recovering THEN "read" ELSE "stale",
                                  ![f].cursor = IF known THEN conversation ELSE NoCursor]
  BY DEF AdapterStarts
<1>. DEFINE session == [on |-> TRUE, conversation |-> conversation, known |-> known, turn |-> NoTurn]
            cursor == IF known THEN conversation ELSE NoCursor
            next == [o EXCEPT !.at = IF o.recovering THEN "read" ELSE "stale", !.cursor = cursor]
<1>2. /\ UNCHANGED <<runtime, shell, announced, budget.turns>> /\ o.at = "start"
      /\ o.instance \in Instance /\ fiber' = [fiber EXCEPT ![f] = next]
  BY <1>1 DEF AdapterStarts, ghosts, At, TypeOK
<1>3. /\ next.at = IF o.recovering THEN "read" ELSE "stale"
      /\ next.does = o.does /\ next.seen = o.seen /\ next.recovering = o.recovering
  BY DEF TypeOK, CallOf
<1>4. /\ o.recovering \/ (f = "worker" /\ o.does = "start")
      /\ f = "worker" => o.does # "stop"
  BY <1>2 DEF Shape, Shaped, RunInv, CallsInv, StopDone, At
<1>5. SessionsRun /\ RuntimeRuns /\ ShellRuns
  <2>1. \A k \in Instance : sessions'[k] = IF k = o.instance THEN session ELSE sessions[k]
    BY <1>1, <1>2 DEF TypeOK
  <2>2. session.turn = NoTurn
    OBVIOUS
  <2>. HIDE DEF session
  <2>. QED  BY <1>1, <1>2, <2>1, <2>2 DEF SessionsRun, RuntimeRuns, ShellRuns, Takes
<1>. HIDE DEF next
<1>6. Runs(f, next)
  BY <1>2, <1>3, <1>4 DEF Runs, RunInv, CallsInv, SendAlone, SendsOnly, Unrecorded, At, Shape, Shaped
<1>7. f # "worker" => fiber["worker"].does # "stop"
  <2>1. f # "worker" => fiber'["worker"] = fiber["worker"] /\ fiber'[f] = next
    BY <1>2 DEF TypeOK, Fiber
  <2>. QED  BY <1>3, <2>1 DEF StopsAlone, Others, At
<1>. QED  BY <1>2, <1>5, <1>6, <1>7, CallRuns, TurnsKeep DEF RunInv

LEMMA RouteRuns ==
    ASSUME TypeOK, Shape, InStep, RunInv, StopsAlone', NEW f \in Fiber, Route(f)
    PROVE  RunInv'
<1>. DEFINE i == binding.instance
            o == fiber[f]
            used == [o EXCEPT !.instance = i,
                              !.at = IF o.does = "respond" THEN "read" ELSE "act"]
            gone == [o EXCEPT !.instance = i, !.at = "read"]
            resumed == [o EXCEPT !.instance = i, !.at = "start", !.recovering = TRUE,
                                 !.cursor = binding.cursor]
<1>1. /\ UNCHANGED <<sessions, runtime, announced, budget.turns>> /\ UNCHANGED Live
      /\ o.at = "route" /\ o.does # "start"
  BY DEF Route, adapters, ghosts, At, Shape, Shaped, Live
<1>2. /\ f = "worker" => ~Moving
      /\ f = "send" => Pending /\ fiber["worker"].does # "start" /\ ~o.recovering /\ ~Unrecorded
      /\ f # "send" => o.does # "send"
  BY <1>1 DEF Moving, Pending, Unrecorded, RunInv, CallsInv, SendAlone, SendFresh, SendsOnly, At
<1>3. CASE GivesUp(f)
  BY <1>1, <1>2, <1>3, GivesUpRuns
<1>4. CASE /\ fiber' = [fiber EXCEPT ![f] = Rest]
           /\ UNCHANGED shell
  BY <1>1, <1>4, RestRuns, StepRuns
<1>5. CASE fiber' = [fiber EXCEPT ![f] = used] /\ UNCHANGED shell
  <2>1. /\ used.at = IF o.does = "respond" THEN "read" ELSE "act"
        /\ used.does = o.does /\ used.seen = o.seen /\ used.recovering = o.recovering
    BY DEF TypeOK, CallOf
  <2>. HIDE DEF used
  <2>2. Runs(f, used)
    BY <1>1, <1>2, <2>1 DEF Runs, At, Pending
  <2>. QED  BY <1>1, <1>5, <2>2, StepRuns
<1>6. CASE /\ fiber' = [fiber EXCEPT ![f] = gone]
           /\ UNCHANGED shell /\ i \notin Live
  <2>1. gone.at = "read" /\ gone.does = o.does /\ gone.seen = o.seen /\ gone.recovering = o.recovering
    BY DEF TypeOK, CallOf
  <2>2. f = "worker" => Live = {}
    BY <1>2, <1>6 DEF InStep, LivePlaced
  <2>. HIDE DEF gone
  <2>3. Runs(f, gone)
    BY <1>1, <1>2, <2>1, <2>2 DEF Runs, At, Pending
  <2>. QED  BY <1>1, <1>6, <2>3, StepRuns
<1>7. CASE /\ fiber' = [fiber EXCEPT ![f] = resumed]
           /\ UNCHANGED shell /\ o.does # "stop"
  <2>1. resumed.at = "start" /\ resumed.does = o.does /\ resumed.seen = o.seen
    BY DEF TypeOK, CallOf
  <2>. HIDE DEF resumed
  <2>2. Runs(f, resumed)
    BY <1>1, <1>2, <1>7, <2>1 DEF Runs, At, Pending
  <2>. QED  BY <1>1, <1>7, <2>2, StepRuns
<1>. QED  BY <1>3, <1>4, <1>5, <1>6, <1>7 DEF Route, Rests

\* The turn that was pending runs, and the start is the last event.
LEMMA SendTurnRuns ==
    ASSUME TypeOK, Shape, RunInv, StopsAlone', SendTurn
    PROVE  RunInv'
<1>. DEFINE o == fiber["send"]
            i == o.instance
<1>1. /\ UNCHANGED <<announced, budget.turns>> /\ o.at = "act" /\ i \in Instance
  BY DEF SendTurn, ghosts, At, TypeOK, Fiber
<1>2. Pending /\ fiber["worker"].does # "start" /\ ~o.recovering
  BY <1>1 DEF Pending, Unrecorded, RunInv, CallsInv, SendAlone, SendFresh, At
<1>3. CASE ~sessions[i].on
  <2>1. GivesUp("send") /\ UNCHANGED <<sessions, runtime>>
    BY <1>3 DEF SendTurn
  <2>2. o.does # "start"
    BY DEF Shape, Shaped, Fiber
  <2>. QED  BY <1>1, <1>2, <2>1, <2>2, GivesUpRuns DEF Fiber
<1>4. CASE sessions[i].on
  <2>. DEFINE event == [type |-> "started", turn |-> Turn]
              next == [o EXCEPT !.at = "read", !.cursor = sessions[i].conversation]
  <2>0. /\ sessions' = [sessions EXCEPT ![i].turn = Turn, ![i].known = TRUE]
        /\ runtime' = Append(runtime, event) /\ UNCHANGED shell
    BY <1>4 DEF SendTurn, Emit
  <2>1. fiber' = [fiber EXCEPT !["send"] = next]
    BY <1>4 DEF SendTurn, TypeOK
  <2>2. /\ next.at = "read" /\ next.does = o.does /\ ~next.recovering
    BY <1>2 DEF TypeOK, CallOf, Fiber
  <2>. HIDE DEF next
  <2>3. fiber'["send"] = next /\ \A f \in Fiber \ {"send"} : fiber'[f] = fiber[f]
    BY <2>1 DEF TypeOK, Fiber
  <2>4. /\ sessions'[i].turn = Turn /\ sessions'[i].on
        /\ \A k \in Instance : k # i => sessions'[k] = sessions[k]
    BY <1>1, <1>4, <2>0 DEF TypeOK, Session
  <2>5. /\ UNCHANGED Live
        /\ Turn' = Turn /\ Turn \in Nat
    <3>1. UNCHANGED Live
      BY <1>1, <1>4, <2>4 DEF Live
    <3>. QED  BY <1>1, <3>1 DEF Turn, TypeOK, SessionsAssumption
  <2>6. /\ shell.turn = NoTurn /\ Starts = {} /\ Takes = {}
        /\ Turn # NoTurn /\ Turn \notin announced
    BY <1>2 DEF RunInv, TurnsInv, TurnPending
  <2>7. Takes' = {i}
    BY <1>1, <2>4, <2>6 DEF Takes
  <2>8. /\ Starts' = {Len(runtime')} /\ runtime'[Len(runtime')].turn = Turn
        /\ runtime' # <<>>
    <3>. DEFINE Event == [type : {"started", "ended", "exited"}, turn : Nat]
    <3>1. runtime \in Seq(Event) /\ event \in Event
      BY <2>5 DEF TypeOK
    <3>2. event.type = "started" /\ event.turn = Turn
      OBVIOUS
    <3>. HIDE DEF Event, event
    <3>3. /\ DOMAIN runtime = 1..Len(runtime) /\ Len(runtime) \in Nat
          /\ DOMAIN runtime' = 1..(Len(runtime) + 1) /\ Len(runtime') = Len(runtime) + 1
          /\ \A n \in 1..Len(runtime) : runtime'[n] = runtime[n]
          /\ runtime'[Len(runtime) + 1] = event
      BY <2>0, <3>1
    <3>4. runtime' # <<>>
      BY <3>3
    <3>. QED  BY <2>6, <3>2, <3>3, <3>4 DEF Starts
  <2>9. CallsInv'
    BY <1>2, <2>2, <2>3, <2>5
    DEF RunInv, CallsInv, SendAlone, SendFresh, StopDone, SendsOnly, At, Fiber
  <2>10. ~Pending'
    BY <1>2, <2>2, <2>3 DEF Pending, Unrecorded, Fiber
  <2>11. ShellPlain' /\ StartsOnce' /\ TurnPending'
    BY <1>1, <2>0, <2>5, <2>6, <2>8, <2>10
    DEF RunInv, TurnsInv, ShellPlain, StartsOnce, TurnPending
  <2>12. TurnRuns'
    BY <1>1, <2>4, <2>5, <2>7, <2>8 DEF TurnRuns, Live
  <2>13. Unseen'
    BY <1>1, <2>3, <2>4, <2>5, <2>6, <2>7 DEF RunInv, TurnsInv, Unseen, Fiber
  <2>. QED  BY <2>9, <2>11, <2>12, <2>13 DEF RunInv, TurnsInv
<1>. QED  BY <1>3, <1>4

LEMMA IngestRuns ==
    ASSUME TypeOK, RunInv, StopsAlone', Ingest
    PROVE  RunInv'
<1>. DEFINE Event == [type : {"started", "ended", "exited"}, turn : Nat]
<1>1. UNCHANGED <<fiber, sessions, budget.turns>> /\ runtime # <<>> /\ runtime \in Seq(Event)
  BY DEF Ingest, TypeOK
<1>. HIDE DEF Event
<1>2. /\ runtime' = Tail(runtime) /\ Head(runtime) = runtime[1]
      /\ Len(runtime) \in Nat \ {0} /\ DOMAIN runtime = 1..Len(runtime)
      /\ Len(runtime') = Len(runtime) - 1 /\ DOMAIN runtime' = 1..(Len(runtime) - 1)
      /\ \A n \in 1..(Len(runtime) - 1) : runtime'[n] = runtime[n + 1]
      /\ Len(runtime) = 1 => runtime' = <<>>
      /\ Len(runtime) # 1 => runtime' # <<>>
  <2>1. runtime' = Tail(runtime)
    BY DEF Ingest
  <2>2. Len(runtime) \in Nat \ {0} /\ DOMAIN runtime = 1..Len(runtime)
    BY <1>1, EmptySeq
  <2>3. /\ Head(runtime) = runtime[1]
        /\ Tail(runtime) \in Seq(Event) /\ Len(Tail(runtime)) = Len(runtime) - 1
        /\ \A n \in 1..(Len(runtime) - 1) : Tail(runtime)[n] = runtime[n + 1]
    BY <1>1, HeadTailProperties
  <2>4. runtime' \in Seq(Event) /\ DOMAIN runtime' = 1..(Len(runtime) - 1)
    BY <2>1, <2>2, <2>3
  <2>5. Len(runtime') = 0 <=> runtime' = <<>>
    BY <2>4, EmptySeq
  <2>. QED  BY <2>1, <2>2, <2>3, <2>4, <2>5
<1>3. UNCHANGED <<Live, Takes, Turn>> /\ Turn \in Nat /\ (Pending' <=> Pending)
  BY <1>1 DEF Live, Takes, Turn, Pending, Unrecorded, At, TypeOK, SessionsAssumption
<1>4. CallsInv'
  BY <1>1, <1>3, FibersRun DEF RunInv
<1>5. Starts' = {n \in 1..(Len(runtime) - 1) : n + 1 \in Starts} /\ Starts \subseteq 1..Len(runtime)
  BY <1>2 DEF Starts
<1>. PICK event : event = runtime[1]
  OBVIOUS
<1>6. 1 \in Starts <=> event.type = "started"
  BY <1>2 DEF Starts
<1>7. CASE 1 \in Starts
  <2>1. Starts = {1} /\ event.turn = Turn /\ Turn \notin announced
    BY <1>7 DEF RunInv, TurnsInv, StartsOnce
  <2>2. Starts' = {}
    BY <1>2, <1>5, <2>1
  <2>3. shell.turn \in {NoTurn, Turn} /\ ~Pending
    BY <1>7 DEF RunInv, TurnsInv, ShellPlain, TurnPending
  <2>4. shell' = [status |-> "running", turn |-> Turn] /\ announced' = announced \cup {Turn}
    BY <1>2, <1>6, <1>7, <2>1, <2>3 DEF Ingest
  <2>5. ShellPlain' /\ StartsOnce' /\ TurnPending'
    BY <1>3, <2>2, <2>3, <2>4 DEF ShellPlain, StartsOnce, TurnPending
  <2>6. TurnRuns'
    BY <1>1, <1>2, <1>3, <2>1, <2>4 DEF RunInv, TurnsInv, TurnRuns
  <2>7. Unseen'
    BY <1>1, <1>3, <2>4 DEF RunInv, TurnsInv, Unseen
  <2>. QED  BY <1>4, <2>5, <2>6, <2>7 DEF RunInv, TurnsInv
<1>8. CASE 1 \notin Starts
  <2>1. /\ announced' = announced
        /\ shell' = shell \/ (shell'.turn = NoTurn /\ shell'.status \in {"stopped", "ready"})
    BY <1>2, <1>6, <1>8 DEF Ingest
  <2>2. ShellPlain' /\ TurnPending'
    <3>1. Starts = {} => Starts' = {}
      BY <1>5
    <3>. QED  BY <1>3, <2>1, <3>1 DEF RunInv, TurnsInv, ShellPlain, TurnPending
  <2>3. StartsOnce'
    <3>1. ASSUME NEW n \in Starts' PROVE Starts' = {n} /\ runtime'[n].turn = Turn /\ Turn \notin announced
      <4>1. n + 1 \in Starts /\ n \in 1..(Len(runtime) - 1)
        BY <1>5
      <4>2. Starts = {n + 1} /\ runtime[n + 1].turn = Turn /\ Turn \notin announced
        BY <4>1 DEF RunInv, TurnsInv, StartsOnce
      <4>. QED  BY <1>2, <1>5, <4>1, <4>2
    <3>. QED  BY <1>3, <2>1, <3>1 DEF StartsOnce
  <2>4. TurnRuns'
    <3>1. ASSUME NEW k \in Takes PROVE runtime' # <<>> /\ Len(runtime') \in Starts'
      <4>1. Len(runtime) \in Starts
        BY <1>1 DEF RunInv, TurnsInv, TurnRuns
      <4>. QED  BY <1>2, <1>5, <1>8, <4>1
    <3>. QED  BY <1>1, <1>3, <3>1 DEF RunInv, TurnsInv, TurnRuns
  <2>5. Unseen'
    BY <1>1, <1>3, <2>1 DEF RunInv, TurnsInv, Unseen
  <2>. QED  BY <1>4, <2>2, <2>3, <2>4, <2>5 DEF RunInv, TurnsInv
<1>. QED  BY <1>7, <1>8

\* What the calls of others do not cross stays apart from them.
LEMMA Uncrossed ==
    ASSUME TypeOK, Shape, Next, ~crossed'
    PROVE  StopsAlone' /\ ~crossed
<1>1. crossed' = (crossed \/ Crossing') \/ crossed' = TRUE
  BY Zenon DEF Next
<1>2. ~Crossing'
  <2>1. SUFFICES ASSUME Crossing' PROVE FALSE
    OBVIOUS
  <2>2. (crossed \/ Crossing') = TRUE
    BY <2>1
  <2>3. crossed' = TRUE
    BY <1>1, <2>2
  <2>. QED  BY <2>3
<1>3. StopsAlone'
  BY <1>2 DEF Crossing, StopsAlone, At, Others
<1>4. ~crossed
  BY DEF Next
<1>. QED  BY <1>3, <1>4

LEMMA RunPreserved ==
    ASSUME TypeOK, Shape, InStep, RunInv, Next, ~crossed'
    PROVE  RunInv'
<1>1. StopsAlone'
  BY Uncrossed
<1>2. ASSUME NEW f \in Fiber, Step(f) PROVE RunInv'
  BY <1>1, <1>2, RouteRuns, AdoptRuns, NothingToResumeRuns, AdapterStartsRuns, ReadRowRuns,
     WriteRowRuns, StopSessionRuns, BindRuns, LookUpCursorRuns, StopStaleRuns, SendTurnRuns,
     SessionsListedRuns, SweepRuns, DecideRuns
  DEF Step, Worker
<1>. QED
  BY <1>1, <1>2, EnsureSessionRuns, StopRequestedRuns, ApprovalRememberedRuns,
     RevertRequestedRuns, TurnEndsRuns, SessionExitsRuns, IngestRuns, RestartRuns
  DEF Next

ReaperInv == SessionsInv /\ (~crossed => RunInv)

LEMMA RunInvHolds == Spec => []ReaperInv
<1>1. ASSUME Init PROVE RunInv
  <2>1. /\ \A f \in Fiber : fiber[f] = Rest
        /\ Rest.at = "rest" /\ Rest.does = "nothing" /\ Rest.seen = {}
        /\ Live = {} /\ Takes = {} /\ Starts = {} /\ Turn = 0
    BY <1>1, SessionsAssumption DEF Init, Live, Takes, Starts, Turn, NoSession, Rest
  <2>2. CallsInv
    BY <2>1 DEF CallsInv, SendAlone, SendFresh, StopsAlone, StopDone, SendsOnly, At, Fiber
  <2>3. TurnsInv
    BY <1>1, <2>1
    DEF Init, TurnsInv, ShellPlain, StartsOnce, TurnPending, TurnRuns, Unseen, Pending, Unrecorded,
        At, Fiber
  <2>. QED  BY <2>2, <2>3 DEF RunInv
<1>2. ASSUME SessionsInv, ~crossed => RunInv, [Next]_vars, ~crossed' PROVE RunInv'
  <2>1. CASE Next
    <3>1. ~crossed
      BY <1>2, <2>1, Uncrossed DEF SessionsInv
    <3>. QED  BY <1>2, <2>1, <3>1, RunPreserved DEF SessionsInv
  <2>2. CASE UNCHANGED vars
    <3>1. /\ UNCHANGED <<sessions, runtime, shell, announced, budget.turns>> /\ UNCHANGED fiber
          /\ UNCHANGED <<crossed, Takes, Live>>
      BY <2>2 DEF vars, adapters, ghosts, Takes, Live
    <3>2. RunInv
      BY <1>2, <3>1
    <3>. QED
      BY <1>2, <3>1, <3>2, SameTurns, FibersRun, TurnsKeep DEF RunInv, ShellRuns, SessionsInv
  <2>. QED  BY <1>2, <2>1, <2>2
<1>. QED  BY <1>1, <1>2, SessionsInvHolds, PTL DEF Spec, ReaperInv

\* The turn that the reaper stops with an idle session, if any, is one whose
\* start the thread had not heard of when the reaper read it, unless the
\* calls of others crossed: the reaper goes on only without an active turn,
\* and the start of a session's turn is then still to be ingested.
THEOREM ReaperSparesKnownTurns == Spec => ReapedTurnsAreNews
<1>1. ReaperInv =>
        [\A i \in Instance :
            fiber["reaper"].at = "act" /\ fiber'["reaper"].at = "read"
              /\ sessions[i].turn # NoTurn /\ ~sessions'[i].on /\ ~crossed
            => sessions[i].turn \notin fiber["reaper"].seen]_vars
  BY DEF ReaperInv, RunInv, TurnsInv, Unseen, Takes
<1>. QED  BY <1>1, RunInvHolds, PTL DEF ReapedTurnsAreNews
===============================================================================
