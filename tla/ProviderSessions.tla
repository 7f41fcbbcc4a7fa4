--------------------------- MODULE ProviderSessions ---------------------------
(***************************************************************************)
(* Which provider instance serves a thread.  Three records say so and are  *)
(* never changed together: the sessions inside the adapters, the binding   *)
(* in provider_session_runtime (ProviderSessionDirectory), and the session *)
(* of the thread's projection, which follows the adapters' events.         *)
(* ProviderService keeps the first two in step.  It has no lock: the       *)
(* fibers of the command reactor, of a send, of the checkpoint reactor and *)
(* of the reaper run its calls side by side, and an upsert is a read and a *)
(* later write of the whole row.                                           *)
(*                                                                         *)
(* One thread.  A fiber moves from one call of the database or of an       *)
(* adapter to the next.  A conversation is what a resume cursor names.     *)
(***************************************************************************)
EXTENDS Naturals, Sequences, FiniteSets

CONSTANTS
    Instance,       \* provider instances that can resume each other's conversations
    None,           \* no instance
    MaxTurns,       \* bound: turn starts that are requested
    MaxEvents       \* bound: what else happens: stops, remembered approvals, reverts,
                    \* failed calls, sessions that end by themselves, restarts

ASSUME SessionsAssumption ==
    /\ None \notin Instance
    /\ {MaxTurns, MaxEvents} \subseteq Nat

VARIABLES
    binding,        \* the row of the thread
    sessions,       \* what each adapter has for the thread
    shell,          \* projection_thread_sessions of the thread
    runtime,        \* events of the adapters that are not ingested
    fiber,          \* where each fiber is in a call of ProviderService
    opened,         \* conversations there are
    conversations,  \* ghost: those that were sent a turn
    announced,      \* ghost: turns whose start is ingested
    died,           \* ghost: a listSessions died
    crossed,        \* ghost: a switch of instances met another call, or a call failed
    astray,         \* ghost: a cursor was not recorded, not used or replaced, or a
                    \* call was overtaken
    budget

adapters == <<sessions, runtime, opened, conversations>>
ghosts == <<announced, died>>
vars == <<binding, adapters, shell, fiber, ghosts, crossed, astray, budget>>

NoCursor == 0
NoTurn == 0
NoRow == [instance |-> None, status |-> "running", cursor |-> NoCursor]
NoSession == [on |-> FALSE, conversation |-> NoCursor, known |-> FALSE, turn |-> NoTurn]
Fiber == {"worker", "send", "checkpoint", "reaper"}
Rest == [at |-> "rest", does |-> "nothing", instance |-> None, cursor |-> NoCursor,
         recovering |-> FALSE, row |-> NoRow, seen |-> {}]

Live == {i \in Instance : sessions[i].on}

\* The kinds of values.  A call that names a session knows its instance.
Row == [instance : Instance \cup {None}, status : {"running", "stopped"}, cursor : Nat]
Session == [on : BOOLEAN, conversation : Nat, known : BOOLEAN, turn : Nat]
Place == {"rest", "look", "route", "start", "stale", "read", "write", "act", "bind", "list",
          "decide"}
Operation == {"nothing", "start", "send", "stop", "respond", "rollback"}
CallOf == [at : Place, does : Operation, instance : Instance \cup {None}, cursor : Nat,
           recovering : BOOLEAN, row : Row, seen : SUBSET (Instance \cup Nat)]

TypeOK ==
    /\ binding \in Row
    /\ sessions \in [Instance -> Session]
    /\ shell \in [status : {"none", "ready", "running", "stopped", "interrupted"}, turn : Nat]
    /\ runtime \in Seq([type : {"started", "ended", "exited"}, turn : Nat])
    /\ fiber \in [Fiber -> CallOf]
    /\ \A f \in Fiber :
          fiber[f].at \in {"look", "start", "stale", "read", "write", "act"}
            => fiber[f].instance \in Instance
    /\ opened \in Nat /\ conversations \subseteq Nat /\ announced \subseteq Nat
    /\ died \in BOOLEAN /\ crossed \in BOOLEAN /\ astray \in BOOLEAN
    /\ budget \in [turns : 0..MaxTurns, events : 0..MaxEvents]

Init ==
    /\ binding = NoRow
    /\ sessions = [i \in Instance |-> NoSession]
    /\ shell = [status |-> "none", turn |-> NoTurn]
    /\ runtime = <<>> /\ fiber = [f \in Fiber |-> Rest]
    /\ opened = 0 /\ conversations = {} /\ announced = {}
    /\ died = FALSE /\ crossed = FALSE /\ astray = FALSE
    /\ budget = [turns |-> MaxTurns, events |-> MaxEvents]

Spend(what) ==
    /\ budget[what] > 0
    /\ budget' = [budget EXCEPT ![what] = @ - 1]

At(f, place) == fiber[f].at = place
Goes(f, place) == fiber' = [fiber EXCEPT ![f].at = place]
Rests(f) == fiber' = [fiber EXCEPT ![f] = Rest]

Call(does) == [Rest EXCEPT !.at = "route", !.does = does]
Emit(event) == runtime' = Append(runtime, event)
Exited == [type |-> "exited", turn |-> NoTurn]

\* A session that dies with listSessions: it is live where the binding says
\* that another instance has the thread.
Conflict(seen) == binding.instance # None /\ \E i \in seen : i # binding.instance

-----------------------------------------------------------------------------
(* The command reactor *)

\* A turn start waits while the thread has one under way.
Busy ==
    \/ ~At("send", "rest")
    \/ shell.turn # NoTurn
    \/ \E n \in DOMAIN runtime : runtime[n].type = "started"

TurnStartFailed ==
    shell' = IF shell.status \in {"none", "stopped"} THEN shell
             ELSE [status |-> "ready", turn |-> NoTurn]

\* The cursor of the live session, from the binding if the session has none.
ActiveCursor(i) == IF sessions[i].known THEN sessions[i].conversation ELSE binding.cursor

\* ensureSessionForThread: the session is used as it is, restarted for a
\* changed mode, directory or instance, or started.
EnsureSession(j) ==
    /\ At("worker", "rest") /\ ~Busy /\ Spend("turns")
    /\ LET used == shell.status \notin {"none", "stopped"} /\ Live # {}
           active == CHOOSE i \in Live : TRUE
       IN  \/ /\ Conflict(Live)
              /\ died' = TRUE /\ TurnStartFailed
              /\ UNCHANGED <<fiber, announced>>
           \/ /\ ~Conflict(Live) /\ used /\ active = j
              /\ fiber' = [fiber EXCEPT !["send"] = Call("send")]
              /\ UNCHANGED <<shell, ghosts>>
           \/ /\ ~Conflict(Live)
              /\ fiber' = [fiber EXCEPT !["worker"] =
                     [Rest EXCEPT !.at = "look", !.does = "start", !.instance = j,
                                  !.cursor = IF used THEN ActiveCursor(active) ELSE NoCursor]]
              /\ UNCHANGED <<shell, ghosts>>
    /\ UNCHANGED <<binding, adapters, astray>>

\* thread.session-stop-requested
StopRequested ==
    /\ At("worker", "rest") /\ Spend("events")
    /\ IF shell.status \in {"none", "stopped"}
       THEN shell' = [status |-> "stopped", turn |-> NoTurn] /\ UNCHANGED fiber
       ELSE fiber' = [fiber EXCEPT !["worker"] = Call("stop")] /\ UNCHANGED shell
    /\ UNCHANGED <<binding, adapters, ghosts, astray>>

\* respondToRequest with the decision to accept for the session.
ApprovalRemembered ==
    /\ At("worker", "rest") /\ shell.turn # NoTurn /\ Spend("events")
    /\ fiber' = [fiber EXCEPT !["worker"] = Call("respond")]
    /\ UNCHANGED <<binding, adapters, shell, ghosts, astray>>

\* What the reactor does with a call that returned: bind the new session to
\* the thread and send the turn, or set the thread's session to stopped.
Bind ==
    /\ At("worker", "bind")
    /\ IF fiber["worker"].does = "start"
       THEN /\ shell' = [status |-> "ready", turn |-> NoTurn]
            /\ fiber' = [fiber EXCEPT !["worker"] = Rest, !["send"] = Call("send")]
       ELSE /\ shell' = [status |-> "stopped", turn |-> NoTurn]
            /\ Rests("worker")
    /\ UNCHANGED <<binding, adapters, ghosts, astray, budget>>

-----------------------------------------------------------------------------
(* The checkpoint reactor and the reaper *)

\* A revert begins with a listSessions.
RevertRequested ==
    /\ At("checkpoint", "rest") /\ Spend("events")
    /\ fiber' = [fiber EXCEPT !["checkpoint"] = [Rest EXCEPT !.at = "list", !.seen = Live]]
    /\ UNCHANGED <<binding, adapters, shell, ghosts, astray>>

\* listSessions then reads the bindings, and dies if one names another
\* instance; with a live session the conversation is rolled back.
SessionsListed ==
    /\ At("checkpoint", "list")
    /\ LET seen == fiber["checkpoint"].seen
       IN  /\ died' = (died \/ Conflict(seen))
           /\ fiber' = [fiber EXCEPT !["checkpoint"] =
                 IF Conflict(seen) \/ seen = {} THEN Rest ELSE Call("rollback")]
    /\ UNCHANGED <<binding, adapters, shell, announced, astray, budget>>

\* A sweep lists the bindings with the time they were written last.  Any time
\* may pass between two steps, so any binding may have been idle too long.
Sweep ==
    /\ At("reaper", "rest")
    /\ binding.instance # None /\ binding.status # "stopped"
    /\ fiber' = [fiber EXCEPT !["reaper"] = [Rest EXCEPT !.at = "decide"]]
    /\ UNCHANGED <<binding, adapters, shell, ghosts, astray, budget>>

\* Mutant: the sweep does not look at the thread's active turn.
DecideByAge ==
    /\ At("reaper", "decide")
    /\ \/ fiber' = [fiber EXCEPT !["reaper"] = [Call("stop") EXCEPT !.seen = announced]]
       \/ Rests("reaper")
    /\ UNCHANGED <<binding, adapters, shell, ghosts, astray, budget>>

\* It then reads the thread, and may stop a session without an active turn:
\* one that was idle too long, or one that is ready when there are too many.
Decide ==
    /\ At("reaper", "decide")
    /\ \/ /\ shell.turn = NoTurn
          /\ fiber' = [fiber EXCEPT !["reaper"] = [Call("stop") EXCEPT !.seen = announced]]
       \/ Rests("reaper")
    /\ UNCHANGED <<binding, adapters, shell, ghosts, astray, budget>>

-----------------------------------------------------------------------------
(* ProviderService *)

\* startSession resumes with the cursor it is given, or with the one of the
\* binding if that is of the same instance.
StartCursor(o) ==
    IF o.cursor # NoCursor THEN o.cursor
    ELSE IF binding.instance = o.instance THEN binding.cursor ELSE NoCursor

LookUpCursor ==
    /\ At("worker", "look")
    /\ LET cursor == StartCursor(fiber["worker"])
       IN  /\ fiber' = [fiber EXCEPT !["worker"].at = "start", !["worker"].cursor = cursor]
           /\ astray' = (astray \/ (cursor = NoCursor /\ binding.cursor # NoCursor))
    /\ UNCHANGED <<binding, adapters, shell, ghosts, budget>>

\* The call failed.  A turn that was accepted and is not recorded is the
\* reactor's failed start all the same.
GivesUp(f) ==
    /\ Rests(f)
    /\ IF fiber[f].does \in {"start", "send"} THEN TurnStartFailed ELSE UNCHANGED shell

\* resolveRoutableSession: the session of the binding's instance, or one that
\* is resumed there unless the call is a stop.
Route(f) ==
    /\ At(f, "route")
    /\ LET o == fiber[f]
           to == [o EXCEPT !.instance = binding.instance]
       IN  \/ /\ binding.instance \in Live
              /\ IF o.does = "rollback" THEN Rests(f)
                 ELSE fiber' = [fiber EXCEPT ![f] =
                          [to EXCEPT !.at = IF o.does = "respond" THEN "read" ELSE "act"]]
              /\ UNCHANGED shell
           \/ /\ binding.instance \in Instance \ Live /\ o.does = "stop"
              /\ fiber' = [fiber EXCEPT ![f] = [to EXCEPT !.at = "read"]]
              /\ UNCHANGED shell
           \/ /\ binding.instance \in Instance \ Live /\ o.does # "stop"
              /\ fiber' = [fiber EXCEPT ![f] =
                     [to EXCEPT !.at = "start", !.recovering = TRUE, !.cursor = binding.cursor]]
              /\ UNCHANGED shell
           \/ /\ binding.instance = None
              /\ GivesUp(f)
    /\ UNCHANGED <<binding, adapters, ghosts, astray, budget>>

\* recoverSessionForThread looks again: it takes a session that is there by
\* now, and has nothing to resume without a cursor.
Adoptable(o) == o.recovering /\ sessions[o.instance].on

Adopt(f) ==
    /\ At(f, "start") /\ Adoptable(fiber[f])
    /\ LET session == sessions[fiber[f].instance]
       IN  fiber' = [fiber EXCEPT ![f].at = "read",
                         ![f].cursor = IF session.known THEN session.conversation ELSE NoCursor]
    /\ UNCHANGED <<binding, adapters, shell, ghosts, astray, budget>>

NothingToResume(f) ==
    /\ At(f, "start") /\ fiber[f].recovering /\ fiber[f].cursor = NoCursor
    /\ ~Adoptable(fiber[f])
    /\ GivesUp(f)
    /\ UNCHANGED <<binding, adapters, ghosts, astray, budget>>

\* The adapter starts the session, in place of one it has for the thread.
\* A new conversation may have no cursor before its first turn.
AdapterStarts(f) ==
    /\ At(f, "start")
    /\ LET o == fiber[f]
           fresh == o.cursor = NoCursor
           conversation == IF fresh THEN opened + 1 ELSE o.cursor
       IN  /\ o.recovering => ~Adoptable(o) /\ ~fresh
           /\ \E known \in {TRUE, ~fresh} :
                 /\ sessions' = [sessions EXCEPT ![o.instance] =
                        [on |-> TRUE, conversation |-> conversation, known |-> known,
                         turn |-> NoTurn]]
                 /\ opened' = IF fresh THEN conversation ELSE opened
                 /\ fiber' = [fiber EXCEPT
                        ![f].at = IF o.recovering THEN "read" ELSE "stale",
                        ![f].cursor = IF known THEN conversation ELSE NoCursor]
    /\ UNCHANGED <<binding, runtime, conversations, shell, ghosts, astray, budget>>

Stopped(i) ==
    /\ sessions' = [sessions EXCEPT ![i] = NoSession]
    /\ Emit(Exited)

\* stopStaleSessionsForThread, whose failures are logged and ignored.
Stale == Live \ {fiber["worker"].instance}

\* Mutant: the sessions of other instances are left running.
KeepStale ==
    /\ At("worker", "stale")
    /\ Goes("worker", "read")
    /\ UNCHANGED <<binding, adapters, shell, ghosts, astray, budget>>

StopStale ==
    /\ At("worker", "stale")
    /\ \/ /\ \E i \in Stale : Stopped(i)
          /\ UNCHANGED fiber
       \/ /\ Stale = {}
          /\ Goes("worker", "read")
          /\ UNCHANGED <<sessions, runtime>>
    /\ UNCHANGED <<binding, opened, conversations, shell, ghosts, astray, budget>>

StopStaleFails ==
    /\ At("worker", "stale") /\ Stale # {} /\ Spend("events")
    /\ Goes("worker", "read")
    /\ UNCHANGED <<binding, adapters, shell, ghosts, astray>>

\* ProviderSessionDirectory.upsert reads the row ...
ReadRow(f) ==
    /\ At(f, "read")
    /\ fiber' = [fiber EXCEPT ![f].at = "write", ![f].row = binding]
    /\ UNCHANGED <<binding, adapters, shell, ghosts, astray, budget>>

StatusOf(o) ==
    IF o.recovering \/ o.does \in {"start", "send"} THEN "running"
    ELSE IF o.does = "stop" THEN "stopped" ELSE o.row.status

\* Mutant: a cursor that is left out is written as none.
RowWithoutCursor(o) ==
    [instance |-> o.instance, status |-> StatusOf(o), cursor |-> o.cursor]

\* ... and writes it, with what the call leaves out as it was read.
RowOf(o) ==
    [instance |-> o.instance, status |-> StatusOf(o),
     cursor |-> IF o.cursor # NoCursor THEN o.cursor ELSE o.row.cursor]

\* Where a call goes on once its row is written.
Continued(o) ==
    IF o.recovering /\ o.does # "rollback"
    THEN [Rest EXCEPT !.at = IF o.does = "send" THEN "act" ELSE "read",
                      !.does = o.does, !.instance = o.instance]
    ELSE Rest

\* Ghosts: a call stores the cursor of another conversation than the row's, or
\* writes a row it has read too early, or that of an instance the thread has left.
Replaced(cursor) == cursor # NoCursor /\ binding.cursor \notin {NoCursor, cursor}
Overtaken(o) ==
    o.row.cursor # binding.cursor \/ (o.does # "start" /\ o.instance # binding.instance)

WriteRow(f) ==
    /\ At(f, "write")
    /\ LET o == fiber[f]
       IN  /\ binding' = RowOf(o)
           /\ astray' = (astray \/ Replaced(o.cursor) \/ Overtaken(o))
           /\ fiber' = [fiber EXCEPT ![f] =
                  IF f = "worker" /\ o.does \in {"start", "stop"}
                  THEN [Rest EXCEPT !.at = "bind", !.does = o.does] ELSE Continued(o)]
    /\ UNCHANGED <<adapters, shell, ghosts, budget>>

\* The adapter takes the turn; a session that went away meanwhile refuses it.
Turn == MaxTurns - budget.turns

SendTurn ==
    /\ At("send", "act")
    /\ LET i == fiber["send"].instance
           conversation == sessions[i].conversation
       IN  \/ /\ sessions[i].on
              /\ sessions' = [sessions EXCEPT ![i].turn = Turn, ![i].known = TRUE]
              /\ conversations' = conversations \cup {conversation}
              /\ Emit([type |-> "started", turn |-> Turn])
              /\ fiber' = [fiber EXCEPT !["send"].at = "read", !["send"].cursor = conversation]
              /\ UNCHANGED shell
           \/ /\ ~sessions[i].on
              /\ GivesUp("send")
              /\ UNCHANGED <<sessions, conversations, runtime>>
    /\ UNCHANGED <<binding, opened, ghosts, astray, budget>>

\* Adapters differ in whether stopping an absent session is an error.
StopSession(f) ==
    /\ At(f, "act") /\ fiber[f].does = "stop"
    /\ \/ /\ sessions[fiber[f].instance].on
          /\ Stopped(fiber[f].instance) /\ Goes(f, "read")
       \/ /\ ~sessions[fiber[f].instance].on
          /\ Goes(f, "read") \/ Rests(f)
          /\ UNCHANGED <<sessions, runtime>>
    /\ UNCHANGED <<binding, opened, conversations, shell, ghosts, astray, budget>>

Unrecorded ==
    /\ fiber["send"].at \in {"read", "write"} /\ ~fiber["send"].recovering

CallFails(f) ==
    /\ fiber[f].at \in {"look", "route", "start", "read", "write", "act"}
    /\ Spend("events")
    /\ GivesUp(f)
    /\ astray' = (astray \/ (f = "send" /\ Unrecorded))
    /\ UNCHANGED <<binding, adapters, ghosts>>

-----------------------------------------------------------------------------
(* The providers, the ingestion and the server *)

TurnEnds(i) ==
    /\ sessions[i].turn # NoTurn
    /\ sessions' = [sessions EXCEPT ![i].turn = NoTurn]
    /\ Emit([type |-> "ended", turn |-> sessions[i].turn])
    /\ UNCHANGED <<binding, opened, conversations, shell, fiber, ghosts, astray, budget>>

SessionExits(i) ==
    /\ sessions[i].on /\ Spend("events")
    /\ Stopped(i)
    /\ UNCHANGED <<binding, opened, conversations, shell, fiber, ghosts, astray>>

\* ProviderRuntimeIngestion sets the thread's session; events of a turn other
\* than the active one do not count.
Ingest ==
    /\ runtime # <<>>
    /\ LET event == Head(runtime)
           counts == shell.turn \in {NoTurn, event.turn}
       IN  /\ shell' = CASE event.type = "exited" -> [status |-> "stopped", turn |-> NoTurn]
                         [] event.type = "started" /\ counts ->
                                [status |-> "running", turn |-> event.turn]
                         [] event.type = "ended" /\ counts -> [status |-> "ready", turn |-> NoTurn]
                         [] OTHER -> shell
           /\ announced' = IF event.type = "started" THEN announced \cup {event.turn}
                           ELSE announced
    /\ runtime' = Tail(runtime)
    /\ UNCHANGED <<binding, sessions, opened, conversations, fiber, died, astray, budget>>

\* runStopAll: the cursors of live sessions are stored, every binding stopped.
StopAll ==
    \/ \E i \in Live :
          binding' = [instance |-> i, status |-> "stopped", cursor |-> ActiveCursor(i)]
    \/ /\ Live = {}
       /\ binding' = [binding EXCEPT !.status = IF binding = NoRow THEN @ ELSE "stopped"]

\* The server stops, in order or not, and starts again.
Restart ==
    /\ Spend("events")
    /\ StopAll \/ UNCHANGED binding
    /\ astray' = (astray \/ Replaced(binding'.cursor)
                    \/ (Unrecorded /\ binding'.cursor # fiber["send"].cursor))
    /\ sessions' = [i \in Instance |-> NoSession] /\ runtime' = <<>>
    /\ fiber' = [f \in Fiber |-> Rest]
    /\ shell' = IF shell.turn # NoTurn \/ shell.status = "running"
                THEN [status |-> "interrupted", turn |-> NoTurn] ELSE shell
    /\ UNCHANGED <<opened, conversations, ghosts>>

-----------------------------------------------------------------------------
(* The system *)

Worker == Bind \/ LookUpCursor \/ StopStale
Step(f) ==
    \/ Route(f) \/ Adopt(f) \/ NothingToResume(f) \/ AdapterStarts(f)
    \/ ReadRow(f) \/ WriteRow(f) \/ StopSession(f)
    \/ f = "worker" /\ Worker
    \/ f = "send" /\ SendTurn
    \/ f = "checkpoint" /\ SessionsListed
    \/ f = "reaper" /\ (Sweep \/ Decide)

\* Another call is under way while the worker moves the thread to another
\* instance or stops its session.
Crossing ==
    /\ LET o == fiber["worker"]
       IN  \/ o.does = "stop"
           \/ o.does = "start" /\ o.at # "bind" /\ binding.instance \notin {None, o.instance}
    /\ \E f \in Fiber \ {"worker"} : ~At(f, "rest")

Next ==
    \/ /\ \/ \E j \in Instance : EnsureSession(j)
          \/ StopRequested \/ ApprovalRemembered \/ RevertRequested
          \/ \E f \in Fiber : Step(f)
          \/ \E i \in Instance : TurnEnds(i) \/ SessionExits(i)
          \/ Ingest \/ Restart
       /\ crossed' = (crossed \/ Crossing')
    \/ /\ StopStaleFails \/ \E f \in Fiber : CallFails(f)
       /\ crossed' = TRUE

Spec == Init /\ [][Next]_vars /\ \A f \in Fiber : WF_vars(Step(f)) /\ WF_vars(Ingest)

-----------------------------------------------------------------------------
(* Properties *)

\* The sessions inside the adapters and the binding name the same instance
\* whenever a listSessions compares them: it dies otherwise, for every thread
\* of the server.
ListSessionsSucceeds == ~died

\* The worker alone keeps them in step: they differ only after a call failed,
\* or a switch of instances or a stop met another call on the thread.
DiesOnlyWhenCrossed == died => crossed

\* All turns of a thread go to one conversation, over switches of instances,
\* sessions that end or are reaped, and restarts, unless a cursor was not
\* recorded, was overwritten with another, or belonged to another instance
\* than the one that starts, or a call wrote its row after the thread had
\* moved to another instance.
ConversationKept == ~astray => Cardinality(conversations) <= 1

\* The reaper reads the thread, then stops its session.  The turn it stops
\* with it, if any, is one whose start the thread had not heard of when the
\* reaper read it, unless the calls of others crossed.
ReapedTurnsAreNews ==
    [][\A i \in Instance :
         fiber["reaper"].at = "act" /\ fiber'["reaper"].at = "read"
           /\ sessions[i].turn # NoTurn /\ ~sessions'[i].on /\ ~crossed
         => sessions[i].turn \notin fiber["reaper"].seen]_vars
===============================================================================
