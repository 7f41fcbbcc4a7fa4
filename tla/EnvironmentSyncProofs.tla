------------------------- MODULE EnvironmentSyncProofs -------------------------
(***************************************************************************)
(* EnvironmentSync proved for any log, replay limit and number of faults:  *)
(* the version of the projection never goes back, what it claims to cover  *)
(* is shown, and the text of a thread is the pieces of the log.  The first *)
(* needs of the rest of the state that every position a source of events   *)
(* is at is a number; the second that no source is ahead of the log and    *)
(* that a recovery asks from where the version was (SourcesInLog); the     *)
(* third that no piece lies between what is shown and what the stream or a *)
(* request in flight counts as shown (TextFollows, AnswersInTime).         *)
(***************************************************************************)
EXTENDS EnvironmentSync, SequenceTheorems, FiniteSetTheorems, WellFoundedInduction, TLAPS

Positions ==
    /\ log \in Seq({"project", "piece"})
    /\ version \in Int /\ version >= None
    /\ shell \in [at : {"down", "loading", "open"}, pos : Nat]
    /\ recovery \in [stage : {"none", "asked", "reconnecting"}, high : Int, from : Int,
                     askedAt : Int]
    /\ catchUp \in [on : BOOLEAN, known : Int, from : Int, askedAt : Int]

LEMMA EndIsNat == Positions => End \in Nat
  BY DEF Positions, End

LEMMA GreatestIsGreatest ==
    ASSUME NEW a \in Int, NEW b \in Int
    PROVE  Greatest(a, b) \in Int /\ Greatest(a, b) >= a /\ Greatest(a, b) >= b
  BY DEF Greatest

LEMMA PositionsInit == Init => Positions
  BY SyncAssumption DEF Init, Positions, Down, NoRecovery, NoCatchUp, None

\* A replay answers with a position.
LEMMA ReplayPosition ==
    ASSUME Positions, NEW request, request.from \in Int, request.askedAt \in Int,
           NEW upTo \in ReplayedUpTo(request)
    PROVE  upTo \in Int
  BY SyncAssumption, EndIsNat DEF ReplayedUpTo, Least

\* A queued recovery stays well-formed.
LEMMA QueuedRecovery ==
    ASSUME Positions, NEW observed \in Int, NEW from \in Int, QueueRecovery(observed, from)
    PROVE  recovery' \in [stage : {"none", "asked", "reconnecting"}, high : Int, from : Int,
                          askedAt : Int]
  BY EndIsNat, GreatestIsGreatest DEF QueueRecovery, Positions

Forward == Positions' /\ version' >= version

LEMMA ForwardCommit ==
    ASSUME Positions, Commit
    PROVE  Forward
  BY DEF Forward, Positions, Commit, shellVars, requestVars

LEMMA ForwardDisconnect ==
    ASSUME Positions, Disconnect
    PROVE  Forward
  BY DEF Forward, Positions, Disconnect, ConnectionLost, Down, NoCatchUp, Reconnecting,
      NoRecovery, shellVars

LEMMA ForwardSubscribe ==
    ASSUME Positions, SubscribeShell \/ SubscribeThread
    PROVE  Forward
  BY EndIsNat DEF Forward, Positions, SubscribeShell, SubscribeThread, shellVars, requestVars

LEMMA ForwardShellSnapshot ==
    ASSUME Positions, ShellSnapshot
    PROVE  Forward
  BY DEF Forward, Positions, ShellSnapshot, shellVars, requestVars, None

LEMMA ForwardShellEvent ==
    ASSUME Positions, ShellEvent \/ ShellEventUnread
    PROVE  Forward
  <1>1. CASE ShellEventUnread
    BY <1>1 DEF Forward, Positions, ShellEventUnread, shellVars, requestVars
  <1>2. CASE ShellEvent
    <2> DEFINE sequence == shell.pos + 1
    <2>1. sequence \in Nat /\ shell' \in [at : {"down", "loading", "open"}, pos : Nat]
      BY <1>2 DEF ShellEvent, Positions
    <2>2. UNCHANGED <<log, catchUp>>
      BY <1>2 DEF ShellEvent
    <2>3. CASE /\ recovery' = [recovery EXCEPT !.high = Greatest(@, sequence)]
               /\ UNCHANGED version
      BY <2>1, <2>2, <2>3, GreatestIsGreatest, SMTT(30) DEF Forward, Positions
    <2>4. CASE UNCHANGED <<recovery, version>>
      BY <2>1, <2>2, <2>4 DEF Forward, Positions
    <2>5. CASE QueueRecovery(sequence, version) /\ UNCHANGED version
      BY <2>1, <2>2, <2>5, QueuedRecovery DEF Forward, Positions
    <2>6. CASE /\ Classify(sequence) = "apply" /\ version' = sequence
               /\ UNCHANGED recovery
      BY <2>1, <2>2, <2>6 DEF Forward, Positions, Classify, None
    <2> QED
      BY <1>2, <2>3, <2>4, <2>5, <2>6 DEF ShellEvent, shellVars
  <1> QED
    BY <1>1, <1>2

LEMMA ForwardCatchUp ==
    ASSUME Positions, AskCatchUp \/ CatchUpReply \/ CatchUpFails
    PROVE  Forward
  <1>1. CASE AskCatchUp \/ CatchUpFails
    <2>1. /\ UNCHANGED <<log, version, shell, recovery>>
          /\ \/ catchUp' = NoCatchUp
             \/ \E known \in {0, End} :
                   catchUp' = [on |-> TRUE, known |-> known, from |-> version, askedAt |-> End]
      BY <1>1 DEF AskCatchUp, CatchUpFails, shellVars
    <2>2. CASE catchUp' = NoCatchUp
      BY <2>1, <2>2 DEF Forward, Positions, NoCatchUp
    <2>3. ASSUME NEW known \in {0, End},
                 catchUp' = [on |-> TRUE, known |-> known, from |-> version, askedAt |-> End]
          PROVE  Forward
      <3>1. known \in Int /\ version \in Int /\ End \in Int
        BY EndIsNat DEF Positions
      <3> QED
        BY <2>1, <2>3, <3>1 DEF Forward, Positions
    <2> QED
      BY <2>1, <2>2, <2>3
  <1>2. CASE CatchUpReply
    <2>1. PICK upTo \in ReplayedUpTo(catchUp) :
             /\ ApplyBatch(version, Greatest(version, upTo))
             /\ \/ QueueRecovery(Greatest(catchUp.known, upTo), Greatest(version, upTo))
                \/ UNCHANGED recovery
      BY <1>2 DEF CatchUpReply
    <2>2. upTo \in Int
      BY ReplayPosition DEF Positions
    <2>3. version' = Greatest(version, Greatest(version, upTo))
      BY <2>1 DEF ApplyBatch
    <2>4. version' \in Int /\ version' >= version
      BY <2>2, <2>3, GreatestIsGreatest DEF Positions
    <2>5. recovery' \in [stage : {"none", "asked", "reconnecting"}, high : Int, from : Int,
                         askedAt : Int]
      BY <2>1, <2>2, GreatestIsGreatest, QueuedRecovery DEF Positions
    <2>6. UNCHANGED <<log, shell>> /\ catchUp' = NoCatchUp
      BY <1>2 DEF CatchUpReply
    <2> QED
      BY <2>4, <2>5, <2>6 DEF Forward, Positions, NoCatchUp, None
  <1> QED
    BY <1>1, <1>2

LEMMA ForwardRecovery ==
    ASSUME Positions, RecoveryReply \/ RecoveryFails \/ RecoveryEndsReconnect
    PROVE  Forward
  <1>1. CASE RecoveryFails \/ RecoveryEndsReconnect
    <2>1. CASE RecoveryFails
      BY <2>1 DEF Forward, Positions, RecoveryFails, ConnectionLost, Down, NoCatchUp,
          Reconnecting, NoRecovery, shellVars
    <2>2. CASE RecoveryEndsReconnect
      BY <2>2 DEF Forward, Positions, RecoveryEndsReconnect, NoRecovery, shellVars
    <2> QED
      BY <1>1, <2>1, <2>2
  <1>2. CASE RecoveryReply
    <2>1. PICK upTo \in ReplayedUpTo(recovery) :
             \/ recovery' = Reconnecting /\ ConnectionLost /\ UNCHANGED shellVars
             \/ /\ ApplyBatch(recovery.from, upTo)
                /\ recovery' = IF version' >= recovery.high THEN NoRecovery
                               ELSE [recovery EXCEPT !.from = version', !.askedAt = End]
                /\ UNCHANGED <<shell, catchUp>>
      BY <1>2 DEF RecoveryReply
    <2>2. UNCHANGED log
      BY <1>2 DEF RecoveryReply
    <2>3. CASE recovery' = Reconnecting /\ ConnectionLost /\ UNCHANGED shellVars
      BY <2>2, <2>3 DEF Forward, Positions, ConnectionLost, Down, NoCatchUp, Reconnecting,
          NoRecovery, shellVars
    <2>4. CASE /\ ApplyBatch(recovery.from, upTo)
               /\ recovery' = IF version' >= recovery.high THEN NoRecovery
                              ELSE [recovery EXCEPT !.from = version', !.askedAt = End]
               /\ UNCHANGED <<shell, catchUp>>
      <3>1. upTo \in Int
        BY ReplayPosition DEF Positions
      <3>2. version' \in Int /\ version' >= version
        BY <2>4, <3>1, GreatestIsGreatest DEF ApplyBatch, Positions
      <3>3. recovery' \in [stage : {"none", "asked", "reconnecting"}, high : Int, from : Int,
                           askedAt : Int]
        <4>1. CASE recovery' = NoRecovery
          BY <4>1 DEF NoRecovery
        <4>2. CASE recovery' = [recovery EXCEPT !.from = version', !.askedAt = End]
          <5>1. version' \in Int /\ End \in Int
            BY <3>2, EndIsNat
          <5> QED
            BY <4>2, <5>1 DEF Positions
        <4> QED
          BY <2>4, <4>1, <4>2
      <3> QED
        BY <2>2, <2>4, <3>2, <3>3 DEF Forward, Positions, None
    <2> QED
      BY <2>1, <2>3, <2>4
  <1> QED
    BY <1>1, <1>2

\* The thread's own streams and reconciliations leave the version alone.
LEMMA ForwardThread ==
    ASSUME Positions,
           \/ ThreadSnapshot \/ ThreadEvent \/ AskReconcile \/ Welcome
           \/ \E slot \in Slots : ReconcileReply(slot) \/ ReconcileFails(slot)
    PROVE  Forward
  BY DEF Forward, Positions, ThreadSnapshot, ThreadEvent, AskReconcile, Welcome, ReconcileReply,
      ReconcileFails, shellVars, requestVars

LEMMA ForwardStep == Positions /\ [Next]_vars => Forward
  <1> SUFFICES ASSUME Positions, [Next]_vars
               PROVE  Forward
    OBVIOUS
  <1>1. CASE UNCHANGED vars
    BY <1>1 DEF Forward, Positions, vars, shellVars, requestVars
  <1> QED
    BY <1>1, ForwardCommit, ForwardDisconnect, ForwardSubscribe, ForwardShellSnapshot,
        ForwardShellEvent, ForwardCatchUp, ForwardRecovery, ForwardThread DEF Next

\* The version of the projection only moves forward, whatever subscriptions,
\* replays and recoveries answer, late or twice, over any number of lost
\* connections and server restarts.
THEOREM VersionMovesForward == Spec => VersionNeverGoesBack
  <1>1. Positions /\ [Next]_vars => Positions'
    BY ForwardStep DEF Forward
  <1>2. Positions /\ [Next]_vars => [version' >= version]_vars
    BY ForwardStep DEF Forward
  <1> QED
    BY PositionsInit, <1>1, <1>2, PTL DEF Spec, VersionNeverGoesBack

-----------------------------------------------------------------------------
(* What the version covers is shown. *)

\* No source is ahead of the log, an open subscription has given the client a
\* version, and a recovery asks from a position the version has reached.
SourcesInLog ==
    /\ project \in Int
    /\ version <= End /\ shell.pos <= End
    /\ shell.at = "open" => version # None
    /\ recovery.stage = "asked" => recovery.from <= version

ProjectInv == Positions /\ SourcesInLog /\ ProjectFollowsVersion

\* A non-empty set of naturals with a bound has a greatest element.
LEMMA GreatestOf ==
    ASSUME NEW n \in Nat, NEW S, S \subseteq 0..n, S # {}
    PROVE  Max(S) \in S /\ \A x \in S : x <= Max(S)
<1> DEFINE Less == OpToRel(<, Nat)
           T == {k \in 0..n : n - k \in S}
<1>0. \A x \in S : x \in Nat /\ n - x \in 0..n /\ n - (n - x) = x
  OBVIOUS
<1>1. T \subseteq Nat /\ \A x \in S : n - x \in T
  BY <1>0
<1>2. T # {}
  BY <1>1
<1>3. \A k \in T : k \in Nat /\ n - k \in S
  OBVIOUS
<1> HIDE DEF T
<1>4. PICK t \in T : \A u \in T : <<u, t>> \notin Less
  BY <1>1, <1>2, NatLessThanWellFounded, WFMin, Zenon
<1>5. \A u \in T : ~(u < t)
  BY <1>1, <1>4, Zenon DEF OpToRel
<1>6. ASSUME NEW x \in S PROVE n - t >= x
  <2>1. n - x \in T /\ n - x \in Nat /\ x \in Nat /\ t \in Nat
    BY <1>0, <1>1, <1>3
  <2> QED
    BY <1>5, <2>1
<1>7. \E y \in S : \A x \in S : y >= x
  BY <1>3, <1>6
<1>8. Max(S) \in S /\ \A x \in S : Max(S) >= x
  BY <1>7 DEF Max
<1> QED
  BY <1>8

\* The project event in force at n is one at or before n, and none of these is
\* later; before the first it is 0.
LEMMA LastProjectIs ==
    ASSUME Positions, NEW n \in Int, n <= End
    PROVE  /\ LastProject(n) \in Nat
           /\ LastProject(n) = 0 \/ (LastProject(n) \in 1..n /\ log[LastProject(n)] = "project")
           /\ \A i \in 1..n : log[i] = "project" => i <= LastProject(n)
<1> DEFINE S == {0} \cup {i \in 1..n : log[i] = "project"}
           m == IF n < 0 THEN 0 ELSE n
<1>1. m \in Nat /\ S \subseteq 0..m /\ 0 \in S
  OBVIOUS
<1> HIDE DEF m
<1>2. Max(S) \in S /\ \A x \in S : x <= Max(S)
  BY <1>1, GreatestOf
<1>3. LastProject(n) = Max(S)
  BY DEF LastProject
<1> QED
  BY <1>1, <1>2, <1>3

\* A later position has no earlier project event in force.
LEMMA LastProjectGrows ==
    ASSUME Positions, NEW a \in Int, NEW b \in Int, a <= b, b <= End
    PROVE  LastProject(a) <= LastProject(b)
<1>1. a <= End
  BY EndIsNat
<1>2. LastProject(a) \in Nat /\ LastProject(b) \in Nat
      /\ (LastProject(a) = 0 \/ (LastProject(a) \in 1..a /\ log[LastProject(a)] = "project"))
      /\ \A i \in 1..b : log[i] = "project" => i <= LastProject(b)
  BY <1>1, LastProjectIs
<1> QED
  BY <1>2

\* No project event after a means that the one in force at a still is.
LEMMA LastProjectStays ==
    ASSUME Positions, NEW a \in Int, NEW b \in Int, b <= End, LastProject(b) <= a
    PROVE  LastProject(b) <= LastProject(a) \/ a > End
<1>1. CASE a <= End
  <2>1. LastProject(a) \in Nat /\ LastProject(b) \in Nat
        /\ (LastProject(b) = 0 \/ (LastProject(b) \in 1..b /\ log[LastProject(b)] = "project"))
        /\ \A i \in 1..a : log[i] = "project" => i <= LastProject(a)
    BY <1>1, LastProjectIs
  <2> QED
    BY <2>1
<1> QED
  BY <1>1, EndIsNat

\* A batch of events that starts where the version is, or before it, shows
\* every project event the version then covers.
LEMMA BatchShows ==
    ASSUME ProjectInv, NEW a \in Int, NEW b \in Int, a <= b, b <= End,
           a = version \/ (a < version /\ a < b), ApplyBatch(a, b), UNCHANGED log, ~regressed'
    PROVE  /\ project' \in Int /\ version' <= End'
           /\ project' >= LastProject(version)' /\ version' = b
<1>1. ~regressed /\ a = version /\ version' = Greatest(version, b)
      /\ project' = IF LastProject(b) > a THEN LastProject(b) ELSE project
  <2>1. ~regressed /\ ~(b > a /\ a < version)
    BY Zenon DEF ApplyBatch
  <2>2. a = version
    BY <2>1
  <2> QED
    BY <2>1, <2>2 DEF ApplyBatch
<1>2. version' = b
  BY <1>1 DEF Greatest
<1>3. LastProject(version)' = LastProject(b) /\ End' = End
  BY <1>2 DEF LastProject, End
<1>4. project \in Int /\ project >= LastProject(a) /\ a <= End
  BY <1>1 DEF ProjectInv, SourcesInLog, ProjectFollowsVersion
<1>5. LastProject(b) \in Nat /\ LastProject(a) \in Nat
  BY <1>4, LastProjectIs DEF ProjectInv
<1>6. LastProject(b) <= a => LastProject(b) <= LastProject(a)
  BY <1>4, LastProjectStays, EndIsNat DEF ProjectInv
<1> QED
  BY <1>1, <1>2, <1>3, <1>4, <1>5, <1>6

Follows == SourcesInLog' /\ ProjectFollowsVersion'

\* A step that leaves the log, the version and what is shown keeps them in
\* agreement when no source gets ahead of the log.
LEMMA NothingShown ==
    ASSUME ProjectInv, UNCHANGED <<log, version, project, regressed>>,
           shell' = shell \/ shell'.at # "open", shell'.pos <= End,
           recovery'.stage = "asked" => recovery'.from <= version
    PROVE  Follows
<1>1. End' = End /\ LastProject(version)' = LastProject(version)
  BY DEF End, LastProject
<1> QED
  BY <1>1 DEF ProjectInv, SourcesInLog, ProjectFollowsVersion, Follows

\* What was committed before stays in force when the log grows.
LEMMA CommitFollows ==
    ASSUME ProjectInv, Commit
    PROVE  Follows
<1>1. PICK kind \in {"project", "piece"} : log' = Append(log, kind)
  BY DEF Commit
<1>2. End' = End + 1 /\ End \in Nat /\ version \in Int /\ version <= End
      /\ \A k \in 1..End : log'[k] = log[k]
  BY <1>1, EndIsNat DEF End, ProjectInv, Positions, SourcesInLog
<1>3. UNCHANGED <<version, project, regressed, shell, recovery>>
  BY DEF Commit, shellVars, requestVars
<1>4. {k \in 1..version : log'[k] = "project"} = {k \in 1..version : log[k] = "project"}
  BY <1>2
<1>5. LastProject(version)' = LastProject(version)
  BY <1>3, <1>4 DEF LastProject
<1>6. shell.pos \in Nat
  BY DEF ProjectInv, Positions
<1> QED
  BY <1>2, <1>3, <1>5, <1>6 DEF ProjectInv, SourcesInLog, ProjectFollowsVersion, Follows

\* A snapshot shows the project as of its position, or is dropped.
LEMMA ShellSnapshotFollows ==
    ASSUME ProjectInv, ShellSnapshot
    PROVE  Follows
<1>1. /\ shell' = [shell EXCEPT !.at = "open"] /\ UNCHANGED <<log, recovery>>
      /\ version' >= version /\ version' >= shell.pos
      /\ shell'.at = "open" /\ shell'.pos = shell.pos /\ shell.pos \in Nat
      /\ version' # None
  BY DEF ShellSnapshot, ProjectInv, Positions, requestVars, shellVars, None
<1>2. version \in Int /\ version <= End /\ shell.pos <= End /\ End' = End
  BY <1>1 DEF ProjectInv, Positions, SourcesInLog, End
<1>3. recovery'.stage = "asked" => recovery'.from <= version'
  <2>1. recovery.from \in Int /\ version' \in Int
    BY DEF ProjectInv, Positions, ShellSnapshot, shellVars
  <2> QED
    BY <1>1, <1>2, <2>1 DEF ProjectInv, SourcesInLog
<1>4. CASE version' = shell.pos /\ project' = LastProject(shell.pos)
  <2>1. LastProject(version)' = LastProject(shell.pos)
    BY <1>1, <1>4 DEF LastProject
  <2>2. LastProject(shell.pos) \in Nat
    BY <1>1, <1>2, LastProjectIs DEF ProjectInv
  <2> QED
    BY <1>1, <1>2, <1>3, <1>4, <2>1, <2>2 DEF SourcesInLog, ProjectFollowsVersion, Follows
<1>5. CASE UNCHANGED shellVars
  <2>1. LastProject(version)' = LastProject(version)
    BY <1>1, <1>5 DEF LastProject, shellVars
  <2> QED
    BY <1>1, <1>2, <1>3, <1>5, <2>1
       DEF ProjectInv, SourcesInLog, ProjectFollowsVersion, Follows, shellVars
<1> QED
  BY <1>4, <1>5 DEF ShellSnapshot

\* A shell event is applied when it is the next one, and then shows the
\* project as of its position or a later one.
LEMMA ShellEventFollows ==
    ASSUME ProjectInv, ShellEvent
    PROVE  Follows
<1> DEFINE sequence == shell.pos + 1
<1>1. /\ shell.at = "open" /\ shell.pos \in Nat /\ shell.pos < End /\ End \in Nat
      /\ shell'.pos = sequence /\ UNCHANGED log /\ version # None /\ version \in Int
      /\ recovery.from \in Int /\ project \in Int
  BY EndIsNat DEF ShellEvent, ProjectInv, Positions, SourcesInLog
<1>2. End' = End /\ sequence \in 1..End
  BY <1>1 DEF End
<1>3. CASE UNCHANGED shellVars
  <2>1. LastProject(version)' = LastProject(version)
    BY <1>1, <1>3 DEF LastProject, shellVars
  <2>2. recovery'.stage = "asked" => recovery'.from <= version
    <3>1. CASE recovery' = [recovery EXCEPT !.high = Greatest(@, sequence)]
      BY <3>1 DEF ProjectInv, Positions, SourcesInLog
    <3>2. CASE UNCHANGED recovery
      BY <3>2 DEF ProjectInv, SourcesInLog
    <3>3. CASE recovery.stage = "none" /\ QueueRecovery(sequence, version)
      BY <1>1, <3>3 DEF QueueRecovery
    <3>4. CASE Classify(sequence) = "apply" /\ UNCHANGED recovery
      BY <3>4 DEF ProjectInv, SourcesInLog
    <3> QED
      BY <3>1, <3>2, <3>3, <3>4 DEF ShellEvent
  <2> QED
    BY <1>1, <1>2, <1>3, <2>1, <2>2
       DEF ProjectInv, SourcesInLog, ProjectFollowsVersion, Follows, shellVars
<1>4. CASE /\ Classify(sequence) = "apply" /\ version' = sequence /\ recovery.stage = "none"
           /\ \/ log[sequence] = "piece" /\ UNCHANGED project
              \/ /\ log[sequence] = "project"
                 /\ \E n \in sequence..End : project' = LastProject(n)
           /\ UNCHANGED <<recovery, regressed>>
  <2>1. sequence = version + 1
    BY <1>1, <1>4 DEF Classify
  <2>2. LastProject(version)' = LastProject(sequence) /\ LastProject(sequence) \in Nat
        /\ (LastProject(sequence) = 0
            \/ (LastProject(sequence) \in 1..sequence /\ log[LastProject(sequence)] = "project"))
    BY <1>1, <1>2, <1>4, LastProjectIs DEF LastProject, ProjectInv
  <2>3. CASE log[sequence] = "piece" /\ UNCHANGED project
    <3>1. LastProject(sequence) <= version
      BY <1>1, <1>2, <2>1, <2>2, <2>3
    <3>2. LastProject(version) \in Nat /\ LastProject(sequence) <= LastProject(version)
      BY <1>1, <1>2, <2>1, <3>1, LastProjectStays, LastProjectIs DEF ProjectInv
    <3>3. ~regressed => project >= LastProject(sequence)
      BY <1>1, <2>2, <3>2 DEF ProjectInv, ProjectFollowsVersion
    <3> QED
      BY <1>1, <1>2, <1>4, <2>2, <2>3, <3>3
         DEF SourcesInLog, ProjectFollowsVersion, Follows, None
  <2>4. CASE \E n \in sequence..End : project' = LastProject(n)
    <3>1. PICK n \in sequence..End : project' = LastProject(n)
      BY <2>4
    <3>2. LastProject(n) \in Nat /\ LastProject(sequence) <= LastProject(n)
      BY <1>1, <1>2, LastProjectGrows, LastProjectIs DEF ProjectInv
    <3> QED
      BY <1>1, <1>2, <1>4, <2>2, <3>1, <3>2
         DEF SourcesInLog, ProjectFollowsVersion, Follows, None
  <2> QED
    BY <1>4, <2>3, <2>4
<1> QED
  BY <1>3, <1>4 DEF ShellEvent

\* A replay answers with a position in the log.
LEMMA ReplayInLog ==
    ASSUME Positions, NEW request, request.from \in Int, request.askedAt \in Int,
           NEW upTo \in ReplayedUpTo(request)
    PROVE  upTo \in Int /\ upTo <= End
  BY SyncAssumption, EndIsNat DEF ReplayedUpTo, Least

\* A catch-up applies what follows the version.
LEMMA CatchUpFollows ==
    ASSUME ProjectInv, CatchUpReply
    PROVE  Follows
<1> DEFINE contiguous(n) == Greatest(version, n)
<1>1. PICK upTo \in ReplayedUpTo(catchUp) :
         /\ ApplyBatch(version, contiguous(upTo))
         /\ \/ QueueRecovery(Greatest(catchUp.known, upTo), contiguous(upTo))
            \/ UNCHANGED recovery
  BY DEF CatchUpReply
<1> DEFINE b == contiguous(upTo)
<1>2. /\ version \in Int /\ version <= End /\ End \in Nat /\ upTo \in Int /\ upTo <= End
      /\ recovery.from \in Int /\ project \in Int
      /\ recovery.stage = "asked" => recovery.from <= version
  BY ReplayInLog, EndIsNat DEF ProjectInv, Positions, SourcesInLog
<1>3. b \in Int /\ version <= b /\ b <= End
  BY <1>2 DEF Greatest
<1>4. UNCHANGED <<log, shell>>
  BY DEF CatchUpReply
<1> HIDE DEF contiguous, b
<1>5. ApplyBatch(version, b)
  BY <1>1 DEF b
<1>6. version' = b /\ project' \in Int
  <2>1. version' = Greatest(version, b)
        /\ project' = IF LastProject(b) > version THEN LastProject(b) ELSE project
    BY <1>5 DEF ApplyBatch
  <2>2. LastProject(b) \in Nat
    BY <1>3, LastProjectIs DEF ProjectInv
  <2> QED
    BY <1>2, <1>3, <2>1, <2>2 DEF Greatest
<1>7. recovery'.stage = "asked" => recovery'.from <= version'
  <2>1. CASE UNCHANGED recovery
    BY <1>2, <1>3, <1>6, <2>1
  <2>2. CASE QueueRecovery(Greatest(catchUp.known, upTo), b)
    <3>1. CASE recovery.stage = "none"
      BY <1>3, <1>6, <2>2, <3>1 DEF QueueRecovery
    <3>2. CASE recovery.stage # "none"
      <4>1. recovery'.stage = recovery.stage /\ recovery'.from = recovery.from
        BY <2>2, <3>2 DEF QueueRecovery, ProjectInv, Positions
      <4> QED
        BY <1>2, <1>3, <1>6, <4>1
    <3> QED
      BY <3>1, <3>2
  <2> QED
    BY <1>1, <2>1, <2>2 DEF b
<1>8. End' = End /\ version' <= End'
  BY <1>3, <1>4, <1>6 DEF End
<1>9. ProjectFollowsVersion'
  BY <1>2, <1>3, <1>4, <1>5, BatchShows DEF ProjectFollowsVersion
<1>10. shell.at = "open" => version' # None
  BY <1>2, <1>3, <1>6 DEF ProjectInv, Positions, SourcesInLog, None
<1> QED
  BY <1>4, <1>6, <1>7, <1>8, <1>9, <1>10 DEF ProjectInv, SourcesInLog, Follows

\* A recovery applies what follows the position it asked from, or reconnects.
LEMMA RecoveryFollows ==
    ASSUME ProjectInv, RecoveryReply
    PROVE  Follows
<1> DEFINE from == recovery.from
<1>1. PICK upTo \in ReplayedUpTo(recovery) :
         \/ /\ recovery' = Reconnecting /\ ConnectionLost
            /\ UNCHANGED shellVars
         \/ /\ upTo > from
            /\ ApplyBatch(from, upTo)
            /\ recovery' = IF version' >= recovery.high THEN NoRecovery
                           ELSE [recovery EXCEPT !.from = version', !.askedAt = End]
            /\ UNCHANGED shell
  BY DEF RecoveryReply
<1>2. /\ version \in Int /\ version <= End /\ End \in Nat /\ upTo \in Int /\ upTo <= End
      /\ from \in Int /\ from <= version /\ project \in Int
  BY ReplayInLog, EndIsNat DEF RecoveryReply, ProjectInv, Positions, SourcesInLog
<1>3. UNCHANGED log /\ End' = End
  BY DEF RecoveryReply, End
<1>4. CASE recovery' = Reconnecting /\ ConnectionLost /\ UNCHANGED shellVars
  BY <1>2, <1>3, <1>4, NothingShown
     DEF Reconnecting, NoRecovery, ConnectionLost, Down, shellVars
<1>5. CASE /\ upTo > from /\ ApplyBatch(from, upTo) /\ UNCHANGED shell
           /\ recovery' = IF version' >= recovery.high THEN NoRecovery
                          ELSE [recovery EXCEPT !.from = version', !.askedAt = End]
  <2>1. version' = Greatest(version, upTo)
        /\ project' = IF LastProject(upTo) > from THEN LastProject(upTo) ELSE project
    BY <1>5 DEF ApplyBatch
  <2>2. LastProject(upTo) \in Nat
    BY <1>2, LastProjectIs DEF ProjectInv
  <2>3. version' \in Int /\ version' >= version /\ version' <= End' /\ project' \in Int
    BY <1>2, <1>3, <2>1, <2>2 DEF Greatest
  <2>4. recovery'.stage = "asked" => recovery'.from <= version'
    BY <1>5, <2>3 DEF NoRecovery, ProjectInv, Positions
  <2>5. from = version \/ (from < version /\ from < upTo)
    BY <1>2, <1>5
  <2>6. ProjectFollowsVersion'
    BY <1>2, <1>3, <1>5, <2>5, BatchShows DEF ProjectFollowsVersion
  <2>7. shell.at = "open" => version' # None
    BY <1>2, <2>3 DEF ProjectInv, Positions, SourcesInLog, None
  <2> QED
    BY <1>3, <1>5, <2>3, <2>4, <2>6, <2>7 DEF ProjectInv, SourcesInLog, Follows
<1> QED
  BY <1>1, <1>4, <1>5

\* The steps that show no project event.
LEMMA OthersFollow ==
    ASSUME ProjectInv,
           \/ Disconnect \/ SubscribeShell \/ SubscribeThread \/ ShellEventUnread
           \/ ThreadSnapshot \/ ThreadEvent \/ AskCatchUp \/ CatchUpFails
           \/ RecoveryFails \/ RecoveryEndsReconnect \/ AskReconcile \/ Welcome
           \/ \E slot \in Slots : ReconcileReply(slot) \/ ReconcileFails(slot)
           \/ UNCHANGED vars
    PROVE  Follows
<1>0. /\ End \in Nat /\ shell.pos \in Nat /\ shell.pos <= End
      /\ recovery.stage = "asked" => recovery.from <= version
  BY EndIsNat DEF ProjectInv, Positions, SourcesInLog
<1>1. CASE Disconnect \/ RecoveryFails \/ RecoveryEndsReconnect
  <2>1. /\ UNCHANGED <<log, version, project, regressed>>
        /\ shell' = shell \/ shell' = Down
        /\ recovery' \in {recovery, Reconnecting, NoRecovery}
    BY <1>1 DEF Disconnect, RecoveryFails, RecoveryEndsReconnect, ConnectionLost, shellVars
  <2>2. recovery'.stage = "asked" => recovery'.from <= version
    BY <1>0, <2>1 DEF Reconnecting, NoRecovery
  <2> QED
    BY <1>0, <2>1, <2>2, NothingShown DEF Down
<1>2. CASE SubscribeShell
  <2>1. /\ UNCHANGED <<log, version, project, regressed, recovery>>
        /\ shell'.at = "loading" /\ shell'.pos = End
    BY <1>2 DEF SubscribeShell, shellVars, requestVars
  <2> QED
    BY <1>0, <2>1, NothingShown
<1>3. CASE ShellEventUnread
  <2>1. /\ UNCHANGED <<log, version, project, regressed, recovery>>
        /\ shell.at = "open" /\ shell.pos < End /\ shell' = [shell EXCEPT !.pos = @ + 1]
    BY <1>3 DEF ShellEventUnread, shellVars, requestVars
  <2>2. shell'.at = shell.at /\ shell'.pos = shell.pos + 1
    BY <2>1 DEF ProjectInv, Positions
  <2>3. End' = End /\ LastProject(version)' = LastProject(version)
    BY <2>1 DEF End, LastProject
  <2> QED
    BY <1>0, <2>1, <2>2, <2>3 DEF ProjectInv, SourcesInLog, ProjectFollowsVersion, Follows
<1>4. CASE \/ SubscribeThread \/ ThreadSnapshot \/ ThreadEvent \/ AskCatchUp \/ CatchUpFails
           \/ AskReconcile \/ Welcome
           \/ \E slot \in Slots : ReconcileReply(slot) \/ ReconcileFails(slot)
           \/ UNCHANGED vars
  <2>1. UNCHANGED <<log, version, project, regressed, shell, recovery>>
    BY <1>4 DEF SubscribeThread, ThreadSnapshot, ThreadEvent, AskCatchUp, CatchUpFails,
      AskReconcile, Welcome, ReconcileReply, ReconcileFails, shellVars, requestVars, vars
  <2> QED
    BY <1>0, <2>1, NothingShown
<1> QED
  BY <1>1, <1>2, <1>3, <1>4

LEMMA FollowsStep == ProjectInv /\ [Next]_vars => ProjectInv'
<1> SUFFICES ASSUME ProjectInv, [Next]_vars PROVE ProjectInv'
  OBVIOUS
<1>1. Positions'
  BY ForwardStep DEF Forward, ProjectInv
<1>2. Follows
  BY CommitFollows, ShellSnapshotFollows, ShellEventFollows, CatchUpFollows, RecoveryFollows,
     OthersFollow DEF Next
<1> QED
  BY <1>1, <1>2 DEF Follows, ProjectInv

\* Whatever the version claims to cover is shown, for any log, replay limit and
\* number of faults, but for a recovery that applied what the version already
\* covered: no subscription, replay or recovery lets it pass a project event
\* whose value, or a later one, the client does not show.
THEOREM VersionShowsItsProject == Spec => []ProjectFollowsVersion
<1>1. Init => ProjectInv
  <2> SUFFICES ASSUME Init PROVE ProjectInv
    OBVIOUS
  <2>1. Positions /\ version = None /\ project = 0 /\ End = 1 /\ shell = Down
        /\ recovery = NoRecovery
    BY PositionsInit DEF Init, End
  <2>2. LastProject(None) = 0
    BY <2>1, LastProjectIs DEF None
  <2> QED
    BY <2>1, <2>2 DEF ProjectInv, SourcesInLog, ProjectFollowsVersion, Down, NoRecovery, None
<1>2. ProjectInv => ProjectFollowsVersion
  BY DEF ProjectInv
<1> QED
  BY <1>1, <1>2, FollowsStep, PTL DEF Spec

-----------------------------------------------------------------------------
(* The text of a thread is the pieces of the log, in order. *)

\* A non-empty set of naturals has a least element.
LEMMA LeastOf ==
    ASSUME NEW S, S \subseteq Nat, S # {}
    PROVE  \E x \in S : \A y \in S : x <= y
  <1> DEFINE Less == OpToRel(<, Nat)
  <1>1. PICK x \in S : \A y \in S : <<y, x>> \notin Less
    BY NatLessThanWellFounded, WFMin, Zenon
  <1>2. \A y \in S : ~(y < x)
    BY <1>1, Zenon DEF OpToRel
  <1> QED
    BY <1>2

IsInOrder(s, pieces) ==
    /\ s \in [1..Cardinality(pieces) -> pieces]
    /\ {s[i] : i \in DOMAIN s} = pieces
    /\ \A i, j \in DOMAIN s : i < j => s[i] < s[j]

\* Pieces have one order: at the first place where two differ, the smaller of
\* the two is in the other at an earlier place.
LEMMA OrderIsUnique ==
    ASSUME NEW pieces, pieces \subseteq Nat, IsFiniteSet(pieces),
           NEW s, IsInOrder(s, pieces), NEW t, IsInOrder(t, pieces)
    PROVE  s = t
  <1> DEFINE n == Cardinality(pieces)
             D == {i \in 1..n : s[i] # t[i]}
  <1>1. n \in Nat
    BY FS_CardinalityType
  <1>2. /\ s \in [1..n -> pieces] /\ t \in [1..n -> pieces]
        /\ \A p \in pieces : (\E i \in 1..n : s[i] = p) /\ (\E i \in 1..n : t[i] = p)
        /\ \A i, j \in 1..n : i < j => s[i] < s[j] /\ t[i] < t[j]
    BY DEF IsInOrder
  <1> HIDE DEF n
  <1>3. SUFFICES ASSUME D # {} PROVE FALSE
    <2>1. D = {} => \A i \in 1..n : s[i] = t[i]
      OBVIOUS
    <2>2. ASSUME \A i \in 1..n : s[i] = t[i] PROVE s = t
      <3>1. s = [i \in 1..n |-> s[i]] /\ t = [i \in 1..n |-> t[i]]
        BY <1>2
      <3>2. [i \in 1..n |-> s[i]] = [i \in 1..n |-> t[i]]
        BY <2>2
      <3> QED
        BY <3>1, <3>2
    <2> HIDE DEF D
    <2> QED
      BY <2>1, <2>2
  <1>4. \E d \in D : \A i \in D : d <= i
    <2>1. D \subseteq Nat
      BY <1>1
    <2> QED
      BY <1>3, <2>1, LeastOf
  <1>5. PICK d \in 1..n : s[d] # t[d] /\ \A i \in 1..n : i < d => s[i] = t[i]
    BY <1>1, <1>4
  <1>6. s[d] \in Nat /\ t[d] \in Nat /\ s[d] \in pieces /\ t[d] \in pieces
    BY <1>2, <1>5
  <1>7. CASE s[d] < t[d]
    <2>1. PICK j \in 1..n : t[j] = s[d]
      BY <1>2, <1>6
    <2>2. j < d
      BY <1>1, <1>2, <1>5, <1>6, <1>7, <2>1
    <2>3. s[j] = s[d] /\ s[j] < s[d]
      BY <1>2, <1>5, <2>1, <2>2
    <2> QED
      BY <1>6, <2>3
  <1>8. CASE t[d] < s[d]
    <2>1. PICK j \in 1..n : s[j] = t[d]
      BY <1>2, <1>6
    <2>2. j < d
      BY <1>1, <1>2, <1>5, <1>6, <1>8, <2>1
    <2>3. t[j] = t[d] /\ t[j] < t[d]
      BY <1>2, <1>5, <2>1, <2>2
    <2> QED
      BY <1>6, <2>3
  <1> QED
    BY <1>5, <1>6, <1>7, <1>8

LEMMA NoneInOrder == IsInOrder(<<>>, {})
  BY FS_EmptySet DEF IsInOrder

\* What is in order, and a later piece, are in order.
LEMMA OneMoreInOrder ==
    ASSUME NEW pieces, pieces \subseteq Nat, IsFiniteSet(pieces), NEW s, IsInOrder(s, pieces),
           NEW m \in Nat, \A p \in pieces : p < m
    PROVE  \E t : IsInOrder(t, pieces \cup {m})
  <1> DEFINE n == Cardinality(pieces)
             t == [i \in 1..(n + 1) |-> IF i = n + 1 THEN m ELSE s[i]]
  <1>1. n \in Nat /\ m \notin pieces
    BY FS_CardinalityType
  <1>2. Cardinality(pieces \cup {m}) = n + 1
    BY <1>1, FS_AddElement
  <1>3. /\ s \in [1..n -> pieces] /\ {s[i] : i \in 1..n} = pieces
        /\ \A i, j \in 1..n : i < j => s[i] < s[j]
    BY DEF IsInOrder
  <1> HIDE DEF n
  <1>4. t \in [1..(n + 1) -> pieces \cup {m}]
    BY <1>1, <1>3
  <1>5. DOMAIN t = 1..(n + 1) /\ t[n + 1] = m /\ \A i \in 1..n : i \in 1..(n + 1) /\ t[i] = s[i]
    BY <1>1
  <1>6. \A i \in 1..(n + 1) : i = n + 1 \/ i \in 1..n
    BY <1>1
  <1> HIDE DEF t
  <1>7. {t[i] : i \in DOMAIN t} = pieces \cup {m}
    <2>1. \A i \in DOMAIN t : t[i] \in pieces \cup {m}
      BY <1>4, <1>5
    <2>2. \A p \in pieces : \E i \in DOMAIN t : t[i] = p
      BY <1>3, <1>5
    <2>3. n + 1 \in DOMAIN t
      BY <1>1, <1>5
    <2> QED
      BY <1>5, <2>1, <2>2, <2>3
  <1>8. \A i, j \in DOMAIN t : i < j => t[i] < t[j]
    <2> SUFFICES ASSUME NEW i \in 1..(n + 1), NEW j \in 1..(n + 1), i < j
                 PROVE  t[i] < t[j]
      BY <1>5
    <2>1. i \in 1..n
      BY <1>1
    <2>2. CASE j = n + 1
      BY <1>3, <1>5, <2>1, <2>2
    <2>3. CASE j \in 1..n
      BY <1>3, <1>5, <2>1, <2>3
    <2> QED
      BY <1>6, <2>2, <2>3
  <1> QED
    BY <1>2, <1>4, <1>7, <1>8 DEF IsInOrder

\* The pieces of a log have an order.
LEMMA OrderExists ==
    ASSUME NEW n \in Nat, NEW pieces, pieces \subseteq 1..n
    PROVE  IsInOrder(InOrder(pieces), pieces)
  <1> DEFINE Lacking(k) == \E S \in SUBSET (1..k) : \A s : ~IsInOrder(s, S)
             T == {k \in Nat : Lacking(k)}
  <1>1. SUFFICES \E s : IsInOrder(s, pieces)
    BY DEF InOrder, IsInOrder
  <1>2. SUFFICES ASSUME T # {} PROVE FALSE
    OBVIOUS
  <1>3. T \subseteq Nat
    OBVIOUS
  <1> HIDE DEF T
  <1>4. PICK m \in T : \A k \in T : m <= k
    BY <1>2, <1>3, LeastOf
  <1>5. m \in Nat /\ \A k \in Nat : k < m => ~Lacking(k)
    BY <1>4 DEF T
  <1>6. PICK S \in SUBSET (1..m) : \A s : ~IsInOrder(s, S)
    BY <1>4 DEF T
  <1>7. CASE m = 0
    <2>1. S = {}
      BY <1>6, <1>7
    <2> QED
      BY <1>6, <2>1, NoneInOrder
  <1>8. CASE m # 0
    <2> DEFINE less == S \ {m}
    <2>1. m - 1 \in Nat /\ less \in SUBSET (1..(m - 1)) /\ ~Lacking(m - 1)
      BY <1>5, <1>8
    <2>2. PICK s : IsInOrder(s, less)
      BY <2>1
    <2>3. \A p \in less : p \in Nat /\ p < m
      BY <1>5, <2>1
    <2>4. IsFiniteSet(1..(m - 1))
      BY <2>1, FS_Interval
    <2>5. IsFiniteSet(less)
      BY <2>1, <2>4, FS_Subset
    <2>6. CASE m \in S
      <3>1. less \cup {m} = S
        BY <2>6
      <3>2. \E t : IsInOrder(t, less \cup {m})
        <4>1. less \subseteq Nat
          BY <2>3
        <4> QED
          BY <1>5, <2>2, <2>3, <2>5, <4>1, OneMoreInOrder
      <3> QED
        BY <1>6, <3>1, <3>2
    <2>7. CASE m \notin S
      BY <1>6, <2>2, <2>7
    <2> QED
      BY <2>6, <2>7
  <1> QED
    BY <1>7, <1>8

\* Earlier and later pieces in order, one after the other, are in order.
LEMMA OrderJoins ==
    ASSUME NEW n \in Nat, NEW early, early \subseteq 1..n, NEW late, late \subseteq 1..n,
           \A x \in early, y \in late : x < y
    PROVE  InOrder(early) \o InOrder(late) = InOrder(early \cup late)
  <1> DEFINE s == InOrder(early)
             t == InOrder(late)
             u == s \o t
             a == Cardinality(early)
             b == Cardinality(late)
             both == early \cup late
  <1>1. IsFiniteSet(early) /\ IsFiniteSet(late) /\ IsFiniteSet(both) /\ early \cap late = {}
    <2>1. IsFiniteSet(1..n)
      BY FS_Interval
    <2>2. early \in SUBSET (1..n) /\ late \in SUBSET (1..n) /\ both \in SUBSET (1..n)
      OBVIOUS
    <2>3. \A x \in 1..n : ~(x < x)
      OBVIOUS
    <2>4. early \cap late = {}
      BY <2>2, <2>3
    <2> HIDE DEF both
    <2> QED
      BY <2>1, <2>2, <2>4, FS_Subset
  <1>2. a \in Nat /\ b \in Nat /\ Cardinality(both) = a + b
    <2>1. a \in Nat /\ b \in Nat
      BY <1>1, FS_CardinalityType
    <2>2. Cardinality(both) = a + b - Cardinality(early \cap late)
      BY <1>1, FS_Union
    <2>3. Cardinality(early \cap late) = 0
      BY <1>1, FS_EmptySet
    <2> HIDE DEF a, b, both
    <2> QED
      BY <2>1, <2>2, <2>3
  <1>3. IsInOrder(s, early) /\ IsInOrder(t, late)
    BY OrderExists
  <1>4. /\ s \in [1..a -> early] /\ {s[i] : i \in 1..a} = early
        /\ \A i, j \in 1..a : i < j => s[i] < s[j]
        /\ t \in [1..b -> late] /\ {t[i] : i \in 1..b} = late
        /\ \A i, j \in 1..b : i < j => t[i] < t[j]
    BY <1>3 DEF IsInOrder
  <1> HIDE DEF s, t, a, b
  <1>5. s \in Seq(both) /\ t \in Seq(both) /\ Len(s) = a /\ Len(t) = b
    <2>1. s \in [1..a -> both] /\ t \in [1..b -> both]
      BY <1>4
    <2>2. s \in Seq(both) /\ t \in Seq(both)
      BY <1>2, <2>1, SeqDef
    <2> QED
      BY <1>2, <1>4, <2>2, LenProperties
  <1>6. /\ u \in Seq(both) /\ Len(u) = a + b
        /\ \A i \in 1..(a + b) : u[i] = IF i <= a THEN s[i] ELSE t[i - a]
    BY <1>5, ConcatProperties
  <1>7. u \in [1..(a + b) -> both] /\ DOMAIN u = 1..(a + b)
    BY <1>6, LenProperties
  <1> HIDE DEF u, both
  <1>8. /\ \A i \in 1..a : i \in 1..(a + b) /\ u[i] = s[i]
        /\ \A i \in 1..b : i + a \in 1..(a + b) /\ u[i + a] = t[i]
        /\ \A i \in 1..(a + b) : i \in 1..a \/ (i - a \in 1..b /\ u[i] = t[i - a] /\ ~(i <= a))
    BY <1>2, <1>6
  <1>9. {u[i] : i \in DOMAIN u} = both
    <2>1. \A p \in both : \E i \in DOMAIN u : u[i] = p
      BY <1>4, <1>7, <1>8 DEF both
    <2>2. \A i \in DOMAIN u : u[i] \in both
      BY <1>7
    <2> QED
      BY <2>1, <2>2
  <1>10. \A i, j \in DOMAIN u : i < j => u[i] < u[j]
    <2> SUFFICES ASSUME NEW i \in 1..(a + b), NEW j \in 1..(a + b), i < j
                 PROVE  u[i] < u[j]
      BY <1>7
    <2>1. CASE i \in 1..a /\ j \in 1..a
      BY <1>4, <1>8, <2>1
    <2>2. CASE i \in 1..a /\ j \notin 1..a
      <3>1. u[i] = s[i] /\ s[i] \in early /\ u[j] = t[j - a] /\ t[j - a] \in late
        BY <1>4, <1>8, <2>2
      <3> QED
        BY <3>1
    <2>3. CASE i \notin 1..a
      <3>1. u[i] = t[i - a] /\ i - a \in 1..b
        BY <1>8, <2>3
      <3>2. j \notin 1..a
        BY <1>2, <2>3
      <3>3. u[j] = t[j - a] /\ j - a \in 1..b /\ i - a < j - a
        BY <1>2, <1>8, <3>2
      <3> QED
        BY <1>4, <3>1, <3>3
    <2> QED
      BY <2>1, <2>2, <2>3
  <1>11. IsInOrder(u, both)
    BY <1>2, <1>7, <1>9, <1>10 DEF IsInOrder
  <1>12. both \subseteq 1..n /\ both \subseteq Nat
    BY DEF both
  <1>13. IsInOrder(InOrder(both), both)
    BY <1>12, OrderExists
  <1>14. u = InOrder(both)
    BY <1>1, <1>11, <1>12, <1>13, OrderIsUnique
  <1> QED
    BY <1>14 DEF u, s, t, both

LEMMA OrderOfNone == InOrder({}) = <<>>
  <1>1. {} \subseteq 1..0 /\ 0 \in Nat
    OBVIOUS
  <1>2. IsInOrder(InOrder({}), {})
    BY <1>1, OrderExists
  <1> QED
    BY <1>2, NoneInOrder, OrderIsUnique, FS_EmptySet

Request == [on : BOOLEAN, client : Int, verified : Int, askedAt : Nat]

\* Nothing is ahead of the log; a replay is asked for from a sequence.
Within ==
    /\ thread \in [at : {"down", "loading", "open"}, pos : Nat] /\ thread.pos <= End
    /\ applied \in Nat /\ applied <= End
    /\ latest \in Int /\ None <= latest /\ latest <= End /\ verified \in Int
    /\ reconcile \in [Slots -> Request]
    /\ \A slot \in Slots : reconcile[slot].on =>
           /\ None <= reconcile[slot].client
           /\ reconcile[slot].client <= reconcile[slot].askedAt
           /\ reconcile[slot].askedAt <= End

AskedFromSequence ==
    /\ catchUp.on => version \in Nat
    /\ recovery.stage = "asked" => recovery.from \in Nat

\* The text is the pieces up to what is shown, and between that and what the
\* stream has sent, or the cursor of a request in flight, there are no others.
TextFollows ==
    ~disturbed =>
        \E shown \in Nat :
            /\ shown = Greatest(latest, applied)
            /\ \E all : all = PiecesIn(0, shown) /\ text = InOrder(all)
            /\ thread.at = "open" => PiecesIn(shown, thread.pos) = {}
            /\ \A slot \in Slots : reconcile[slot].on =>
                   PiecesIn(shown, reconcile[slot].client) = {}

\* No snapshot on its way to the thread takes what is shown back before n.
NotTakenBefore(n) == applied >= n \/ (thread.at = "loading" => thread.pos >= n)

\* What a request in flight was asked about stays shown, or is on its way: a
\* late answer to the timer may take the cursor back, but only to what no
\* snapshot that follows can hide from the answer to a welcome.
AnswersInTime ==
    /\ reconcile["timer"].on => latest >= reconcile["timer"].client
    /\ reconcile["restart"].on /\ latest < reconcile["restart"].client =>
           /\ NotTakenBefore(reconcile["restart"].client)
           /\ reconcile["timer"].on =>
                  reconcile["timer"].askedAt >= reconcile["restart"].client
    /\ /\ reconcile["restart"].on /\ reconcile["timer"].on
       /\ reconcile["timer"].askedAt < reconcile["restart"].client
       => NotTakenBefore(reconcile["restart"].client)
    /\ restarted => ~reconcile["restart"].on
    /\ restarted /\ reconcile["timer"].on /\ reconcile["timer"].askedAt < latest =>
           NotTakenBefore(latest)

DetailInv == ProjectInv /\ Within /\ AskedFromSequence /\ TextFollows /\ AnswersInTime

DetailFollows == Within' /\ TextFollows' /\ AnswersInTime'

LEMMA PiecesInLog ==
    ASSUME Positions, NEW a \in Nat, NEW b \in Int, b <= End
    PROVE  End \in Nat /\ PiecesIn(a, b) \subseteq 1..End
  BY EndIsNat DEF PiecesIn

\* The pieces up to a and those after it up to b are those up to the later one.
LEMMA PiecesJoin ==
    ASSUME Positions, NEW a \in Nat, a <= End, NEW b \in Nat, b <= End
    PROVE  InOrder(PiecesIn(0, a)) \o InOrder(PiecesIn(a, b)) = InOrder(PiecesIn(0, Greatest(a, b)))
  <1> DEFINE early == PiecesIn(0, a)
             late == PiecesIn(a, b)
  <1>1. End \in Nat /\ early \subseteq 1..End /\ late \subseteq 1..End
    BY PiecesInLog
  <1>2. \A x \in early, y \in late : x < y
    BY DEF PiecesIn
  <1>3. early \cup late = PiecesIn(0, Greatest(a, b))
    BY DEF PiecesIn, Greatest
  <1> HIDE DEF early, late
  <1>4. InOrder(early) \o InOrder(late) = InOrder(early \cup late)
    BY <1>1, <1>2, OrderJoins
  <1> QED
    BY <1>3, <1>4 DEF early, late

LEMMA SamePieces ==
    ASSUME NEW a \in Nat, NEW b \in Int, PiecesIn(a, b) = {}
    PROVE  /\ a <= b => PiecesIn(0, a) = PiecesIn(0, b)
           /\ \A c \in Int : PiecesIn(b, c) = {} => PiecesIn(a, c) = {}
           /\ \A c \in Int : a <= c => PiecesIn(c, b) = {}
  BY DEF PiecesIn

\* The last piece of a batch.
LEMMA LastPieceIs ==
    ASSUME Positions, NEW a \in Nat, NEW b \in Int, b <= End
    PROVE  /\ LastPieceIn(a, b) \in Nat /\ LastPieceIn(a, b) <= End
           /\ PiecesIn(a, b) = {} => LastPieceIn(a, b) = 0
           /\ PiecesIn(a, b) # {} => LastPieceIn(a, b) \in PiecesIn(a, b)
           /\ \A n \in PiecesIn(a, b) : n <= LastPieceIn(a, b)
  <1> DEFINE S == {0} \cup PiecesIn(a, b)
  <1>1. End \in Nat /\ PiecesIn(a, b) \subseteq 1..End
    BY PiecesInLog
  <1>2. S \subseteq 0..End /\ S # {}
    BY <1>1
  <1>3. Max(S) \in S /\ \A x \in S : x <= Max(S)
    BY <1>1, <1>2, GreatestOf
  <1>4. LastPieceIn(a, b) = Max(S)
    BY DEF LastPieceIn
  <1> QED
    BY <1>1, <1>3, <1>4

\* What is shown while nothing has disturbed it.
LEMMA TextIs ==
    ASSUME DetailInv, ~disturbed, NEW shown, shown = Greatest(latest, applied)
    PROVE  /\ shown \in Nat /\ shown <= End /\ text = InOrder(PiecesIn(0, shown))
           /\ latest <= shown /\ applied <= shown
           /\ thread.at = "open" => PiecesIn(shown, thread.pos) = {}
           /\ \A slot \in Slots : reconcile[slot].on =>
                 PiecesIn(shown, reconcile[slot].client) = {}
  <1>1. /\ latest \in Int /\ applied \in Nat /\ latest <= End /\ applied <= End
    BY DEF DetailInv, Within
  <1>2. shown \in Nat /\ shown <= End /\ latest <= shown /\ applied <= shown
    BY <1>1 DEF Greatest
  <1> QED
    BY <1>2 DEF DetailInv, TextFollows

\* What has to hold of the next state for the text to follow.
LEMMA TextWill ==
    ASSUME UNCHANGED log, NEW shown \in Nat, shown = Greatest(latest', applied'),
           text' = InOrder(PiecesIn(0, shown)),
           thread'.at = "open" => PiecesIn(shown, thread'.pos) = {},
           \A slot \in Slots : reconcile'[slot].on =>
               PiecesIn(shown, reconcile'[slot].client) = {}
    PROVE  TextFollows'
  <1> DEFINE all == PiecesIn(0, shown)
  <1>1. all' = all
    BY DEF PiecesIn
  <1>2. shown = Greatest(latest, applied)'
    BY DEF Greatest
  <1>3. text' = InOrder(all)
    OBVIOUS
  <1>4. thread'.at = "open" => PiecesIn(shown, thread.pos)' = {}
    BY DEF PiecesIn
  <1>5. \A slot \in Slots : reconcile'[slot].on => PiecesIn(shown, reconcile[slot].client)' = {}
    BY DEF PiecesIn
  <1>6. \E everything : everything = PiecesIn(0, shown)' /\ text' = InOrder(everything)
    BY <1>1, <1>3
  <1> QED
    BY <1>2, <1>4, <1>5, <1>6 DEF TextFollows

\* A step that leaves the log and what is shown, and takes back no request.
LEMMA NothingWritten ==
    ASSUME DetailInv, UNCHANGED <<log, detailVars>>,
           \/ thread' = thread \/ thread' = Down \/ thread' = [at |-> "loading", pos |-> End],
           reconcile' \in [Slots -> Request],
           \A slot \in Slots : reconcile'[slot].on => reconcile'[slot] = reconcile[slot],
           restarted' => restarted \/ \A slot \in Slots : ~reconcile'[slot].on
    PROVE  DetailFollows
  <1>1. UNCHANGED <<text, applied, latest, verified, disturbed>> /\ End' = End /\ End \in Nat
    BY EndIsNat DEF detailVars, End, DetailInv, ProjectInv
  <1>2. /\ thread' \in [at : {"down", "loading", "open"}, pos : Nat] /\ thread'.pos <= End
        /\ thread'.at = "open" => thread' = thread
        /\ thread'.at = "loading" => thread' = thread \/ thread'.pos = End
    BY <1>1 DEF Down, DetailInv, Within
  <1>3. Within'
    BY <1>1, <1>2 DEF DetailInv, Within
  <1>4. TextFollows'
    <2> SUFFICES ASSUME ~disturbed PROVE TextFollows'
      BY <1>1 DEF TextFollows
    <2> DEFINE shown == Greatest(latest, applied)
    <2>1. /\ shown \in Nat /\ text = InOrder(PiecesIn(0, shown))
          /\ thread.at = "open" => PiecesIn(shown, thread.pos) = {}
          /\ \A slot \in Slots : reconcile[slot].on =>
                PiecesIn(shown, reconcile[slot].client) = {}
      BY TextIs
    <2>2. shown = Greatest(latest', applied')
      BY <1>1
    <2> HIDE DEF shown
    <2> QED
      BY <1>1, <1>2, <2>1, <2>2, TextWill
  <1>5. AnswersInTime'
    <2>1. \A n \in Int : n <= End /\ NotTakenBefore(n) =>
             applied' >= n \/ (thread'.at = "loading" => thread'.pos >= n)
      BY <1>1, <1>2 DEF NotTakenBefore
    <2>2. /\ latest \in Int /\ latest <= End /\ "timer" \in Slots /\ "restart" \in Slots
          /\ \A slot \in Slots : reconcile[slot].on =>
                /\ reconcile[slot].client \in Int /\ reconcile[slot].askedAt \in Int
                /\ reconcile[slot].client <= End
      BY <1>1 DEF DetailInv, Within, Request, Slots
    <2> QED
      BY <1>1, <2>1, <2>2 DEF DetailInv, AnswersInTime, NotTakenBefore
  <1> QED
    BY <1>3, <1>4, <1>5 DEF DetailFollows

\* The steps of the shell and of the connection.
LEMMA OthersDetail ==
    ASSUME DetailInv,
           \/ Disconnect \/ SubscribeShell \/ SubscribeThread \/ ShellSnapshot
           \/ ShellEventUnread \/ ShellEvent \/ AskCatchUp \/ CatchUpFails \/ RecoveryFails
           \/ RecoveryEndsReconnect \/ UNCHANGED vars
           \/ \E slot \in Slots : ReconcileFails(slot)
    PROVE  DetailFollows
  <1>0. reconcile \in [Slots -> Request]
    BY DEF DetailInv, Within
  <1>1. CASE Disconnect \/ RecoveryFails
    <2>1. /\ UNCHANGED <<log, detailVars>> /\ thread' = Down
          /\ reconcile' = [slot \in Slots |-> NoReconcile]
      BY <1>1 DEF Disconnect, RecoveryFails, ConnectionLost
    <2>2. reconcile' \in [Slots -> Request] /\ \A slot \in Slots : ~reconcile'[slot].on
      BY <2>1 DEF NoReconcile, Request, None
    <2> QED
      BY <2>1, <2>2, NothingWritten
  <1>2. CASE SubscribeThread
    <2>1. /\ UNCHANGED <<log, detailVars, reconcile, restarted>>
          /\ thread' = [at |-> "loading", pos |-> End]
      BY <1>2 DEF SubscribeThread, requestVars
    <2> QED
      BY <1>0, <2>1, NothingWritten
  <1>3. CASE \E slot \in Slots : ReconcileFails(slot)
    <2>1. PICK slot \in Slots : ReconcileFails(slot)
      BY <1>3
    <2>2. /\ UNCHANGED <<log, detailVars, thread, restarted>>
          /\ reconcile' = [reconcile EXCEPT ![slot] = NoReconcile]
      BY <2>1 DEF ReconcileFails
    <2>3. NoReconcile \in Request /\ ~NoReconcile.on
      BY DEF NoReconcile, Request, None
    <2>4. reconcile' \in [Slots -> Request]
          /\ \A other \in Slots : reconcile'[other].on => reconcile'[other] = reconcile[other]
      BY <1>0, <2>2, <2>3
    <2> QED
      BY <2>2, <2>4, NothingWritten
  <1>4. CASE \/ SubscribeShell \/ ShellSnapshot \/ ShellEventUnread \/ ShellEvent \/ AskCatchUp
             \/ CatchUpFails \/ RecoveryEndsReconnect \/ UNCHANGED vars
    <2>1. UNCHANGED <<log, detailVars, thread, reconcile, restarted>>
      BY <1>4 DEF SubscribeShell, ShellSnapshot, ShellEventUnread, ShellEvent, AskCatchUp,
        CatchUpFails, RecoveryEndsReconnect, vars, requestVars
    <2> QED
      BY <1>0, <2>1, NothingWritten
  <1> QED
    BY <1>1, <1>2, <1>3, <1>4

LEMMA CommitDetail ==
    ASSUME DetailInv, Commit
    PROVE  DetailFollows
  <1>1. PICK kind \in {"project", "piece"} : log' = Append(log, kind)
    BY DEF Commit
  <1>2. End' = End + 1 /\ End \in Nat /\ \A k \in 1..End : log'[k] = log[k]
    BY <1>1, EndIsNat DEF End, DetailInv, ProjectInv, Positions
  <1>3. UNCHANGED <<thread, text, applied, latest, verified, disturbed, reconcile, restarted>>
    BY DEF Commit, detailVars, requestVars
  <1>4. Within'
    BY <1>2, <1>3 DEF DetailInv, Within, Request
  <1>5. TextFollows'
    <2> SUFFICES ASSUME ~disturbed PROVE TextFollows'
      BY <1>3 DEF TextFollows
    <2>1. PICK shown \in Nat :
            /\ shown = Greatest(latest, applied) /\ shown <= End
            /\ text = InOrder(PiecesIn(0, shown))
            /\ thread.at = "open" => PiecesIn(shown, thread.pos) = {}
            /\ \A slot \in Slots : reconcile[slot].on =>
                  PiecesIn(shown, reconcile[slot].client) = {}
      BY TextIs
    <2>2. shown = Greatest(latest, applied)'
      BY <1>3, <2>1 DEF Greatest
    <2>3. ASSUME NEW a \in Nat, NEW b \in Int, b <= End
          PROVE  PiecesIn(a, b)' = PiecesIn(a, b)
      BY <1>2, <2>3 DEF PiecesIn
    <2>4. PiecesIn(0, shown)' = PiecesIn(0, shown)
      BY <2>1, <2>3
    <2>5. thread'.at = "open" => PiecesIn(shown, thread.pos)' = {}
      <3> SUFFICES ASSUME thread.at = "open" PROVE PiecesIn(shown, thread.pos)' = {}
        BY <1>3
      <3>1. PICK pos \in Int : pos = thread.pos /\ pos <= End
        BY DEF DetailInv, Within
      <3>2. PiecesIn(shown, pos)' = {}
        BY <2>1, <2>3, <3>1
      <3> QED
        BY <1>3, <3>1, <3>2 DEF PiecesIn
    <2>6. \A slot \in Slots : reconcile'[slot].on => PiecesIn(shown, reconcile[slot].client)' = {}
      <3> SUFFICES ASSUME NEW slot \in Slots, reconcile[slot].on
                   PROVE  PiecesIn(shown, reconcile[slot].client)' = {}
        BY <1>3
      <3>1. PICK client \in Int : client = reconcile[slot].client /\ client <= End
        BY <1>2 DEF DetailInv, Within, Request
      <3>2. PiecesIn(shown, client)' = {}
        BY <2>1, <2>3, <3>1
      <3> QED
        BY <1>3, <3>1, <3>2 DEF PiecesIn
    <2> DEFINE all == PiecesIn(0, shown)
    <2>7. all' = all /\ text' = InOrder(all)
      BY <1>3, <2>1, <2>4
    <2>8. \E everything : everything = PiecesIn(0, shown)' /\ text' = InOrder(everything)
      BY <2>7
    <2> QED
      BY <2>2, <2>5, <2>6, <2>8 DEF TextFollows
  <1>6. AnswersInTime'
    BY <1>3 DEF DetailInv, AnswersInTime, NotTakenBefore
  <1> QED
    BY <1>4, <1>5, <1>6 DEF DetailFollows
\* Replays are only asked for by a client that has a version.
LEMMA AskedStep ==
    ASSUME DetailInv, [Next]_vars
    PROVE  AskedFromSequence'
  <1>1. /\ version \in Int /\ version >= None /\ version' \in Int /\ version' >= version
        /\ recovery.stage = "asked" => recovery.from \in Nat /\ recovery.from <= version
        /\ catchUp.on => version \in Nat
    BY ForwardStep DEF DetailInv, ProjectInv, Positions, SourcesInLog, AskedFromSequence, Forward
  <1>2. ASSUME NEW observed, NEW from \in Nat, QueueRecovery(observed, from)
        PROVE  recovery'.stage = "asked" => recovery'.from \in Nat
    BY <1>1, <1>2 DEF QueueRecovery, DetailInv, ProjectInv, Positions
  <1>3. CASE AskCatchUp
    BY <1>1, <1>3 DEF AskCatchUp, AskedFromSequence, None, shellVars
  <1>4. CASE ShellEvent
    <2>1. UNCHANGED catchUp
      BY <1>4 DEF ShellEvent
    <2>2. CASE recovery.stage = "none" /\ Classify(shell.pos + 1) = "gap"
               /\ QueueRecovery(shell.pos + 1, version)
      <3>1. version \in Nat
        BY <1>1, <2>2 DEF Classify, None
      <3> QED
        BY <1>1, <1>2, <2>1, <2>2, <3>1 DEF AskedFromSequence
    <2>3. CASE recovery' = [recovery EXCEPT !.high = Greatest(@, shell.pos + 1)]
      BY <1>1, <2>1, <2>3 DEF AskedFromSequence, DetailInv, ProjectInv, Positions
    <2>4. CASE UNCHANGED recovery
      BY <1>1, <2>1, <2>4 DEF AskedFromSequence
    <2> QED
      BY <1>4, <2>2, <2>3, <2>4 DEF ShellEvent
  <1>5. CASE CatchUpReply
    <2>1. ~catchUp'.on /\ version \in Nat
      BY <1>1, <1>5 DEF CatchUpReply, NoCatchUp
    <2>2. CASE UNCHANGED recovery
      BY <1>1, <2>1, <2>2 DEF AskedFromSequence
    <2>3. CASE ~UNCHANGED recovery
      <3>1. PICK upTo \in ReplayedUpTo(catchUp) :
               QueueRecovery(Greatest(catchUp.known, upTo), Greatest(version, upTo))
        BY <1>5, <2>3 DEF CatchUpReply
      <3>2. Greatest(version, upTo) \in Nat
        BY <2>1, ReplayPosition DEF DetailInv, ProjectInv, Positions, Greatest
      <3> QED
        BY <1>2, <2>1, <3>1, <3>2 DEF AskedFromSequence
    <2> QED
      BY <2>2, <2>3
  <1>6. CASE RecoveryReply
    <2>1. version \in Nat
      BY <1>1, <1>6 DEF RecoveryReply
    <2>2. \/ recovery' = Reconnecting
          \/ recovery' = NoRecovery
          \/ recovery' = [recovery EXCEPT !.from = version', !.askedAt = End]
      BY <1>6, Zenon DEF RecoveryReply
    <2>3. recovery'.stage = "asked" => recovery'.from = version'
      <3>1. PICK next, asked : next = version' /\ asked = End
        OBVIOUS
      <3>2. CASE recovery' = [recovery EXCEPT !.from = version', !.askedAt = End]
        <4>1. recovery' = [recovery EXCEPT !.from = next, !.askedAt = asked]
          BY <3>1, <3>2
        <4>2. recovery' = [stage |-> recovery.stage, high |-> recovery.high, from |-> next,
                           askedAt |-> asked]
          BY <4>1 DEF DetailInv, ProjectInv, Positions
        <4> QED
          BY <3>1, <4>2
      <3> QED
        BY <2>2, <3>2 DEF Reconnecting, NoRecovery
    <2> QED
      BY <1>1, <2>1, <2>3 DEF AskedFromSequence
  <1>7. CASE Disconnect \/ RecoveryFails \/ RecoveryEndsReconnect \/ CatchUpFails
    <2>1. /\ catchUp' = catchUp \/ catchUp' = NoCatchUp
          /\ recovery' = recovery \/ recovery' = NoRecovery \/ recovery' = Reconnecting
      BY <1>7 DEF Disconnect, RecoveryFails, RecoveryEndsReconnect, CatchUpFails, ConnectionLost
    <2> QED
      BY <1>1, <2>1 DEF NoCatchUp, NoRecovery, Reconnecting, AskedFromSequence
  <1>8. CASE \/ Commit \/ SubscribeShell \/ SubscribeThread \/ ShellSnapshot \/ ShellEventUnread
             \/ ThreadSnapshot \/ ThreadEvent \/ AskReconcile \/ Welcome \/ UNCHANGED vars
             \/ \E slot \in Slots : ReconcileReply(slot) \/ ReconcileFails(slot)
    <2>1. UNCHANGED <<recovery, catchUp>>
      BY <1>8 DEF Commit, SubscribeShell, SubscribeThread, ShellSnapshot, ShellEventUnread,
        ThreadSnapshot, ThreadEvent, AskReconcile, Welcome, ReconcileReply, ReconcileFails, vars,
        requestVars
    <2> QED
      BY <1>1, <2>1 DEF AskedFromSequence
  <1> QED
    BY <1>3, <1>4, <1>5, <1>6, <1>7, <1>8 DEF Next

\* A request asks about what is shown, up to the cursor.
LEMMA AskDetail ==
    ASSUME DetailInv, AskReconcile \/ Welcome
    PROVE  DetailFollows
  <1>1. UNCHANGED <<log, thread, text, applied, latest, verified, disturbed>> /\ End' = End
    BY DEF AskReconcile, Welcome, detailVars, End
  <1>2. CASE UNCHANGED reconcile /\ (restarted' => restarted)
    BY <1>1, <1>2, NothingWritten DEF DetailInv, Within, detailVars
  <1>3. CASE ~(UNCHANGED reconcile /\ (restarted' => restarted))
    <2>1. PICK slot \in Slots :
            /\ Ask(slot)
            /\ slot = "timer" => UNCHANGED restarted
            /\ slot = "restart" => restarted /\ ~restarted'
      BY <1>1, <1>3 DEF AskReconcile, Welcome, Slots
    <2>2. /\ reconcile \in [Slots -> Request] /\ latest \in Int /\ None <= latest /\ latest <= End
          /\ verified \in Int /\ End \in Nat
          /\ \A other \in Slots : reconcile[other].on =>
                reconcile[other].client \in Int /\ reconcile[other].client <= End
      BY EndIsNat DEF DetailInv, ProjectInv, Within, Request
    <2>3. PICK request :
            request = [on |-> TRUE, client |-> latest, verified |-> verified, askedAt |-> End]
      OBVIOUS
    <2>4. /\ request \in Request
          /\ request.on /\ request.client = latest /\ request.askedAt = End
      BY <2>2, <2>3 DEF Request
    <2>5. reconcile' = [reconcile EXCEPT ![slot] = request]
      BY <2>1, <2>3, Zenon DEF Ask
    <2>6. /\ reconcile' \in [Slots -> Request] /\ reconcile'[slot] = request
          /\ \A other \in Slots \ {slot} : reconcile'[other] = reconcile[other]
      BY <2>2, <2>4, <2>5
    <2>7. Within'
      BY <1>1, <2>2, <2>4, <2>6 DEF DetailInv, Within
    <2>8. TextFollows'
      <3> SUFFICES ASSUME ~disturbed PROVE TextFollows'
        BY <1>1 DEF TextFollows
      <3>1. PICK shown \in Nat :
              /\ shown = Greatest(latest, applied) /\ latest <= shown
              /\ text = InOrder(PiecesIn(0, shown))
              /\ thread.at = "open" => PiecesIn(shown, thread.pos) = {}
              /\ \A other \in Slots : reconcile[other].on =>
                    PiecesIn(shown, reconcile[other].client) = {}
        BY TextIs
      <3>2. shown = Greatest(latest', applied')
        BY <1>1, <3>1
      <3>3. PiecesIn(shown, latest) = {}
        BY <2>2, <3>1 DEF PiecesIn
      <3>4. \A other \in Slots : reconcile'[other].on =>
                PiecesIn(shown, reconcile'[other].client) = {}
        BY <2>4, <2>6, <3>1, <3>3
      <3> QED
        BY <1>1, <3>1, <3>2, <3>4, TextWill
    <2>9. AnswersInTime'
      <3>1. \A n : NotTakenBefore(n) =>
               applied' >= n \/ (thread'.at = "loading" => thread'.pos >= n)
        BY <1>1 DEF NotTakenBefore
      <3>2. CASE slot = "timer"
        BY <1>1, <2>1, <2>2, <2>4, <2>6, <3>1, <3>2
           DEF DetailInv, AnswersInTime, NotTakenBefore, Slots
      <3>3. CASE slot = "restart"
        BY <1>1, <2>1, <2>2, <2>4, <2>6, <3>1, <3>3
           DEF DetailInv, AnswersInTime, NotTakenBefore, Slots
      <3> QED
        BY <3>2, <3>3 DEF Slots
    <2> QED
      BY <2>7, <2>8, <2>9 DEF DetailFollows
  <1> QED
    BY <1>2, <1>3

\* Pieces after what is shown, up to b, bring what is shown to a position after
\* which there are none up to b.
LEMMA Appended ==
    ASSUME Positions, NEW shown \in Nat, shown <= End, NEW b \in Nat, b <= End,
           NEW next \in Nat, shown <= next, next <= Greatest(shown, b), PiecesIn(next, b) = {}
    PROVE  InOrder(PiecesIn(0, shown)) \o InOrder(PiecesIn(shown, b)) = InOrder(PiecesIn(0, next))
  <1>1. PiecesIn(0, next) = PiecesIn(0, Greatest(shown, b))
    BY DEF PiecesIn, Greatest
  <1> QED
    BY <1>1, PiecesJoin

\* The pieces of a stream or a reconciliation that follow what is shown.
LEMMA PiecesShown ==
    ASSUME DetailInv, ~disturbed,
           NEW a \in Nat, NEW b \in Nat, b <= End, NEW cursor \in Nat, cursor <= b,
           latest <= cursor, latest' = cursor, ShowPieces(a, b),
           NEW shown, shown = Greatest(latest, applied), PiecesIn(shown, a) = {}
    PROVE  \E next \in Nat :
              /\ next = Greatest(latest', applied') /\ shown <= next
              /\ text' = InOrder(PiecesIn(0, next))
  <1>1. /\ shown \in Nat /\ shown <= End /\ text = InOrder(PiecesIn(0, shown))
        /\ latest <= shown /\ applied <= shown
    BY TextIs
  <1>2. latest \in Int /\ applied \in Nat /\ (shown = latest \/ shown = applied)
    BY DEF DetailInv, Within, Greatest
  <1>3. PICK unseen \in Nat :
          /\ unseen = Greatest(a, latest)
          /\ unseen >= a /\ unseen >= latest /\ (unseen = a \/ unseen = latest)
    BY <1>2 DEF Greatest
  <1> DEFINE last == LastPieceIn(unseen, b)
             new == {n \in PiecesIn(unseen, b) : n > applied}
  <1>4. text' = text \o InOrder(new) /\ applied' = Greatest(applied, last)
    BY <1>3, Zenon DEF ShowPieces
  <1>5. new = PiecesIn(shown, b)
    BY <1>1, <1>2, <1>3 DEF PiecesIn
  <1>6. /\ last \in Nat /\ (last = 0 \/ last <= b)
        /\ \A n \in PiecesIn(unseen, b) : n <= last
    <2>1. /\ last \in Nat
          /\ PiecesIn(unseen, b) = {} => last = 0
          /\ PiecesIn(unseen, b) # {} => last \in PiecesIn(unseen, b)
          /\ \A n \in PiecesIn(unseen, b) : n <= last
      <3>1. Positions /\ b \in Int
        BY DEF DetailInv, ProjectInv
      <3> QED
        BY <3>1, LastPieceIs
    <2>2. \A n \in PiecesIn(unseen, b) : n <= b
      BY <1>3 DEF PiecesIn
    <2> QED
      BY <2>1, <2>2
  <1> HIDE DEF last, new
  <1>7. PICK next \in Nat : next = Greatest(latest', applied')
    BY <1>2, <1>4, <1>6 DEF Greatest
  <1>8. /\ applied' >= applied /\ applied' >= last /\ (applied' = applied \/ applied' = last)
        /\ applied' \in Nat
    BY <1>2, <1>4, <1>6 DEF Greatest
  <1>9. next >= cursor /\ next >= applied' /\ (next = cursor \/ next = applied')
    BY <1>7, <1>8 DEF Greatest
  <1>10. shown <= next /\ next <= Greatest(shown, b)
    BY <1>1, <1>2, <1>6, <1>8, <1>9 DEF Greatest
  <1>11. PiecesIn(next, b) = {}
    <2>1. \A n \in PiecesIn(next, b) : n \in Nat /\ n > next /\ n \in PiecesIn(shown, b)
      BY <1>1, <1>10 DEF PiecesIn
    <2>2. \A n \in PiecesIn(shown, b) : n <= last
      BY <1>5, <1>6 DEF new
    <2> QED
      BY <1>6, <1>8, <1>9, <2>1, <2>2
  <1>12. text' = InOrder(PiecesIn(0, next))
    BY <1>1, <1>4, <1>5, <1>10, <1>11, Appended DEF DetailInv, ProjectInv
  <1> QED
    BY <1>7, <1>10, <1>12

\* Pieces are shown up to a position of the log.
LEMMA PiecesWithin ==
    ASSUME DetailInv, NEW a \in Nat, NEW b \in Int, b <= End, ShowPieces(a, b)
    PROVE  applied' \in Nat /\ applied' <= End /\ applied' >= applied
  <1>1. latest \in Int /\ applied \in Nat /\ applied <= End /\ End \in Nat
    BY EndIsNat DEF DetailInv, ProjectInv, Within
  <1>2. PICK unseen \in Nat : unseen = Greatest(a, latest)
    BY <1>1 DEF Greatest
  <1>3. applied' = Greatest(applied, LastPieceIn(unseen, b))
    BY <1>2, Zenon DEF ShowPieces
  <1>4. LastPieceIn(unseen, b) \in Nat /\ LastPieceIn(unseen, b) <= End
    BY LastPieceIs DEF DetailInv, ProjectInv
  <1> QED
    BY <1>1, <1>3, <1>4 DEF Greatest

\* What the invariant says of the numbers and of the requests in flight.
LEMMA Numbers ==
    ASSUME DetailInv
    PROVE  /\ End \in Nat /\ Positions
           /\ thread \in [at : {"down", "loading", "open"}, pos : Nat] /\ thread.pos <= End
           /\ applied \in Nat /\ applied <= End
           /\ latest \in Int /\ None <= latest /\ latest <= End
           /\ reconcile \in [Slots -> Request] /\ "timer" \in Slots /\ "restart" \in Slots
           /\ \A slot \in Slots : reconcile[slot].on =>
                 /\ reconcile[slot].client \in Int /\ reconcile[slot].askedAt \in Nat
                 /\ None <= reconcile[slot].client
                 /\ reconcile[slot].client <= reconcile[slot].askedAt
                 /\ reconcile[slot].askedAt <= End
  BY EndIsNat DEF DetailInv, ProjectInv, Within, Request, Slots

\* A snapshot of the thread that nothing outran shows the pieces up to it.
LEMMA SnapshotFollows ==
    ASSUME DetailInv, UNCHANGED log, NEW sequence \in Nat, ShowSnapshot(sequence), ~disturbed',
           thread'.at = "open" => thread'.pos <= sequence /\ thread'.pos \in Nat,
           \A slot \in Slots : reconcile'[slot].on =>
               reconcile'[slot].client \in Int /\ reconcile'[slot].client <= sequence
    PROVE  TextFollows'
  <1>1. latest' = sequence /\ applied' = applied /\ text' = InOrder(PiecesIn(0, sequence))
        /\ ~(sequence < Greatest(latest, applied))
    BY DEF ShowSnapshot
  <1>2. sequence = Greatest(latest', applied')
    BY <1>1, Numbers DEF Greatest
  <1>3. \A n \in Int : n <= sequence => PiecesIn(sequence, n) = {}
    BY DEF PiecesIn
  <1> QED
    BY <1>1, <1>2, <1>3, TextWill

LEMMA ThreadSnapshotDetail ==
    ASSUME DetailInv, ThreadSnapshot
    PROVE  DetailFollows
  <1>1. /\ UNCHANGED <<log, reconcile, restarted>> /\ End' = End
        /\ thread.at = "loading" /\ thread'.at = "open" /\ thread'.pos = thread.pos
        /\ thread' \in [at : {"down", "loading", "open"}, pos : Nat]
    BY Numbers DEF ThreadSnapshot, requestVars, End
  <1>2. AnswersInTime' <=> \A n \in {0} :
            /\ reconcile["timer"].on => latest' >= reconcile["timer"].client
            /\ reconcile["restart"].on /\ latest' < reconcile["restart"].client =>
                  (reconcile["timer"].on =>
                      reconcile["timer"].askedAt >= reconcile["restart"].client)
            /\ restarted => ~reconcile["restart"].on
    BY <1>1 DEF AnswersInTime, NotTakenBefore
  <1>3. CASE thread.pos < latest /\ UNCHANGED detailVars
    <2>1. UNCHANGED <<text, applied, latest, verified, disturbed>>
      BY <1>3 DEF detailVars
    <2>2. Within'
      BY <1>1, <2>1 DEF DetailInv, Within
    <2>3. TextFollows'
      <3> SUFFICES ASSUME ~disturbed PROVE TextFollows'
        BY <2>1 DEF TextFollows
      <3>1. PICK shown \in Nat :
              /\ shown = Greatest(latest, applied) /\ latest <= shown
              /\ text = InOrder(PiecesIn(0, shown))
              /\ \A slot \in Slots : reconcile[slot].on =>
                    PiecesIn(shown, reconcile[slot].client) = {}
        BY TextIs
      <3>2. shown = Greatest(latest', applied')
        BY <2>1, <3>1
      <3>3. PiecesIn(shown, thread'.pos) = {}
        BY <1>1, <1>3, <3>1, Numbers DEF PiecesIn
      <3> QED
        BY <1>1, <2>1, <3>1, <3>2, <3>3, TextWill
    <2>4. AnswersInTime'
      BY <1>2, <2>1 DEF DetailInv, AnswersInTime
    <2> QED
      BY <2>2, <2>3, <2>4 DEF DetailFollows
  <1>4. CASE thread.pos >= latest /\ ShowSnapshot(thread.pos)
    <2>1. PICK pos \in Nat : pos = thread.pos /\ pos >= latest /\ pos <= End /\ ShowSnapshot(pos)
      BY <1>4, Numbers
    <2>2. /\ latest' = pos /\ verified' = pos /\ UNCHANGED applied
          /\ ~disturbed' => pos >= latest /\ pos >= applied
      <3>1. /\ latest' = pos /\ verified' = pos /\ UNCHANGED applied
            /\ ~disturbed' => ~(pos < Greatest(latest, applied))
        BY <2>1, Zenon DEF ShowSnapshot
      <3>2. ~(pos < Greatest(latest, applied)) => pos >= latest /\ pos >= applied
        BY Numbers DEF Greatest
      <3> QED
        BY <3>1, <3>2
    <2>3. Within'
      BY <1>1, <2>1, <2>2, Numbers DEF DetailInv, Within, None
    <2>4. TextFollows'
      <3> SUFFICES ASSUME ~disturbed' PROVE TextFollows'
        BY DEF TextFollows
      <3>1. reconcile["timer"].on => reconcile["timer"].client <= pos
        BY <2>1, Numbers DEF DetailInv, AnswersInTime
      <3>2. reconcile["restart"].on => reconcile["restart"].client <= pos
        BY <1>1, <2>1, <2>2, Numbers DEF DetailInv, AnswersInTime, NotTakenBefore
      <3>3. \A slot \in Slots : reconcile'[slot].on =>
               reconcile'[slot].client \in Int /\ reconcile'[slot].client <= pos
        BY <1>1, <3>1, <3>2, Numbers DEF Slots
      <3> QED
        BY <1>1, <2>1, <3>3, SnapshotFollows
    <2>5. AnswersInTime'
      BY <1>2, <2>1, <2>2, Numbers DEF DetailInv, AnswersInTime
    <2> QED
      BY <2>3, <2>4, <2>5 DEF DetailFollows
  <1> QED
    BY <1>3, <1>4 DEF ThreadSnapshot

LEMMA ThreadEventDetail ==
    ASSUME DetailInv, ThreadEvent
    PROVE  DetailFollows
  <1>1. PICK pos \in Nat :
          /\ pos = thread.pos /\ pos < End /\ End' = End
          /\ UNCHANGED <<log, verified, disturbed, reconcile, restarted>>
          /\ thread.at = "open" /\ thread'.at = "open" /\ thread'.pos = pos + 1
          /\ thread' \in [at : {"down", "loading", "open"}, pos : Nat]
    BY Numbers DEF ThreadEvent, requestVars, End
  <1>2. CASE (log[pos + 1] = "project" \/ pos + 1 <= latest) /\ UNCHANGED <<text, applied, latest>>
    <2>1. Within'
      BY <1>1, <1>2, Numbers DEF DetailInv, Within
    <2>2. TextFollows'
      <3> SUFFICES ASSUME ~disturbed PROVE TextFollows'
        BY <1>1 DEF TextFollows
      <3>1. PICK shown \in Nat :
              /\ shown = Greatest(latest, applied) /\ latest <= shown
              /\ text = InOrder(PiecesIn(0, shown))
              /\ PiecesIn(shown, pos) = {}
              /\ \A slot \in Slots : reconcile[slot].on =>
                    PiecesIn(shown, reconcile[slot].client) = {}
        BY <1>1, TextIs
      <3>2. shown = Greatest(latest', applied')
        BY <1>2, <3>1
      <3>3. PiecesIn(shown, pos + 1) = {}
        BY <1>1, <1>2, <3>1, Numbers DEF PiecesIn
      <3> QED
        BY <1>1, <1>2, <3>1, <3>2, <3>3, TextWill
    <2>3. AnswersInTime'
      BY <1>1, <1>2 DEF DetailInv, AnswersInTime, NotTakenBefore
    <2> QED
      BY <2>1, <2>2, <2>3 DEF DetailFollows
  <1>3. CASE log[pos + 1] = "piece" /\ pos + 1 > latest /\ ShowPieces(pos, pos + 1)
             /\ latest' = pos + 1
    <2>1. applied' \in Nat /\ applied' <= End
      BY <1>1, <1>3, PiecesWithin, Numbers
    <2>2. Within'
      BY <1>1, <1>3, <2>1, Numbers DEF DetailInv, Within, None
    <2>3. TextFollows'
      <3> SUFFICES ASSUME ~disturbed PROVE TextFollows'
        BY <1>1 DEF TextFollows
      <3>1. PICK shown \in Nat :
              /\ shown = Greatest(latest, applied)
              /\ PiecesIn(shown, pos) = {}
              /\ \A slot \in Slots : reconcile[slot].on =>
                    PiecesIn(shown, reconcile[slot].client) = {}
        BY <1>1, TextIs
      <3>2. PICK next \in Nat :
              /\ next = Greatest(latest', applied') /\ shown <= next
              /\ text' = InOrder(PiecesIn(0, next))
        BY <1>1, <1>3, <3>1, PiecesShown, Numbers
      <3>3. PiecesIn(next, pos + 1) = {}
        BY <1>1, <1>3, <2>1, <3>2 DEF PiecesIn, Greatest
      <3>4. \A slot \in Slots : reconcile[slot].on => PiecesIn(next, reconcile[slot].client) = {}
        BY <3>1, <3>2, Numbers DEF PiecesIn
      <3> QED
        BY <1>1, <3>2, <3>3, <3>4, TextWill
    <2>4. AnswersInTime'
      BY <1>1, <1>3, Numbers DEF DetailInv, AnswersInTime, NotTakenBefore
    <2> QED
      BY <2>2, <2>3, <2>4 DEF DetailFollows
  <1> QED
    BY <1>1, <1>2, <1>3 DEF ThreadEvent

\* A run of pieces ends no earlier than at any of its pieces.
LEMMA RunEndIs ==
    ASSUME Positions, NEW b \in Nat, b <= End, NEW n \in 1..b, log[n] = "piece"
    PROVE  RunEnd(n, b) \in Nat /\ n <= RunEnd(n, b)
  <1> DEFINE S == {m \in n..b : \A k \in n..m : log[k] = "piece"}
  <1>1. S \subseteq 0..b /\ n \in S
    OBVIOUS
  <1>2. Max(S) \in S /\ \A x \in S : x <= Max(S)
    BY <1>1, GreatestOf
  <1> QED
    BY <1>1, <1>2 DEF RunEnd

\* A batch that has pieces, none of them between where it starts and what is
\* shown, appends those it has after what is shown.
LEMMA BatchAppends ==
    ASSUME DetailInv, ~disturbed, NEW a \in Nat, NEW b \in Nat, b <= End, ApplyBatch(a, b),
           NEW shown, shown = Greatest(latest, applied), PiecesIn(a, b) # {},
           PiecesIn(Least(a, shown), Greatest(a, shown)) = {}
    PROVE  \E next \in Nat :
              /\ next = Greatest(latest', applied') /\ shown <= next
              /\ text' = InOrder(PiecesIn(0, next))
  <1>1. /\ shown \in Nat /\ shown <= End /\ text = InOrder(PiecesIn(0, shown))
        /\ latest <= shown /\ applied <= shown
    BY TextIs
  <1>2. latest \in Int /\ applied \in Nat /\ (shown = latest \/ shown = applied)
    BY Numbers DEF Greatest
  <1>3. PICK last \in Nat :
          /\ last = LastPieceIn(a, b) /\ last \in PiecesIn(a, b)
          /\ \A n \in PiecesIn(a, b) : n <= last
    <2>1. Positions /\ b \in Int
      BY Numbers
    <2> QED
      BY <2>1, LastPieceIs
  <1>4. last > a /\ last <= b /\ last # 0
    BY <1>3 DEF PiecesIn
  <1>5. /\ applied' = Greatest(applied, last) /\ latest' = Greatest(latest, last)
        /\ text' = text \o InOrder({n \in PiecesIn(a, b) : RunEnd(n, b) > applied})
    BY <1>3, <1>4, Zenon DEF ApplyBatch
  <1>6. \A n \in PiecesIn(a, b) : n > shown
    BY <1>1 DEF PiecesIn, Least, Greatest
  <1>7. PiecesIn(a, b) = PiecesIn(shown, b)
    <2>1. \A n \in PiecesIn(a, b) : n \in PiecesIn(shown, b)
      BY <1>1, <1>6 DEF PiecesIn
    <2>2. \A n \in PiecesIn(shown, b) : n \in PiecesIn(a, b)
      BY <1>1 DEF PiecesIn, Least, Greatest
    <2> QED
      BY <2>1, <2>2
  <1>8. {n \in PiecesIn(a, b) : RunEnd(n, b) > applied} = PiecesIn(shown, b)
    <2>1. ASSUME NEW n \in PiecesIn(a, b) PROVE RunEnd(n, b) > applied
      <3>1. n \in 1..b /\ log[n] = "piece"
        BY DEF PiecesIn
      <3>2. Positions
        BY Numbers
      <3>3. RunEnd(n, b) \in Nat /\ n <= RunEnd(n, b)
        BY <3>1, <3>2, RunEndIs
      <3> QED
        BY <1>1, <1>2, <1>6, <3>1, <3>3
    <2> QED
      BY <1>7, <2>1
  <1>9. PICK next \in Nat : next = Greatest(latest', applied')
    BY <1>2, <1>5 DEF Greatest
  <1>10. next >= shown /\ next >= last /\ (next = shown \/ next = last)
    BY <1>1, <1>2, <1>5, <1>9 DEF Greatest
  <1>11. next <= Greatest(shown, b)
    BY <1>1, <1>4, <1>10 DEF Greatest
  <1>12. PiecesIn(next, b) = {}
    <2>1. \A n \in PiecesIn(next, b) : n \in Nat /\ n > next /\ n \in PiecesIn(shown, b)
      BY <1>1, <1>10 DEF PiecesIn
    <2>2. \A n \in PiecesIn(shown, b) : n <= last
      BY <1>3, <1>7
    <2> QED
      BY <1>10, <2>1, <2>2
  <1>13. text' = InOrder(PiecesIn(0, next))
    <2>1. text' = InOrder(PiecesIn(0, shown)) \o InOrder(PiecesIn(shown, b))
      BY <1>1, <1>5, <1>8
    <2>2. Positions
      BY Numbers
    <2>3. InOrder(PiecesIn(0, shown)) \o InOrder(PiecesIn(shown, b)) = InOrder(PiecesIn(0, next))
      BY <1>1, <1>10, <1>11, <1>12, <2>2, Appended
    <2> QED
      BY <2>1, <2>3
  <1> QED
    BY <1>9, <1>10, <1>13

LEMMA BatchDetail ==
    ASSUME DetailInv, NEW a \in Nat, NEW b \in Nat, b <= End, ApplyBatch(a, b),
           UNCHANGED <<log, thread, reconcile, restarted>>
    PROVE  DetailFollows
  <1>1. PICK last \in Nat :
          /\ last = LastPieceIn(a, b) /\ last <= End
          /\ PiecesIn(a, b) = {} => last = 0
    <2>1. Positions /\ b \in Int
      BY Numbers
    <2> QED
      BY <2>1, LastPieceIs
  <1>2. /\ applied' = Greatest(applied, last)
        /\ latest' = IF last = 0 THEN latest ELSE Greatest(latest, last)
        /\ UNCHANGED verified
    BY <1>1, Zenon DEF ApplyBatch
  <1>3. /\ applied' \in Nat /\ applied' <= End /\ applied' >= applied
        /\ latest' \in Int /\ latest' >= latest /\ latest' <= End
        /\ latest' = latest \/ latest' <= applied'
        /\ last = 0 => applied' = applied /\ latest' = latest
    BY <1>1, <1>2, Numbers DEF Greatest
  <1>4. Within'
    <2>1. End' = End /\ UNCHANGED <<thread, reconcile>> /\ verified' \in Int
      BY <1>2 DEF End, DetailInv, Within
    <2>2. None <= latest'
      BY <1>3, Numbers DEF None
    <2> QED
      BY <1>3, <2>1, <2>2, Numbers DEF Within
  <1>5. TextFollows'
    <2> SUFFICES ASSUME ~disturbed' PROVE TextFollows'
      BY DEF TextFollows
    <2>1. /\ ~disturbed
          /\ \/ PiecesIn(a, b) = {}
             \/ /\ PiecesIn(a, b) # {}
                /\ PiecesIn(Least(a, Greatest(latest, applied)),
                            Greatest(a, Greatest(latest, applied))) = {}
      BY Zenon DEF ApplyBatch
    <2>2. PICK shown \in Nat :
            /\ shown = Greatest(latest, applied)
            /\ text = InOrder(PiecesIn(0, shown))
            /\ thread.at = "open" => PiecesIn(shown, thread.pos) = {}
            /\ \A slot \in Slots : reconcile[slot].on =>
                  PiecesIn(shown, reconcile[slot].client) = {}
      BY <2>1, TextIs
    <2>3. CASE PiecesIn(a, b) = {}
      <3>1. {n \in PiecesIn(a, b) : RunEnd(n, b) > applied} = {}
        BY <2>3
      <3>2. text' = text \o InOrder({})
        BY <3>1 DEF ApplyBatch
      <3>3. PiecesIn(0, shown) \subseteq 1..shown
        BY DEF PiecesIn
      <3>4. IsInOrder(text, PiecesIn(0, shown))
        BY <2>2, <3>3, OrderExists
      <3>5. PICK k, pieces : k \in Nat /\ text \in [1..k -> pieces]
        <4>1. IsFiniteSet(PiecesIn(0, shown))
          <5>1. 1 \in Int /\ shown \in Int
            OBVIOUS
          <5>2. IsFiniteSet(1..shown)
            BY <5>1, FS_Interval
          <5> QED
            BY <3>3, <5>2, FS_Subset
        <4> QED
          BY <3>4, <4>1, FS_CardinalityType DEF IsInOrder
      <3>6. text \in Seq(pieces)
        BY <3>5
      <3>7. text' = text
        BY <3>2, <3>6, OrderOfNone
      <3>8. shown = Greatest(latest', applied')
        BY <1>1, <1>3, <2>2, <2>3
      <3> QED
        BY <2>2, <3>7, <3>8, TextWill
    <2>4. CASE PiecesIn(a, b) # {}
      <3>1. PICK next \in Nat :
              /\ next = Greatest(latest', applied') /\ shown <= next
              /\ text' = InOrder(PiecesIn(0, next))
        BY <2>1, <2>2, <2>4, BatchAppends
      <3>2. thread.at = "open" => PiecesIn(next, thread.pos) = {}
        BY <2>2, <3>1, Numbers DEF PiecesIn
      <3>3. \A slot \in Slots : reconcile[slot].on => PiecesIn(next, reconcile[slot].client) = {}
        BY <2>2, <3>1, Numbers DEF PiecesIn
      <3> QED
        BY <3>1, <3>2, <3>3, TextWill
    <2> QED
      BY <2>3, <2>4
  <1>6. AnswersInTime'
    BY <1>3, Numbers DEF DetailInv, AnswersInTime, NotTakenBefore
  <1> QED
    BY <1>4, <1>5, <1>6 DEF DetailFollows

\* A catch-up and a recovery apply a batch of the log, or write nothing.
LEMMA ReplayDetail ==
    ASSUME DetailInv, CatchUpReply \/ RecoveryReply
    PROVE  DetailFollows
  <1>1. CASE CatchUpReply
    <2>1. PICK upTo \in ReplayedUpTo(catchUp) : ApplyBatch(version, Greatest(version, upTo))
      BY <1>1 DEF CatchUpReply
    <2>2. UNCHANGED <<log, thread, reconcile, restarted>>
      BY <1>1 DEF CatchUpReply
    <2>3. version \in Nat /\ version <= End
      BY <1>1 DEF CatchUpReply, DetailInv, ProjectInv, SourcesInLog, AskedFromSequence
    <2>4. upTo \in Int /\ upTo <= End
      BY ReplayInLog DEF DetailInv, ProjectInv, Positions
    <2>5. PICK a \in Nat, b \in Nat : a = version /\ b = Greatest(version, upTo) /\ b <= End
      BY <2>3, <2>4 DEF Greatest
    <2>6. ApplyBatch(a, b)
      BY <2>1, <2>5
    <2> QED
      BY <2>2, <2>5, <2>6, BatchDetail
  <1>2. CASE RecoveryReply
    <2>1. PICK upTo \in ReplayedUpTo(recovery) :
            \/ ConnectionLost /\ UNCHANGED detailVars
            \/ /\ upTo > recovery.from /\ ApplyBatch(recovery.from, upTo)
               /\ UNCHANGED <<thread, reconcile>>
      BY <1>2 DEF RecoveryReply
    <2>2. UNCHANGED <<log, restarted>>
      BY <1>2 DEF RecoveryReply
    <2>3. CASE ConnectionLost /\ UNCHANGED detailVars
      <3>1. thread' = Down /\ reconcile' = [slot \in Slots |-> NoReconcile]
        BY <2>3 DEF ConnectionLost
      <3>2. reconcile' \in [Slots -> Request] /\ \A slot \in Slots : ~reconcile'[slot].on
        BY <3>1 DEF NoReconcile, Request, None
      <3> QED
        BY <2>2, <2>3, <3>1, <3>2, NothingWritten
    <2>4. CASE upTo > recovery.from /\ ApplyBatch(recovery.from, upTo)
               /\ UNCHANGED <<thread, reconcile>>
      <3>1. upTo \in Int /\ upTo <= End /\ recovery.from \in Nat
        BY <1>2, ReplayInLog
           DEF RecoveryReply, DetailInv, ProjectInv, Positions, AskedFromSequence
      <3>2. PICK a \in Nat : a = recovery.from
        BY <3>1
      <3>3. upTo \in Nat /\ ApplyBatch(a, upTo)
        BY <2>4, <3>1, <3>2
      <3> QED
        BY <2>2, <2>4, <3>1, <3>3, BatchDetail
    <2> QED
      BY <2>1, <2>3, <2>4
  <1> QED
    BY <1>1, <1>2

\* An answer that is applied sets the cursor to the sequence it was read at.
LEMMA ReplyTimely ==
    ASSUME DetailInv, UNCHANGED <<thread, restarted>>, NEW slot \in Slots, reconcile[slot].on,
           NEW sequence \in Nat, reconcile[slot].askedAt <= sequence, latest' = sequence,
           slot = "timer" \/ sequence >= latest,
           reconcile' = [reconcile EXCEPT ![slot] = NoReconcile],
           applied' \in Nat, applied' >= applied
    PROVE  /\ AnswersInTime'
           /\ \A other \in Slots : reconcile'[other].on =>
                 /\ reconcile'[other] = reconcile[other]
                 /\ reconcile[other].client \in Int
                 /\ sequence >= latest => reconcile[other].client <= sequence
  <1>1. /\ ~reconcile'[slot].on /\ slot \in {"timer", "restart"}
        /\ \A other \in Slots \ {slot} : reconcile'[other] = reconcile[other]
    BY Numbers DEF NoReconcile, Slots
  <1>2. \A n \in Int : NotTakenBefore(n) =>
            applied' >= n \/ (thread'.at = "loading" => thread'.pos >= n)
    BY Numbers DEF NotTakenBefore
  <1>3. CASE slot = "timer"
    <2>1. AnswersInTime'
      BY <1>1, <1>2, <1>3, Numbers DEF DetailInv, AnswersInTime, NotTakenBefore, Slots
    <2>2. reconcile["restart"].on /\ sequence >= latest => reconcile["restart"].client <= sequence
      BY <1>3, Numbers DEF DetailInv, AnswersInTime
    <2> QED
      BY <1>1, <1>3, <2>1, <2>2, Numbers DEF Slots
  <1>4. CASE slot = "restart"
    <2>1. AnswersInTime'
      BY <1>1, <1>4, Numbers DEF DetailInv, AnswersInTime, NotTakenBefore, Slots
    <2>2. reconcile["timer"].on => reconcile["timer"].client <= sequence
      BY <1>4, Numbers DEF DetailInv, AnswersInTime
    <2> QED
      BY <1>1, <1>4, <2>1, <2>2, Numbers DEF Slots
  <1> QED
    BY <1>1, <1>3, <1>4

LEMMA ReplyDetail ==
    ASSUME DetailInv, NEW slot \in Slots, ReconcileReply(slot)
    PROVE  DetailFollows
  <1>1. /\ UNCHANGED <<log, thread, restarted>> /\ End' = End /\ reconcile[slot].on
        /\ reconcile' = [reconcile EXCEPT ![slot] = NoReconcile]
        /\ reconcile' \in [Slots -> Request]
        /\ \A other \in Slots : reconcile'[other].on => reconcile'[other] = reconcile[other]
    <2>1. /\ UNCHANGED <<log, thread, restarted>> /\ reconcile[slot].on
          /\ reconcile' = [reconcile EXCEPT ![slot] = NoReconcile]
      BY DEF ReconcileReply
    <2>2. NoReconcile \in Request /\ ~NoReconcile.on
      BY DEF NoReconcile, Request, None
    <2> QED
      BY <2>1, <2>2, Numbers DEF End
  <1>2. PICK request \in Request : request = reconcile[slot]
    BY Numbers
  <1>3. /\ request.client \in Int /\ request.askedAt \in Nat
        /\ None <= request.client /\ request.client <= request.askedAt
        /\ request.askedAt <= End /\ None = -1 /\ End \in Nat
    BY <1>1, <1>2, Numbers DEF None
  <1>4. PICK sequence \in request.askedAt..End : \E end \in sequence..End :
          \/ UNCHANGED detailVars
          \/ /\ slot = "timer" \/ sequence >= latest
             /\ ApplyReconcileResult(request, sequence,
                                     Least(end, Greatest(request.client, 0) + ReplayLimit))
    BY <1>2 DEF ReconcileReply
  <1>5. CASE UNCHANGED detailVars
    BY <1>1, <1>5, NothingWritten
  <1>6. CASE ~UNCHANGED detailVars
    <2>1. PICK eventsTo \in Int :
            /\ eventsTo <= End
            /\ slot = "timer" \/ sequence >= latest
            /\ ApplyReconcileResult(request, sequence, eventsTo)
      <3>1. PICK end \in sequence..End :
              /\ slot = "timer" \/ sequence >= latest
              /\ ApplyReconcileResult(request, sequence,
                                      Least(end, Greatest(request.client, 0) + ReplayLimit))
        BY <1>4, <1>6
      <3> DEFINE upTo == Least(end, Greatest(request.client, 0) + ReplayLimit)
      <3>2. upTo \in Int /\ upTo <= End
        BY <1>3, SyncAssumption DEF Least, Greatest
      <3> QED
        BY <3>1, <3>2
    <2>2. sequence \in Nat /\ request.askedAt <= sequence /\ sequence <= End
      BY <1>3
    <2> DEFINE kind == ReplyKind(request, sequence, eventsTo)
    <2>3. CASE kind = "snapshot" /\ ShowSnapshot(sequence)
      <3>1. /\ latest' = sequence /\ verified' = sequence /\ UNCHANGED applied
            /\ ~disturbed' => /\ ~(sequence < Greatest(latest, applied))
                              /\ ~Outrun(sequence)
        BY <2>3, Zenon DEF ShowSnapshot
      <3>2. /\ AnswersInTime'
            /\ \A other \in Slots : reconcile'[other].on =>
                  /\ reconcile'[other] = reconcile[other]
                  /\ reconcile[other].client \in Int
                  /\ sequence >= latest => reconcile[other].client <= sequence
        <4>1. /\ reconcile[slot].askedAt <= sequence /\ UNCHANGED <<thread, restarted>>
              /\ applied' \in Nat /\ applied' >= applied
          BY <1>1, <1>2, <2>2, <3>1, Numbers
        <4> QED
          BY <1>1, <2>1, <2>2, <3>1, <4>1, ReplyTimely
      <3>3. Within'
        BY <1>1, <2>2, <3>1, Numbers DEF DetailInv, Within, None
      <3>4. TextFollows'
        <4> SUFFICES ASSUME ~disturbed' PROVE TextFollows'
          BY DEF TextFollows
        <4>1. sequence >= latest
          BY <2>2, <3>1, Numbers DEF Greatest
        <4>2. thread'.at = "open" => thread'.pos <= sequence /\ thread'.pos \in Nat
          BY <1>1, <2>2, <3>1, Numbers DEF Outrun
        <4>3. \A other \in Slots : reconcile'[other].on =>
                 reconcile'[other].client \in Int /\ reconcile'[other].client <= sequence
          BY <3>2, <4>1
        <4> QED
          BY <1>1, <2>2, <2>3, <4>2, <4>3, SnapshotFollows
      <3> QED
        BY <3>2, <3>3, <3>4 DEF DetailFollows
    <2>4. CASE /\ kind = "current" /\ latest' = sequence /\ verified' = sequence
               /\ disturbed' = (disturbed \/ sequence < latest)
               /\ UNCHANGED <<text, applied>>
      <3>1. sequence = request.client
        BY <1>3, <2>2, <2>4 DEF ReplyKind
      <3>2. /\ AnswersInTime'
            /\ \A other \in Slots : reconcile'[other].on => reconcile'[other] = reconcile[other]
        <4>1. /\ reconcile[slot].askedAt <= sequence /\ UNCHANGED <<thread, restarted>>
              /\ applied' \in Nat /\ applied' >= applied
          BY <1>1, <1>2, <2>2, <2>4, Numbers
        <4> QED
          BY <1>1, <2>1, <2>2, <2>4, <4>1, ReplyTimely
      <3>3. Within'
        BY <1>1, <2>2, <2>4, Numbers DEF DetailInv, Within, None
      <3>4. TextFollows'
        <4> SUFFICES ASSUME ~disturbed' PROVE TextFollows'
          BY DEF TextFollows
        <4>1. ~disturbed /\ sequence >= latest
          <5>1. ~disturbed /\ ~(sequence < latest)
            BY <2>4, Zenon
          <5> QED
            BY <2>2, <5>1, Numbers
        <4>2. PICK shown \in Nat :
                /\ shown = Greatest(latest, applied) /\ shown <= End
                /\ text = InOrder(PiecesIn(0, shown))
                /\ thread.at = "open" => PiecesIn(shown, thread.pos) = {}
                /\ \A other \in Slots : reconcile[other].on =>
                      PiecesIn(shown, reconcile[other].client) = {}
          BY <4>1, TextIs
        <4>3. PICK next \in Nat :
                /\ next = Greatest(latest', applied') /\ shown <= next
                /\ next = shown \/ next = sequence
          BY <2>2, <2>4, <4>1, <4>2, Numbers DEF Greatest
        <4>4. PiecesIn(shown, sequence) = {}
          BY <1>1, <1>2, <3>1, <4>2
        <4>5. PiecesIn(0, next) = PiecesIn(0, shown)
          BY <2>2, <4>3, <4>4 DEF PiecesIn
        <4>6. text' = InOrder(PiecesIn(0, next))
          BY <2>4, <4>2, <4>5
        <4>7. thread.at = "open" => PiecesIn(next, thread.pos) = {}
          BY <4>2, <4>3, Numbers DEF PiecesIn
        <4>8. \A other \in Slots : reconcile[other].on =>
                 PiecesIn(next, reconcile[other].client) = {}
          BY <4>2, <4>3, Numbers DEF PiecesIn
        <4> QED
          BY <1>1, <4>3, <4>6, <4>7, <4>8, TextWill
      <3> QED
        BY <3>2, <3>3, <3>4 DEF DetailFollows
    <2>5. CASE /\ kind = "events" /\ ShowPieces(request.client, eventsTo)
               /\ latest' = sequence /\ verified' = sequence
               /\ disturbed' = (disturbed \/ sequence < latest \/ eventsTo < sequence)
      <3>1. request.client \in Nat
        BY <1>3, <2>5 DEF ReplyKind
      <3>2. applied' \in Nat /\ applied' <= End /\ applied' >= applied
        BY <2>1, <2>5, <3>1, PiecesWithin
      <3>3. /\ AnswersInTime'
            /\ \A other \in Slots : reconcile'[other].on => reconcile'[other] = reconcile[other]
        <4>1. /\ reconcile[slot].askedAt <= sequence /\ UNCHANGED <<thread, restarted>>
          BY <1>1, <1>2, <2>2
        <4> QED
          BY <1>1, <2>1, <2>2, <2>5, <3>2, <4>1, ReplyTimely
      <3>4. Within'
        BY <1>1, <2>2, <2>5, <3>2, Numbers DEF DetailInv, Within, None
      <3>5. TextFollows'
        <4> SUFFICES ASSUME ~disturbed' PROVE TextFollows'
          BY DEF TextFollows
        <4>1. ~disturbed /\ latest <= sequence /\ sequence <= eventsTo
          <5>1. ~disturbed /\ ~(sequence < latest) /\ ~(eventsTo < sequence)
            BY <2>5, Zenon
          <5> QED
            BY <2>1, <2>2, <5>1, Numbers
        <4>2. PICK shown \in Nat :
                /\ shown = Greatest(latest, applied)
                /\ thread.at = "open" => PiecesIn(shown, thread.pos) = {}
                /\ \A other \in Slots : reconcile[other].on =>
                      PiecesIn(shown, reconcile[other].client) = {}
          BY <4>1, TextIs
        <4>3. PiecesIn(shown, request.client) = {} /\ eventsTo \in Nat
          BY <1>1, <1>2, <2>1, <2>2, <4>1, <4>2
        <4>4. PICK next \in Nat :
                /\ next = Greatest(latest', applied') /\ shown <= next
                /\ text' = InOrder(PiecesIn(0, next))
          BY <2>1, <2>2, <2>5, <3>1, <4>1, <4>2, <4>3, PiecesShown
        <4>5. thread.at = "open" => PiecesIn(next, thread.pos) = {}
          BY <4>2, <4>4, Numbers DEF PiecesIn
        <4>6. \A other \in Slots : reconcile[other].on =>
                 PiecesIn(next, reconcile[other].client) = {}
          BY <4>2, <4>4, Numbers DEF PiecesIn
        <4> QED
          BY <1>1, <3>3, <4>4, <4>5, <4>6, TextWill
      <3> QED
        BY <3>3, <3>4, <3>5 DEF DetailFollows
    <2> QED
      BY <2>1, <2>3, <2>4, <2>5 DEF ApplyReconcileResult
  <1> QED
    BY <1>5, <1>6

LEMMA DetailStep == DetailInv /\ [Next]_vars => DetailInv'
  <1> SUFFICES ASSUME DetailInv, [Next]_vars PROVE DetailInv'
    OBVIOUS
  <1>1. ProjectInv'
    BY FollowsStep DEF DetailInv
  <1>2. DetailFollows
    BY CommitDetail, OthersDetail, ThreadSnapshotDetail, ThreadEventDetail, ReplayDetail,
       AskDetail, ReplyDetail DEF Next
  <1> QED
    BY <1>1, <1>2, AskedStep DEF DetailInv, DetailFollows

\* The text of a thread is the pieces of the log up to the cursor, each once
\* and in order, for any log, replay limit and number of faults, however
\* snapshots, the stream, replays and reconciliations overlap, as long as what
\* is shown has not been disturbed in one of the ways the model names.
THEOREM DetailShowsTheLog == Spec => []DetailFollowsLog
  <1>1. Init => DetailInv
    <2> SUFFICES ASSUME Init PROVE DetailInv
      OBVIOUS
    <2>1. ProjectInv
      <3>1. Positions /\ version = None /\ project = 0 /\ End = 1 /\ shell = Down
            /\ recovery = NoRecovery
        BY PositionsInit DEF Init, End
      <3>2. LastProject(None) = 0
        BY <3>1, LastProjectIs DEF None
      <3> QED
        BY <3>1, <3>2
           DEF ProjectInv, SourcesInLog, ProjectFollowsVersion, Down, NoRecovery, None
    <2>2. /\ End = 1 /\ thread = Down /\ reconcile = [slot \in Slots |-> NoReconcile]
          /\ text = <<>> /\ applied = 0 /\ latest = None /\ verified = None /\ ~disturbed
          /\ ~restarted /\ recovery = NoRecovery /\ catchUp = NoCatchUp
      BY DEF Init, End
    <2>3. Within
      BY <2>2 DEF Within, Down, NoReconcile, Request, None
    <2>4. AskedFromSequence
      BY <2>2 DEF AskedFromSequence, NoRecovery, NoCatchUp
    <2>5. TextFollows
      <3>1. PiecesIn(0, 0) = {} /\ 0 \in Nat
        BY DEF PiecesIn
      <3>2. Greatest(latest, applied) = 0
        BY <2>2 DEF Greatest, None
      <3>3. text = InOrder(PiecesIn(0, 0))
        BY <2>2, <3>1, OrderOfNone
      <3> QED
        BY <2>2, <3>1, <3>2, <3>3 DEF TextFollows, Down, NoReconcile
    <2>6. AnswersInTime
      BY <2>2 DEF AnswersInTime, NoReconcile, Slots
    <2> QED
      BY <2>1, <2>3, <2>4, <2>5, <2>6 DEF DetailInv
  <1>2. DetailInv => DetailFollowsLog
    BY DEF DetailInv, TextFollows, DetailFollowsLog
  <1> QED
    BY <1>1, <1>2, DetailStep, PTL DEF Spec

=============================================================================
