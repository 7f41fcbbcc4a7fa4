----------------------------- MODULE EventFeed -----------------------------
(***************************************************************************)
(* What a subscription promises its client, with no replay, no live feed   *)
(* and no buffer in sight: the events after a fence, each at most once and *)
(* in the order of the log, none passed over but those that were exempted  *)
(* before their turn came.  OrderedCatchup implements it.                  *)
(***************************************************************************)
EXTENDS Naturals

VARIABLES
    length,      \* events in the log
    position,    \* last event the client has been given, or the fence
    delivered,   \* the events the client has been given
    exempt       \* events the client has not been given and may never be

vars == <<length, position, delivered, exempt>>

Init ==
    /\ length = 0
    /\ position = 0
    /\ delivered = {}
    /\ exempt = {}

Extend ==
    /\ length' = length + 1
    /\ UNCHANGED <<position, delivered, exempt>>

\* The fence: what the client has by other means.
Begin ==
    /\ delivered = {}
    /\ position' \in position..length
    /\ UNCHANGED <<length, delivered, exempt>>

\* Only events whose turn has not come.
Exempt ==
    /\ exempt \subseteq exempt'
    /\ \A n \in exempt' \ exempt : position < n /\ n <= length
    /\ UNCHANGED <<length, position, delivered>>

\* The client is given the events up to one of them, in order, perhaps an
\* exempted one among them, but every one that is not exempt.
Deliver ==
    \E to \in (position + 1)..length :
    \E batch \in SUBSET ((position + 1)..to) :
        /\ to \in batch
        /\ ((position + 1)..to) \ exempt \subseteq batch
        /\ position' = to
        /\ delivered' = delivered \cup batch
        /\ exempt' = exempt \ batch
        /\ UNCHANGED length

Next == Extend \/ Begin \/ Exempt \/ Deliver

Spec == Init /\ [][Next]_vars
=============================================================================
