----------------------------- MODULE CommandLog -----------------------------
(***************************************************************************)
(* What the orchestration engine promises its callers, with no worker, no  *)
(* transaction and no restart in sight: an append-only log in which every  *)
(* command identifier takes effect at most once and all at once, a durable *)
(* verdict per identifier, and acknowledgements that only ever repeat the  *)
(* verdict.  OrchestrationEngine implements it (see its refinement         *)
(* mapping).                                                               *)
(***************************************************************************)
EXTENDS Naturals, Sequences

CONSTANT CommandId   \* the identifiers callers give their commands

VARIABLES
    log,       \* the events, each tagged with the command that caused it
    verdict,   \* per identifier: Open, Accepted(sequence) or Rejected
    acks       \* the acknowledgements callers have been given

vars == <<log, verdict, acks>>

Open == [status |-> "open", sequence |-> 0]
Rejected == [status |-> "rejected", sequence |-> 0]
Accepted(n) == [status |-> "accepted", sequence |-> n]

Init ==
    /\ log = <<>>
    /\ verdict = [id \in CommandId |-> Open]
    /\ acks = {}

\* new is old followed by at least one event, all of them caused by id.
ExtendsFor(id, old, new) ==
    /\ Len(new) > Len(old)
    /\ \A i \in 1..Len(old) : new[i] = old[i]
    /\ \A i \in (Len(old) + 1)..Len(new) : new[i].commandId = id

\* An open command takes effect: its events enter the log together with the
\* verdict, which is the sequence number of the last of them.
Accept(id) ==
    /\ verdict[id] = Open
    /\ ExtendsFor(id, log, log')
    /\ verdict' = [verdict EXCEPT ![id] = Accepted(Len(log'))]
    /\ UNCHANGED acks

\* An open command is refused for good.
Reject(id) ==
    /\ verdict[id] = Open
    /\ verdict' = [verdict EXCEPT ![id] = Rejected]
    /\ UNCHANGED <<log, acks>>

\* A caller is told that its command was accepted, and where.
Acknowledge(id) ==
    /\ verdict[id].status = "accepted"
    /\ acks' = acks \cup {[commandId |-> id, sequence |-> verdict[id].sequence]}
    /\ UNCHANGED <<log, verdict>>

Next == \E id \in CommandId : Accept(id) \/ Reject(id) \/ Acknowledge(id)

Spec == Init /\ [][Next]_vars
=============================================================================
