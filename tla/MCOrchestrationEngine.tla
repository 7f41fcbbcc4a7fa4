----------------------- MODULE MCOrchestrationEngine -----------------------
(***************************************************************************)
(* OrchestrationEngine for TLC: one project and one thread, the commands   *)
(* that create and delete them (the forced deletion of a project writes    *)
(* two events), and the two SQL projectors those events concern.           *)
(***************************************************************************)
EXTENDS OrchestrationEngine, ProjectionTables

CONSTANTS p1, t1, none

MCProjectId == {p1}
MCThreadId == {t1}
MCMessageId == {1}

MCCommand ==
    {[type |-> "project.create", project |-> p1],
     [type |-> "project.delete", project |-> p1, force |-> TRUE],
     [type |-> "thread.create", project |-> p1, thread |-> t1]}

MCEvent ==
    {[type |-> "project.created", project |-> p1],
     [type |-> "project.deleted", project |-> p1],
     [type |-> "thread.created", thread |-> t1, project |-> p1],
     [type |-> "thread.deleted", thread |-> t1]}

MCProjectors == <<"projects", "threads">>
MCRequiredProjectors == {"projects", "threads"}

MCTable(p) ==
    CASE p = "projects" -> [MCProjectId -> {"absent", "active", "deleted"}]
      [] p = "threads" ->
             [MCThreadId -> {NoThreadRow} \cup
                 {[NoThreadRow EXCEPT !.project = p1, !.deleted = d] : d \in BOOLEAN}]

\* The tables of the projectors left out are empty.
MCLoadReadModel(tables) ==
    LoadCommandReadModel([p \in ToSet(AllProjectors) |->
        IF p \in DOMAIN tables THEN tables[p] ELSE EmptyProjection(p)])

MCReadModel == {MCLoadReadModel(tables) : tables \in Tables}

\* Attachment files are told apart by their thread only.
MCFilesPrunedBy(p, e) == IF p = "threads" /\ e.type = "thread.deleted" THEN {e.thread} ELSE {}
=============================================================================
