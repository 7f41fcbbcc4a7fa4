-------------------------- MODULE MCEnvironmentSync --------------------------
(***************************************************************************)
(* EnvironmentSync for TLC: what may happen in a behaviour, after the      *)
(* first event of the log.                                                 *)
(***************************************************************************)
EXTENDS EnvironmentSync

\* A fault while the client recovers from one; a timer; both.
MCBudgets == {[commits |-> 2, faults |-> 2, reconciles |-> 0],
              [commits |-> 2, faults |-> 0, reconciles |-> 1],
              [commits |-> 1, faults |-> 1, reconciles |-> 1]}

Undisturbed == {[commits |-> 2, faults |-> 0, reconciles |-> 0]}
=============================================================================
