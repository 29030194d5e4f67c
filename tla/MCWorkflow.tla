---------------------------- MODULE MCWorkflow ----------------------------
(* WorkflowProperties on small instances. *)
EXTENDS WorkflowProperties

\* No action reads the event log: where no property does either, states that differ
\* in it alone are one.
WithoutEvents ==
    <<run, checkpoints, candTable, evTable, diagTable, proc, crashes, faults>>

=============================================================================
