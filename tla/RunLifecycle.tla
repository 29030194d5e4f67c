--------------------------- MODULE RunLifecycle ---------------------------
(***************************************************************************)
(* What a run promises to whoever reads its row and its checkpoints: the   *)
(* life of an uninterrupted run.  The steps it reaches are those of        *)
(* NODE_STEP_INDICES, in the order of the workflow graph.                  *)
(***************************************************************************)
EXTENDS Naturals

VARIABLES status,   \* final_status of the run's row, or ABSENT
          reached   \* step indices of its checkpoints

vars == <<status, reached>>

\* The edges of the graph, between step indices.
Edge == {<<0, 1>>, <<1, 2>>, <<2, 3>>, <<2, 5>>, <<2, 7>>, <<3, 4>>, <<4, 5>>,
         <<4, 7>>, <<5, 6>>, <<5, 7>>, <<6, 7>>}

Init == status = "ABSENT" /\ reached = {}

Create == status = "ABSENT" /\ status' = "INITIALIZED" /\ UNCHANGED reached

Snapshot ==
    /\ status = "INITIALIZED" /\ reached = {}
    /\ reached' = {0}
    /\ UNCHANGED status

Begin ==
    /\ status = "INITIALIZED" /\ reached = {0}
    /\ status' = "RUNNING"
    /\ UNCHANGED reached

\* The run goes on from the furthest step.
Advance ==
    /\ status = "RUNNING"
    /\ \E e \in Edge :
         /\ e[1] \in reached
         /\ \A s \in reached : s =< e[1]
         /\ reached' = reached \cup {e[2]}
    /\ UNCHANGED status

Complete ==
    /\ status = "RUNNING" /\ 7 \in reached
    /\ status' = "COMPLETED"
    /\ UNCHANGED reached

Fail ==
    /\ status \in {"INITIALIZED", "RUNNING"}
    /\ status' = "FAILED"
    /\ UNCHANGED reached

Next == Create \/ Snapshot \/ Begin \/ Advance \/ Complete \/ Fail

Spec == Init /\ [][Next]_vars

=============================================================================
