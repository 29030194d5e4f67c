------------------------ MODULE WorkflowProperties ------------------------
(***************************************************************************)
(* What the run's tables and checkpoints promise.  The properties of the   *)
(* first group hold of Spec, whatever processes overlap; those of the      *)
(* second need the processes of a run to follow one another (SerialSpec).  *)
(***************************************************************************)
EXTENDS Workflow

(* However processes overlap *)

\* The foreign keys of the schema are never what stops a run: a piece of evidence
\* is saved after its candidate, a diagnosis after its evidence, across every
\* crash and every resume (_persist_node_artifacts, storage/database.py).
ReferentialIntegrity ==
    /\ \A e \in evTable : \A id \in e.of : \E c \in candTable : c.id = id
    /\ \A d \in diagTable : d.of \in evTable

Successor(c) == IF c.node = Start THEN Ingest ELSE NextNode(c.node, c.state)

\* t is s with the work of one more node.
Extends(s, t) ==
    /\ s.snapshot => t.snapshot
    /\ s.plan \in {NoPlan, t.plan}
    /\ {c.id : c \in s.candidates} \subseteq {c.id : c \in t.candidates}
    /\ AllEvidence(s) \subseteq AllEvidence(t)
    /\ s.diagnoses \subseteq t.diagnoses

\* Every checkpoint after the first continues another: the routers, applied to that
\* checkpoint's state, lead to its node, and its state only adds to that one.
\* Resumption neither skips a node nor drops what was checkpointed
\* (_resolve_next_node, _resolve_resume_node).
CheckpointPath ==
    \A c \in checkpoints :
        c.node # Start =>
            \E d \in checkpoints : Successor(d) = c.node /\ Extends(d.state, c.state)

\* A report accounts for everything: each candidate that passed validation was
\* executed once, each failed execution, the baseline's too, has one diagnosis, and
\* nothing else is diagnosed, however often the run was resumed on the way.
ReportComplete ==
    \A c \in checkpoints :
        c.node = Report =>
            LET st == c.state IN
            /\ \A x \in PassedCandidates(st) :
                 Cardinality({e \in st.evidences : e.of = {x.id}}) = 1
            /\ \A e \in FailedEvidence(st) :
                 Cardinality({d \in st.diagnoses : d.of = e}) = 1
            /\ \A d \in st.diagnoses : d.of \in FailedEvidence(st)

-----------------------------------------------------------------------------
(* When resumption waits for the process to end *)

Ended == run.status \in {"COMPLETED", "FAILED"}

Persisted(st) ==
    /\ st.candidates \subseteq candTable
    /\ AllEvidence(st) \subseteq evTable
    /\ st.diagnoses \subseteq diagTable

\* A checkpoint is written only when every artifact of its state is in the tables,
\* with the status it has in the state: a crash never leaves a checkpoint ahead of
\* the tables (the order persist, NODE_COMPLETED, save_checkpoint).
CheckpointPersisted ==
    [][\A c \in checkpoints' \ checkpoints : Persisted(c.state)']_vars

\* A completed run has a report whose artifacts are all in the tables, and its row
\* carries the route that was planned (the terminal handling on report_node).
CompletedIsReported ==
    run.status = "COMPLETED" =>
        \E c \in checkpoints :
            /\ c.node = Report
            /\ c.state.plan.route = run.route
            /\ Persisted(c.state)

\* Once a run is COMPLETED or FAILED its row never changes: no resume gets past the
\* terminal checks (resume, contract item 2).
TerminalIsFinal == [][Ended => run' = run]_run

\* A RUN_FAILED event of a run that has a checkpoint means a row marked FAILED: the
\* audit log never announces a failure the row denies (the except blocks).
FailureRecorded ==
    (\E i \in DOMAIN events : events[i].type = "RUN_FAILED") =>
        run.status = "FAILED" \/ checkpoints = {}

\* The cycle check never trips: a resumed run goes on behind every node that was
\* checkpointed, so it cannot fail on a node some earlier process executed.
NoSpuriousCycle == \A p \in Proc : pc[p] = "enter" => node[p] \notin executed[p]

\* Evidence of a candidate exists only while its row says PASSED: restoring the
\* candidates of a checkpoint never takes back the status of one that was executed.
ExecutedWerePassed ==
    \A e \in evTable : \A id \in e.of :
        \E c \in candTable : c.id = id /\ c.status = "PASSED"

Count(type) == Cardinality({i \in DOMAIN events : events[i].type = type})

\* An interruption costs one node: over the whole run, the executions of nodes
\* exceed the checkpoints by at most one for each interruption, and one in progress.
BoundedRework ==
    Count("NODE_STARTED") =<
        Cardinality({c \in checkpoints : c.node # Start}) + crashes + faults
        + Cardinality({p \in Proc : Live(p)})

\* Where recovery does not help.  Every process that there was has been killed, has
\* failed or was turned away, the row is unfinished, and they ended before the first
\* checkpoint, or after the report's checkpoint and before the row said COMPLETED.
Stranded ==
    /\ \A p \in Proc : ~Live(p) /\ pc[p] # "returned"
    /\ ~Ended
    /\ checkpoints = {} \/ \E c \in checkpoints : c.node = Report

\* Under FairSpec, and with a process left for every interruption, a run comes to
\* COMPLETED or FAILED, unless it is stranded: a process that is left alone never
\* returns with the row unfinished, wherever the one before it was cut off
\* (NFR-07, workflow/recovery.py, the terminal handling on report_node).
EventuallySettled == <>[](Ended \/ Stranded)

\* The run's lifecycle, and the steps it has reached.
Lifecycle == INSTANCE RunLifecycle WITH
    status <- run.status,
    reached <- {StepIndex(c.node) : c \in checkpoints}

\* Through crashes and resumes the row and the checkpoints move as those of a run
\* that was never interrupted: each step is reached once, in the graph's order, and
\* the row ends COMPLETED only behind the report (RunLifecycle).
ImplementsLifecycle == Lifecycle!Spec

-----------------------------------------------------------------------------
(* What documentation and tests say, and the code does not do *)

\* workflow/recovery.py, resume, contract item 6: "Resumes execution at the next
\* logical node without re-executing already-completed steps."
CompletedNotReexecuted ==
    \A n \in Node :
        Cardinality({i \in DOMAIN events :
            events[i].type = "NODE_COMPLETED" /\ events[i].node = n}) =< 1

\* docs/specifications/draft_stage3.md, 4.4.7.1.1: the snapshots at startup and at
\* every node boundary guarantee crash recovery.
SnapshotsGuaranteeRecovery == [](checkpoints # {} => <>Ended)
=============================================================================
