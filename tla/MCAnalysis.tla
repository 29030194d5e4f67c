---------------------------- MODULE MCAnalysis ----------------------------
(* Analysis on small instances. *)
EXTENDS Analysis, TLC

\* No rule prefers a name or a test file to another.
Interchangeable == Permutations(Name) \cup Permutations(TestFile)
=============================================================================
