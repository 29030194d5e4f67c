SPECIFICATION FairSpec
CONSTANTS
  First = p1
  Proc = {p1, p2, p3}
  Symbol = {s1, s2}
  MaxCrashes = 1
  MaxFaults = 1
INVARIANTS TypeOK CompletedIsReported FailureRecorded NoSpuriousCycle ExecutedWerePassed BoundedRework
PROPERTIES CheckpointPersisted TerminalIsFinal ImplementsLifecycle EventuallySettled
