-------------------------- MODULE MCSnapshotRelease --------------------------
(* TLC instances of SnapshotRelease. *)
EXTENDS SnapshotRelease, TLC

Interchangeable ==
    Permutations(Handles) \cup Permutations(Drains) \cup Permutations(Closers)
=============================================================================
