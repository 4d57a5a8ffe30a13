---------------------------- MODULE MCTaskStore -----------------------------
(* Small instances of TaskStore. *)
EXTENDS TaskStore, TLC

CONSTANTS t1, t2, t3, s1, s2, a1, a2, k1, k2, k3, x1, x2, g1,
          acc1, acc2, tst1, tst2

\* For runs on one clock reading, without history: revisions, tokens and the
\* event log neither enable nor disable an operation, so states that differ
\* only in them are the same.
GraphView ==
    [r \in Id |-> <<head[r].status, head[r].own.owner, head[r].session, head[r].parent,
                   head[r].deps, head[r].flagged, head[r].checks>>]

TaskSymmetry == Permutations(Task) \cup Permutations(Session)
ActorSymmetry == Permutations(Actor)
SpecSymmetry == Permutations(Key) \cup Permutations(Text) \cup Permutations(AcceptanceCheck)
=============================================================================
