------------------------------- MODULE Gates --------------------------------
(***************************************************************************)
(* What crates/graphit-records/src/gates.rs decides, stated without its     *)
(* worklist: when a set of task facts is a valid graph, which tasks are     *)
(* validly complete, ready, completable, and which sessions are closable.   *)
(* GateGraph models the worklist and is checked against this module.        *)
(*                                                                          *)
(* h maps every task identity to its current row; a task that was never     *)
(* created has status "Absent" and contributes no fact.                     *)
(***************************************************************************)
EXTENDS TaskSpec

CONSTANTS Task, NoTask

ASSUME TaskAssumption == NoTask \notin Task

TaskStatus == {"Open", "InProgress", "Completed", "Cancelled"}

Exists(h, t) == h[t].status # "Absent"
Terminal(status) == status \in {"Completed", "Cancelled"}

\* checks_pass: unflagged, every active check passed, both kinds present.
ChecksPass(fact) ==
    /\ ~fact.flagged
    /\ \A c \in Active(fact.checks) : fact.checks[c] = "Passed"
    /\ RequiredKinds(Active(fact.checks))

\* Prerequisite edges join tasks of which neither is cancelled.
DependencyEdge(h, u, t) ==
    /\ u \in h[t].deps
    /\ Exists(h, t) /\ h[t].status # "Cancelled" /\ h[u].status # "Cancelled"

\* Hierarchy edges run from every child to its parent, cancelled or not.
ChildEdge(h, u, t) == Exists(h, u) /\ h[u].parent = t

Edge(h, u, t) == DependencyEdge(h, u, t) \/ ChildEdge(h, u, t)

Children(h, t) == {c \in Task : ChildEdge(h, c, t)}

\* Every nonempty set of tasks has a member that waits for no other member.
Acyclic(h) ==
    \A S \in SUBSET Task :
        S # {} => \E t \in S : \A u \in S : ~Edge(h, u, t)

LinksResolve(h) ==
    \A t \in Task : Exists(h, t) =>
        /\ \A d \in h[t].deps : d # t /\ Exists(h, d)
        /\ h[t].parent # NoTask =>
              /\ h[t].parent # t
              /\ Exists(h, h[t].parent)
              /\ h[h[t].parent].session = h[t].session

\* GateGraph::new succeeds.
ValidGraph(h) == LinksResolve(h) /\ Acyclic(h)

(***************************************************************************)
(* A set of tasks is supported when each member is closed on the strength   *)
(* of other members only: completed with passing checks, completed members  *)
(* as prerequisites and members as children, or cancelled with members as   *)
(* children.  Settled is the largest supported set.                         *)
(***************************************************************************)
Supported(h, S) ==
    \A t \in S :
        /\ Terminal(h[t].status)
        /\ Children(h, t) \subseteq S
        /\ h[t].status = "Completed" =>
              /\ ChecksPass(h[t])
              /\ \A d \in h[t].deps : d \in S /\ h[d].status = "Completed"

Settled(h) == UNION {S \in SUBSET Task : Supported(h, S)}

ValidComplete(h, t) == h[t].status = "Completed" /\ t \in Settled(h)

Ready(h, t) ==
    h[t].status = "Open" /\ \A d \in h[t].deps : ValidComplete(h, d)

Completion(h, t) ==
    /\ h[t].status # "Cancelled"
    /\ ChecksPass(h[t])
    /\ \A d \in h[t].deps : ValidComplete(h, d)
    /\ Children(h, t) \subseteq Settled(h)

SessionClosable(h, s) ==
    \A t \in Task : Exists(h, t) /\ h[t].session = s =>
        h[t].status = "Cancelled" \/ ValidComplete(h, t)
=============================================================================
