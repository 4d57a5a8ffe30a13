----------------------------- MODULE GateGraph ------------------------------
(***************************************************************************)
(* GateGraph::new of crates/graphit-records/src/gates.rs as the worklist    *)
(* algorithm it is: link the facts, queue the tasks that wait for nothing,  *)
(* and visit one queued task per step, discharging its outgoing edges.      *)
(*                                                                          *)
(* The code visits in the order of its vector; here any queued task may be  *)
(* visited next, so what is checked does not rest on that order.            *)
(* Identifiers are elements of Task, so blank and repeated identifiers (the *)
(* errors of lines 112-121) do not arise, and deps is a set, so a repeated  *)
(* prerequisite (line 130) does not either.                                 *)
(***************************************************************************)
EXTENDS Gates, FiniteSets

CONSTANTS Session,       \* session identities
          InitialFacts   \* the fact tables the evaluation is started on

\* TaskFact; an absent task is one with no fact.
Fact == [status : TaskStatus \cup {"Absent"}, session : Session,
         parent : Task \cup {NoTask}, deps : SUBSET Task,
         flagged : BOOLEAN, checks : [Check -> CheckStatus]]

ASSUME GateGraphAssumption ==
    /\ IsFiniteSet(Task)
    /\ \A f \in InitialFacts : f \in [Task -> Fact]

VARIABLES
    facts,           \* the borrowed facts, never changed
    state,           \* "New", "Linked", "Ok" or "InvalidFacts"
    conditions,      \* [Task -> BOOLEAN]
    remaining,       \* number of undischarged incoming edges
    queued,          \* queue[cursor..]
    visited,         \* queue[..cursor]
    validComplete,   \* [Task -> BOOLEAN]
    childrenClosed   \* [Task -> BOOLEAN]

vars == <<facts, state, conditions, remaining, queued, visited,
          validComplete, childrenClosed>>

Facts == {t \in Task : Exists(facts, t)}

\* Mutant of Incoming: an edge that is both prerequisite and child counts once.
IncomingMerged(t) == Cardinality({u \in Task : Edge(facts, u, t)})

\* Edges counted with their kind: a child may also be a prerequisite.
Incoming(t) ==
    Cardinality({u \in Task : DependencyEdge(facts, u, t)})
        + Cardinality({u \in Task : ChildEdge(facts, u, t)})

\* A cancelled prerequisite is never satisfied and adds no edge.
BlockedByCancelled(t) ==
    /\ facts[t].status # "Cancelled"
    /\ \E d \in facts[t].deps : facts[d].status = "Cancelled"

Init ==
    /\ facts \in InitialFacts
    /\ state = "New"
    /\ conditions = [t \in Task |-> FALSE]
    /\ remaining = [t \in Task |-> 0]
    /\ queued = {} /\ visited = {}
    /\ validComplete = [t \in Task |-> FALSE]
    /\ childrenClosed = [t \in Task |-> TRUE]

\* Lines 127-157 meet an unknown, own or foreign link and return.
Reject ==
    /\ state = "New"
    /\ ~LinksResolve(facts)
    /\ state' = "InvalidFacts"
    /\ UNCHANGED <<facts, conditions, remaining, queued, visited,
                   validComplete, childrenClosed>>

Link ==
    /\ state = "New"
    /\ LinksResolve(facts)
    /\ state' = "Linked"
    /\ conditions' = [t \in Task |-> t \in Facts /\ ChecksPass(facts[t])
                                               /\ ~BlockedByCancelled(t)]
    /\ remaining' = [t \in Task |-> Incoming(t)]
    /\ queued' = {t \in Facts : Incoming(t) = 0}
    /\ UNCHANGED <<facts, visited, validComplete, childrenClosed>>

\* Mutant of Visit: a cancelled child closes its parent whatever its own
\* children are (line 177 dropped).
VisitIgnoresGrandchildren(u) ==
    /\ state = "Linked"
    /\ u \in queued
    /\ LET complete == conditions[u] /\ facts[u].status = "Completed"
           closed == complete \/ facts[u].status = "Cancelled"
           dep(t) == DependencyEdge(facts, u, t)
           child(t) == ChildEdge(facts, u, t)
           left(t) == remaining[t] - (IF dep(t) THEN 1 ELSE 0)
                                   - (IF child(t) THEN 1 ELSE 0)
       IN  /\ validComplete' = [validComplete EXCEPT ![u] = complete]
           /\ conditions' = [t \in Task |-> /\ conditions[t]
                                            /\ dep(t) => complete
                                            /\ child(t) => closed]
           /\ childrenClosed' = [t \in Task |-> childrenClosed[t] /\ (child(t) => closed)]
           /\ remaining' = [t \in Task |-> left(t)]
           /\ queued' = (queued \ {u}) \cup
                            {t \in Task : remaining[t] > 0 /\ left(t) = 0}
    /\ visited' = visited \cup {u}
    /\ UNCHANGED <<facts, state>>

\* One iteration of the while loop, its inner loop over dependents included.
Visit(u) ==
    /\ state = "Linked"
    /\ u \in queued
    /\ LET complete == conditions[u] /\ facts[u].status = "Completed"
           closed == complete \/ (facts[u].status = "Cancelled" /\ childrenClosed[u])
           dep(t) == DependencyEdge(facts, u, t)
           child(t) == ChildEdge(facts, u, t)
           left(t) == remaining[t] - (IF dep(t) THEN 1 ELSE 0)
                                   - (IF child(t) THEN 1 ELSE 0)
       IN  /\ validComplete' = [validComplete EXCEPT ![u] = complete]
           /\ conditions' = [t \in Task |-> /\ conditions[t]
                                            /\ dep(t) => complete
                                            /\ child(t) => closed]
           /\ childrenClosed' = [t \in Task |-> childrenClosed[t] /\ (child(t) => closed)]
           /\ remaining' = [t \in Task |-> left(t)]
           /\ queued' = (queued \ {u}) \cup
                            {t \in Task : remaining[t] > 0 /\ left(t) = 0}
    /\ visited' = visited \cup {u}
    /\ UNCHANGED <<facts, state>>

\* Mutant of Finish: an exhausted queue is taken for an acyclic graph.
FinishAlways ==
    /\ state = "Linked"
    /\ queued = {}
    /\ state' = "Ok"
    /\ UNCHANGED <<facts, conditions, remaining, queued, visited,
                   validComplete, childrenClosed>>

\* Mutant of Finish: the loop waits for every fact to be visited.
FinishWaits ==
    /\ state = "Linked"
    /\ visited = Facts
    /\ state' = "Ok"
    /\ UNCHANGED <<facts, conditions, remaining, queued, visited,
                   validComplete, childrenClosed>>

\* cursor = queue.len(): the graph is accepted when every fact was visited.
Finish ==
    /\ state = "Linked"
    /\ queued = {}
    /\ state' = IF visited = Facts THEN "Ok" ELSE "InvalidFacts"
    /\ UNCHANGED <<facts, conditions, remaining, queued, visited,
                   validComplete, childrenClosed>>

Next == Reject \/ Link \/ (\E u \in Task : Visit(u)) \/ Finish

\* GateGraph::new is one call and runs to its end.
Spec == Init /\ [][Next]_vars /\ WF_vars(Next)

-----------------------------------------------------------------------------
TypeOK ==
    /\ facts \in [Task -> Fact]
    /\ state \in {"New", "Linked", "Ok", "InvalidFacts"}
    /\ conditions \in [Task -> BOOLEAN]
    /\ remaining \in [Task -> Nat]
    /\ queued \subseteq Task /\ visited \subseteq Task
    /\ validComplete \in [Task -> BOOLEAN]
    /\ childrenClosed \in [Task -> BOOLEAN]

\* The worklist accepts exactly the facts whose links resolve and whose
\* combined prerequisite and hierarchy graph has no cycle (the final cursor
\* test of GateGraph::new).
AcceptsExactlyValidGraphs ==
    /\ state = "Ok" => ValidGraph(facts)
    /\ state = "InvalidFacts" => ~ValidGraph(facts)

\* When the worklist accepts, valid_complete and conditions are the verdicts
\* of the declarative gates: nothing is called complete on the strength of an
\* unfinished prerequisite or descendant, nothing finished is missed.
VerdictsAreTheGates ==
    state = "Ok" => \A t \in Facts :
        /\ validComplete[t] <=> ValidComplete(facts, t)
        /\ (facts[t].status # "Cancelled" /\ conditions[t]) <=> Completion(facts, t)

\* In the middle of the loop, a visited or queued task has no unvisited
\* source, a task still waiting has a positive counter, and nothing is queued
\* again once visited (the bookkeeping that makes the single pass of the
\* while loop sound).
SourcesBeforeTargets ==
    state = "Linked" =>
        /\ \A t \in visited \cup queued : \A u \in Task :
              Edge(facts, u, t) => u \in visited
        /\ \A t \in Facts \ (visited \cup queued) : remaining[t] > 0
        /\ queued \cap visited = {}

\* GateGraph::new always returns.
Terminates == <>(state \in {"Ok", "InvalidFacts"})
=============================================================================
