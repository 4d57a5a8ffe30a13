---------------------------- MODULE GatesProofs -----------------------------
(***************************************************************************)
(* Facts about the gates that the invariants of TaskStore rest on: which    *)
(* changes of the task rows keep a graph valid and a closed task closed.    *)
(***************************************************************************)
EXTENDS Gates, TLAPS

\* Dropping prerequisite or hierarchy edges never makes a cycle, so a change
\* of rows that adds no edge keeps the graph valid as long as links resolve.
LEMMA FewerEdgesStayValid ==
    ASSUME NEW h, NEW g, ValidGraph(h), LinksResolve(g),
           \A u \in Task, t \in Task : Edge(g, u, t) => Edge(h, u, t)
    PROVE  ValidGraph(g)
  <1>1. ASSUME NEW S \in SUBSET Task, S # {}
        PROVE  \E t \in S : \A u \in S : ~Edge(g, u, t)
    <2>1. PICK t \in S : \A u \in S : ~Edge(h, u, t)
      BY <1>1 DEF ValidGraph, Acyclic
    <2>2. \A u \in S : ~Edge(g, u, t)
      BY <2>1
    <2> QED BY <2>2
  <1>2. Acyclic(g)
    BY <1>1 DEF Acyclic
  <1> QED BY <1>2 DEF ValidGraph

\* The union of the supported sets is supported: Settled is the largest one.
LEMMA SettledIsSupported ==
    ASSUME NEW h
    PROVE  /\ Settled(h) \subseteq Task
           /\ Supported(h, Settled(h))
  <1>1. Settled(h) \subseteq Task
    BY DEF Settled
  <1>2. ASSUME NEW t \in Settled(h)
        PROVE  /\ Terminal(h[t].status)
               /\ Children(h, t) \subseteq Settled(h)
               /\ h[t].status = "Completed" =>
                     /\ ChecksPass(h[t])
                     /\ \A d \in h[t].deps :
                           d \in Settled(h) /\ h[d].status = "Completed"
    <2>1. PICK S \in SUBSET Task : Supported(h, S) /\ t \in S
      BY <1>2 DEF Settled
    <2>2. S \subseteq Settled(h)
      BY <2>1 DEF Settled
    <2> QED BY <2>1, <2>2 DEF Supported
  <1> QED BY <1>1, <1>2 DEF Supported

\* A supported set is contained in the settled tasks.
LEMMA SupportedIsSettled ==
    ASSUME NEW h, NEW S \in SUBSET Task, Supported(h, S)
    PROVE  S \subseteq Settled(h)
  BY DEF Settled

\* A supported set stays supported when its members keep the facts the gates
\* read and get no new child.
LEMMA SupportIsKept ==
    ASSUME NEW h, NEW g, NEW S \in SUBSET Task, Supported(h, S),
           \A u \in S : /\ g[u].status = h[u].status
                        /\ g[u].deps = h[u].deps
                        /\ g[u].checks = h[u].checks
                        /\ g[u].flagged = h[u].flagged,
           \A u \in S, c \in Task : ChildEdge(g, c, u) => ChildEdge(h, c, u)
    PROVE  Supported(g, S)
  <1>1. ASSUME NEW u \in S
        PROVE  ChecksPass(h[u]) => ChecksPass(g[u])
    BY DEF ChecksPass
  <1>2. ASSUME NEW u \in S
        PROVE  Children(g, u) \subseteq S
    BY DEF Supported, Children
  <1>3. ASSUME NEW u \in S, g[u].status = "Completed", NEW d \in g[u].deps
        PROVE  d \in S /\ g[d].status = "Completed"
    BY <1>3 DEF Supported
  <1> QED BY <1>1, <1>2, <1>3 DEF Supported
=============================================================================
