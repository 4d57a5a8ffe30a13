---------------------------- MODULE MCGateGraph -----------------------------
(* Small instances of GateGraph: every graph over three tasks. *)
EXTENDS GateGraph, TLC

CONSTANTS a, t, t1, t2, t3, s1, s2

Checks(x, y) == (a :> x) @@ (t :> y)
Both == Checks("Passed", "Passed")

\* An absent task has no links and is written one way.
AbsentFact == [status |-> "Absent", session |-> s1, parent |-> NoTask,
               deps |-> {}, flagged |-> FALSE, checks |-> Both]

\* Every graph of three tasks in one session, in every status and with passing
\* checks.  The first may be complete with a pending check.  The first and the
\* last may be absent, linked to themselves, of another session, or complete
\* but flagged or with checks that failed or were superseded.  The tasks are
\* interchangeable, so it does not matter which ones are the odd ones.
ThreeTasks ==
    LET Links(x, statuses, checks) ==
            [status : statuses, session : {s1}, parent : (Task \ {x}) \cup {NoTask},
             deps : SUBSET (Task \ {x}), flagged : {FALSE}, checks : checks]
        Other(x) ==
            {AbsentFact,
             [AbsentFact EXCEPT !.status = "InProgress", !.deps = {x}],
             [AbsentFact EXCEPT !.status = "InProgress", !.parent = x],
             [AbsentFact EXCEPT !.status = "Completed", !.flagged = TRUE],
             [AbsentFact EXCEPT !.status = "Completed", !.checks = Checks("Failed", "Passed")],
             [AbsentFact EXCEPT !.status = "Completed",
                                !.checks = Checks("Passed", "Superseded")],
             [AbsentFact EXCEPT !.status = "Completed", !.session = s2]}
        Plain(x) == Links(x, {"Completed", "Open", "Cancelled"}, {Both})
        Pending(x) == Links(x, {"Completed"}, {Checks("Passed", "Pending")})
    IN  {(t1 :> f) @@ (t2 :> g) @@ (t3 :> h) :
            f \in Plain(t1) \cup Pending(t1) \cup Other(t1),
            g \in Plain(t2), h \in Plain(t3) \cup Other(t3)}
=============================================================================
