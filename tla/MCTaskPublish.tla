--------------------------- MODULE MCTaskPublish ----------------------------
(* Small instances of TaskPublish. *)
EXTENDS TaskPublish, TLC

CONSTANTS t1, t2, s1, a1, a2, k1, k2, k3, x1, acc1, tst1, p1, p2

TwoActors == [p \in Client |-> IF p = p1 THEN a1 ELSE a2]
OneActor == [p \in Client |-> a1]

OneReading == [p \in Client |-> 1]
TwoReadings == [p \in Client |-> 2]
\* The second caller's clock outlasts every lease of the first.
Unequal == [p \in Client |-> IF p = p1 THEN 1 ELSE 2]

\* A session with two open tasks, created one after the other.
Created ==
    [r \in Id |-> IF r \in Session THEN SessionRow(k1, x1, 1)
                 ELSE TaskRow(IF r = t1 THEN k1 ELSE k2, s1, NoTask, {}, x1, Check,
                              NoCommit, 1)]

By(a, kind, check, row) == [actor |-> a, kind |-> kind, check |-> check, record |-> row]

\* What happened to the second task: it was claimed, verified and completed,
Done ==
    LET row1 == [Created[t2] EXCEPT !.revision = 2, !.status = "InProgress",
                    !.own = [owner |-> a2, epoch |-> 1, claimed |-> 1, heartbeat |-> 1,
                             expires |-> 2]]
        row2 == [row1 EXCEPT !.revision = 3, !.checks = VerifiedChecks(@, acc1, TRUE)]
        row3 == [row2 EXCEPT !.revision = 4, !.checks = VerifiedChecks(@, tst1, TRUE)]
    IN  <<By(a2, "Claimed", NoCheck, row1), By(a2, "CheckVerified", acc1, row2),
          By(a2, "CheckVerified", tst1, row3),
          By(a2, "Completed", NoCheck, Bumped(ClearedOwner(row3), 1, "Completed"))>>

\* or it was cancelled.
Dropped == <<By(a2, "Cancelled", NoCheck, Bumped(Created[t2], 1, "Cancelled"))>>

\* The rows, the index and the version that these publications leave behind.
CreatedInit ==
    /\ \E past \in {<<>>, Done, Dropped} :
          /\ events = [r \in Id |-> IF r = t2 THEN past ELSE <<>>]
          /\ head = IF past = <<>> THEN Created
                    ELSE [Created EXCEPT ![t2] = past[Len(past)].record]
          /\ drawn = [r \in Id |-> IF r = t2 /\ past = Done THEN 1 ELSE 0]
          /\ version = 5 + Len(past)
    /\ fence = [r \in Id |-> 0]
    /\ creation = Created /\ comments = [t \in Task |-> <<>>]
    /\ indexed = TRUE
    /\ lock = NoClient
    /\ now = [p \in Client |-> 1]
    /\ call = [p \in Client |-> Idle]
    /\ memory = [p \in Client |-> [r \in Id |-> NoClaim]]

CreatedFairSpec == CreatedInit /\ [][PubNext]_allVars /\ Fairness
=============================================================================
