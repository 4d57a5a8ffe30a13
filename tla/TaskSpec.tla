------------------------------ MODULE TaskSpec ------------------------------
(***************************************************************************)
(* The pure planners of crates/graphit-records/src/task_spec.rs over the    *)
(* checks of one task specification.                                        *)
(*                                                                          *)
(* A specification never holds two checks with the same (kind, text), live  *)
(* or superseded (validate, additions, plan_check_supersession), so a check *)
(* is identified here by that pair: an element of AcceptanceCheck or        *)
(* TestCheck.  "None" is the state of a check the specification does not    *)
(* hold.  "Passed" and "Failed" carry nonblank evidence, which validate     *)
(* and trim enforce.                                                        *)
(***************************************************************************)
EXTENDS Naturals

CONSTANTS AcceptanceCheck, TestCheck, NoCheck

Check == AcceptanceCheck \cup TestCheck

ASSUME ChecksAssumption ==
    /\ AcceptanceCheck \cap TestCheck = {}
    /\ NoCheck \notin Check

CheckStatus == {"None", "Pending", "Passed", "Failed", "Superseded"}

\* Checks that count: held and not superseded.
Active(checks) == {c \in Check : checks[c] \notin {"None", "Superseded"}}

RequiredKinds(S) == S \cap AcceptanceCheck # {} /\ S \cap TestCheck # {}

\* The specification create_task builds: every given check is pending.
FreshChecks(S) == [c \in Check |-> IF c \in S THEN "Pending" ELSE "None"]

(***************************************************************************)
(* Change::Reset and append_new: an effective change of title, description  *)
(* or type makes every active check pending again; checks that are already  *)
(* held are not added twice.                                                *)
(***************************************************************************)
Additions(checks, add) == {c \in add : checks[c] = "None"}

\* Mutant of RevisedChecks: verified checks survive a change of the text.
KeptChecks(checks, add, reset) ==
    [c \in Check |-> IF c \in Additions(checks, add) THEN "Pending" ELSE checks[c]]

RevisedChecks(checks, add, reset) ==
    [c \in Check |->
        IF c \in Additions(checks, add) \/ (reset /\ c \in Active(checks))
        THEN "Pending" ELSE checks[c]]

VerifiedChecks(checks, c, passed) ==
    [checks EXCEPT ![c] = IF passed THEN "Passed" ELSE "Failed"]

\* Mutant of CanSupersede: the last check of a kind may go.
CanDrop(checks, c, replacement) ==
    /\ c \in Active(checks)
    /\ replacement # NoCheck => checks[replacement] = "None"

CanSupersede(checks, c, replacement) ==
    /\ c \in Active(checks)
    /\ replacement # NoCheck => checks[replacement] = "None"
    /\ RequiredKinds((Active(checks) \ {c}) \cup ({replacement} \ {NoCheck}))

SupersededChecks(checks, c, replacement) ==
    [x \in Check |-> IF x = c THEN "Superseded"
                     ELSE IF x = replacement THEN "Pending" ELSE checks[x]]
=============================================================================
