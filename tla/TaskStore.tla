----------------------------- MODULE TaskStore ------------------------------
(***************************************************************************)
(* The task and session records of crates/graphit-records/src/task_store,   *)
(* one atomic step per operation.                                           *)
(*                                                                          *)
(* The service keeps no state: an operation reads the current row of its    *)
(* target, decides, and publishes the new row together with one immutable   *)
(* event (and, for a comment, the comment row) in one strict commit.        *)
(* TaskPublish models how that commit is made atomic between writers; here  *)
(* it is one step.  An operation that fails changes nothing and is no step. *)
(*                                                                          *)
(* Every operation has a guard CanX, from the early returns of the code,    *)
(* and a row XRow, from its assignments; both are state functions, so that  *)
(* TaskPublish evaluates them on a captured snapshot.                       *)
(*                                                                          *)
(* Times are readings of the caller's own clock: any reading not earlier    *)
(* than the record's last update, since that is all the code requires.      *)
(***************************************************************************)
EXTENDS Gates, Sequences

CONSTANTS
    Session, NoSession,    \* session identities, and the session of a session
    Actor, NoActor,        \* authenticated participants, and no owner
    Key,                   \* idempotency keys
    Text,                  \* authored title, description and type (or strategy)
    Commit, NoCommit,      \* Git object identifiers
    Clock,                 \* clock readings, in milliseconds
    Lease,                 \* requested lease durations
    MaxStamp,              \* largest timestamp (u64::MAX)
    MaxRevision,           \* largest revision (u64::MAX)
    Ops                    \* operations the participants are admitted to

Id == Task \cup Session

ASSUME TaskStoreAssumption ==
    /\ Task \cap Session = {}
    /\ NoSession \notin Session
    /\ NoActor \notin Actor
    /\ MaxStamp \in Nat /\ MaxRevision \in Nat
    /\ Clock \subseteq Nat \ {0}
    /\ Lease \subseteq Nat \ {0}      \* a lease below one millisecond is refused

VARIABLES
    head,       \* current task and session rows
    fence,      \* private claim token of the row, 0 for none
    events,     \* immutable lifecycle events
    creation,   \* immutable creation rows
    comments,   \* comment rows
    drawn       \* number of random tokens drawn so far for each record

vars == <<head, fence, events, creation, comments, drawn>>

-----------------------------------------------------------------------------
(* Rows *)

\* Ownership; 0 stands for an absent timestamp.
NoOwnership == [owner |-> NoActor, epoch |-> 0, claimed |-> 0, heartbeat |-> 0,
                expires |-> 0]

AbsentRow ==
    [status |-> "Absent", revision |-> 0, own |-> NoOwnership,
     session |-> NoSession, parent |-> NoTask, deps |-> {}, flagged |-> FALSE,
     text |-> "", checks |-> [c \in Check |-> "None"], progress |-> 0,
     commit |-> NoCommit, key |-> "", created |-> 0, updated |-> 0]

Ownership == [owner : Actor \cup {NoActor}, epoch : Nat, claimed : Nat,
              heartbeat : Nat, expires : Nat]

Row == [status : TaskStatus \cup {"Absent"}, revision : Nat, own : Ownership,
        session : Session \cup {NoSession}, parent : Task \cup {NoTask},
        deps : SUBSET Task, flagged : BOOLEAN, text : Text \cup {""},
        checks : [Check -> CheckStatus], progress : Nat,
        commit : Commit \cup {NoCommit}, key : Key \cup {""},
        created : Nat, updated : Nat]

EventKind == {"CommentAdded", "Claimed", "Renewed", "Progress", "Released",
              "Revised", "CheckVerified", "CheckSuperseded", "LinksUpdated",
              "FlagUpdated", "CommitUpdated", "Completed", "Cancelled"}

\* check is the subject of CheckVerified and CheckSuperseded.
Event == [actor : Actor, kind : EventKind, check : Check \cup {NoCheck},
          record : Row]

Comment == [key : Key, body : Text, actor : Actor, at : Nat, revision : Nat,
            sequence : Nat]

\* What a fenced caller presents: the token it was given and the revision it
\* last saw.
ClaimUpdate == [token : Nat, revision : Nat]

-----------------------------------------------------------------------------
(* Current and its helpers *)

Live(row, at) == row.own.owner # NoActor /\ row.own.expires > at

CanExpire(at, lease) == at + lease <= MaxStamp

Later(x, y) == IF x < y THEN y ELSE x

\* Mutant of Renewed: a shorter lease takes away time already granted.
RenewedExactly(row, at, lease) ==
    [row EXCEPT !.own.heartbeat = at, !.own.expires = at + lease]

Renewed(row, at, lease) ==
    [row EXCEPT !.own.heartbeat = at, !.own.expires = Later(@, at + lease)]

\* Mutant of ClearedOwner: only the owner's name is cleared.
ClearedName(row) == [row EXCEPT !.own.owner = NoActor]

ClearedOwner(row) == [row EXCEPT !.own = [NoOwnership EXCEPT !.epoch = row.own.epoch]]

Bumped(row, at, status) ==
    [row EXCEPT !.revision = @ + 1, !.updated = at, !.status = status]

\* The checks every mutation makes on its target row before it looks at the
\* request, and the overflow check of its bump.
CanMutate(r, at) ==
    /\ head[r].status # "Absent"
    /\ at >= head[r].updated
    /\ head[r].revision < MaxRevision

\* Mutant of CheckOwner: the token alone identifies the claimant.
CheckToken(r, a, c, at) ==
    /\ head[r].revision = c.revision
    /\ fence[r] # 0 /\ fence[r] = c.token
    /\ Live(head[r], at)

CheckOwner(r, a, c, at) ==
    /\ head[r].revision = c.revision
    /\ head[r].own.owner = a
    /\ fence[r] # 0 /\ fence[r] = c.token
    /\ Live(head[r], at)

CanRenew(r, a, c, at, lease) ==
    CanMutate(r, at) /\ CheckOwner(r, a, c, at) /\ CanExpire(at, lease)

\* The claim update that the row as it is now accepts.
Held(r) == [token |-> fence[r], revision |-> head[r].revision]

\* Mutant of Publish: the event names the owner of the new row as its actor,
\* who is absent once the row is released or closed.
PublishByOwner(r, a, kind, check, row, token) ==
    /\ head' = [head EXCEPT ![r] = row]
    /\ fence' = [fence EXCEPT ![r] = token]
    /\ events' = [events EXCEPT ![r] =
                    Append(@, [actor |-> row.own.owner, kind |-> kind, check |-> check,
                               record |-> row])]
    /\ UNCHANGED creation

\* publication: the head row and its event are one batch of one commit.
Publish(r, a, kind, check, row, token) ==
    /\ head' = [head EXCEPT ![r] = row]
    /\ fence' = [fence EXCEPT ![r] = token]
    /\ events' = [events EXCEPT ![r] =
                    Append(@, [actor |-> a, kind |-> kind, check |-> check, record |-> row])]
    /\ UNCHANGED creation

-----------------------------------------------------------------------------
(* create_session and create_task *)

\* The row found under an idempotency key is returned, or refused when the
\* input differs; either way nothing is written.
KeyUsed(ids, k) == \E r \in ids : head[r].status # "Absent" /\ head[r].key = k

CanCreateSession(s, k) == head[s].status = "Absent" /\ ~KeyUsed(Session, k)

SessionRow(k, text, at) ==
    [AbsentRow EXCEPT !.status = "Open", !.revision = 1, !.text = text, !.key = k,
                      !.created = at, !.updated = at]

TaskRow(k, s, parent, deps, text, checks, commit, at) ==
    [AbsentRow EXCEPT !.status = "Open", !.revision = 1, !.session = s,
                      !.parent = parent, !.deps = deps, !.text = text,
                      !.checks = FreshChecks(checks), !.commit = commit, !.key = k,
                      !.created = at, !.updated = at]

\* Mutant of RelationsHold: links are checked, the graph is not.
LinksHold(t, row) ==
    /\ \A d \in row.deps : Exists(head, d)
    /\ row.parent # NoTask =>
          /\ Exists(head, row.parent)
          /\ head[row.parent].session = row.session
          /\ ~Terminal(head[row.parent].status)

\* Mutant of RelationsHold: a closed parent still takes children.
ClosedParentHolds(t, row) ==
    /\ \A d \in row.deps : Exists(head, d)
    /\ row.parent # NoTask => head[row.parent].session = row.session
    /\ ValidGraph([head EXCEPT ![t] = row])

\* validate_relations: links lead to existing tasks, the parent is an open
\* task of the same session, and the whole graph with the new row is valid.
RelationsHold(t, row) ==
    /\ \A d \in row.deps : Exists(head, d)
    /\ row.parent # NoTask =>
          /\ Exists(head, row.parent)
          /\ head[row.parent].session = row.session
          /\ ~Terminal(head[row.parent].status)
    /\ ValidGraph([head EXCEPT ![t] = row])

\* Mutant of CanCreateTask: the session only has to exist.
CanCreateInAny(t, k, s, parent, deps, text, checks, commit, at) ==
    /\ head[t].status = "Absent"
    /\ RequiredKinds(checks)
    /\ ~KeyUsed(Task, k)
    /\ head[s].status # "Absent"
    /\ RelationsHold(t, TaskRow(k, s, parent, deps, text, checks, commit, at))

CanCreateTask(t, k, s, parent, deps, text, checks, commit, at) ==
    /\ head[t].status = "Absent"
    /\ RequiredKinds(checks)
    /\ ~KeyUsed(Task, k)
    /\ head[s].status \in {"Open", "InProgress"}
    /\ RelationsHold(t, TaskRow(k, s, parent, deps, text, checks, commit, at))

Create(r, row) ==
    /\ head' = [head EXCEPT ![r] = row]
    /\ creation' = [creation EXCEPT ![r] = row]
    /\ UNCHANGED <<fence, events, comments, drawn>>

CreateSession(s, k, text, at) == CanCreateSession(s, k) /\ Create(s, SessionRow(k, text, at))

CreateTask(t, k, s, parent, deps, text, checks, commit, at) ==
    /\ CanCreateTask(t, k, s, parent, deps, text, checks, commit, at)
    /\ Create(t, TaskRow(k, s, parent, deps, text, checks, commit, at))

-----------------------------------------------------------------------------
(* Claims: Claim, Renew, Progress, Release *)

\* require_ready looks at the target as if it were open.
ClaimReady(t) ==
    LET h == [head EXCEPT ![t].status = "Open"]
    IN  ValidGraph(h) /\ Ready(h, t)

\* Mutant of CanClaim: any record whose claim is not live is claimable.
CanReopen(r, at, lease) ==
    /\ CanMutate(r, at)
    /\ CanExpire(at, lease)
    /\ ~Live(head[r], at)
    /\ r \in Task =>
          /\ head[head[r].session].status \in {"Open", "InProgress"}
          /\ ClaimReady(r)

\* A live claim is refused to others and returned unchanged to its owner.
CanClaim(r, at, lease) ==
    /\ CanMutate(r, at)
    /\ CanExpire(at, lease)
    /\ ~Live(head[r], at)
    /\ head[r].status \in {"Open", "InProgress"}
    /\ r \in Task =>
          /\ head[head[r].session].status \in {"Open", "InProgress"}
          /\ ClaimReady(r)

ClaimRow(r, a, at, lease) ==
    Bumped([head[r] EXCEPT !.own = [owner |-> a, epoch |-> head[r].own.epoch + 1,
                                    claimed |-> at, heartbeat |-> at,
                                    expires |-> at + lease]],
           at, "InProgress")

Claim(r, a, at, lease) ==
    /\ CanClaim(r, at, lease)
    /\ Publish(r, a, "Claimed", NoCheck, ClaimRow(r, a, at, lease), drawn[r] + 1)
    /\ drawn' = [drawn EXCEPT ![r] = @ + 1]
    /\ UNCHANGED comments

RenewRow(r, at, lease) == Bumped(Renewed(head[r], at, lease), at, "InProgress")

Renew(r, a, c, at, lease) ==
    /\ CanRenew(r, a, c, at, lease)
    /\ Publish(r, a, "Renewed", NoCheck, RenewRow(r, at, lease), fence[r])
    /\ UNCHANGED <<comments, drawn>>

ProgressRow(r, at, lease) == [RenewRow(r, at, lease) EXCEPT !.progress = @ + 1]

Progress(r, a, c, at, lease) ==
    /\ CanRenew(r, a, c, at, lease)
    /\ Publish(r, a, "Progress", NoCheck, ProgressRow(r, at, lease), fence[r])
    /\ UNCHANGED <<comments, drawn>>

CanRelease(r, a, c, at) == CanMutate(r, at) /\ CheckOwner(r, a, c, at)

ReleaseRow(r, at) ==
    Bumped([ClearedOwner(head[r]) EXCEPT !.progress = @ + 1], at, "Open")

Release(r, a, c, at) ==
    /\ CanRelease(r, a, c, at)
    /\ Publish(r, a, "Released", NoCheck, ReleaseRow(r, at), 0)
    /\ UNCHANGED <<comments, drawn>>

-----------------------------------------------------------------------------
(* Work on a claimed record: Comment, Revise, Verify, Supersede, Links, Flag *)

CommentKeys(t) == {comments[t][i].key : i \in DOMAIN comments[t]}

\* Mutant of CanComment: a retry is not recognised.
CanCommentAgain(t, a, k, c, at, lease) ==
    head[t].status = "InProgress" /\ CanRenew(t, a, c, at, lease)

\* A comment under a known key is answered from the rows and writes nothing.
CanComment(t, a, k, c, at, lease) ==
    /\ head[t].status = "InProgress"
    /\ CanRenew(t, a, c, at, lease)
    /\ k \notin CommentKeys(t)

CommentRow(t, a, k, body, at) ==
    [key |-> k, body |-> body, actor |-> a, at |-> at,
     revision |-> head[t].revision + 1, sequence |-> Len(comments[t]) + 1]

AddComment(t, a, k, body, c, at, lease) ==
    /\ CanComment(t, a, k, c, at, lease)
    /\ Publish(t, a, "CommentAdded", NoCheck, RenewRow(t, at, lease), fence[t])
    /\ comments' = [comments EXCEPT ![t] = Append(@, CommentRow(t, a, k, body, at))]
    /\ UNCHANGED drawn

\* other: a change of priority, schedule or references, which leave no trace
\* in the modelled row but count as a change.
CanReviseSession(s, a, text, other, c, at, lease) ==
    /\ head[s].status = "InProgress"
    /\ CanRenew(s, a, c, at, lease)
    /\ text # head[s].text \/ other

\* Mutant of ReviseSession: the revision is not counted.
ReviseSessionInPlace(s, a, text, other, c, at, lease) ==
    /\ CanReviseSession(s, a, text, other, c, at, lease)
    /\ Publish(s, a, "Revised", NoCheck,
               [Renewed(head[s], at, lease) EXCEPT !.text = text, !.updated = at], fence[s])
    /\ UNCHANGED <<comments, drawn>>

ReviseSession(s, a, text, other, c, at, lease) ==
    /\ CanReviseSession(s, a, text, other, c, at, lease)
    /\ Publish(s, a, "Revised", NoCheck,
               [RenewRow(s, at, lease) EXCEPT !.text = text], fence[s])
    /\ UNCHANGED <<comments, drawn>>

CanSpecify(t, a, c, at, lease) ==
    head[t].status = "InProgress" /\ CanRenew(t, a, c, at, lease)

\* other is as above.  A change of references alone is accepted only without
\* additions; one of priority or schedule with any, and it gives the same row.
ReviseRow(t, text, add, at, lease) ==
    [RenewRow(t, at, lease) EXCEPT
        !.text = text,
        !.checks = RevisedChecks(@, add, text # head[t].text)]

Revise(t, a, text, add, other, c, at, lease) ==
    /\ CanSpecify(t, a, c, at, lease)
    /\ \/ text # head[t].text
       \/ Additions(head[t].checks, add) # {}
       \/ other
    /\ Publish(t, a, "Revised", NoCheck, ReviseRow(t, text, add, at, lease), fence[t])
    /\ UNCHANGED <<comments, drawn>>

Verify(t, a, check, passed, c, at, lease) ==
    /\ CanSpecify(t, a, c, at, lease)
    /\ check \in Active(head[t].checks)
    /\ Publish(t, a, "CheckVerified", check,
               [RenewRow(t, at, lease) EXCEPT !.checks = VerifiedChecks(@, check, passed)],
               fence[t])
    /\ UNCHANGED <<comments, drawn>>

Supersede(t, a, check, replacement, c, at, lease) ==
    /\ CanSpecify(t, a, c, at, lease)
    /\ CanSupersede(head[t].checks, check, replacement)
    /\ Publish(t, a, "CheckSuperseded", check,
               [RenewRow(t, at, lease) EXCEPT
                    !.checks = SupersededChecks(@, check, replacement)],
               fence[t])
    /\ UNCHANGED <<comments, drawn>>

LinkedRow(t, parent, deps) == [head[t] EXCEPT !.parent = parent, !.deps = deps]

\* Prerequisites are stored in order: naming two or more of them in another
\* order is a change too, to the same set.
CanLink(t, a, parent, deps, c, at, lease) ==
    /\ CanRenew(t, a, c, at, lease)
    /\ \/ parent # head[t].parent \/ deps # head[t].deps
       \/ \E d, e \in deps : d # e
    /\ RelationsHold(t, LinkedRow(t, parent, deps))

LinksRow(t, parent, deps, at, lease) ==
    [RenewRow(t, at, lease) EXCEPT !.parent = parent, !.deps = deps]

Links(t, a, parent, deps, c, at, lease) ==
    /\ CanLink(t, a, parent, deps, c, at, lease)
    /\ Publish(t, a, "LinksUpdated", NoCheck, LinksRow(t, parent, deps, at, lease), fence[t])
    /\ UNCHANGED <<comments, drawn>>

Flag(t, a, flagged, c, at, lease) ==
    /\ CanRenew(t, a, c, at, lease)
    /\ flagged # head[t].flagged
    /\ Publish(t, a, "FlagUpdated", NoCheck,
               [RenewRow(t, at, lease) EXCEPT !.flagged = flagged], fence[t])
    /\ UNCHANGED <<comments, drawn>>

-----------------------------------------------------------------------------
(* Closing: Complete, Cancel; and SetCommit, which terminal tasks allow *)

\* Mutant of GatesOpen: a task's own checks are enough.
ChecksOpen(r) ==
    /\ ValidGraph(head)
    /\ IF r \in Task THEN ChecksPass(head[r]) ELSE SessionClosable(head, r)

\* Mutant of GatesOpen: work in progress does not hold a session open.
NothingOpen(r) ==
    /\ ValidGraph(head)
    /\ IF r \in Task THEN Completion(head, r)
       ELSE \A t \in Task : head[t].session = r => head[t].status # "Open"

\* require_completion for a task or a session, on a valid graph.
GatesOpen(r) ==
    /\ ValidGraph(head)
    /\ IF r \in Task THEN Completion(head, r) ELSE SessionClosable(head, r)

CanComplete(r, a, c, at) ==
    /\ CanMutate(r, at)
    /\ CheckOwner(r, a, c, at)
    /\ head[r].status = "InProgress"
    /\ ~head[r].flagged
    /\ GatesOpen(r)

\* Mutant of ClosedRow: the claim is left on the closed row.
ClosedOwnedRow(r, at, status) == Bumped(head[r], at, status)

ClosedRow(r, at, status) == Bumped(ClearedOwner(head[r]), at, status)

Complete(r, a, c, at) ==
    /\ CanComplete(r, a, c, at)
    /\ Publish(r, a, "Completed", NoCheck, ClosedRow(r, at, "Completed"), 0)
    /\ UNCHANGED <<comments, drawn>>

\* An open task is cancelled by anyone admitted, at whatever revision; a
\* claimed one by its owner.
CanCancel(t, a, c, at) ==
    /\ CanMutate(t, at)
    /\ \/ head[t].status = "Open"
       \/ head[t].status = "InProgress" /\ CheckOwner(t, a, c, at)

Cancel(t, a, c, at) ==
    /\ CanCancel(t, a, c, at)
    /\ Publish(t, a, "Cancelled", NoCheck, ClosedRow(t, at, "Cancelled"), 0)
    /\ UNCHANGED <<comments, drawn>>

\* The owner sets the commit with its claim, others when no claim is live;
\* setting the same commit writes nothing.
CanSetCommit(t, a, commit, revision, claim, c, at) ==
    /\ CanMutate(t, at)
    /\ head[t].revision = revision
    /\ IF claim THEN CheckOwner(t, a, c, at) ELSE ~Live(head[t], at)
    /\ commit # head[t].commit

\* Mutant of SetCommit: the commit is written over the row without a bump.
SetCommitInPlace(t, a, commit, revision, claim, c, at) ==
    /\ CanSetCommit(t, a, commit, revision, claim, c, at)
    /\ Publish(t, a, "CommitUpdated", NoCheck, [head[t] EXCEPT !.commit = commit], fence[t])
    /\ UNCHANGED <<comments, drawn>>

SetCommit(t, a, commit, revision, claim, c, at) ==
    /\ CanSetCommit(t, a, commit, revision, claim, c, at)
    /\ Publish(t, a, "CommitUpdated", NoCheck,
               Bumped([head[t] EXCEPT !.commit = commit], at, head[t].status), fence[t])
    /\ UNCHANGED <<comments, drawn>>

-----------------------------------------------------------------------------
\* An empty corpus: create_session gives birth to it.
Init ==
    /\ head = [r \in Id |-> AbsentRow]
    /\ fence = [r \in Id |-> 0]
    /\ events = [r \in Id |-> <<>>]
    /\ creation = [r \in Id |-> AbsentRow]
    /\ comments = [t \in Task |-> <<>>]
    /\ drawn = [r \in Id |-> 0]

CreateStep ==
    \E k \in Key, text \in Text, at \in Clock :
        \/ "CreateSession" \in Ops /\ \E s \in Session : CreateSession(s, k, text, at)
        \/ "CreateTask" \in Ops /\
              \E t \in Task, s \in Session, parent \in Task \cup {NoTask},
                 deps \in SUBSET Task, checks \in SUBSET Check,
                 commit \in Commit \cup {NoCommit} :
                  CreateTask(t, k, s, parent, deps, text, checks, commit, at)

\* A caller may present any token and revision; all but the held ones fail.
ClaimStep(r, a, at) ==
    \/ "Claim" \in Ops /\ \E lease \in Lease : Claim(r, a, at, lease)
    \/ "Renew" \in Ops /\ \E lease \in Lease : Renew(r, a, Held(r), at, lease)
    \/ "Progress" \in Ops /\ \E lease \in Lease : Progress(r, a, Held(r), at, lease)
    \/ "Release" \in Ops /\ Release(r, a, Held(r), at)
    \/ "Complete" \in Ops /\ Complete(r, a, Held(r), at)

TaskStep(t, a, at) ==
    \/ "Comment" \in Ops /\ \E k \in Key, body \in Text, lease \in Lease :
          AddComment(t, a, k, body, Held(t), at, lease)
    \/ "Revise" \in Ops /\
          \E text \in Text, add \in SUBSET Check, other \in BOOLEAN, lease \in Lease :
              Revise(t, a, text, add, other, Held(t), at, lease)
    \/ "Verify" \in Ops /\ \E check \in Check, passed \in BOOLEAN, lease \in Lease :
          Verify(t, a, check, passed, Held(t), at, lease)
    \/ "Supersede" \in Ops /\
          \E check \in Check, replacement \in Check \cup {NoCheck}, lease \in Lease :
              Supersede(t, a, check, replacement, Held(t), at, lease)
    \/ "Links" \in Ops /\
          \E parent \in Task \cup {NoTask}, deps \in SUBSET Task, lease \in Lease :
              Links(t, a, parent, deps, Held(t), at, lease)
    \/ "Flag" \in Ops /\ \E flagged \in BOOLEAN, lease \in Lease :
          Flag(t, a, flagged, Held(t), at, lease)
    \/ "Cancel" \in Ops /\ Cancel(t, a, Held(t), at)
    \/ "SetCommit" \in Ops /\ \E commit \in Commit \cup {NoCommit}, claim \in BOOLEAN :
          SetCommit(t, a, commit, head[t].revision, claim, Held(t), at)

SessionStep(s, a, at) ==
    "CoordinateTask" \in Ops /\ \E text \in Text, other \in BOOLEAN, lease \in Lease :
        ReviseSession(s, a, text, other, Held(s), at, lease)

Next ==
    \/ CreateStep
    \/ \E a \in Actor, at \in Clock :
          \/ \E t \in Task : ClaimStep(t, a, at)
          \/ "CoordinateTask" \in Ops /\ \E s \in Session : ClaimStep(s, a, at)
          \/ \E t \in Task : TaskStep(t, a, at)
          \/ \E s \in Session : SessionStep(s, a, at)

Spec == Init /\ [][Next]_vars

-----------------------------------------------------------------------------
(* Properties *)

TypeOK ==
    /\ head \in [Id -> Row]
    /\ fence \in [Id -> Nat]
    /\ events \in [Id -> Seq(Event)]
    /\ creation \in [Id -> Row]
    /\ comments \in [Task -> Seq(Comment)]
    /\ drawn \in [Id -> Nat]

\* The committed tasks always form a graph that GateGraph::new accepts.  One
\* invalid graph would make every later claim, completion, creation, link and
\* view of the project fail, with no operation left to repair it.
GraphStaysValid == ValidGraph(head)

\* A completed task is and stays validly complete: its checks passed, its
\* prerequisites are validly complete and every descendant is closed, however
\* links, cancellations and new children arrive afterwards ("make incomplete
\* work impossible to close").
CompletedIsSettled ==
    \A t \in Task : head[t].status = "Completed" => t \in Settled(head)

\* A completed session holds only cancelled and validly completed tasks, and
\* none is added to it later (session_closable and the closed-session check
\* of create_task together).
ClosedSessionStaysClosed ==
    \A s \in Session : head[s].status = "Completed" => SessionClosable(head, s)

\* rows::decode accepts every committed head, whatever the skew between the
\* clocks of its writers: ownership is all or nothing with
\* claimed <= heartbeat < expires, the private token is there exactly when an
\* owner is, time does not run backwards, both kinds of check stay active.
\* A row that fails to decode blocks every operation on the project.  Beyond
\* what decode asks, a row is in progress exactly when it has an owner: bump
\* sets the one and ownership the other, in separate assignments.
RowsDecode ==
    \A r \in Id : head[r].status # "Absent" =>
        LET o == head[r].own IN
        /\ \/ o = [NoOwnership EXCEPT !.epoch = o.epoch]
           \/ /\ o.owner # NoActor /\ o.epoch > 0
              /\ o.claimed <= o.heartbeat /\ o.heartbeat < o.expires
        /\ (fence[r] # 0) <=> (o.owner # NoActor)
        /\ (head[r].status = "InProgress") <=> (o.owner # NoActor)
        /\ head[r].created <= head[r].updated
        /\ r \in Task => RequiredKinds(Active(head[r].checks))

\* The record before event i of r.
Before(r, i) == IF i = 1 THEN creation[r] ELSE events[r][i - 1].record

\* validate_history and comments::assemble accept every committed record: one
\* event per revision, the last one equal to the head, and comments numbered
\* without gap, with distinct keys, bound to a comment event of their author
\* made while that author's lease was live.
HistoryValidates ==
    /\ \A r \in Id : head[r].status # "Absent" =>
          /\ Len(events[r]) = head[r].revision - 1
          /\ \A i \in DOMAIN events[r] : events[r][i].record.revision = i + 1
          /\ head[r] = Before(r, Len(events[r]) + 1)
    /\ \A t \in Task :
          /\ \A i \in DOMAIN comments[t] :
                LET c == comments[t][i]
                    e == events[t][c.revision - 1]
                IN  /\ c.sequence = i
                    /\ \A j \in 1..(i-1) : /\ comments[t][j].key # c.key
                                         /\ comments[t][j].revision < c.revision
                                         /\ comments[t][j].at <= c.at
                    /\ head[t].created <= c.at /\ c.at <= head[t].updated
                    /\ e.kind = "CommentAdded" /\ e.actor = c.actor
                    /\ e.record.updated = c.at /\ e.record.own.owner = c.actor
                    /\ Live(e.record, c.at)
          /\ Len(comments[t]) =
                Len(SelectSeq(events[t], LAMBDA e : e.kind = "CommentAdded"))

\* Events that needed the claim: all but commit metadata and the cancellation
\* of an open task.
Fenced(r, i) ==
    LET e == events[r][i] IN
    /\ e.kind # "CommitUpdated"
    /\ ~(e.kind = "Cancelled" /\ Before(r, i).status = "Open")

\* Fencing as the history records it: within one claim epoch every fenced
\* event is by the same participant, under a lease that is never shortened,
\* and an event of a later epoch is not earlier in time than the expiry of a
\* claim that was taken over.  An owner that lost its claim never writes again.
EpochHasOneWriter ==
    \A r \in Id : \A i, j \in DOMAIN events[r] :
        LET x == events[r][i].record  y == events[r][j].record IN
        i < j /\ Fenced(r, i) /\ Fenced(r, j) =>
            /\ x.own.epoch <= y.own.epoch
            /\ x.own.epoch = y.own.epoch =>
                  /\ events[r][i].actor = events[r][j].actor
                  /\ y.own.owner # NoActor => /\ x.own.expires <= y.own.expires
                                             /\ x.own.claimed = y.own.claimed
            /\ (/\ x.own.epoch < y.own.epoch
                /\ \A m \in i..j : events[r][m].kind # "Released") =>
                  x.own.expires <= y.updated

\* A check counts as passed only on the strength of a verification of the
\* text as it is now: any later change of title, description or type made it
\* pending again (Change::Reset), also when the text was changed back.
PassedForCurrentText ==
    \A t \in Task : \A c \in Active(head[t].checks) :
        head[t].checks[c] = "Passed" =>
            \E i \in DOMAIN events[t] :
                /\ events[t][i].kind = "CheckVerified" /\ events[t][i].check = c
                /\ events[t][i].record.checks[c] = "Passed"
                /\ \A j \in i..Len(events[t]) : events[t][j].record.text = head[t].text

\* A completed or cancelled record only ever changes its commit metadata; no
\* participant, late or restarted, reopens it.
TerminalIsFinal ==
    [][\A r \in Id : Terminal(head[r].status) =>
          head'[r] = [head[r] EXCEPT !.commit = head'[r].commit,
                                     !.revision = head'[r].revision,
                                     !.updated = head'[r].updated]]_vars

-----------------------------------------------------------------------------
(* Repeating a creation *)

\* The request is rebuilt from the creation row, its checks from the row as it
\* is now, and compared with the new request.
HeldChecks(row) == {c \in Check : row.checks[c] # "None"}

ReplayAccepted(t, s, parent, deps, text, checks, commit) ==
    /\ creation[t].session = s /\ creation[t].parent = parent
    /\ creation[t].deps = deps /\ creation[t].text = text
    /\ creation[t].commit = commit
    /\ HeldChecks(head[t]) = checks

\* "Reusing a key for the same input returns the original record": repeating
\* the request that created a task is never an IdempotencyConflict.
CreationIsIdempotent ==
    \A t \in Task : Exists(head, t) =>
        ReplayAccepted(t, creation[t].session, creation[t].parent, creation[t].deps,
                       creation[t].text, HeldChecks(creation[t]), creation[t].commit)
=============================================================================
