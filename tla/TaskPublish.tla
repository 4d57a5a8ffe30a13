---------------------------- MODULE TaskPublish -----------------------------
(***************************************************************************)
(* How one operation of the task store is published: the steps that         *)
(* task_store/write.rs, task_store/lifecycle.rs and the strict commit of    *)
(* lance_branch_store.rs take between the call and its answer.              *)
(*                                                                          *)
(* The variables of TaskStore are the newest version of the dataset.  A     *)
(* client captures a version (pin, base), decides on it with the guards and *)
(* rows of TaskStore, rechecks its lease, publishes the lexical index when  *)
(* it is missing, and commits its rows, which succeeds only as version      *)
(* base + 1.  Clients run interleaved, each on its own clock, and a call    *)
(* may end at any point without an answer.                                  *)
(*                                                                          *)
(* With local storage the project writer lock is held from the capture to   *)
(* the answer; with remote storage there is only the conditional commit.    *)
(***************************************************************************)
EXTENDS TaskStore

CONSTANTS
    Client,      \* concurrent callers
    NoClient,
    ActorOf,     \* the authenticated participant of each caller
    Remote,      \* remote record storage, without the project writer lock
    ClockLimit,  \* last reading of each caller's clock
    Lossy,       \* calls may end unanswered
    Mortal       \* callers that may go away for good

ASSUME TaskPublishAssumption ==
    /\ NoClient \notin Client
    /\ ActorOf \in [Client -> Actor]
    /\ Remote \in BOOLEAN
    /\ \A n \in Clock : 1..n \subseteq Clock     \* clocks start at 1
    /\ ClockLimit \in [Client -> Clock]
    /\ Lossy \in BOOLEAN
    /\ Mortal \subseteq Client

VARIABLES
    version,   \* newest version of the dataset
    indexed,   \* the lexical index is there
    lock,      \* holder of the project writer lock
    now,       \* each caller's clock
    call,      \* each caller's operation in progress
    memory     \* what each caller remembers: the token and revision of its claims

pubVars == <<version, indexed, lock, now, call, memory>>
allVars == <<vars, pubVars>>

-----------------------------------------------------------------------------
Snapshot == [head |-> head, fence |-> fence, events |-> events, creation |-> creation,
             comments |-> comments, drawn |-> drawn]

\* The rows of one publication: the target's new row, with its event or, for
\* a creation, its creation row, and the comment of a CommentAdded event.
NoPlan == [r |-> NoTask, kind |-> "None", row |-> AbsentRow, token |-> 0, comment |-> <<>>]

Idle == [phase |-> "Idle", pin |-> <<>>, base |-> 0, indexed |-> FALSE,
         plan |-> NoPlan, lease |-> 0]

Phase == {"Idle", "Captured", "Decided", "Checked", "Committed", "Gone"}

\* A caller without a token has no use for a revision, and forgets it.
NoClaim == [token |-> 0, revision |-> 0]

\* The store as it was captured.
On(pin) == INSTANCE TaskStore WITH
    head <- pin.head, fence <- pin.fence, events <- pin.events,
    creation <- pin.creation, comments <- pin.comments, drawn <- pin.drawn

Unlocked(p) == IF lock = p THEN NoClient ELSE lock

End(p) == call' = [call EXCEPT ![p] = Idle] /\ lock' = Unlocked(p)

To(p, phase) == call' = [call EXCEPT ![p].phase = phase]

-----------------------------------------------------------------------------
(* acquire: the writer lock, when storage is local, then a pinned version *)

\* Mutant of Capture: the version is pinned before the lock is waited for, so
\* another writer may publish in between.
CaptureUnlocked(p) ==
    /\ call[p].phase = "Idle"
    /\ call' = [call EXCEPT ![p] = [Idle EXCEPT !.phase = "Captured", !.pin = Snapshot,
                                                !.base = version, !.indexed = indexed]]
    /\ UNCHANGED <<vars, version, indexed, lock, now, memory>>

Capture(p) ==
    /\ call[p].phase = "Idle"
    /\ Remote \/ lock = NoClient
    /\ lock' = IF Remote THEN lock ELSE p
    /\ call' = [call EXCEPT ![p] = [Idle EXCEPT !.phase = "Captured", !.pin = Snapshot,
                                                !.base = version, !.indexed = indexed]]
    /\ UNCHANGED <<vars, version, indexed, now, memory>>

(***************************************************************************)
(* The decision, on the captured rows.  lease is the end of the claim the   *)
(* caller writes under, 0 when it needs none (owner_lease_expires_at).      *)
(***************************************************************************)
Decided(p, r, kind, row, token, comment, lease) ==
    /\ call' = [call EXCEPT ![p] =
                  [@ EXCEPT !.phase = "Decided", !.lease = lease,
                            !.plan = [r |-> r, kind |-> kind, row |-> row,
                                      token |-> token, comment |-> comment]]]
    /\ UNCHANGED <<vars, version, indexed, lock, now, memory>>

Pin(p) == call[p].pin
LeaseEnd(p, r) == Pin(p).head[r].own.expires

DecideCreateSession(p) ==
    /\ call[p].phase = "Captured" /\ "CreateSession" \in Ops
    /\ \E s \in Session, k \in Key, text \in Text :
          /\ On(Pin(p))!CanCreateSession(s, k)
          /\ Decided(p, s, "Created", SessionRow(k, text, now[p]), 0, <<>>, 0)

DecideCreateTask(p) ==
    /\ call[p].phase = "Captured" /\ "CreateTask" \in Ops
    /\ \E t \in Task, s \in Session, parent \in Task \cup {NoTask}, deps \in SUBSET Task,
          k \in Key, text \in Text, checks \in SUBSET Check, commit \in Commit \cup {NoCommit} :
          /\ On(Pin(p))!CanCreateTask(t, k, s, parent, deps, text, checks, commit, now[p])
          /\ Decided(p, t, "Created",
                     TaskRow(k, s, parent, deps, text, checks, commit, now[p]), 0, <<>>, 0)

\* Operations on a session need the CoordinateTask admission.
Admitted(r) == r \in Task \/ "CoordinateTask" \in Ops

DecideClaim(p, r) ==
    /\ call[p].phase = "Captured" /\ "Claim" \in Ops /\ Admitted(r)
    /\ \E lease \in Lease :
          /\ On(Pin(p))!CanClaim(r, now[p], lease)
          /\ Decided(p, r, "Claimed", On(Pin(p))!ClaimRow(r, ActorOf[p], now[p], lease),
                     Pin(p).drawn[r] + 1, <<>>, 0)

\* A claimant writes under the lease it captured, presenting what it remembers.
DecidedAsOwner(p, r, kind, row, token, comment) ==
    Decided(p, r, kind, row, token, comment, LeaseEnd(p, r))

DecideRenew(p, r) ==
    /\ call[p].phase = "Captured" /\ "Renew" \in Ops /\ Admitted(r)
    /\ \E lease \in Lease :
          /\ On(Pin(p))!CanRenew(r, ActorOf[p], memory[p][r], now[p], lease)
          /\ DecidedAsOwner(p, r, "Renewed", On(Pin(p))!RenewRow(r, now[p], lease),
                            memory[p][r].token, <<>>)

DecideRelease(p, r) ==
    /\ call[p].phase = "Captured" /\ "Release" \in Ops /\ Admitted(r)
    /\ On(Pin(p))!CanRelease(r, ActorOf[p], memory[p][r], now[p])
    /\ DecidedAsOwner(p, r, "Released", On(Pin(p))!ReleaseRow(r, now[p]), 0, <<>>)

DecideComplete(p, r) ==
    /\ call[p].phase = "Captured" /\ "Complete" \in Ops /\ Admitted(r)
    /\ On(Pin(p))!CanComplete(r, ActorOf[p], memory[p][r], now[p])
    /\ DecidedAsOwner(p, r, "Completed", On(Pin(p))!ClosedRow(r, now[p], "Completed"), 0, <<>>)

DecideComment(p, t) ==
    /\ call[p].phase = "Captured" /\ "Comment" \in Ops
    /\ \E k \in Key, body \in Text, lease \in Lease :
          /\ On(Pin(p))!CanComment(t, ActorOf[p], k, memory[p][t], now[p], lease)
          /\ DecidedAsOwner(p, t, "CommentAdded", On(Pin(p))!RenewRow(t, now[p], lease),
                            memory[p][t].token,
                            <<On(Pin(p))!CommentRow(t, ActorOf[p], k, body, now[p])>>)

DecideLinks(p, t) ==
    /\ call[p].phase = "Captured" /\ "Links" \in Ops
    /\ \E parent \in Task \cup {NoTask}, deps \in SUBSET Task, lease \in Lease :
          /\ On(Pin(p))!CanLink(t, ActorOf[p], parent, deps, memory[p][t], now[p], lease)
          /\ DecidedAsOwner(p, t, "LinksUpdated",
                            On(Pin(p))!LinksRow(t, parent, deps, now[p], lease),
                            memory[p][t].token, <<>>)

\* An open task is cancelled without a claim and has no lease to recheck.
DecideCancel(p, t) ==
    /\ call[p].phase = "Captured" /\ "Cancel" \in Ops
    /\ On(Pin(p))!CanCancel(t, ActorOf[p], memory[p][t], now[p])
    /\ DecidedAsOwner(p, t, "Cancelled", On(Pin(p))!ClosedRow(t, now[p], "Cancelled"), 0, <<>>)

\* What a call needs of its clock before it is answered without a write: not
\* behind the row, and early enough for the lease it asks for.
ClockServes(p, r) ==
    /\ now[p] >= Pin(p).head[r].updated
    /\ \E lease \in Lease : CanExpire(now[p], lease)

\* Mutant of Reclaim: a live claim is returned to whoever asks.
ReclaimAny(p, r) ==
    /\ call[p].phase = "Captured" /\ "Claim" \in Ops /\ Admitted(r)
    /\ ClockServes(p, r)
    /\ Live(Pin(p).head[r], now[p])
    /\ memory' = [memory EXCEPT ![p][r] = On(Pin(p))!Held(r)]
    /\ End(p)
    /\ UNCHANGED <<vars, version, indexed, now>>

\* A live claim is returned to its owner, token included, without a write:
\* how a caller whose answer was lost learns the outcome of its claim.
Reclaim(p, r) ==
    /\ call[p].phase = "Captured" /\ "Claim" \in Ops /\ Admitted(r)
    /\ ClockServes(p, r)
    /\ Live(Pin(p).head[r], now[p]) /\ Pin(p).head[r].own.owner = ActorOf[p]
    /\ memory' = [memory EXCEPT ![p][r] = On(Pin(p))!Held(r)]
    /\ End(p)
    /\ UNCHANGED <<vars, version, indexed, now>>

\* A comment whose key is known is answered from the rows, under the claim it
\* was made with and for the revision it was sent at or the newest one.
RecallComment(p, t) ==
    /\ call[p].phase = "Captured" /\ "Comment" \in Ops
    /\ ClockServes(p, t)
    /\ Pin(p).head[t].status = "InProgress"
    /\ On(Pin(p))!CheckOwner(t, ActorOf[p], [memory[p][t] EXCEPT !.revision =
                                              Pin(p).head[t].revision], now[p])
    /\ \E i \in DOMAIN Pin(p).comments[t] :
          LET c == Pin(p).comments[t][i] IN
          /\ c.actor = ActorOf[p]
          /\ Pin(p).events[t][c.revision - 1].record.own.epoch = Pin(p).head[t].own.epoch
          /\ memory[p][t].revision \in {Pin(p).head[t].revision, c.revision - 1}
    /\ memory' = [memory EXCEPT ![p][t].revision = Pin(p).head[t].revision]
    /\ End(p)
    /\ UNCHANGED <<vars, version, indexed, now>>

\* A request that is refused, and a read, which tells a claimant the revision.
Refuse(p) ==
    /\ call[p].phase = "Captured"
    /\ \/ UNCHANGED memory
       \/ \E r \in Id :
             /\ memory[p][r].token # 0
             /\ memory' = [memory EXCEPT ![p][r].revision = Pin(p).head[r].revision]
    /\ End(p)
    /\ UNCHANGED <<vars, version, indexed, now>>

-----------------------------------------------------------------------------
(* commit: recheck, index, recheck, strict commit, recheck *)

LeaseHolds(p) == call[p].lease = 0 \/ now[p] < call[p].lease

\* commit_index: the index is a version of its own, committed like any other;
\* the rows are then prepared against that version.
PublishIndex(p) ==
    /\ call[p].phase = "Decided" /\ LeaseHolds(p)
    /\ ~call[p].indexed /\ version = call[p].base
    /\ indexed' = TRUE
    /\ version' = version + 1
    /\ call' = [call EXCEPT ![p].base = version + 1, ![p].indexed = TRUE]
    /\ UNCHANGED <<vars, lock, now, memory>>

\* The last check before the rows are handed to the commit.
Recheck(p) ==
    /\ call[p].phase = "Decided" /\ LeaseHolds(p)
    /\ call[p].indexed
    /\ To(p, "Checked")
    /\ UNCHANGED <<vars, version, indexed, lock, now, memory>>

\* LeaseExpired before the commit, or another writer's version in its place:
\* nothing of the plan is written and the caller is told so.
Abort(p) ==
    /\ \/ call[p].phase = "Decided" /\ ~LeaseHolds(p)
       \/ call[p].phase = "Decided" /\ ~call[p].indexed /\ version # call[p].base
       \/ call[p].phase = "Checked" /\ version # call[p].base
    /\ End(p)
    /\ UNCHANGED <<vars, version, indexed, now, memory>>

\* Mutant of Merge: the comment row is left out of the batch.
MergeHead(p, plan) ==
    IF plan.kind = "Created"
    THEN Create(plan.r, plan.row)
    ELSE /\ Publish(plan.r, ActorOf[p], plan.kind, NoCheck, plan.row, plan.token)
         /\ drawn' = IF plan.kind = "Claimed" THEN [drawn EXCEPT ![plan.r] = @ + 1]
                     ELSE drawn
         /\ UNCHANGED comments

\* The merge of the planned rows into the dataset, keyed by row.
Merge(p, plan) ==
    IF plan.kind = "Created"
    THEN Create(plan.r, plan.row)
    ELSE /\ Publish(plan.r, ActorOf[p], plan.kind, NoCheck, plan.row, plan.token)
         /\ comments' = IF plan.comment = <<>> THEN comments
                        ELSE [comments EXCEPT ![plan.r] = Append(@, plan.comment[1])]
         /\ drawn' = IF plan.kind = "Claimed" THEN [drawn EXCEPT ![plan.r] = @ + 1]
                     ELSE drawn

\* Mutant of StrictCommit: the rows are rebased onto the newest version.
RebasedCommit(p) ==
    /\ call[p].phase = "Checked"
    /\ Merge(p, call[p].plan)
    /\ version' = version + 1
    /\ To(p, "Committed")
    /\ UNCHANGED <<indexed, lock, now, memory>>

StrictCommit(p) ==
    /\ call[p].phase = "Checked"
    /\ version = call[p].base
    /\ Merge(p, call[p].plan)
    /\ version' = version + 1
    /\ To(p, "Committed")
    /\ UNCHANGED <<indexed, lock, now, memory>>

\* The answer, with the token and the revision of the row just written; when
\* the lease ran out meanwhile it is Confirmed, which carries only the version.
Answer(p) ==
    /\ call[p].phase = "Committed"
    /\ memory' = IF LeaseHolds(p)
                 THEN [memory EXCEPT ![p][call[p].plan.r] =
                         IF call[p].plan.token = 0 THEN NoClaim
                         ELSE [token |-> call[p].plan.token,
                               revision |-> call[p].plan.row.revision]]
                 ELSE memory
    /\ End(p)
    /\ UNCHANGED <<vars, version, indexed, now>>

-----------------------------------------------------------------------------
(* The environment *)

\* The call ends unanswered: cancelled, disconnected or its process killed.
\* The operating system releases the writer lock.
Crash(p) ==
    /\ Lossy
    /\ call[p].phase \notin {"Idle", "Gone"}
    /\ End(p)
    /\ UNCHANGED <<vars, version, indexed, now, memory>>

\* Mutant of Depart: the lock outlives its holder.
DepartLocked(p) ==
    /\ p \in Mortal
    /\ call[p].phase # "Gone"
    /\ call' = [call EXCEPT ![p] = [Idle EXCEPT !.phase = "Gone"]]
    /\ memory' = [memory EXCEPT ![p] = [r \in Id |-> NoClaim]]
    /\ UNCHANGED <<vars, version, indexed, lock, now>>

\* The caller is gone for good, with all it remembers.
Depart(p) ==
    /\ p \in Mortal
    /\ call[p].phase # "Gone"
    /\ call' = [call EXCEPT ![p] = [Idle EXCEPT !.phase = "Gone"]]
    /\ lock' = Unlocked(p)
    /\ memory' = [memory EXCEPT ![p] = [r \in Id |-> NoClaim]]
    /\ UNCHANGED <<vars, version, indexed, now>>

\* Mutant of Tick: a clock before the epoch reads as zero.
TickToZero(p) ==
    /\ now[p] < ClockLimit[p]
    /\ now' = [now EXCEPT ![p] = 0]
    /\ UNCHANGED <<vars, version, indexed, lock, call, memory>>

Tick(p) ==
    /\ now[p] < ClockLimit[p]
    /\ now' = [now EXCEPT ![p] = @ + 1]
    /\ UNCHANGED <<vars, version, indexed, lock, call, memory>>

PubInit ==
    /\ Init
    /\ version = 1 /\ indexed = FALSE
    /\ lock = NoClient
    /\ now = [p \in Client |-> 1]
    /\ call = [p \in Client |-> Idle]
    /\ memory = [p \in Client |-> [r \in Id |-> NoClaim]]

Step(p) ==
    \/ Capture(p) \/ DecideCreateSession(p) \/ DecideCreateTask(p)
    \/ \E r \in Id : \/ DecideClaim(p, r) \/ Reclaim(p, r)
                    \/ DecideRenew(p, r) \/ DecideRelease(p, r) \/ DecideComplete(p, r)
    \/ \E t \in Task : \/ DecideComment(p, t) \/ RecallComment(p, t)
                      \/ DecideLinks(p, t) \/ DecideCancel(p, t)
    \/ Refuse(p)
    \/ PublishIndex(p) \/ Recheck(p) \/ Abort(p) \/ StrictCommit(p) \/ Answer(p)

PubNext ==
    \E p \in Client : Step(p) \/ Crash(p) \/ Depart(p) \/ Tick(p)

PubSpec == PubInit /\ [][PubNext]_allVars

(***************************************************************************)
(* Of the callers that stay: a call that was started is scheduled until it  *)
(* is answered, clocks run, and a caller that keeps coming back asks for    *)
(* the claim again and again (the claim loop of an executor).  Nothing is   *)
(* assumed of a caller that may go away.                                    *)
(***************************************************************************)
Fairness ==
    \A p \in Client \ Mortal :
        /\ WF_allVars(Tick(p))
        /\ WF_allVars(Capture(p))
        /\ WF_allVars(PublishIndex(p) \/ Recheck(p) \/ StrictCommit(p) \/ Answer(p)
                      \/ Abort(p))
        /\ \A t \in Task : SF_allVars(DecideClaim(p, t))

-----------------------------------------------------------------------------
(* Properties *)

PubTypeOK ==
    /\ version \in Nat /\ indexed \in BOOLEAN
    /\ lock \in Client \cup {NoClient}
    /\ now \in [Client -> Clock]
    /\ memory \in [Client -> [Id -> ClaimUpdate]]
    /\ \A p \in Client : /\ call[p].phase \in Phase
                         /\ call[p].base \in Nat /\ call[p].lease \in Nat
                         /\ call[p].plan.row \in Row

\* Whatever the interleaving of captures, decisions, rechecks and commits,
\* and whatever call is lost, the dataset evolves by whole operations of
\* TaskStore, each decided on the state it is applied to: decisions taken on
\* a stale capture never reach the dataset.
ImplementsStore == Spec

\* With local storage the writer lock, taken before the capture, makes every
\* capture current until its commit: no local operation ever fails with a
\* commit conflict.
LocalCaptureIsCurrent ==
    ~Remote => \A p \in Client : call[p].phase \in {"Captured", "Decided", "Checked"} =>
        /\ lock = p
        /\ call[p].base = version /\ call[p].pin = Snapshot

\* A token that opens a record's claim now is known to its owner only: two
\* callers that decided on the same capture are never both told they own it.
TokenIsPrivate ==
    \A p \in Client, r \in Id :
        memory[p][r].token # 0 /\ memory[p][r].token = fence[r] =>
            head[r].own.owner = ActorOf[p]

\* A task whose owner is gone, and whose prerequisites are complete, is
\* eventually taken over (or its revision counter is exhausted): the lease
\* runs out, nothing else reserves the task and the lock is not left behind.
\* The prerequisites are part of the promise: an owner may link its task to an
\* unfinished or cancelled one and vanish, and as require_ready refuses every
\* later claim and only a live owner cancels work in progress, the task then
\* stays with that owner until its prerequisites complete, if they ever do.
Takeover ==
    \A t \in Task, p \in Mortal :
        (/\ call[p].phase = "Gone" /\ head[t].own.owner = ActorOf[p]
         /\ \A d \in head[t].deps : ValidComplete(head, d))
            ~> (head[t].own.owner # ActorOf[p] \/ head[t].revision = MaxRevision)
=============================================================================
