# A TLA+ verification of graphit-code

graphit-code gives a team of people and coding agents a shared memory of a
project: a code graph, documents, memories and a task store, published as
versions of Lance datasets, locally or on remote storage. This directory models
the parts of it where correctness depends on state and on interleaving, checks
them with TLC and proves the central invariants with TLAPS.

The first stage covers the **task store**, the coordination heart of the system:
several participants create sessions and tasks, claim them under a lease, verify
their checks, link them to each other and close them, and "incomplete work is
impossible to close".

## The system

| Part | Source | State and operations | Modelled in |
|---|---|---|---|
| Record gates | `crates/graphit-records/src/gates.rs` | pure evaluation of a task graph: readiness, completion, session closing | `Gates`, `GateGraph` |
| Specification planners | `.../task_spec.rs` | pure transitions of a task's checks | `TaskSpec` |
| Native task store | `.../task_store/{lifecycle,write,read,specification,comments,model}.rs` | task, session, event, creation and comment rows; nineteen mutations | `TaskStore` |
| Publication of an operation | `.../task_store/{write,lexical_index}.rs`, `crates/graphit-data/src/lance_branch_store.rs`, `crates/graphit-core/src/{artifact_store,file_lock}.rs` | captured version, writer lock, lexical index, conditional commit | `TaskPublish` |
| Row codec, history validation | `.../task_store/{rows,read}.rs` | what a committed row and its history must satisfy | invariants of `TaskStore` |
| Branch store | `lance_branch_store.rs` | inherited, materialized and retired branches, recovery keys | the strict commit only |
| Git records | `.../git_records.rs`, `task_store/git.rs` | checkout, merge and push of record branches | planned |
| Memory stores | `.../memory_store.rs`, `user_memory_store.rs` | creation, revision, retirement of memories | planned |
| Daemon | `crates/graphit-daemon` | checkout supervisor, watcher mailbox, Dream | planned |
| Process host | `crates/graphit-process` | children and services that outlive their caller | planned |
| Hub | `crates/graphit-hub` | journalled publication and installation | planned |
| Artifact store | `crates/graphit-core/src/artifact_store.rs` | durable intent and receipts | planned |
| Authentication | `crates/graphit-auth` | identity and admission | inputs (`Actor`, `Ops`) |
| AST, knowledge, AI, app, UI, transport | other crates, `ui/` | parsing, search, rendering, external tools | not modelled |

How the parts interact: a caller (CLI, MCP or HTTP server) holds an
authenticated admission, which names its participant and the operations it may
use. The task store is stateless; every operation captures a version of the
project's task dataset, decides on the captured rows (gates and planners
included) and publishes a new head row, an immutable event and, for a comment,
the comment row in one conditional commit. Local storage adds the project
writer lock around the whole operation; remote storage has only the conditional
commit.

What makes it hard: two writers on captures of one version, each right alone;
leases that run out between a check and a commit; answers lost after the commit
and retried; clocks of different machines; participants that vanish; long
sequences of links, cancellations and revisions after which a closed record must
still deserve to be closed. `PROJECT.json` lists these hazards at their source
lines, with the properties that cover them.

## The modules

### TaskSpec, Gates

`TaskSpec` is the planners of `task_spec.rs` over one task's checks. The code
never holds two checks of the same kind and text, so a check *is* that pair, and
the state of a specification is a function from checks to their status.
Verification evidence, reasons, priority and calendar are data without influence
on control; a revision that changes only these is the parameter `other`.

`Gates` states what `gates.rs` decides, without its algorithm: a graph is valid
when its links resolve and no set of tasks waits for itself in a circle; a
closed task is settled when it belongs to a set of closed tasks that support
each other (`Settled` is the largest such set).

### GateGraph

`GateGraph::new` as the worklist it is. `Link` builds edges and counters,
`Visit(u)` is one iteration of the `while` loop, `Finish` the final test. The
code's queue is a vector visited in order; the model visits any queued task, so
the results do not rest on the order. Duplicate identifiers and duplicate
prerequisites, which the code rejects first, cannot be written in the model.

### TaskStore

One atomic step per operation. `head`, `fence`, `events`, `creation` and
`comments` are the rows of the dataset by kind; `drawn` counts the random claim
tokens of a record, so that a token is a number never drawn before. Each
mutation of `lifecycle.rs::mutate` has a guard `CanX` taken from its early
returns and a row `XRow` taken from its assignments; the shared prologue is
`CanMutate`, the fence check `CheckOwner`, the epilogue `Publish`. An error
changes nothing and is no step; an idempotent replay writes nothing and is no
step either.

`Ops` names the operations the participants are admitted to; a run restricts it
to the operations its question is about. "CoordinateTask" is the admission that
operations on a session need. Time is the caller's own clock: any reading that
is not before the record's last update, which is all the code demands. 0 stands
for an absent timestamp or token. A caller may present any token and revision;
only the ones that the row accepts lead to a step, so only these are enumerated
(`Held`).

Abstracted: authored text (one value for title, description and type), progress
(its sequence number), references and schedule, the reference projection row,
identifiers, reasons and evidence.

### TaskPublish

The same operations in the steps the code takes. The variables of `TaskStore`
are the newest version of the dataset. A caller captures a version (`Capture`,
with the writer lock if storage is local), decides on the captured rows
(one `DecideX` action per operation: `DecideCreateSession`, `DecideCreateTask`,
`DecideClaim`, `DecideRenew`, `DecideRelease`, `DecideComplete`, `DecideComment`,
`DecideLinks`, `DecideCancel`; the guards are those of `TaskStore`, evaluated on
the capture by `On(pin) == INSTANCE TaskStore WITH head <- pin.head ...`), publishes
the lexical index if its capture has none (`PublishIndex`, a version of its
own), rechecks its lease (`Recheck`), and commits (`StrictCommit`), which
succeeds only as version base + 1; `Abort` is the other outcome. `Answer` gives
the caller its token and revision, or, when the lease ran out after the commit,
only the version (`Confirmed`). `Crash` ends a call at any point without an
answer, and `Depart` ends the caller; in both the kernel releases the lock. Each
caller's clock advances by itself. `Reclaim` and `RecallComment` are the retries
that are answered from the rows; like a write they fail when the caller's clock
is behind the row or too late for the lease it asks for (`ClockServes`).

`memory` is what a caller remembers of its claims, a token with a revision. A
revision is only ever presented together with a token, so a caller without one
remembers nothing (`NoClaim`).

Of the operations of `TaskStore`, `TaskPublish` has one or more of every kind of
write: creation, claim, renewal, handover, closing with and without a claim, a
change of the graph, and a comment. The others (progress, revision, verification,
supersession, flags, commit metadata) differ from these only in the row they
decide on. A branch is materialized before the first capture.

## What is checked

All runs finish in under five minutes on two workers. The bounds are the
constants of the `.cfg` files.

| Run | Question | Bounds |
|---|---|---|
| `gate_graph` | Does the worklist compute the declarative gates, and always return? | every graph of three tasks in one session, two of which may be absent, self-linked, foreign, flagged or failed, in every visiting order |
| `store_close` | Can a closed task or session stop deserving it? | three tasks, one session, verification, completion, cancellation |
| `store_relink` | The same with relinking and release; can operations build a graph that the gates reject? | two tasks, two sessions |
| `store_claims` | Do fencing, history and row validity survive skewed clocks and takeovers? | one task, two participants, three readings, two leases, six revisions |
| `store_specification` | Do checks stay honest under revision, verification, supersession, comments? | one task, three checks, six revisions |
| `store_session` | The claim questions for a session record | two coordinators, three readings, six revisions |
| `store_replay` | Is repeating a creation request accepted? (no: see below) | one task |
| `publish_remote` | Do interleaved calls without a lock implement `TaskStore`, with lost answers? | two participants, two readings, one task that is claimed, renewed, commented, released and cancelled |
| `publish_links` | Write skew on the graph | two participants, two tasks, any parents and prerequisites |
| `publish_session` | Closing a session against creating a task in it | two participants |
| `publish_local` | Is a capture under the lock current until its commit? | two processes of one participant |
| `publish_takeover` | Is the task of a vanished owner taken over, if its prerequisites are complete? | one mortal participant, one other, two tasks, relinking, two readings |

Why the bounds are enough: cycles, unfinished grandchildren and
prerequisite-and-child edges need two or three tasks; a takeover needs two
participants, an expiry and a reading after it; the write-skew cases need two
concurrent calls on one version. `MaxRevision` and `MaxStamp` stand for
`u64::MAX` where the code's checked additions fail, and bound the state space.
In the two runs with `VIEW GraphView` there is a single clock reading
and revisions, tokens and history enable nothing, so states that differ only in
these are identified; `MaxRevision` is then beyond every reachable revision.

`publish_takeover` starts from a session with two created tasks, the second of
which is open, completed or cancelled: states that the operations of `TaskStore`
lead to, written out because a liveness check over all the interleavings that
create them is out of reach. Its property has a condition, that
the prerequisites of the abandoned task are complete, and the run reaches both
sides of it: an owner may link its task to the open or to the cancelled one and
vanish, after which nobody can claim it (`require_ready`) nor cancel it (no live
owner). Without the condition TLC finds that behaviour. It is what
`docs/specs/native_task_store.md` describes (a claim needs a ready task, a
cancellation of work in progress its live owner) and is listed as a hazard.

Fairness is assumed in `publish_takeover` only (and in `GateGraph`, a sequential
call that runs to its end): clocks advance, a call that has started is scheduled
until it ends, and the waiting participant repeats its claim as the executor's
claim loop does, hence strong fairness of the claim's decision, which is enabled
only while its call is at that point. Nothing is assumed of a caller that may
depart (`Mortal`), before or after it does.

Every property has a mutant: a plausible bug in a mapped definition, written
next to it, under which TLC finds the property violated. `PROJECT.json` lists
them.

## Finding

`store_replay` shows that repeating the request that created a task can be
refused. On a known idempotency key `create_task` rebuilds the original request
for comparison from the creation row, but its checks from the *current*
specification (`write.rs:478-486`). Once a check was added or superseded with a
replacement, an identical retry is an `IdempotencyConflict`, while
`docs/specs/native_task_store.md:146` says "Reusing a key for the same input
returns the original record". Sessions behave as documented.

## What is proved

`TaskStoreProofs` proves for any number of tasks, sessions, participants, keys,
checks and clock readings, from the assumptions `ChecksAssumption`,
`TaskAssumption` and `TaskStoreAssumption` only (sentinels are distinct from
identities, bounds, readings and leases are numbers):

* `TypeCorrect`: `Spec => []TypeOK`.
* `GraphAlwaysValid`: `Spec => []GraphStaysValid`.
* `CompletedStaysSettled`: `Spec => []CompletedIsSettled`.
* `SessionsStayClosed`: `Spec => []ClosedSessionStaysClosed`.
* `TerminalNeverReopens`: `Spec => TerminalIsFinal`.

The argument. Nineteen operations replace one row in only six ways: a row is
created, worked on, relinked, completed, cancelled or noted (commit metadata).
`StepShape` shows that every step has one of these shapes, with the guard that
the shape rests on (`RelationsHold`, `GatesOpen`, or an open session). The three
gate invariants are then shown once per shape, not once per operation:

* the graph: only creation and relinking change edges, and for these
  `RelationsHold` evaluated the graph with the new row. The other shapes keep or
  remove edges (`GatesProofs!FewerEdgesStayValid`; cancellation removes
  prerequisite edges);
* completed tasks: the settled set of the old state stays supported, since no
  shape changes a closed member's facts or adds a child under one
  (`SupportIsKept`), and the task just completed joins it by `Completion`;
* closed sessions: no shape adds a task to a closed session or changes one of
  its tasks.

None of these is inductive alone. Closed records are out of reach only because
the fence check implies an owner and an owner implies a record in progress, so
the inductive invariant `GateInv` adds `OwnedInProgress` (a consequence of
`RowsDecode`, which the runs check).

`TaskPublishProofs` proves, for any number of callers, any clocks that start at 1
and advance within `Clock` (`TaskPublishAssumption`), with and without the writer
lock, and with calls lost at any point:

* `PublishImplementsStore`: `PubSpec => ImplementsStore`.
* `GatesHoldWhenPublished`: the three gate invariants above hold of the dataset
  under interleaved publication.

The argument. The inductive invariant `PubInv` says of every call in progress
that its base is at most the newest version, that its capture equals the newest
rows if the base is the newest version, and that its plan is `Justified`: the
outcome of one operation whose guards held on the capture. Any commit, of rows
or of the index, makes the bases of the other calls old (`CommitLeavesCalls`),
while the caller that published the index moves its own base along. The strict
commit succeeds only on the newest version, so its plan is justified on the rows
it is merged into, and that merge is one step of `TaskStore` (`CommitIsStep`).
`PubInv` also records that a remembered claim is a token and a revision, because
what passes the fence on a capture is then what the captured row holds
(`FenceIsHeld`), which is the claim that `TaskStore` enumerates.

Every decision has a lemma of its own (`DecideXKeeps`): the plan it makes is
justified on the capture. An open task is cancelled without looking at the
claim, so `DecideCancelKeeps` needs the fence in one of its two cases only.

Only model-checked: the worklist of `GateGraph` against `Gates` (induction over
the visited set is possible and planned; the recursion-free formulation of
`Gates` was chosen for it), the history properties, `TokenIsPrivate`,
`LocalCaptureIsCurrent`, and liveness, which this prover does not handle.

## Plan

1. The remaining operations in `TaskPublish` (progress, revision, verification,
   supersession, flags, commit metadata), and proofs of `TokenIsPrivate` and
   `LocalCaptureIsCurrent`.
2. `BranchStore`: inherited and materialized branches, retirement and reuse of a
   name, recovery keys, restored commits; composed with `TaskPublish`.
3. `GitRecords`: three-way merge and checkout of record families, its two-commit
   application, and which `TaskStore` invariants survive a merge.
4. Memory stores over the same publication protocol.
5. `CheckoutSupervisor` (daemon) and `ProcessHost`: coalescing, bounded
   mailboxes, shutdown, ownership of children.
6. `ArtifactStore` and `HubPublication`: durable intent, crash and recovery.
7. Proofs of `GateGraph`, `EpochHasOneWriter` and `RowsDecode`.

Not planned: parsers and code graphs, search and embeddings, rendering,
authentication and its cryptography, and the web interface: they are data
transformation, external tools or outside a model checker's reach.

## Running it

    tlc -workers 2 -config TaskStoreClaims.cfg MCTaskStore
    tlapm TaskStoreProofs.tla
    tlapm TaskPublishProofs.tla
