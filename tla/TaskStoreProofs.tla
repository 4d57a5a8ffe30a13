-------------------------- MODULE TaskStoreProofs ---------------------------
(***************************************************************************)
(* Proofs, for every value of the constants, that the records of TaskStore  *)
(* stay well typed, that their graph stays valid, and that what was closed  *)
(* on the strength of the gates stays closed.                               *)
(*                                                                          *)
(* Every operation replaces one row.  StepShape says which of six ways it   *)
(* may do so, from the guards of the operation; the invariants are then     *)
(* proved once per way and not once per operation.                          *)
(***************************************************************************)
EXTENDS TaskStore, GatesProofs

-----------------------------------------------------------------------------
(* Types *)

\* Clock readings and leases are numbers, and so are their sums.
LEMMA TimeTypes ==
    /\ \A at \in Clock : at \in Nat
    /\ \A lease \in Lease : lease \in Nat
    /\ \A at \in Clock, lease \in Lease : at + lease \in Nat
  <1>1. Clock \subseteq Nat /\ Lease \subseteq Nat
    BY TaskStoreAssumption
  <1>2. ASSUME NEW at \in Clock, NEW lease \in Lease
        PROVE  at + lease \in Nat
    <2>1. at \in Nat /\ lease \in Nat
      BY <1>1
    <2> QED BY <2>1
  <1> QED BY <1>1, <1>2

\* The rows that bump, clear_owner and renew make from a row are rows.
LEMMA RowTypes ==
    /\ AbsentRow \in Row
    /\ \A row \in Row, at \in Clock, status \in TaskStatus : Bumped(row, at, status) \in Row
    /\ \A row \in Row : ClearedOwner(row) \in Row
    /\ \A row \in Row, at \in Clock, lease \in Lease : Renewed(row, at, lease) \in Row
  <1>1. AbsentRow \in Row
    BY DEF AbsentRow, Row, NoOwnership, Ownership, TaskStatus, CheckStatus
  <1>2. ASSUME NEW row \in Row, NEW at \in Clock, NEW status \in TaskStatus
        PROVE  Bumped(row, at, status) \in Row
    <2>1. at \in Nat /\ row.revision \in Nat
      BY Zenon, TimeTypes DEF Row
    <2>2. row.revision + 1 \in Nat
      BY <2>1
    <2> QED BY Zenon, <2>1, <2>2 DEF Bumped, Row
  <1>3. ASSUME NEW row \in Row
        PROVE  ClearedOwner(row) \in Row
    BY Zenon DEF ClearedOwner, Row, NoOwnership, Ownership
  <1>4. ASSUME NEW row \in Row, NEW at \in Clock, NEW lease \in Lease
        PROVE  Renewed(row, at, lease) \in Row
    <2>1. row.own \in Ownership /\ row.own.expires \in Nat
      BY Zenon DEF Row, Ownership
    <2>2. Later(row.own.expires, at + lease) \in Nat /\ at \in Nat
      BY SMTT(30), <2>1, TimeTypes DEF Later
    <2> QED BY Zenon, <2>1, <2>2 DEF Renewed, Row, Ownership
  <1> QED BY <1>1, <1>2, <1>3, <1>4

\* A row stays a row when one of its authored fields is replaced.
LEMMA FieldTypes ==
    ASSUME NEW row \in Row
    PROVE  /\ row.checks \in [Check -> CheckStatus]
           /\ \A text \in Text : [row EXCEPT !.text = text] \in Row
           /\ \A checks \in [Check -> CheckStatus] : [row EXCEPT !.checks = checks] \in Row
           /\ \A parent \in Task \cup {NoTask}, deps \in SUBSET Task :
                 [row EXCEPT !.parent = parent, !.deps = deps] \in Row
           /\ \A flagged \in BOOLEAN : [row EXCEPT !.flagged = flagged] \in Row
           /\ \A commit \in Commit \cup {NoCommit} : [row EXCEPT !.commit = commit] \in Row
  <1>1. row.checks \in [Check -> CheckStatus]
    BY Zenon DEF Row
  <1>2. ASSUME NEW text \in Text PROVE [row EXCEPT !.text = text] \in Row
    BY Zenon DEF Row
  <1>3. ASSUME NEW checks \in [Check -> CheckStatus] PROVE [row EXCEPT !.checks = checks] \in Row
    BY Zenon DEF Row
  <1>4. ASSUME NEW parent \in Task \cup {NoTask}, NEW deps \in SUBSET Task
        PROVE  [row EXCEPT !.parent = parent, !.deps = deps] \in Row
    BY Zenon DEF Row
  <1>5. ASSUME NEW flagged \in BOOLEAN PROVE [row EXCEPT !.flagged = flagged] \in Row
    BY Zenon DEF Row
  <1>6. ASSUME NEW commit \in Commit \cup {NoCommit} PROVE [row EXCEPT !.commit = commit] \in Row
    BY Zenon DEF Row
  <1> QED BY Zenon, <1>1, <1>2, <1>3, <1>4, <1>5, <1>6

\* The planners of task_spec.rs map checks to checks.
LEMMA CheckTypes ==
    /\ \A S \in SUBSET Check : FreshChecks(S) \in [Check -> CheckStatus]
    /\ \A checks \in [Check -> CheckStatus], add \in SUBSET Check, reset \in BOOLEAN :
          RevisedChecks(checks, add, reset) \in [Check -> CheckStatus]
    /\ \A checks \in [Check -> CheckStatus], c \in Check, passed \in BOOLEAN :
          VerifiedChecks(checks, c, passed) \in [Check -> CheckStatus]
    /\ \A checks \in [Check -> CheckStatus], c \in Check, x \in Check \cup {NoCheck} :
          SupersededChecks(checks, c, x) \in [Check -> CheckStatus]
  <1>1. ASSUME NEW S \in SUBSET Check
        PROVE  FreshChecks(S) \in [Check -> CheckStatus]
    BY DEF FreshChecks, CheckStatus
  <1>2. ASSUME NEW checks \in [Check -> CheckStatus], NEW add \in SUBSET Check,
               NEW reset \in BOOLEAN
        PROVE  RevisedChecks(checks, add, reset) \in [Check -> CheckStatus]
    BY DEF RevisedChecks, CheckStatus
  <1>3. ASSUME NEW checks \in [Check -> CheckStatus], NEW c \in Check, NEW passed \in BOOLEAN
        PROVE  VerifiedChecks(checks, c, passed) \in [Check -> CheckStatus]
    BY DEF VerifiedChecks, CheckStatus
  <1>4. ASSUME NEW checks \in [Check -> CheckStatus], NEW c \in Check,
               NEW x \in Check \cup {NoCheck}
        PROVE  SupersededChecks(checks, c, x) \in [Check -> CheckStatus]
    BY DEF SupersededChecks, CheckStatus
  <1> QED BY Zenon, <1>1, <1>2, <1>3, <1>4

\* What an operation publishes is well typed when its row, its token and its
\* event are.
LEMMA PublishTypes ==
    ASSUME TypeOK, NEW r \in Id, NEW a \in Actor, NEW kind \in EventKind,
           NEW check \in Check \cup {NoCheck}, NEW row \in Row, NEW token \in Nat,
           Publish(r, a, kind, check, row, token)
    PROVE  /\ head' \in [Id -> Row] /\ fence' \in [Id -> Nat]
           /\ events' \in [Id -> Seq(Event)] /\ creation' \in [Id -> Row]
  <1>1. [actor |-> a, kind |-> kind, check |-> check, record |-> row] \in Event
    BY DEF Event
  <1>2. events' \in [Id -> Seq(Event)]
    <2>1. events[r] \in Seq(Event)
      BY DEF TypeOK
    <2>2. Append(events[r], [actor |-> a, kind |-> kind, check |-> check, record |-> row])
             \in Seq(Event)
      BY <1>1, <2>1
    <2> QED BY <2>2 DEF Publish, TypeOK
  <1> QED BY <1>2 DEF Publish, TypeOK

\* The rows that claim, renew, progress, comment and the specification
\* mutations write are rows.
LEMMA OperationRows ==
    ASSUME TypeOK, NEW r \in Id, NEW a \in Actor, NEW at \in Clock, NEW lease \in Lease
    PROVE  /\ head[r] \in Row
           /\ ClaimRow(r, a, at, lease) \in Row
           /\ RenewRow(r, at, lease) \in Row
           /\ ProgressRow(r, at, lease) \in Row
  <1>1. head[r] \in Row
    BY DEF TypeOK
  <1>2. ClaimRow(r, a, at, lease) \in Row
    <2>1. head[r].own \in Ownership /\ head[r].own.epoch \in Nat
      BY Zenon, <1>1 DEF Row, Ownership
    <2>2. head[r].own.epoch + 1 \in Nat /\ at \in Nat /\ at + lease \in Nat
      BY <2>1, TimeTypes
    <2>3. [head[r] EXCEPT !.own = [owner |-> a, epoch |-> head[r].own.epoch + 1,
                                   claimed |-> at, heartbeat |-> at,
                                   expires |-> at + lease]] \in Row
      BY Zenon, <1>1, <2>2 DEF Row, Ownership
    <2> QED BY <2>3, RowTypes DEF ClaimRow, TaskStatus
  <1>3. RenewRow(r, at, lease) \in Row
    BY <1>1, RowTypes DEF RenewRow, TaskStatus
  <1>4. ProgressRow(r, at, lease) \in Row
    <2>1. RenewRow(r, at, lease).progress \in Nat
      BY Zenon, <1>3 DEF Row
    <2>2. RenewRow(r, at, lease).progress + 1 \in Nat
      BY <2>1
    <2> QED BY Zenon, <1>3, <2>2 DEF ProgressRow, Row
  <1> QED BY <1>1, <1>2, <1>3, <1>4

\* The rows that release, complete, cancel and set_commit write are rows.
LEMMA ClosingRows ==
    ASSUME TypeOK, NEW r \in Id, NEW at \in Clock
    PROVE  /\ ReleaseRow(r, at) \in Row
           /\ \A status \in TaskStatus : ClosedRow(r, at, status) \in Row
  <1>1. ClearedOwner(head[r]) \in Row
    BY RowTypes DEF TypeOK
  <1>2. [ClearedOwner(head[r]) EXCEPT !.progress = @ + 1] \in Row
    <2>1. ClearedOwner(head[r]).progress \in Nat
      BY Zenon, <1>1 DEF Row
    <2>2. ClearedOwner(head[r]).progress + 1 \in Nat
      BY <2>1
    <2> QED BY Zenon, <1>1, <2>2 DEF Row
  <1>3. ReleaseRow(r, at) \in Row
    BY <1>2, RowTypes DEF ReleaseRow, TaskStatus
  <1> QED BY <1>1, <1>3, RowTypes DEF ClosedRow

\* create_session and create_task keep every variable in its type.
LEMMA CreateTypes ==
    ASSUME TypeOK, NEW k \in Key, NEW text \in Text, NEW at \in Clock
    PROVE  /\ \A s \in Session : CreateSession(s, k, text, at) => TypeOK'
           /\ \A t \in Task, s \in Session, parent \in Task \cup {NoTask},
                 deps \in SUBSET Task, checks \in SUBSET Check,
                 commit \in Commit \cup {NoCommit} :
                 CreateTask(t, k, s, parent, deps, text, checks, commit, at) => TypeOK'
  <1>1. ASSUME NEW r \in Id, NEW row \in Row, Create(r, row)
        PROVE  TypeOK'
    BY <1>1 DEF Create, TypeOK
  <1>2. SessionRow(k, text, at) \in Row
    <2>1. AbsentRow \in Row /\ at \in Nat /\ "Open" \in TaskStatus
      BY RowTypes, TimeTypes DEF TaskStatus
    <2> QED BY Zenon, <2>1 DEF SessionRow, Row
  <1>3. ASSUME NEW s \in Session, NEW parent \in Task \cup {NoTask},
               NEW deps \in SUBSET Task, NEW checks \in SUBSET Check,
               NEW commit \in Commit \cup {NoCommit}
        PROVE  TaskRow(k, s, parent, deps, text, checks, commit, at) \in Row
    <2>1. /\ AbsentRow \in Row /\ at \in Nat /\ "Open" \in TaskStatus
          /\ FreshChecks(checks) \in [Check -> CheckStatus]
      BY RowTypes, TimeTypes, CheckTypes DEF TaskStatus
    <2> QED BY ZenonT(40), <2>1 DEF TaskRow, Row
  <1> QED BY <1>1, <1>2, <1>3 DEF CreateSession, CreateTask, Id

\* The claim operations of mutate keep every variable in its type.
LEMMA ClaimStepTypes ==
    ASSUME TypeOK, NEW r \in Id, NEW a \in Actor, NEW at \in Clock, ClaimStep(r, a, at)
    PROVE  TypeOK'
  <1>0. fence[r] \in Nat /\ drawn[r] \in Nat /\ drawn[r] + 1 \in Nat
    BY DEF TypeOK
  <1> USE <1>0 DEF EventKind
  <1>1. ASSUME NEW lease \in Lease, Claim(r, a, at, lease)
        PROVE  TypeOK'
    BY Zenon, <1>1, PublishTypes, OperationRows DEF Claim, TypeOK
  <1>2. ASSUME NEW lease \in Lease, Renew(r, a, Held(r), at, lease)
        PROVE  TypeOK'
    BY Zenon, <1>2, PublishTypes, OperationRows DEF Renew, TypeOK
  <1>3. ASSUME NEW lease \in Lease, Progress(r, a, Held(r), at, lease)
        PROVE  TypeOK'
    BY Zenon, <1>3, PublishTypes, OperationRows DEF Progress, TypeOK
  <1>4. CASE Release(r, a, Held(r), at)
    BY Zenon, <1>4, PublishTypes, ClosingRows DEF Release, TypeOK
  <1>5. CASE Complete(r, a, Held(r), at)
    BY Zenon, <1>5, PublishTypes, ClosingRows DEF Complete, TypeOK, TaskStatus
  <1> QED BY <1>1, <1>2, <1>3, <1>4, <1>5 DEF ClaimStep

\* The task mutations keep every variable in its type.
LEMMA TaskStepTypes ==
    ASSUME TypeOK, NEW t \in Task, NEW a \in Actor, NEW at \in Clock, TaskStep(t, a, at)
    PROVE  TypeOK'
  <1>0. t \in Id /\ fence[t] \in Nat /\ head[t] \in Row
    BY DEF TypeOK, Id
  <1> USE <1>0 DEF EventKind
  <1>1. ASSUME NEW k \in Key, NEW body \in Text, NEW lease \in Lease,
               AddComment(t, a, k, body, Held(t), at, lease)
        PROVE  TypeOK'
    <2>1. CommentRow(t, a, k, body, at) \in Comment
      <3>1. head[t].revision \in Nat /\ Len(comments[t]) \in Nat
        <4>1. head[t].revision \in Nat
          BY Zenon DEF Row
        <4>2. comments[t] \in Seq(Comment)
          BY DEF TypeOK
        <4> QED BY <4>1, <4>2
      <3>2. head[t].revision + 1 \in Nat /\ Len(comments[t]) + 1 \in Nat
        BY <3>1
      <3> QED BY <3>2, TimeTypes DEF CommentRow, Comment
    <2>2. comments' \in [Task -> Seq(Comment)]
      BY <1>1, <2>1 DEF AddComment, TypeOK
    <2> QED BY Zenon, <1>1, <2>2, PublishTypes, OperationRows DEF AddComment, TypeOK
  <1>2. ASSUME NEW text \in Text, NEW add \in SUBSET Check, NEW other \in BOOLEAN,
               NEW lease \in Lease, Revise(t, a, text, add, other, Held(t), at, lease)
        PROVE  TypeOK'
    <2>1. RenewRow(t, at, lease) \in Row
      BY OperationRows
    <2> DEFINE revised == RevisedChecks(RenewRow(t, at, lease).checks, add,
                                        text # head[t].text)
    <2>2. revised \in [Check -> CheckStatus]
      BY Zenon, <2>1, CheckTypes, FieldTypes
    <2>3. ReviseRow(t, text, add, at, lease) \in Row
      <3>1. ReviseRow(t, text, add, at, lease)
               = [[RenewRow(t, at, lease) EXCEPT !.text = text] EXCEPT !.checks = revised]
        BY Zenon, <2>1 DEF ReviseRow, Row
      <3>2. [RenewRow(t, at, lease) EXCEPT !.text = text] \in Row
        BY Zenon, <2>1, FieldTypes
      <3> HIDE DEF revised
      <3> QED BY ZenonT(40), <2>2, <3>1, <3>2, FieldTypes
    <2> QED BY ZenonT(40), <1>2, <2>3, PublishTypes DEF Revise, TypeOK
  <1>3. ASSUME NEW check \in Check, NEW passed \in BOOLEAN, NEW lease \in Lease,
               Verify(t, a, check, passed, Held(t), at, lease)
        PROVE  TypeOK'
    <2>1. RenewRow(t, at, lease) \in Row
      BY OperationRows
    <2>2. [RenewRow(t, at, lease) EXCEPT !.checks = VerifiedChecks(@, check, passed)] \in Row
      <3>1. VerifiedChecks(RenewRow(t, at, lease).checks, check, passed)
               \in [Check -> CheckStatus]
        BY Zenon, <2>1, CheckTypes, FieldTypes
      <3> QED BY ZenonT(40), <2>1, <3>1, FieldTypes
    <2> QED BY SMTT(30), <1>3, <2>2, PublishTypes DEF Verify, TypeOK
  <1>4. ASSUME NEW check \in Check, NEW replacement \in Check \cup {NoCheck},
               NEW lease \in Lease,
               Supersede(t, a, check, replacement, Held(t), at, lease)
        PROVE  TypeOK'
    <2>1. RenewRow(t, at, lease) \in Row
      BY OperationRows
    <2>2. [RenewRow(t, at, lease) EXCEPT !.checks = SupersededChecks(@, check, replacement)]
             \in Row
      <3>1. SupersededChecks(RenewRow(t, at, lease).checks, check, replacement)
               \in [Check -> CheckStatus]
        BY Zenon, <2>1, CheckTypes, FieldTypes
      <3> QED BY ZenonT(40), <2>1, <3>1, FieldTypes
    <2> QED BY SMTT(30), <1>4, <2>2, PublishTypes DEF Supersede, TypeOK
  <1>5. ASSUME NEW parent \in Task \cup {NoTask}, NEW deps \in SUBSET Task,
               NEW lease \in Lease, Links(t, a, parent, deps, Held(t), at, lease)
        PROVE  TypeOK'
    <2>1. LinksRow(t, parent, deps, at, lease) \in Row
      BY Zenon, OperationRows, FieldTypes DEF LinksRow
    <2> QED BY Zenon, <1>5, <2>1, PublishTypes DEF Links, TypeOK
  <1>6. ASSUME NEW flagged \in BOOLEAN, NEW lease \in Lease,
               Flag(t, a, flagged, Held(t), at, lease)
        PROVE  TypeOK'
    <2>1. [RenewRow(t, at, lease) EXCEPT !.flagged = flagged] \in Row
      BY Zenon, OperationRows, FieldTypes
    <2> QED BY Zenon, <1>6, <2>1, PublishTypes DEF Flag, TypeOK
  <1>7. CASE Cancel(t, a, Held(t), at)
    BY Zenon, <1>7, PublishTypes, ClosingRows DEF Cancel, TypeOK, TaskStatus
  <1>8. ASSUME NEW commit \in Commit \cup {NoCommit}, NEW claim \in BOOLEAN,
               SetCommit(t, a, commit, head[t].revision, claim, Held(t), at)
        PROVE  TypeOK'
    <2>1. [head[t] EXCEPT !.commit = commit] \in Row /\ head[t].status \in TaskStatus
      <3>1. [head[t] EXCEPT !.commit = commit] \in Row
        BY Zenon, FieldTypes
      <3>2. head[t].status \in TaskStatus \cup {"Absent"} /\ head[t].status # "Absent"
        BY Zenon, <1>8 DEF SetCommit, CanSetCommit, CanMutate, Row
      <3> QED BY <3>1, <3>2
    <2>2. Bumped([head[t] EXCEPT !.commit = commit], at, head[t].status) \in Row
      BY <2>1, RowTypes
    <2> QED BY ZenonT(40), <1>8, <2>2, PublishTypes DEF SetCommit, TypeOK
  <1> QED BY Zenon, <1>1, <1>2, <1>3, <1>4, <1>5, <1>6, <1>7, <1>8 DEF TaskStep

\* Every committed row, token, event and comment has the shape that the
\* codec of rows.rs declares.
THEOREM TypeCorrect == Spec => []TypeOK
  <1>1. Init => TypeOK
    BY RowTypes DEF Init, TypeOK
  <1>2. TypeOK /\ [Next]_vars => TypeOK'
    <2> SUFFICES ASSUME TypeOK, [Next]_vars PROVE TypeOK'
      OBVIOUS
    <2>1. CASE CreateStep
      BY ZenonT(40), <2>1, CreateTypes DEF CreateStep
    <2>2. ASSUME NEW a \in Actor, NEW at \in Clock, NEW r \in Id, ClaimStep(r, a, at)
          PROVE  TypeOK'
      BY <2>2, ClaimStepTypes
    <2>3. ASSUME NEW a \in Actor, NEW at \in Clock, NEW t \in Task, TaskStep(t, a, at)
          PROVE  TypeOK'
      BY <2>3, TaskStepTypes
    <2>4. ASSUME NEW a \in Actor, NEW at \in Clock, NEW s \in Session, SessionStep(s, a, at)
          PROVE  TypeOK'
      <3>1. PICK text \in Text, other \in BOOLEAN, lease \in Lease :
                ReviseSession(s, a, text, other, Held(s), at, lease)
        BY <2>4 DEF SessionStep
      <3>2. [RenewRow(s, at, lease) EXCEPT !.text = text] \in Row
        BY Zenon, OperationRows, FieldTypes DEF Id
      <3> QED BY Zenon, <3>1, <3>2, PublishTypes DEF ReviseSession, TypeOK, Id, EventKind
    <2>5. CASE UNCHANGED vars
      BY <2>5 DEF vars, TypeOK
    <2> QED BY <2>1, <2>2, <2>3, <2>4, <2>5 DEF Next, Id
  <1> QED BY <1>1, <1>2, PTL DEF Spec

-----------------------------------------------------------------------------
(* The six ways in which an operation replaces a row *)

SameLinks(x, y) == x.session = y.session /\ x.parent = y.parent /\ x.deps = y.deps
SameFacts(x, y) == SameLinks(x, y) /\ x.flagged = y.flagged /\ x.checks = y.checks

IsCreated(r, row) ==
    /\ head[r].status = "Absent" /\ row.status = "Open"
    /\ r \in Task => /\ row.session \in Session
                     /\ ~Terminal(head[row.session].status)
                     /\ RelationsHold(r, row)

IsWorked(r, row) ==
    /\ head[r].status \in {"Open", "InProgress"} /\ row.status \in {"Open", "InProgress"}
    /\ SameLinks(row, head[r])

IsRelinked(r, row) ==
    /\ r \in Task /\ head[r].status = "InProgress" /\ row.status = "InProgress"
    /\ row.session = head[r].session
    /\ RelationsHold(r, LinkedRow(r, row.parent, row.deps))

IsCompleted(r, row) ==
    /\ head[r].status = "InProgress" /\ row.status = "Completed"
    /\ SameFacts(row, head[r])
    /\ GatesOpen(r)

IsCancelled(r, row) ==
    /\ r \in Task /\ head[r].status \in {"Open", "InProgress"} /\ row.status = "Cancelled"
    /\ SameFacts(row, head[r])

IsNoted(r, row) ==
    row = [head[r] EXCEPT !.commit = row.commit, !.revision = row.revision,
                          !.updated = row.updated]

Shape(r, row) ==
    /\ row.own.owner # NoActor => row.status = "InProgress"
    /\ \/ IsCreated(r, row) \/ IsWorked(r, row) \/ IsRelinked(r, row)
       \/ IsCompleted(r, row) \/ IsCancelled(r, row) \/ IsNoted(r, row)

\* An owned record is in progress: what makes the owner check of the code
\* keep late writers away from closed records.
OwnedInProgress ==
    \A r \in Id : head[r].own.owner # NoActor => head[r].status = "InProgress"

\* A renewal touches the claim, the revision and the time, and nothing else.
LEMMA RenewKeeps ==
    ASSUME TypeOK, NEW r \in Id, NEW at \in Clock, NEW lease \in Lease
    PROVE  /\ RenewRow(r, at, lease) \in Row
           /\ RenewRow(r, at, lease).status = "InProgress"
           /\ SameFacts(RenewRow(r, at, lease), head[r])
  <1>1. head[r] \in Row
    BY DEF TypeOK
  <1>2. RenewRow(r, at, lease) \in Row
    BY <1>1, RowTypes DEF RenewRow, TaskStatus
  <1>3. /\ RenewRow(r, at, lease).status = "InProgress"
        /\ SameFacts(RenewRow(r, at, lease), head[r])
    BY Zenon, <1>1 DEF RenewRow, Renewed, Bumped, Row, SameFacts, SameLinks
  <1> QED BY <1>2, <1>3

\* A row whose owner is cleared keeps what the gates read.
LEMMA ClosingKeeps ==
    ASSUME TypeOK, NEW r \in Id, NEW at \in Clock
    PROVE  /\ \A status \in TaskStatus :
                 /\ ClosedRow(r, at, status).status = status
                 /\ ClosedRow(r, at, status).own.owner = NoActor
                 /\ SameFacts(ClosedRow(r, at, status), head[r])
           /\ ReleaseRow(r, at).status = "Open"
           /\ ReleaseRow(r, at).own.owner = NoActor
           /\ SameFacts(ReleaseRow(r, at), head[r])
  <1>1. head[r] \in Row
    BY DEF TypeOK
  <1> QED BY Zenon, <1>1 DEF ClosedRow, ReleaseRow, ClearedOwner, NoOwnership, Bumped, Row,
                      SameFacts, SameLinks

\* The owner check is passed only on records in progress.
LEMMA OwnerMeansInProgress ==
    ASSUME OwnedInProgress, NEW r \in Id, NEW a \in Actor, NEW c, NEW at,
           CheckOwner(r, a, c, at)
    PROVE  head[r].status = "InProgress"
  BY TaskStoreAssumption DEF OwnedInProgress, CheckOwner

\* Publish puts its row in place of the old one.
LEMMA PublishedShape ==
    ASSUME TypeOK, NEW r \in Id, NEW a, NEW kind, NEW check, NEW row, NEW token,
           Publish(r, a, kind, check, row, token), Shape(r, row)
    PROVE  \E q \in Id : head' = [head EXCEPT ![q] = head'[q]] /\ Shape(q, head'[q])
  <1>1. head'[r] = row
    BY DEF Publish, TypeOK
  <1>2. head' = [head EXCEPT ![r] = head'[r]]
    BY Zenon, <1>1 DEF Publish
  <1> QED BY <1>1, <1>2

\* create_session and create_task add one row and change no other.
LEMMA CreateShape ==
    ASSUME TypeOK, CreateStep
    PROVE  \E q \in Id : head' = [head EXCEPT ![q] = head'[q]] /\ Shape(q, head'[q])
  <1>0. ASSUME NEW r \in Id, NEW row, Create(r, row), row.own.owner = NoActor,
               IsCreated(r, row)
        PROVE  \E q \in Id : head' = [head EXCEPT ![q] = head'[q]] /\ Shape(q, head'[q])
    <2>1. head'[r] = row /\ head' = [head EXCEPT ![r] = row]
      BY <1>0 DEF Create, TypeOK
    <2> QED BY Zenon, <1>0, <2>1 DEF Shape
  <1>1. ASSUME NEW k \in Key, NEW text \in Text, NEW at \in Clock, NEW s \in Session,
               CreateSession(s, k, text, at)
        PROVE  \E q \in Id : head' = [head EXCEPT ![q] = head'[q]] /\ Shape(q, head'[q])
    <2>1. /\ SessionRow(k, text, at).own.owner = NoActor
          /\ SessionRow(k, text, at).status = "Open"
      BY DEF SessionRow, AbsentRow, NoOwnership
    <2>2. s \in Id /\ s \notin Task /\ head[s].status = "Absent"
      BY <1>1, TaskStoreAssumption DEF CreateSession, CanCreateSession, Id
    <2>3. IsCreated(s, SessionRow(k, text, at))
      BY <2>1, <2>2 DEF IsCreated
    <2>4. Create(s, SessionRow(k, text, at))
      BY <1>1 DEF CreateSession
    <2> QED BY <2>1, <2>2, <2>3, <2>4, <1>0
  <1>2. ASSUME NEW k \in Key, NEW text \in Text, NEW at \in Clock, NEW t \in Task,
               NEW s \in Session, NEW parent \in Task \cup {NoTask},
               NEW deps \in SUBSET Task, NEW checks \in SUBSET Check,
               NEW commit \in Commit \cup {NoCommit},
               CreateTask(t, k, s, parent, deps, text, checks, commit, at)
        PROVE  \E q \in Id : head' = [head EXCEPT ![q] = head'[q]] /\ Shape(q, head'[q])
    <2> DEFINE row == TaskRow(k, s, parent, deps, text, checks, commit, at)
    <2>1. row.own.owner = NoActor /\ row.status = "Open" /\ row.session = s
      BY DEF TaskRow, AbsentRow, NoOwnership
    <2>2. /\ t \in Id /\ head[t].status = "Absent"
          /\ head[s].status \in {"Open", "InProgress"} /\ RelationsHold(t, row)
          /\ Create(t, row)
      BY <1>2 DEF CreateTask, CanCreateTask, Id
    <2> HIDE DEF row
    <2>3. IsCreated(t, row)
      BY <2>1, <2>2 DEF IsCreated, Terminal
    <2> QED BY <2>1, <2>2, <2>3, <1>0
  <1> QED BY Zenon, <1>1, <1>2 DEF CreateStep

\* The claim operations change one row, to one of the shapes above.
LEMMA ClaimStepShape ==
    ASSUME TypeOK, OwnedInProgress, NEW r \in Id, NEW a \in Actor, NEW at \in Clock,
           ClaimStep(r, a, at)
    PROVE  \E q \in Id : head' = [head EXCEPT ![q] = head'[q]] /\ Shape(q, head'[q])
  <1>0. head[r] \in Row
    BY DEF TypeOK
  <1>1. ASSUME NEW lease \in Lease, Claim(r, a, at, lease)
        PROVE  Shape(r, ClaimRow(r, a, at, lease))
    <2>1. head[r].status \in {"Open", "InProgress"}
      BY <1>1 DEF Claim, CanClaim
    <2>2. /\ ClaimRow(r, a, at, lease).status = "InProgress"
          /\ SameLinks(ClaimRow(r, a, at, lease), head[r])
      BY Zenon, <1>0 DEF ClaimRow, Bumped, Row, SameLinks
    <2> QED BY SMTT(30), <2>1, <2>2 DEF Shape, IsWorked
  <1>2. ASSUME NEW lease \in Lease, CanRenew(r, a, Held(r), at, lease)
        PROVE  /\ Shape(r, RenewRow(r, at, lease))
               /\ Shape(r, ProgressRow(r, at, lease))
    <2>1. head[r].status = "InProgress"
      BY <1>2, OwnerMeansInProgress DEF CanRenew
    <2>2. /\ RenewRow(r, at, lease) \in Row
          /\ RenewRow(r, at, lease).status = "InProgress"
          /\ SameLinks(RenewRow(r, at, lease), head[r])
      BY RenewKeeps DEF SameFacts
    <2>3. /\ ProgressRow(r, at, lease).status = "InProgress"
          /\ SameLinks(ProgressRow(r, at, lease), head[r])
      BY Zenon, <2>2 DEF ProgressRow, SameLinks, Row
    <2> QED BY SMTT(30), <2>1, <2>2, <2>3 DEF Shape, IsWorked
  <1>3. CASE Release(r, a, Held(r), at)
    <2>1. head[r].status = "InProgress"
      BY SMTT(30), <1>3, OwnerMeansInProgress DEF Release, CanRelease
    <2>2. Shape(r, ReleaseRow(r, at))
      BY <2>1, ClosingKeeps DEF Shape, IsWorked, SameFacts
    <2> QED BY <1>3, <2>2, PublishedShape DEF Release
  <1>4. CASE Complete(r, a, Held(r), at)
    <2>1. head[r].status = "InProgress" /\ GatesOpen(r)
      BY SMTT(30), <1>4 DEF Complete, CanComplete
    <2>2. Shape(r, ClosedRow(r, at, "Completed"))
      BY <2>1, ClosingKeeps DEF Shape, IsCompleted, TaskStatus
    <2> QED BY SMTT(30), <1>4, <2>2, PublishedShape DEF Complete
  <1>5. ASSUME NEW lease \in Lease, Claim(r, a, at, lease)
        PROVE  \E q \in Id : head' = [head EXCEPT ![q] = head'[q]] /\ Shape(q, head'[q])
    BY <1>1, <1>5, PublishedShape DEF Claim
  <1>6. ASSUME NEW lease \in Lease,
               Renew(r, a, Held(r), at, lease) \/ Progress(r, a, Held(r), at, lease)
        PROVE  \E q \in Id : head' = [head EXCEPT ![q] = head'[q]] /\ Shape(q, head'[q])
    BY SMTT(30), <1>2, <1>6, PublishedShape DEF Renew, Progress
  <1> QED BY <1>3, <1>4, <1>5, <1>6 DEF ClaimStep

\* The task mutations change one row, to one of the shapes above.
LEMMA TaskStepShape ==
    ASSUME TypeOK, OwnedInProgress, NEW t \in Task, NEW a \in Actor, NEW at \in Clock,
           TaskStep(t, a, at)
    PROVE  \E q \in Id : head' = [head EXCEPT ![q] = head'[q]] /\ Shape(q, head'[q])
  <1> DEFINE Goal == \E q \in Id : head' = [head EXCEPT ![q] = head'[q]] /\ Shape(q, head'[q])
  <1>0. t \in Id /\ head[t] \in Row
    BY DEF TypeOK, Id
  <1>1. ASSUME NEW lease \in Lease, CanRenew(t, a, Held(t), at, lease)
        PROVE  /\ head[t].status = "InProgress"
               /\ RenewRow(t, at, lease) \in Row
               /\ RenewRow(t, at, lease).status = "InProgress"
               /\ SameFacts(RenewRow(t, at, lease), head[t])
    BY <1>0, <1>1, OwnerMeansInProgress, RenewKeeps DEF CanRenew
  \* A renewed row with other text, checks or flag.
  <1>2. ASSUME NEW lease \in Lease, CanRenew(t, a, Held(t), at, lease), NEW row,
               row.status = "InProgress",
               SameLinks(row, RenewRow(t, at, lease))
        PROVE  Shape(t, row)
    <2>1. SameLinks(row, head[t])
      BY <1>1, <1>2 DEF SameLinks, SameFacts
    <2> QED BY <1>1, <1>2, <2>1 DEF Shape, IsWorked
  <1>3. ASSUME NEW k \in Key, NEW body \in Text, NEW lease \in Lease,
               AddComment(t, a, k, body, Held(t), at, lease)
        PROVE  Goal
    <2>1. CanRenew(t, a, Held(t), at, lease)
      BY SMTT(30), <1>3 DEF AddComment, CanComment
    <2>2. Shape(t, RenewRow(t, at, lease))
      BY <1>1, <1>2, <2>1 DEF SameLinks
    <2> QED BY SMTT(30), <1>0, <1>3, <2>2, PublishedShape DEF AddComment
  <1>4. ASSUME NEW text \in Text, NEW add \in SUBSET Check, NEW other \in BOOLEAN,
               NEW lease \in Lease, Revise(t, a, text, add, other, Held(t), at, lease)
        PROVE  Goal
    <2>1. CanRenew(t, a, Held(t), at, lease)
      BY <1>4 DEF Revise, CanSpecify
    <2>2. /\ ReviseRow(t, text, add, at, lease).status = "InProgress"
          /\ SameLinks(ReviseRow(t, text, add, at, lease), RenewRow(t, at, lease))
      BY Zenon, <1>1, <2>1 DEF ReviseRow, SameLinks, Row
    <2>3. Shape(t, ReviseRow(t, text, add, at, lease))
      BY <1>2, <2>1, <2>2
    <2> QED BY SMTT(30), <1>0, <1>4, <2>3, PublishedShape DEF Revise
  <1>5. ASSUME NEW check \in Check, NEW passed \in BOOLEAN, NEW lease \in Lease,
               Verify(t, a, check, passed, Held(t), at, lease)
        PROVE  Goal
    <2> DEFINE row == [RenewRow(t, at, lease) EXCEPT !.checks = VerifiedChecks(@, check, passed)]
    <2>1. CanRenew(t, a, Held(t), at, lease)
      BY <1>5 DEF Verify, CanSpecify
    <2>2. row.status = "InProgress" /\ SameLinks(row, RenewRow(t, at, lease))
      BY Zenon, <1>1, <2>1 DEF SameLinks, Row
    <2>3. Shape(t, row)
      BY Zenon, <1>2, <2>1, <2>2
    <2> QED BY <1>0, <1>5, <2>3, PublishedShape DEF Verify
  <1>6. ASSUME NEW check \in Check, NEW replacement \in Check \cup {NoCheck},
               NEW lease \in Lease,
               Supersede(t, a, check, replacement, Held(t), at, lease)
        PROVE  Goal
    <2> DEFINE row == [RenewRow(t, at, lease) EXCEPT
                          !.checks = SupersededChecks(@, check, replacement)]
    <2>1. CanRenew(t, a, Held(t), at, lease)
      BY <1>6 DEF Supersede, CanSpecify
    <2>2. row.status = "InProgress" /\ SameLinks(row, RenewRow(t, at, lease))
      BY Zenon, <1>1, <2>1 DEF SameLinks, Row
    <2>3. Shape(t, row)
      BY Zenon, <1>2, <2>1, <2>2
    <2> QED BY <1>0, <1>6, <2>3, PublishedShape DEF Supersede
  <1>7. ASSUME NEW parent \in Task \cup {NoTask}, NEW deps \in SUBSET Task,
               NEW lease \in Lease, Links(t, a, parent, deps, Held(t), at, lease)
        PROVE  Goal
    <2> DEFINE row == LinksRow(t, parent, deps, at, lease)
    <2>1. CanRenew(t, a, Held(t), at, lease) /\ RelationsHold(t, LinkedRow(t, parent, deps))
      BY <1>7 DEF Links, CanLink
    <2>2. /\ row.status = "InProgress" /\ row.session = head[t].session
          /\ row.parent = parent /\ row.deps = deps
      BY ZenonT(40), <1>1, <2>1 DEF LinksRow, SameFacts, SameLinks, Row
    <2>3. Shape(t, row)
      BY Zenon, <1>1, <2>1, <2>2 DEF Shape, IsRelinked
    <2> QED BY <1>0, <1>7, <2>3, PublishedShape DEF Links
  <1>8. ASSUME NEW flagged \in BOOLEAN, NEW lease \in Lease,
               Flag(t, a, flagged, Held(t), at, lease)
        PROVE  Goal
    <2> DEFINE row == [RenewRow(t, at, lease) EXCEPT !.flagged = flagged]
    <2>1. CanRenew(t, a, Held(t), at, lease)
      BY <1>8 DEF Flag
    <2>2. row.status = "InProgress" /\ SameLinks(row, RenewRow(t, at, lease))
      BY Zenon, <1>1, <2>1 DEF SameLinks, Row
    <2>3. Shape(t, row)
      BY Zenon, <1>2, <2>1, <2>2
    <2> QED BY <1>0, <1>8, <2>3, PublishedShape DEF Flag
  <1>9. CASE Cancel(t, a, Held(t), at)
    <2>1. head[t].status \in {"Open", "InProgress"}
      BY <1>9 DEF Cancel, CanCancel
    <2>2. Shape(t, ClosedRow(t, at, "Cancelled"))
      BY <1>0, <2>1, ClosingKeeps DEF Shape, IsCancelled, TaskStatus
    <2> QED BY <1>0, <1>9, <2>2, PublishedShape DEF Cancel
  <1>10. ASSUME NEW commit \in Commit \cup {NoCommit}, NEW claim \in BOOLEAN,
                SetCommit(t, a, commit, head[t].revision, claim, Held(t), at)
         PROVE  Goal
    <2> DEFINE row == Bumped([head[t] EXCEPT !.commit = commit], at, head[t].status)
    <2>1. row.own = head[t].own /\ row.status = head[t].status /\ IsNoted(t, row)
      BY Zenon, <1>0 DEF Bumped, IsNoted, Row
    <2>2. Shape(t, row)
      BY <1>0, <2>1 DEF Shape, OwnedInProgress
    <2> QED BY <1>0, <1>10, <2>2, PublishedShape DEF SetCommit
  <1> QED BY Zenon, <1>3, <1>4, <1>5, <1>6, <1>7, <1>8, <1>9, <1>10 DEF TaskStep

\* Every step of the store changes nothing or one row, to one of the shapes.
LEMMA StepShape ==
    ASSUME TypeOK, OwnedInProgress, Next
    PROVE  \E q \in Id : head' = [head EXCEPT ![q] = head'[q]] /\ Shape(q, head'[q])
  <1> DEFINE Goal == \E q \in Id : head' = [head EXCEPT ![q] = head'[q]] /\ Shape(q, head'[q])
  <1>1. CASE CreateStep
    BY <1>1, CreateShape
  <1>2. ASSUME NEW a \in Actor, NEW at \in Clock, NEW r \in Id, ClaimStep(r, a, at)
        PROVE  Goal
    BY <1>2, ClaimStepShape
  <1>3. ASSUME NEW a \in Actor, NEW at \in Clock, NEW t \in Task, TaskStep(t, a, at)
        PROVE  Goal
    BY <1>3, TaskStepShape
  <1>4. ASSUME NEW a \in Actor, NEW at \in Clock, NEW s \in Session, SessionStep(s, a, at)
        PROVE  Goal
    <2>1. PICK text \in Text, other \in BOOLEAN, lease \in Lease :
              ReviseSession(s, a, text, other, Held(s), at, lease)
      BY <1>4 DEF SessionStep
    <2> DEFINE row == [RenewRow(s, at, lease) EXCEPT !.text = text]
    <2>2. s \in Id /\ head[s].status = "InProgress"
      BY <2>1 DEF ReviseSession, CanReviseSession, Id
    <2>3. /\ RenewRow(s, at, lease) \in Row
          /\ RenewRow(s, at, lease).status = "InProgress"
          /\ SameLinks(RenewRow(s, at, lease), head[s])
      BY <2>2, RenewKeeps DEF SameFacts
    <2>4. row.status = "InProgress" /\ SameLinks(row, head[s])
      BY Zenon, <2>3 DEF SameLinks, Row
    <2>5. Shape(s, row)
      BY <2>2, <2>4 DEF Shape, IsWorked
    <2> QED BY <2>1, <2>2, <2>5, PublishedShape DEF ReviseSession
  <1> QED BY <1>1, <1>2, <1>3, <1>4 DEF Next, Id

-----------------------------------------------------------------------------
(* The invariants, once per shape *)

\* Rows that keep their links, and are cancelled at most, stay a valid graph.
LEMMA SameLinksStayValid ==
    ASSUME NEW h \in [Id -> Row], NEW g \in [Id -> Row], ValidGraph(h),
           \A t \in Task : /\ SameLinks(g[t], h[t])
                           /\ g[t].status = "Absent" <=> h[t].status = "Absent"
                           /\ h[t].status = "Cancelled" => g[t].status = "Cancelled"
    PROVE  ValidGraph(g)
  <1>1. \A t \in Task : h[t].deps \subseteq Task /\ h[t].parent \in Task \cup {NoTask}
    BY Zenon DEF Row, Id
  <1>2. LinksResolve(g)
    BY <1>1 DEF ValidGraph, LinksResolve, SameLinks, Exists
  <1>3. \A u \in Task, t \in Task : Edge(g, u, t) => Edge(h, u, t)
    BY DEF Edge, DependencyEdge, ChildEdge, SameLinks, Exists
  <1> QED BY <1>2, <1>3, FewerEdgesStayValid

\* The graph stays acceptable to GateGraph::new: only creation and links
\* change edges, and validate_relations looked at the graph with the new row.
LEMMA ShapeKeepsGraph ==
    ASSUME TypeOK, TypeOK', GraphStaysValid, NEW r \in Id,
           head' = [head EXCEPT ![r] = head'[r]], Shape(r, head'[r])
    PROVE  GraphStaysValid'
  <1> DEFINE row == head'[r]
  <1>0. /\ head \in [Id -> Row] /\ head' \in [Id -> Row] /\ row \in Row /\ head[r] \in Row
        /\ Task \subseteq Id
        /\ \A t \in Task : t # r => head'[t] = head[t]
    BY DEF TypeOK, Id
  <1>1. CASE r \notin Task
    <2>1. \A t \in Task : head'[t] = head[t]
      BY <1>0, <1>1
    <2> QED BY <1>0, <2>1, SameLinksStayValid DEF GraphStaysValid, SameLinks
  <1>2. CASE r \in Task /\ IsCreated(r, row)
    BY Zenon, <1>2 DEF IsCreated, RelationsHold, GraphStaysValid
  <1>3. CASE r \in Task /\ IsRelinked(r, row)
    <2> DEFINE linked == LinkedRow(r, row.parent, row.deps)
               h == [head EXCEPT ![r] = linked]
    <2>1. ValidGraph(h)
      BY <1>3 DEF IsRelinked, RelationsHold
    <2>2. row.parent \in Task \cup {NoTask} /\ row.deps \in SUBSET Task
      BY ZenonT(40), <1>0 DEF Row
    <2>3. linked \in Row
      BY Zenon, <1>0, <2>2, FieldTypes DEF LinkedRow
    <2>4. /\ linked.status = head[r].status /\ linked.session = head[r].session
          /\ linked.parent = row.parent /\ linked.deps = row.deps
      BY Zenon, <1>0 DEF LinkedRow, Row
    <2>5. SameLinks(row, linked) /\ linked.status = "InProgress" /\ row.status = "InProgress"
      BY <1>3, <2>4 DEF IsRelinked, SameLinks
    <2> HIDE DEF linked
    <2>6. /\ h \in [Id -> Row] /\ h[r] = linked
          /\ \A t \in Task : t # r => h[t] = head'[t]
      BY <1>0, <2>3
    <2>7. \A t \in Task : /\ SameLinks(head'[t], h[t])
                          /\ head'[t].status = h[t].status
      BY SMTT(30), <2>5, <2>6 DEF SameLinks
    <2> HIDE DEF h
    <2> QED BY <1>0, <2>1, <2>6, <2>7, SameLinksStayValid DEF GraphStaysValid
  <1>4. CASE r \in Task /\ ~IsCreated(r, row) /\ ~IsRelinked(r, row)
    <2>1. /\ SameLinks(row, head[r])
          /\ row.status = "Absent" <=> head[r].status = "Absent"
          /\ head[r].status = "Cancelled" => row.status = "Cancelled"
      <3>1. CASE IsNoted(r, row)
        BY ZenonT(40), <1>0, <3>1 DEF IsNoted, SameLinks, Row
      <3>2. CASE ~IsNoted(r, row)
        BY SMTT(30), <1>4, <3>2 DEF Shape, IsWorked, IsCompleted, IsCancelled, SameFacts
      <3> QED BY <3>1, <3>2
    <2>2. \A t \in Task : /\ SameLinks(head'[t], head[t])
                          /\ head'[t].status = "Absent" <=> head[t].status = "Absent"
                          /\ head[t].status = "Cancelled" => head'[t].status = "Cancelled"
      BY <1>0, <2>1 DEF SameLinks
    <2> QED BY SMTT(30), <1>0, <2>2, SameLinksStayValid DEF GraphStaysValid
  <1> QED BY <1>1, <1>2, <1>3, <1>4

\* What is settled stays settled: a closed task keeps its facts, and no task
\* is put under it.
LEMMA ShapeKeepsSettled ==
    ASSUME TypeOK, TypeOK', NEW r \in Id,
           head' = [head EXCEPT ![r] = head'[r]], Shape(r, head'[r])
    PROVE  Supported(head', Settled(head))
  <1> DEFINE row == head'[r]
             S == Settled(head)
  <1>0. /\ row \in Row /\ head[r] \in Row
        /\ Task \subseteq Id
        /\ \A t \in Task : t # r => head'[t] = head[t]
    BY DEF TypeOK, Id
  <1>1. S \subseteq Task /\ Supported(head, S)
    BY SMTT(30), SettledIsSupported
  <1>2. \A u \in S : Terminal(head[u].status)
    BY SMTT(30), <1>1 DEF Supported
  <1>3. ASSUME NEW u \in S
        PROVE  /\ head'[u].status = head[u].status /\ head'[u].deps = head[u].deps
               /\ head'[u].checks = head[u].checks /\ head'[u].flagged = head[u].flagged
    <2>1. CASE u # r
      BY <1>0, <1>1, <2>1
    <2>2. CASE u = r
      <3>1. IsNoted(r, row)
        BY Zenon, <1>2, <2>2 DEF Shape, IsCreated, IsWorked, IsRelinked, IsCompleted,
                          IsCancelled, Terminal
      <3> QED BY ZenonT(40), <1>0, <2>2, <3>1 DEF IsNoted, Row
    <2> QED BY <2>1, <2>2
  <1>4. ASSUME NEW u \in S, NEW c \in Task, ChildEdge(head', c, u)
        PROVE  ChildEdge(head, c, u)
    <2>1. CASE c # r
      BY <1>0, <1>4, <2>1 DEF ChildEdge, Exists
    <2>2. CASE c = r
      <3>1. row.parent = u /\ row.status # "Absent" /\ u # NoTask
        BY SMTT(30), <1>1, <1>4, <2>2, TaskAssumption DEF ChildEdge, Exists
      <3>2. ~IsCreated(r, row)
        BY SMTT(30), <1>2, <2>2, <3>1 DEF IsCreated, RelationsHold
      <3>3. ~IsRelinked(r, row)
        <4>1. LinkedRow(r, row.parent, row.deps).parent = row.parent
          BY Zenon, <1>0 DEF LinkedRow, Row
        <4> QED BY <1>2, <3>1, <4>1 DEF IsRelinked, RelationsHold
      <3>4. CASE IsNoted(r, row)
        BY ZenonT(40), <1>0, <2>2, <3>1, <3>4 DEF IsNoted, Row, ChildEdge, Exists
      <3>5. CASE ~IsNoted(r, row)
        BY Zenon, <2>2, <3>1, <3>2, <3>3, <3>5
           DEF Shape, IsWorked, IsCompleted, IsCancelled, SameFacts, SameLinks, ChildEdge, Exists
      <3> QED BY <3>4, <3>5
    <2> QED BY <2>1, <2>2
  <1> HIDE DEF S
  <1>5. Supported(head', S)
    BY <1>1, <1>3, <1>4, SupportIsKept
  <1> QED BY <1>5 DEF S

\* Completed tasks stay settled: the new row is either not a completed task
\* or was found completable by require_completion.
LEMMA ShapeKeepsCompleted ==
    ASSUME TypeOK, TypeOK', CompletedIsSettled, NEW r \in Id,
           head' = [head EXCEPT ![r] = head'[r]], Shape(r, head'[r])
    PROVE  CompletedIsSettled' /\ Settled(head) \subseteq Settled(head')
  <1> DEFINE row == head'[r]
             S == Settled(head)
  <1>0. /\ row \in Row /\ head[r] \in Row
        /\ Task \subseteq Id
        /\ \A t \in Task : t # r => head'[t] = head[t]
    BY DEF TypeOK, Id
  <1>1. S \subseteq Task /\ Supported(head', S)
    BY ShapeKeepsSettled, SettledIsSupported
  <1>2. S \subseteq Settled(head')
    BY <1>1, SupportedIsSettled
  <1>3. CASE r \in Task /\ IsCompleted(r, row)
    <2>1. Completion(head, r) /\ SameFacts(row, head[r]) /\ row.status = "Completed"
      BY <1>3 DEF IsCompleted, GatesOpen
    <2>2. Terminal(head'[r].status)
      BY <2>1 DEF Terminal
    <2>3. Children(head', r) \subseteq S
      <3>1. Children(head, r) \subseteq S
        BY SMTT(30), <2>1 DEF Completion
      <3>2. ASSUME NEW c \in Task, ChildEdge(head', c, r) PROVE ChildEdge(head, c, r)
        BY SMTT(30), <1>0, <1>3, <2>1, <3>2
           DEF ChildEdge, Exists, IsCompleted, SameFacts, SameLinks
      <3> QED BY <3>1, <3>2 DEF Children
    <2>4. ChecksPass(head'[r])
      BY <2>1 DEF Completion, ChecksPass, SameFacts
    <2>5. ASSUME NEW d \in head'[r].deps
          PROVE  d \in S /\ head'[d].status = "Completed"
      <3>1. d \in S /\ head[d].status = "Completed"
        BY <2>1 DEF Completion, ValidComplete, SameFacts, SameLinks
      <3>2. d # r /\ d \in Task
        BY SMTT(30), <1>1, <1>3, <3>1 DEF IsCompleted
      <3> QED BY SMTT(30), <1>0, <3>1, <3>2
    <2>6. Supported(head', S \cup {r})
      <3> HIDE DEF S
      <3> QED BY <1>1, <2>2, <2>3, <2>4, <2>5 DEF Supported
    <2>7. r \in Settled(head')
      <3> HIDE DEF S
      <3>1. S \cup {r} \in SUBSET Task
        BY <1>1, <1>3
      <3> QED BY <2>6, <3>1, SupportedIsSettled
    <2> QED BY SMTT(30), <1>0, <1>2, <2>7 DEF CompletedIsSettled
  <1>4. CASE ~(r \in Task /\ IsCompleted(r, row))
    <2>1. ASSUME NEW t \in Task, head'[t].status = "Completed"
          PROVE  head[t].status = "Completed"
      <3>1. CASE t # r
        BY <1>0, <2>1, <3>1
      <3>2. CASE t = r
        <4>1. IsNoted(r, row)
          BY <1>4, <2>1, <3>2 DEF Shape, IsCreated, IsWorked, IsRelinked, IsCancelled
        <4> QED BY Zenon, <1>0, <2>1, <3>2, <4>1 DEF IsNoted, Row
      <3> QED BY <3>1, <3>2
    <2> QED BY <1>2, <2>1 DEF CompletedIsSettled
  <1> QED BY <1>3, <1>4

\* Closed sessions stay closable: no step adds a task to them or changes one
\* of their tasks, all of which are terminal.
LEMMA ShapeKeepsSessions ==
    ASSUME TypeOK, TypeOK', CompletedIsSettled, ClosedSessionStaysClosed, NEW r \in Id,
           head' = [head EXCEPT ![r] = head'[r]], Shape(r, head'[r])
    PROVE  ClosedSessionStaysClosed'
  <1> SUFFICES ASSUME NEW s \in Session, head'[s].status = "Completed",
                      NEW t \in Task, Exists(head', t), head'[t].session = s
               PROVE  head'[t].status = "Cancelled" \/ ValidComplete(head', t)
    BY SMTT(30) DEF ClosedSessionStaysClosed, SessionClosable
  <1> DEFINE row == head'[r]
  <1>0. /\ row \in Row /\ head[r] \in Row
        /\ t \in Id /\ s \in Id /\ t # s
        /\ \A q \in Id : q # r => head'[q] = head[q]
    <2>1. t \in Id /\ s \in Id /\ t # s
      BY TaskStoreAssumption DEF Id
    <2>2. head \in [Id -> Row] /\ head' \in [Id -> Row]
      BY Zenon DEF TypeOK
    <2>3. \A q \in Id : q # r => head'[q] = head[q]
      BY <2>2
    <2> QED BY <2>1, <2>2, <2>3
  <1>1. Settled(head) \subseteq Settled(head')
    BY ShapeKeepsCompleted
  \* The session is closed by this step: its tasks were closed before.
  <1>2. CASE s = r
    <2>1. IsNoted(r, row) \/ IsCompleted(r, row)
      BY Zenon, <1>2, TaskStoreAssumption
         DEF Shape, IsCreated, IsWorked, IsRelinked, IsCancelled
    <2>2. SessionClosable(head, s)
      <3>1. CASE IsNoted(r, row)
        <4>1. head[r].status = row.status
          BY Zenon, <1>0, <3>1 DEF IsNoted, Row
        <4> QED BY <1>2, <4>1 DEF ClosedSessionStaysClosed
      <3>2. CASE IsCompleted(r, row)
        BY <1>2, <3>2, TaskStoreAssumption DEF IsCompleted, GatesOpen
      <3> QED BY <2>1, <3>1, <3>2
    <2>3. head'[t] = head[t]
      BY <1>0, <1>2
    <2> QED BY <1>1, <2>2, <2>3 DEF SessionClosable, ValidComplete, Exists
  \* The session was closed: its tasks were closed and none is new.
  <1>3. CASE s # r
    <2>1. head[s].status = "Completed" /\ SessionClosable(head, s)
      BY <1>0, <1>3 DEF ClosedSessionStaysClosed
    <2>2. CASE t # r
      <3>1. head'[t] = head[t]
        BY SMTT(30), <1>0, <2>2
      <3> QED BY <1>1, <2>1, <3>1 DEF SessionClosable, ValidComplete, Exists
    <2>3. CASE t = r
      <3>1. ~IsCreated(r, row)
        BY SMTT(30), <2>1, <2>3 DEF IsCreated, Terminal
      <3>2. CASE IsNoted(r, row)
        <4>1. head[t].session = s /\ Exists(head, t) /\ head'[t].status = head[t].status
          BY Zenon, <1>0, <2>3, <3>2 DEF IsNoted, Row, Exists
        <4> QED BY <1>1, <2>1, <4>1 DEF SessionClosable, ValidComplete
      <3>3. CASE ~IsNoted(r, row)
        <4>1. /\ head[r].status \in {"Open", "InProgress"}
              /\ head[r].session = s
          BY Zenon, <2>3, <3>1, <3>3 DEF Shape, IsWorked, IsRelinked, IsCompleted, IsCancelled,
                                  SameFacts, SameLinks
        <4> QED BY SMTT(30), <2>1, <2>3, <4>1 DEF SessionClosable, ValidComplete, Exists
      <3> QED BY SMTT(30), <3>2, <3>3
    <2> QED BY <2>2, <2>3
  <1> QED BY <1>2, <1>3

-----------------------------------------------------------------------------
(* Theorems *)

\* The inductive invariant: the graph and the closed work are sound, and only
\* records in progress have an owner.
GateInv ==
    /\ OwnedInProgress
    /\ GraphStaysValid
    /\ CompletedIsSettled
    /\ ClosedSessionStaysClosed

\* The empty corpus satisfies the inductive invariant.
LEMMA GateInvInit == Init => GateInv
  <1> SUFFICES ASSUME Init PROVE GateInv
    BY SMTT(30)
  <1>1. \A r \in Id : head[r].status = "Absent" /\ head[r].own.owner = NoActor
    BY Zenon DEF Init, AbsentRow, NoOwnership
  <1>2. OwnedInProgress /\ CompletedIsSettled /\ ClosedSessionStaysClosed
    BY <1>1 DEF OwnedInProgress, CompletedIsSettled, ClosedSessionStaysClosed, Id
  <1>3. \A u \in Task, t \in Task : ~Edge(head, u, t)
    BY <1>1 DEF Edge, DependencyEdge, ChildEdge, Exists, Id
  <1>4. LinksResolve(head) /\ Acyclic(head)
    BY <1>1, <1>3 DEF LinksResolve, Acyclic, Exists, Id
  <1> QED BY <1>2, <1>4 DEF GateInv, GraphStaysValid, ValidGraph

\* Every step of the store preserves the inductive invariant.
LEMMA GateInvStep == TypeOK /\ TypeOK' /\ GateInv /\ [Next]_vars => GateInv'
  <1> SUFFICES ASSUME TypeOK, TypeOK', GateInv, [Next]_vars PROVE GateInv'
    OBVIOUS
  <1>1. CASE Next
    <2>1. PICK r \in Id : head' = [head EXCEPT ![r] = head'[r]] /\ Shape(r, head'[r])
      BY <1>1, StepShape DEF GateInv
    <2>2. OwnedInProgress'
      <3>1. \A q \in Id : q # r => head'[q] = head[q]
        BY <2>1 DEF TypeOK
      <3>2. head'[r].own.owner # NoActor => head'[r].status = "InProgress"
        BY <2>1 DEF Shape
      <3> QED BY <3>1, <3>2 DEF OwnedInProgress, GateInv
    <2>3. GraphStaysValid'
      BY <2>1, ShapeKeepsGraph DEF GateInv
    <2>4. CompletedIsSettled'
      BY <2>1, ShapeKeepsCompleted DEF GateInv
    <2>5. ClosedSessionStaysClosed'
      BY SMTT(30), <2>1, ShapeKeepsSessions DEF GateInv
    <2> QED BY <2>2, <2>3, <2>4, <2>5 DEF GateInv
  <1>2. CASE UNCHANGED vars
    BY <1>2 DEF vars, GateInv, OwnedInProgress, GraphStaysValid, CompletedIsSettled,
                ClosedSessionStaysClosed
  <1> QED BY <1>1, <1>2

\* The inductive invariant holds throughout.
LEMMA GateInvHolds == Spec => []GateInv
  <1>1. Spec => []TypeOK
    BY TypeCorrect
  <1> QED BY <1>1, GateInvInit, GateInvStep, PTL DEF Spec

\* No sequence of creations, links, claims, completions and cancellations
\* leads to a graph that GateGraph::new rejects.
THEOREM GraphAlwaysValid == Spec => []GraphStaysValid
  <1>1. GateInv => GraphStaysValid
    BY DEF GateInv
  <1> QED BY <1>1, GateInvHolds, PTL

\* A completed task never loses the grounds on which complete_task closed it.
THEOREM CompletedStaysSettled == Spec => []CompletedIsSettled
  <1>1. GateInv => CompletedIsSettled
    BY DEF GateInv
  <1> QED BY <1>1, GateInvHolds, PTL

\* A session closed by complete_session never again holds unfinished work.
THEOREM SessionsStayClosed == Spec => []ClosedSessionStaysClosed
  <1>1. GateInv => ClosedSessionStaysClosed
    BY DEF GateInv
  <1> QED BY <1>1, GateInvHolds, PTL

\* After completion or cancellation only set_task_commit changes a record,
\* and it changes only the commit, the revision and the time.
THEOREM TerminalNeverReopens == Spec => TerminalIsFinal
  <1> DEFINE Final == \A r \in Id : Terminal(head[r].status) =>
                 head'[r] = [head[r] EXCEPT !.commit = head'[r].commit,
                                            !.revision = head'[r].revision,
                                            !.updated = head'[r].updated]
  <1>1. TypeOK /\ GateInv /\ [Next]_vars => [Final]_vars
    <2> SUFFICES ASSUME TypeOK, GateInv, Next PROVE Final
      BY Zenon
    <2>1. PICK q \in Id : head' = [head EXCEPT ![q] = head'[q]] /\ Shape(q, head'[q])
      BY SMTT(30), StepShape DEF GateInv
    <2> SUFFICES ASSUME NEW r \in Id, Terminal(head[r].status)
                 PROVE  head'[r] = [head[r] EXCEPT !.commit = head'[r].commit,
                                                   !.revision = head'[r].revision,
                                                   !.updated = head'[r].updated]
      BY Zenon
    <2>2. CASE r = q
      BY <2>1, <2>2 DEF Shape, IsCreated, IsWorked, IsRelinked, IsCompleted, IsCancelled,
                        IsNoted, Terminal
    <2>3. CASE r # q
      <3>1. head'[r] = head[r] /\ head[r] \in Row
        BY <2>1, <2>3 DEF TypeOK
      <3> QED BY Zenon, <3>1 DEF Row
    <2> QED BY SMTT(30), <2>2, <2>3
  <1> QED BY <1>1, TypeCorrect, GateInvHolds, PTL DEF Spec, TerminalIsFinal
=============================================================================
