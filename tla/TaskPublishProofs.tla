------------------------- MODULE TaskPublishProofs --------------------------
(***************************************************************************)
(* The interleaved publication of TaskPublish implements TaskStore, for any *)
(* number of callers, with and without the writer lock.                     *)
(*                                                                          *)
(* The argument: a capture whose base is still the newest version equals    *)
(* the newest rows, and every plan was justified on its capture by the      *)
(* guards of one operation.  The strict commit succeeds only on such a      *)
(* base, so the plan is justified on the rows it is applied to.             *)
(***************************************************************************)
EXTENDS TaskPublish, TaskStoreProofs

-----------------------------------------------------------------------------
(* The store on a snapshot of the rows is the store *)

\* The gates read nothing but their argument, whatever store they belong to.
LEMMA GatesOn ==
    ASSUME NEW pin, NEW h
    PROVE  /\ On(pin)!ValidGraph(h) <=> ValidGraph(h)
           /\ \A t : On(pin)!Ready(h, t) <=> Ready(h, t)
           /\ \A t : On(pin)!Completion(h, t) <=> Completion(h, t)
           /\ \A s : On(pin)!SessionClosable(h, s) <=> SessionClosable(h, s)
  <1>1. ASSUME NEW u, NEW t
        PROVE  /\ On(pin)!ChildEdge(h, u, t) <=> ChildEdge(h, u, t)
               /\ On(pin)!Edge(h, u, t) <=> Edge(h, u, t)
    BY DEF On!Edge, Edge, On!DependencyEdge, DependencyEdge, On!ChildEdge, ChildEdge,
           On!Exists, Exists
  <1>2. On(pin)!LinksResolve(h) <=> LinksResolve(h)
    BY DEF On!LinksResolve, LinksResolve, On!Exists, Exists
  <1>3. On(pin)!Acyclic(h) <=> Acyclic(h)
    BY <1>1 DEF On!Acyclic, Acyclic
  <1>4. ASSUME NEW fact PROVE On(pin)!ChecksPass(fact) <=> ChecksPass(fact)
    BY DEF On!ChecksPass, ChecksPass, On!Active, Active, On!RequiredKinds, RequiredKinds,
           On!Check, Check
  <1>5. ASSUME NEW t PROVE On(pin)!Children(h, t) = Children(h, t)
    BY <1>1 DEF On!Children, Children
  <1>6. ASSUME NEW S PROVE On(pin)!Supported(h, S) <=> Supported(h, S)
    BY <1>4, <1>5 DEF On!Supported, Supported, On!Terminal, Terminal
  <1>7. On(pin)!Settled(h) = Settled(h)
    BY <1>6 DEF On!Settled, Settled
  <1>8. ASSUME NEW t PROVE On(pin)!ValidComplete(h, t) <=> ValidComplete(h, t)
    BY <1>7 DEF On!ValidComplete, ValidComplete
  <1>9. On(pin)!ValidGraph(h) <=> ValidGraph(h)
    BY <1>2, <1>3 DEF On!ValidGraph, ValidGraph
  <1>10. \A t : On(pin)!Ready(h, t) <=> Ready(h, t)
    BY <1>8 DEF On!Ready, Ready
  <1>11. \A t : On(pin)!Completion(h, t) <=> Completion(h, t)
    BY <1>4, <1>5, <1>7, <1>8 DEF On!Completion, Completion
  <1>12. \A s : On(pin)!SessionClosable(h, s) <=> SessionClosable(h, s)
    BY <1>8 DEF On!SessionClosable, SessionClosable, On!Exists, Exists
  <1> QED BY <1>9, <1>10, <1>11, <1>12

\* The rows and guards that creations are decided with.
LEMMA CreationOn ==
    ASSUME NEW k, NEW text, NEW at, NEW s, NEW t, NEW parent, NEW deps, NEW checks, NEW commit
    PROVE  /\ On(Snapshot)!CanCreateSession(s, k) <=> CanCreateSession(s, k)
           /\ On(Snapshot)!CanCreateTask(t, k, s, parent, deps, text, checks, commit, at)
                <=> CanCreateTask(t, k, s, parent, deps, text, checks, commit, at)
  <1>1. ASSUME NEW ids PROVE On(Snapshot)!KeyUsed(ids, k) <=> KeyUsed(ids, k)
    BY DEF On!KeyUsed, KeyUsed, Snapshot
  <1>2. On(Snapshot)!CanCreateSession(s, k) <=> CanCreateSession(s, k)
    BY <1>1 DEF On!CanCreateSession, CanCreateSession, Snapshot
  <1>3. ASSUME NEW row PROVE On(Snapshot)!RelationsHold(t, row) <=> RelationsHold(t, row)
    BY GatesOn DEF On!RelationsHold, RelationsHold, On!Exists, Exists, On!Terminal, Terminal,
                   Snapshot
  <1>4. On(Snapshot)!TaskRow(k, s, parent, deps, text, checks, commit, at)
          = TaskRow(k, s, parent, deps, text, checks, commit, at)
    BY DEF On!TaskRow, TaskRow, On!AbsentRow, AbsentRow, On!NoOwnership, NoOwnership,
           On!FreshChecks, FreshChecks, On!Check, Check
  <1>5. On(Snapshot)!RequiredKinds(checks) <=> RequiredKinds(checks)
    BY DEF On!RequiredKinds, RequiredKinds
  <1>6. On(Snapshot)!CanCreateTask(t, k, s, parent, deps, text, checks, commit, at)
          <=> CanCreateTask(t, k, s, parent, deps, text, checks, commit, at)
    BY <1>1, <1>3, <1>4, <1>5 DEF On!CanCreateTask, CanCreateTask, Snapshot
  <1> QED BY <1>2, <1>6

\* The rows that operations on claimed records write.
LEMMA RowsOn ==
    ASSUME NEW r, NEW a, NEW at, NEW lease, NEW status
    PROVE  /\ On(Snapshot)!ClaimRow(r, a, at, lease) = ClaimRow(r, a, at, lease)
           /\ On(Snapshot)!RenewRow(r, at, lease) = RenewRow(r, at, lease)
           /\ On(Snapshot)!ReleaseRow(r, at) = ReleaseRow(r, at)
           /\ On(Snapshot)!ClosedRow(r, at, status) = ClosedRow(r, at, status)
           /\ \A parent, deps :
                 On(Snapshot)!LinksRow(r, parent, deps, at, lease)
                    = LinksRow(r, parent, deps, at, lease)
           /\ \A k, body :
                 On(Snapshot)!CommentRow(r, a, k, body, at) = CommentRow(r, a, k, body, at)
  <1>1. ASSUME NEW row, NEW to
        PROVE  /\ On(Snapshot)!Bumped(row, at, to) = Bumped(row, at, to)
               /\ On(Snapshot)!Renewed(row, at, lease) = Renewed(row, at, lease)
               /\ On(Snapshot)!ClearedOwner(row) = ClearedOwner(row)
    BY DEF On!Bumped, Bumped, On!Renewed, Renewed, On!Later, Later, On!ClearedOwner,
           ClearedOwner, On!NoOwnership, NoOwnership
  <1>2. On(Snapshot)!ClaimRow(r, a, at, lease) = ClaimRow(r, a, at, lease)
    BY <1>1 DEF On!ClaimRow, ClaimRow, Snapshot
  <1>3. On(Snapshot)!RenewRow(r, at, lease) = RenewRow(r, at, lease)
    BY <1>1 DEF On!RenewRow, RenewRow, Snapshot
  <1>4. On(Snapshot)!ReleaseRow(r, at) = ReleaseRow(r, at)
    BY <1>1 DEF On!ReleaseRow, ReleaseRow, Snapshot
  <1>5. On(Snapshot)!ClosedRow(r, at, status) = ClosedRow(r, at, status)
    BY <1>1 DEF On!ClosedRow, ClosedRow, Snapshot
  <1>6. \A parent, deps : On(Snapshot)!LinksRow(r, parent, deps, at, lease)
                            = LinksRow(r, parent, deps, at, lease)
    BY <1>3 DEF On!LinksRow, LinksRow
  <1>7. \A k, body : On(Snapshot)!CommentRow(r, a, k, body, at) = CommentRow(r, a, k, body, at)
    BY DEF On!CommentRow, CommentRow, Snapshot
  <1> QED BY <1>2, <1>3, <1>4, <1>5, <1>6, <1>7

\* The guards of operations on existing records.
LEMMA GuardsOn ==
    ASSUME NEW r, NEW a, NEW c, NEW at, NEW lease
    PROVE  /\ On(Snapshot)!CanClaim(r, at, lease) <=> CanClaim(r, at, lease)
           /\ On(Snapshot)!CanRenew(r, a, c, at, lease) <=> CanRenew(r, a, c, at, lease)
           /\ On(Snapshot)!CanRelease(r, a, c, at) <=> CanRelease(r, a, c, at)
           /\ On(Snapshot)!CanComplete(r, a, c, at) <=> CanComplete(r, a, c, at)
           /\ On(Snapshot)!CanCancel(r, a, c, at) <=> CanCancel(r, a, c, at)
           /\ \A k : On(Snapshot)!CanComment(r, a, k, c, at, lease)
                        <=> CanComment(r, a, k, c, at, lease)
           /\ \A parent, deps : On(Snapshot)!CanLink(r, a, parent, deps, c, at, lease)
                                   <=> CanLink(r, a, parent, deps, c, at, lease)
  <1>1. /\ On(Snapshot)!CanMutate(r, at) <=> CanMutate(r, at)
        /\ On(Snapshot)!Live(head[r], at) <=> Live(head[r], at)
        /\ On(Snapshot)!CanExpire(at, lease) <=> CanExpire(at, lease)
    BY DEF On!CanMutate, CanMutate, On!Live, Live, On!CanExpire, CanExpire, Snapshot
  <1>2. On(Snapshot)!CheckOwner(r, a, c, at) <=> CheckOwner(r, a, c, at)
    BY <1>1 DEF On!CheckOwner, CheckOwner, Snapshot
  <1>3. On(Snapshot)!CanRenew(r, a, c, at, lease) <=> CanRenew(r, a, c, at, lease)
    BY <1>1, <1>2 DEF On!CanRenew, CanRenew
  <1>4. On(Snapshot)!ClaimReady(r) <=> ClaimReady(r)
    BY GatesOn DEF On!ClaimReady, ClaimReady, Snapshot
  <1>5. On(Snapshot)!CanClaim(r, at, lease) <=> CanClaim(r, at, lease)
    BY <1>1, <1>4 DEF On!CanClaim, CanClaim, Snapshot
  <1>6. On(Snapshot)!CanRelease(r, a, c, at) <=> CanRelease(r, a, c, at)
    BY <1>1, <1>2 DEF On!CanRelease, CanRelease
  <1>7. On(Snapshot)!GatesOpen(r) <=> GatesOpen(r)
    BY ZenonT(40), GatesOn DEF On!GatesOpen, GatesOpen, Snapshot
  <1>8. On(Snapshot)!CanComplete(r, a, c, at) <=> CanComplete(r, a, c, at)
    BY ZenonT(40), <1>1, <1>2, <1>7 DEF On!CanComplete, CanComplete, Snapshot
  <1>9. On(Snapshot)!CanCancel(r, a, c, at) <=> CanCancel(r, a, c, at)
    BY ZenonT(40), <1>1, <1>2 DEF On!CanCancel, CanCancel, Snapshot
  <1>10. \A k : On(Snapshot)!CanComment(r, a, k, c, at, lease)
                   <=> CanComment(r, a, k, c, at, lease)
    BY ZenonT(40), <1>3 DEF On!CanComment, CanComment, On!CommentKeys, CommentKeys, Snapshot
  <1>11. ASSUME NEW row PROVE On(Snapshot)!RelationsHold(r, row) <=> RelationsHold(r, row)
    BY GatesOn DEF On!RelationsHold, RelationsHold, On!Exists, Exists, On!Terminal, Terminal,
                   Snapshot
  <1>12. ASSUME NEW parent, NEW deps
         PROVE  On(Snapshot)!CanLink(r, a, parent, deps, c, at, lease)
                   <=> CanLink(r, a, parent, deps, c, at, lease)
    <2>1. On(Snapshot)!LinkedRow(r, parent, deps) = LinkedRow(r, parent, deps)
      BY DEF On!LinkedRow, LinkedRow, Snapshot
    <2> QED BY <1>3, <1>11, <2>1 DEF On!CanLink, CanLink, Snapshot
  <1> QED BY ZenonT(40), <1>3, <1>5, <1>6, <1>8, <1>9, <1>10, <1>12

-----------------------------------------------------------------------------
(* Justified plans *)

Is(plan, r, kind, row, token, comment) ==
    plan = [r |-> r, kind |-> kind, row |-> row, token |-> token, comment |-> comment]

CreateSessionJustified(pin, plan, at) ==
    /\ "CreateSession" \in Ops
    /\ \E s \in Session, k \in Key, text \in Text :
          /\ On(pin)!CanCreateSession(s, k)
          /\ Is(plan, s, "Created", SessionRow(k, text, at), 0, <<>>)

CreateTaskJustified(pin, plan, at) ==
    /\ "CreateTask" \in Ops
    /\ \E t \in Task, s \in Session, parent \in Task \cup {NoTask}, deps \in SUBSET Task,
          k \in Key, text \in Text, checks \in SUBSET Check, commit \in Commit \cup {NoCommit} :
          /\ On(pin)!CanCreateTask(t, k, s, parent, deps, text, checks, commit, at)
          /\ Is(plan, t, "Created",
                TaskRow(k, s, parent, deps, text, checks, commit, at), 0, <<>>)

ClaimJustified(pin, plan, a, at) ==
    \E r \in Id, lease \in Lease :
        /\ "Claim" \in Ops /\ Admitted(r)
        /\ On(pin)!CanClaim(r, at, lease)
        /\ Is(plan, r, "Claimed", On(pin)!ClaimRow(r, a, at, lease), pin.drawn[r] + 1, <<>>)

CancelJustified(pin, plan, a, at) ==
    \E t \in Task :
        /\ "Cancel" \in Ops
        /\ On(pin)!CanCancel(t, a, On(pin)!Held(t), at)
        /\ Is(plan, t, "Cancelled", On(pin)!ClosedRow(t, at, "Cancelled"), 0, <<>>)

FencedJustified(pin, plan, a, at) ==
    \E r \in Id :
        LET c == On(pin)!Held(r) IN
        /\ Admitted(r)
        /\ \/ /\ "Renew" \in Ops
              /\ \E lease \in Lease :
                   /\ On(pin)!CanRenew(r, a, c, at, lease)
                   /\ Is(plan, r, "Renewed", On(pin)!RenewRow(r, at, lease), c.token, <<>>)
           \/ /\ "Release" \in Ops /\ On(pin)!CanRelease(r, a, c, at)
              /\ Is(plan, r, "Released", On(pin)!ReleaseRow(r, at), 0, <<>>)
           \/ /\ "Complete" \in Ops /\ On(pin)!CanComplete(r, a, c, at)
              /\ Is(plan, r, "Completed", On(pin)!ClosedRow(r, at, "Completed"), 0, <<>>)
           \/ /\ "Comment" \in Ops /\ r \in Task
              /\ \E k \in Key, body \in Text, lease \in Lease :
                   /\ On(pin)!CanComment(r, a, k, c, at, lease)
                   /\ Is(plan, r, "CommentAdded", On(pin)!RenewRow(r, at, lease), c.token,
                         <<On(pin)!CommentRow(r, a, k, body, at)>>)
           \/ /\ "Links" \in Ops /\ r \in Task
              /\ \E parent \in Task \cup {NoTask}, deps \in SUBSET Task, lease \in Lease :
                   /\ On(pin)!CanLink(r, a, parent, deps, c, at, lease)
                   /\ Is(plan, r, "LinksUpdated",
                         On(pin)!LinksRow(r, parent, deps, at, lease), c.token, <<>>)

\* The plan is the outcome of one operation on the captured rows.
Justified(pin, plan, a) ==
    \E at \in Clock :
        \/ CreateSessionJustified(pin, plan, at)
        \/ CreateTaskJustified(pin, plan, at)
        \/ ClaimJustified(pin, plan, a, at)
        \/ CancelJustified(pin, plan, a, at)
        \/ FencedJustified(pin, plan, a, at)

\* What a caller may present that passes the fence check is what the row holds.
LEMMA FenceIsHeld ==
    ASSUME NEW pin, NEW r, NEW a, NEW c, NEW at,
           c = [token |-> c.token, revision |-> c.revision],
           On(pin)!CheckOwner(r, a, c, at)
    PROVE  c = On(pin)!Held(r)
  BY DEF On!CheckOwner, On!Held

\* A merge of a plan that is justified on the newest rows is one step of the
\* store: the heart of the refinement.
LEMMA CommitIsStep ==
    ASSUME NEW p \in Client, NEW plan, Justified(Snapshot, plan, ActorOf[p]), Merge(p, plan)
    PROVE  Next
  <1> DEFINE a == ActorOf[p]
  <1>1. a \in Actor
    BY TaskPublishAssumption
  <1>2. PICK at \in Clock : \/ CreateSessionJustified(Snapshot, plan, at)
                           \/ CreateTaskJustified(Snapshot, plan, at)
                           \/ ClaimJustified(Snapshot, plan, a, at)
                           \/ CancelJustified(Snapshot, plan, a, at)
                           \/ FencedJustified(Snapshot, plan, a, at)
    BY DEF Justified
  <1> HIDE DEF a
  <1>3. CASE CreateSessionJustified(Snapshot, plan, at)
    <2>1. PICK s \in Session, k \in Key, text \in Text :
            /\ On(Snapshot)!CanCreateSession(s, k)
            /\ Is(plan, s, "Created", SessionRow(k, text, at), 0, <<>>)
      BY <1>3 DEF CreateSessionJustified
    <2>2. CanCreateSession(s, k)
      BY <2>1, CreationOn
    <2>3. CreateSession(s, k, text, at)
      BY <2>1, <2>2 DEF Is, Merge, CreateSession
    <2> QED BY <1>3, <2>3 DEF CreateSessionJustified, Next, CreateStep
  <1>4. CASE ClaimJustified(Snapshot, plan, a, at)
    <2>1. PICK r \in Id, lease \in Lease :
            /\ "Claim" \in Ops /\ Admitted(r) /\ CanClaim(r, at, lease)
            /\ Is(plan, r, "Claimed", ClaimRow(r, a, at, lease), drawn[r] + 1, <<>>)
      BY ZenonT(40), <1>4, GuardsOn, RowsOn DEF ClaimJustified, Snapshot
    <2>2. Claim(r, a, at, lease)
      BY <2>1 DEF Is, Merge, Claim, a
    <2> QED BY ZenonT(40), <1>1, <2>1, <2>2 DEF Next, ClaimStep, Admitted, Id
  <1>5. CASE CancelJustified(Snapshot, plan, a, at)
    <2>0. \A r : On(Snapshot)!Held(r) = Held(r)
      BY Zenon DEF On!Held, Held, Snapshot
    <2>1. PICK t \in Task :
            /\ "Cancel" \in Ops /\ CanCancel(t, a, Held(t), at)
            /\ Is(plan, t, "Cancelled", ClosedRow(t, at, "Cancelled"), 0, <<>>)
      BY ZenonT(40), <1>5, <2>0, GuardsOn, RowsOn DEF CancelJustified
    <2>2. Cancel(t, a, Held(t), at)
      BY <2>1 DEF Is, Merge, Cancel, a
    <2> QED BY <1>1, <2>1, <2>2 DEF Next, TaskStep
  <1>6. CASE FencedJustified(Snapshot, plan, a, at)
    <2>0. \A r : On(Snapshot)!Held(r) = Held(r) /\ Held(r).token = fence[r]
      BY Zenon DEF On!Held, Held, Snapshot
    <2>1. PICK r \in Id :
            LET c == On(Snapshot)!Held(r) IN
            /\ Admitted(r)
            /\ \/ /\ "Renew" \in Ops
                  /\ \E lease \in Lease :
                       /\ On(Snapshot)!CanRenew(r, a, c, at, lease)
                       /\ Is(plan, r, "Renewed", On(Snapshot)!RenewRow(r, at, lease), c.token, <<>>)
               \/ /\ "Release" \in Ops /\ On(Snapshot)!CanRelease(r, a, c, at)
                  /\ Is(plan, r, "Released", On(Snapshot)!ReleaseRow(r, at), 0, <<>>)
               \/ /\ "Complete" \in Ops /\ On(Snapshot)!CanComplete(r, a, c, at)
                  /\ Is(plan, r, "Completed", On(Snapshot)!ClosedRow(r, at, "Completed"), 0, <<>>)
               \/ /\ "Comment" \in Ops /\ r \in Task
                  /\ \E k \in Key, body \in Text, lease \in Lease :
                       /\ On(Snapshot)!CanComment(r, a, k, c, at, lease)
                       /\ Is(plan, r, "CommentAdded", On(Snapshot)!RenewRow(r, at, lease), c.token,
                             <<On(Snapshot)!CommentRow(r, a, k, body, at)>>)
               \/ /\ "Links" \in Ops /\ r \in Task
                  /\ \E parent \in Task \cup {NoTask}, deps \in SUBSET Task, lease \in Lease :
                       /\ On(Snapshot)!CanLink(r, a, parent, deps, c, at, lease)
                       /\ Is(plan, r, "LinksUpdated",
                             On(Snapshot)!LinksRow(r, parent, deps, at, lease), c.token, <<>>)
      BY ZenonT(40), <1>6 DEF FencedJustified
    <2> DEFINE h == On(Snapshot)!Held(r)
    <2>2. ASSUME "Renew" \in Ops, NEW lease \in Lease,
                 On(Snapshot)!CanRenew(r, a, h, at, lease),
                 Is(plan, r, "Renewed", On(Snapshot)!RenewRow(r, at, lease), h.token, <<>>)
          PROVE  Next
      <3>1. /\ CanRenew(r, a, Held(r), at, lease)
            /\ Is(plan, r, "Renewed", RenewRow(r, at, lease), fence[r], <<>>)
        BY Zenon, <2>0, <2>2, GuardsOn, RowsOn
      <3>2. Renew(r, a, Held(r), at, lease)
        BY ZenonT(40), <3>1 DEF Is, Merge, Renew, a
      <3> QED BY ZenonT(40), <1>1, <2>1, <2>2, <3>2 DEF Next, ClaimStep, Admitted, Id
    <2>3. ASSUME "Release" \in Ops,
                 On(Snapshot)!CanRelease(r, a, h, at),
                 Is(plan, r, "Released", On(Snapshot)!ReleaseRow(r, at), 0, <<>>)
          PROVE  Next
      <3>1. /\ CanRelease(r, a, Held(r), at)
            /\ Is(plan, r, "Released", ReleaseRow(r, at), 0, <<>>)
        BY Zenon, <2>0, <2>3, GuardsOn, RowsOn
      <3>2. Release(r, a, Held(r), at)
        BY ZenonT(40), <3>1 DEF Is, Merge, Release, a
      <3> QED BY ZenonT(40), <1>1, <2>1, <2>3, <3>2 DEF Next, ClaimStep, Admitted, Id
    <2>4. ASSUME "Complete" \in Ops,
                 On(Snapshot)!CanComplete(r, a, h, at),
                 Is(plan, r, "Completed", On(Snapshot)!ClosedRow(r, at, "Completed"), 0, <<>>)
          PROVE  Next
      <3>1. /\ CanComplete(r, a, Held(r), at)
            /\ Is(plan, r, "Completed", ClosedRow(r, at, "Completed"), 0, <<>>)
        BY Zenon, <2>0, <2>4, GuardsOn, RowsOn
      <3>2. Complete(r, a, Held(r), at)
        BY ZenonT(40), <3>1 DEF Is, Merge, Complete, a
      <3> QED BY ZenonT(40), <1>1, <2>1, <2>4, <3>2 DEF Next, ClaimStep, Admitted, Id
    <2>5. ASSUME "Comment" \in Ops, r \in Task, NEW k \in Key, NEW body \in Text, NEW lease \in Lease,
                 On(Snapshot)!CanComment(r, a, k, h, at, lease),
                 Is(plan, r, "CommentAdded", On(Snapshot)!RenewRow(r, at, lease), h.token,
                    <<On(Snapshot)!CommentRow(r, a, k, body, at)>>)
          PROVE  Next
      <3>1. /\ CanComment(r, a, k, Held(r), at, lease)
            /\ Is(plan, r, "CommentAdded", RenewRow(r, at, lease), fence[r], <<CommentRow(r, a, k, body, at)>>)
        BY Zenon, <2>0, <2>5, GuardsOn, RowsOn
      <3>2. AddComment(r, a, k, body, Held(r), at, lease)
        BY ZenonT(40), <3>1 DEF Is, Merge, AddComment, a
      <3> QED BY ZenonT(40), <1>1, <2>5, <3>2 DEF Next, TaskStep
    <2>6. ASSUME "Links" \in Ops, r \in Task, NEW parent \in Task \cup {NoTask},
                 NEW deps \in SUBSET Task, NEW lease \in Lease,
                 On(Snapshot)!CanLink(r, a, parent, deps, h, at, lease),
                 Is(plan, r, "LinksUpdated", On(Snapshot)!LinksRow(r, parent, deps, at, lease), h.token, <<>>)
          PROVE  Next
      <3>1. /\ CanLink(r, a, parent, deps, Held(r), at, lease)
            /\ Is(plan, r, "LinksUpdated", LinksRow(r, parent, deps, at, lease), fence[r], <<>>)
        BY Zenon, <2>0, <2>6, GuardsOn, RowsOn
      <3>2. Links(r, a, parent, deps, Held(r), at, lease)
        BY <3>1 DEF Is, Merge, Links, a
      <3> QED BY ZenonT(40), <1>1, <2>6, <3>2 DEF Next, TaskStep
    <2> QED BY <2>1, <2>2, <2>3, <2>4, <2>5, <2>6, Zenon
  <1>7. CASE CreateTaskJustified(Snapshot, plan, at)
    <2>1. PICK t \in Task, s \in Session, parent \in Task \cup {NoTask}, deps \in SUBSET Task,
               k \in Key, text \in Text, checks \in SUBSET Check,
               commit \in Commit \cup {NoCommit} :
            /\ On(Snapshot)!CanCreateTask(t, k, s, parent, deps, text, checks, commit, at)
            /\ Is(plan, t, "Created",
                  TaskRow(k, s, parent, deps, text, checks, commit, at), 0, <<>>)
      BY <1>7 DEF CreateTaskJustified
    <2>2. CanCreateTask(t, k, s, parent, deps, text, checks, commit, at)
      BY ZenonT(40), <2>1, CreationOn
    <2>3. CreateTask(t, k, s, parent, deps, text, checks, commit, at)
      BY <2>1, <2>2 DEF Is, Merge, CreateTask
    <2> QED BY <1>7, <2>3 DEF CreateTaskJustified, Next, CreateStep
  <1> QED BY ZenonT(40), <1>2, <1>3, <1>4, <1>5, <1>6, <1>7

-----------------------------------------------------------------------------
(* The inductive invariant *)

\* A call in progress, at version ver of the rows snap: a capture whose base
\* is still the newest version holds the newest rows, and what was decided
\* was decided on the capture.
CallOK(c, ver, snap, a) ==
    /\ DOMAIN c = {"phase", "pin", "base", "indexed", "plan", "lease"}
    /\ c.phase \in {"Captured", "Decided", "Checked"} =>
          /\ c.base \in Nat /\ c.base <= ver
          /\ c.base = ver => c.pin = snap
    /\ c.phase \in {"Decided", "Checked"} => Justified(c.pin, c.plan, a)

CallsOK == /\ DOMAIN call = Client
           /\ call = [p \in Client |-> call[p]]
           /\ \A p \in Client : CallOK(call[p], version, Snapshot, ActorOf[p])

ClocksOK == /\ now = [p \in Client |-> now[p]]
            /\ \A p \in Client : now[p] \in 1..ClockLimit[p]

Remembered(c) == c = [token |-> c.token, revision |-> c.revision]

MemoryOK == /\ memory = [p \in Client |-> [r \in Id |-> memory[p][r]]]
            /\ \A p \in Client, r \in Id : Remembered(memory[p][r])

PubInv == version \in Nat /\ CallsOK /\ ClocksOK /\ MemoryOK

\* A call is not disturbed by the version another caller commits: its base is
\* no longer the newest version.
LEMMA CommitLeavesCalls ==
    ASSUME NEW c, NEW ver \in Nat, NEW snap, NEW snap2, NEW a, CallOK(c, ver, snap, a)
    PROVE  CallOK(c, ver + 1, snap2, a)
  BY DEF CallOK

\* A call that ended, was lost or was never made.
LEMMA NoCallOK ==
    ASSUME NEW ver, NEW snap, NEW a
    PROVE  CallOK(Idle, ver, snap, a) /\ CallOK([Idle EXCEPT !.phase = "Gone"], ver, snap, a)
  BY DEF CallOK, Idle

\* One caller's call changes, while the dataset stays or gains a version.
LEMMA OneCall ==
    ASSUME PubInv, NEW p \in Client, NEW c,
           call' = [call EXCEPT ![p] = c],
           CallOK(c, version', Snapshot', ActorOf[p]),
           \/ version' = version /\ Snapshot' = Snapshot
           \/ version' = version + 1
    PROVE  CallsOK'
  <1>1. DOMAIN call' = Client /\ call' = [q \in Client |-> call'[q]]
    BY DEF PubInv, CallsOK
  <1>2. ASSUME NEW q \in Client
        PROVE  CallOK(call[q], version, Snapshot, ActorOf[q])'
    <2>1. CASE q = p
      BY <2>1 DEF PubInv, CallsOK
    <2>2. CASE q # p
      <3>1. call'[q] = call[q] /\ CallOK(call[q], version, Snapshot, ActorOf[q])
        BY <2>2 DEF PubInv, CallsOK
      <3> QED BY <3>1, CommitLeavesCalls DEF PubInv
    <2> QED BY <2>1, <2>2
  <1> QED BY <1>1, <1>2 DEF CallsOK

\* A call ends and the caller remembers what it was told.
LEMMA EndKeeps ==
    ASSUME PubInv, NEW p \in Client, End(p), UNCHANGED <<vars, version, now>>, MemoryOK'
    PROVE  PubInv'
  <1>1. CallsOK'
    BY Zenon, NoCallOK, OneCall DEF End, Snapshot, vars
  <1> QED BY <1>1 DEF PubInv, ClocksOK

\* What a caller remembers of one record changes.
LEMMA OneMemory ==
    ASSUME PubInv, NEW p \in Client, NEW r \in Id, NEW c, Remembered(c),
           memory' = [memory EXCEPT ![p][r] = c]
    PROVE  MemoryOK'
  BY ZenonT(40) DEF PubInv, MemoryOK, Remembered

\* A decision that is justified on the capture keeps the invariant.
LEMMA DecidedKeeps ==
    ASSUME PubInv, NEW p \in Client, call[p].phase = "Captured",
           NEW r, NEW kind, NEW row, NEW token, NEW comment, NEW lease,
           NEW plan, Is(plan, r, kind, row, token, comment),
           Justified(Pin(p), plan, ActorOf[p]),
           Decided(p, r, kind, row, token, comment, lease)
    PROVE  PubInv'
  <1> DEFINE c == [call[p] EXCEPT !.phase = "Decided", !.lease = lease, !.plan = plan]
  <1>1. CallOK(call[p], version, Snapshot, ActorOf[p])
    BY DEF PubInv, CallsOK
  <1>2. /\ c.phase = "Decided" /\ c.pin = Pin(p) /\ c.base = call[p].base /\ c.plan = plan
        /\ DOMAIN c = {"phase", "pin", "base", "indexed", "plan", "lease"}
    BY <1>1 DEF CallOK, Pin
  <1>3. call' = [call EXCEPT ![p] = c]
    BY DEF Decided, Is
  <1> HIDE DEF c
  <1>4. CallOK(c, version, Snapshot, ActorOf[p])
    BY <1>1, <1>2 DEF CallOK, Pin
  <1>5. CallsOK'
    BY Zenon, <1>3, <1>4, OneCall DEF Decided, vars, Snapshot
  <1> QED BY <1>5 DEF PubInv, ClocksOK, MemoryOK, Decided

\* A caller's clock shows a reading of Clock.
LEMMA ReadingOK ==
    ASSUME PubInv, NEW p \in Client
    PROVE  now[p] \in Clock
  BY TaskPublishAssumption DEF PubInv, ClocksOK

\* The creation of a session decided on the capture.
LEMMA DecideCreateSessionKeeps ==
    ASSUME PubInv, NEW p \in Client, DecideCreateSession(p)
    PROVE  PubInv'
  <1>1. PICK s \in Session, k \in Key, text \in Text :
          /\ On(Pin(p))!CanCreateSession(s, k)
          /\ Decided(p, s, "Created", SessionRow(k, text, now[p]), 0, <<>>, 0)
    BY ZenonT(40) DEF DecideCreateSession
  <1>2. call[p].phase = "Captured" /\ "CreateSession" \in Ops
    BY DEF DecideCreateSession
  <1>3. PICK plan : Is(plan, s, "Created", SessionRow(k, text, now[p]), 0, <<>>)
    BY ZenonT(40) DEF Is
  <1>4. CreateSessionJustified(Pin(p), plan, now[p])
    BY ZenonT(40), <1>1, <1>2, <1>3 DEF CreateSessionJustified
  <1>5. Justified(Pin(p), plan, ActorOf[p])
    BY <1>4, ReadingOK DEF Justified
  <1> QED BY ZenonT(40), <1>1, <1>2, <1>3, <1>5, DecidedKeeps

\* The creation of a task decided on the capture.
LEMMA DecideCreateTaskKeeps ==
    ASSUME PubInv, NEW p \in Client, DecideCreateTask(p)
    PROVE  PubInv'
  <1>1. PICK t \in Task, s \in Session, parent \in Task \cup {NoTask}, deps \in SUBSET Task,
             k \in Key, text \in Text, checks \in SUBSET Check,
             commit \in Commit \cup {NoCommit} :
          /\ On(Pin(p))!CanCreateTask(t, k, s, parent, deps, text, checks, commit, now[p])
          /\ Decided(p, t, "Created",
                     TaskRow(k, s, parent, deps, text, checks, commit, now[p]), 0, <<>>, 0)
    BY ZenonT(40) DEF DecideCreateTask
  <1>2. call[p].phase = "Captured" /\ "CreateTask" \in Ops
    BY Zenon DEF DecideCreateTask
  <1>3. PICK plan : Is(plan, t, "Created",
                       TaskRow(k, s, parent, deps, text, checks, commit, now[p]), 0, <<>>)
    BY ZenonT(40) DEF Is
  <1>4. CreateTaskJustified(Pin(p), plan, now[p])
    BY Zenon, <1>1, <1>2, <1>3 DEF CreateTaskJustified
  <1>5. Justified(Pin(p), plan, ActorOf[p])
    BY ZenonT(40), <1>4, ReadingOK DEF Justified
  <1> QED BY ZenonT(40), <1>1, <1>2, <1>3, <1>5, DecidedKeeps

\* Claims decided on the capture.
LEMMA DecideClaimKeeps ==
    ASSUME PubInv, NEW p \in Client, NEW r \in Id, DecideClaim(p, r)
    PROVE  PubInv'
  <1>1. PICK lease \in Lease :
          /\ On(Pin(p))!CanClaim(r, now[p], lease)
          /\ Decided(p, r, "Claimed", On(Pin(p))!ClaimRow(r, ActorOf[p], now[p], lease),
                     Pin(p).drawn[r] + 1, <<>>, 0)
    BY DEF DecideClaim
  <1>2. call[p].phase = "Captured" /\ "Claim" \in Ops /\ Admitted(r)
    BY DEF DecideClaim
  <1>3. PICK plan : Is(plan, r, "Claimed", On(Pin(p))!ClaimRow(r, ActorOf[p], now[p], lease),
                       Pin(p).drawn[r] + 1, <<>>)
    BY ZenonT(40) DEF Is
  <1>4. ClaimJustified(Pin(p), plan, ActorOf[p], now[p])
    BY ZenonT(40), <1>1, <1>2, <1>3 DEF ClaimJustified
  <1>5. Justified(Pin(p), plan, ActorOf[p])
    BY ZenonT(40), <1>4, ReadingOK DEF Justified
  <1> QED BY ZenonT(40), <1>1, <1>2, <1>3, <1>5, DecidedKeeps

\* A cancellation: of an open task, for which no claim is looked at, or by
\* the claimant, whose claim is the one the captured row holds.
LEMMA DecideCancelKeeps ==
    ASSUME PubInv, NEW p \in Client, NEW t \in Task, DecideCancel(p, t)
    PROVE  PubInv'
  <1> DEFINE c == memory[p][t]
  <1>1. /\ On(Pin(p))!CanCancel(t, ActorOf[p], c, now[p])
        /\ Decided(p, t, "Cancelled", On(Pin(p))!ClosedRow(t, now[p], "Cancelled"), 0, <<>>,
                   LeaseEnd(p, t))
        /\ call[p].phase = "Captured" /\ "Cancel" \in Ops
    BY DEF DecideCancel, DecidedAsOwner
  <1>2. c = [token |-> c.token, revision |-> c.revision]
    BY ZenonT(40) DEF PubInv, MemoryOK, Remembered, Id
  <1> HIDE DEF c
  <1>3. On(Pin(p))!CanCancel(t, ActorOf[p], On(Pin(p))!Held(t), now[p])
    <2>1. CASE On(Pin(p))!CheckOwner(t, ActorOf[p], c, now[p])
      BY ZenonT(40), <1>1, <1>2, <2>1, FenceIsHeld
    <2>2. CASE ~On(Pin(p))!CheckOwner(t, ActorOf[p], c, now[p])
      BY <1>1, <2>2 DEF On!CanCancel
    <2> QED BY <2>1, <2>2
  <1>4. PICK plan : Is(plan, t, "Cancelled", On(Pin(p))!ClosedRow(t, now[p], "Cancelled"),
                       0, <<>>)
    BY Zenon DEF Is
  <1>5. CancelJustified(Pin(p), plan, ActorOf[p], now[p])
    BY ZenonT(40), <1>1, <1>3, <1>4 DEF CancelJustified
  <1>6. Justified(Pin(p), plan, ActorOf[p])
    BY ZenonT(40), <1>5, ReadingOK DEF Justified
  <1> QED BY ZenonT(40), <1>1, <1>4, <1>6, DecidedKeeps

\* What a caller presents that passes the fence of its capture is what the
\* captured row holds, so a decision of a claimant does not depend on what
\* else is remembered: it is justified on the capture alone.
LEMMA FencedKeeps ==
    ASSUME PubInv, NEW p \in Client, call[p].phase = "Captured",
           NEW r, NEW kind, NEW row, NEW token, NEW comment,
           \A plan : Is(plan, r, kind, row, token, comment) =>
                       FencedJustified(Pin(p), plan, ActorOf[p], now[p]),
           DecidedAsOwner(p, r, kind, row, token, comment)
    PROVE  PubInv'
  <1>1. PICK plan : Is(plan, r, kind, row, token, comment)
    BY ZenonT(40) DEF Is
  <1>2. Justified(Pin(p), plan, ActorOf[p])
    BY Zenon, <1>1, ReadingOK DEF Justified
  <1> QED BY ZenonT(40), <1>1, <1>2, DecidedKeeps DEF DecidedAsOwner

\* A renewal decided on the capture.
LEMMA DecideRenewKeeps ==
    ASSUME PubInv, NEW p \in Client, NEW r \in Id, DecideRenew(p, r)
    PROVE  PubInv'
  <1> DEFINE a == ActorOf[p]
             c == memory[p][r]
             at == now[p]
             h == On(Pin(p))!Held(r)
  <1>1. call[p].phase = "Captured" /\ "Renew" \in Ops /\ r \in Id /\ Admitted(r)
    BY ZenonT(40) DEF DecideRenew, Id, Admitted
  <1>2. PICK lease \in Lease :
          /\ On(Pin(p))!CanRenew(r, a, c, at, lease)
          /\ DecidedAsOwner(p, r, "Renewed", On(Pin(p))!RenewRow(r, at, lease), c.token, <<>>)
    BY DEF DecideRenew
  <1>3. c = [token |-> c.token, revision |-> c.revision]
    BY ZenonT(40), <1>1 DEF PubInv, MemoryOK, Remembered
  <1>4. c = h
    BY ZenonT(40), <1>2, <1>3, FenceIsHeld DEF On!CanRenew
  <1>5. ASSUME NEW plan,
               Is(plan, r, "Renewed", On(Pin(p))!RenewRow(r, at, lease), c.token, <<>>)
        PROVE  FencedJustified(Pin(p), plan, a, at)
    BY ZenonT(40), <1>1, <1>2, <1>4, <1>5 DEF FencedJustified
  <1> QED BY Zenon, <1>1, <1>2, <1>5, FencedKeeps

\* A release decided on the capture.
LEMMA DecideReleaseKeeps ==
    ASSUME PubInv, NEW p \in Client, NEW r \in Id, DecideRelease(p, r)
    PROVE  PubInv'
  <1> DEFINE a == ActorOf[p]
             c == memory[p][r]
             at == now[p]
             h == On(Pin(p))!Held(r)
  <1>1. call[p].phase = "Captured" /\ "Release" \in Ops /\ r \in Id /\ Admitted(r)
    BY Zenon DEF DecideRelease, Id, Admitted
  <1>2. /\ On(Pin(p))!CanRelease(r, a, c, at)
        /\ DecidedAsOwner(p, r, "Released", On(Pin(p))!ReleaseRow(r, at), 0, <<>>)
    BY DEF DecideRelease
  <1>3. c = [token |-> c.token, revision |-> c.revision]
    BY <1>1 DEF PubInv, MemoryOK, Remembered
  <1>4. c = h
    BY ZenonT(40), <1>2, <1>3, FenceIsHeld DEF On!CanRelease
  <1>5. ASSUME NEW plan,
               Is(plan, r, "Released", On(Pin(p))!ReleaseRow(r, at), 0, <<>>)
        PROVE  FencedJustified(Pin(p), plan, a, at)
    BY ZenonT(40), <1>1, <1>2, <1>4, <1>5 DEF FencedJustified
  <1> QED BY ZenonT(40), <1>1, <1>2, <1>5, FencedKeeps

\* A completion decided on the capture.
LEMMA DecideCompleteKeeps ==
    ASSUME PubInv, NEW p \in Client, NEW r \in Id, DecideComplete(p, r)
    PROVE  PubInv'
  <1> DEFINE a == ActorOf[p]
             c == memory[p][r]
             at == now[p]
             h == On(Pin(p))!Held(r)
  <1>1. call[p].phase = "Captured" /\ "Complete" \in Ops /\ r \in Id /\ Admitted(r)
    BY Zenon DEF DecideComplete, Id, Admitted
  <1>2. /\ On(Pin(p))!CanComplete(r, a, c, at)
        /\ DecidedAsOwner(p, r, "Completed", On(Pin(p))!ClosedRow(r, at, "Completed"), 0, <<>>)
    BY DEF DecideComplete
  <1>3. c = [token |-> c.token, revision |-> c.revision]
    BY ZenonT(40), <1>1 DEF PubInv, MemoryOK, Remembered
  <1>4. c = h
    BY ZenonT(40), <1>2, <1>3, FenceIsHeld DEF On!CanComplete
  <1>5. ASSUME NEW plan,
               Is(plan, r, "Completed", On(Pin(p))!ClosedRow(r, at, "Completed"), 0, <<>>)
        PROVE  FencedJustified(Pin(p), plan, a, at)
    BY ZenonT(40), <1>1, <1>2, <1>4, <1>5 DEF FencedJustified
  <1> QED BY ZenonT(40), <1>1, <1>2, <1>5, FencedKeeps

\* A comment decided on the capture.
LEMMA DecideCommentKeeps ==
    ASSUME PubInv, NEW p \in Client, NEW r \in Task, DecideComment(p, r)
    PROVE  PubInv'
  <1> DEFINE a == ActorOf[p]
             c == memory[p][r]
             at == now[p]
             h == On(Pin(p))!Held(r)
  <1>1. call[p].phase = "Captured" /\ "Comment" \in Ops /\ r \in Id /\ Admitted(r)
    BY ZenonT(40) DEF DecideComment, Id, Admitted
  <1>2. PICK k \in Key, body \in Text, lease \in Lease :
          /\ On(Pin(p))!CanComment(r, a, k, c, at, lease)
          /\ DecidedAsOwner(p, r, "CommentAdded", On(Pin(p))!RenewRow(r, at, lease), c.token,
                            <<On(Pin(p))!CommentRow(r, a, k, body, at)>>)
    BY Zenon DEF DecideComment
  <1>3. c = [token |-> c.token, revision |-> c.revision]
    BY ZenonT(40), <1>1 DEF PubInv, MemoryOK, Remembered
  <1>4. c = h
    BY ZenonT(40), <1>2, <1>3, FenceIsHeld DEF On!CanComment, On!CanRenew
  <1>5. ASSUME NEW plan,
               Is(plan, r, "CommentAdded", On(Pin(p))!RenewRow(r, at, lease), c.token,
                  <<On(Pin(p))!CommentRow(r, a, k, body, at)>>)
        PROVE  FencedJustified(Pin(p), plan, a, at)
    BY ZenonT(40), <1>1, <1>2, <1>4, <1>5 DEF FencedJustified
  <1> QED BY ZenonT(40), <1>1, <1>2, <1>5, FencedKeeps

\* A change of links decided on the capture.
LEMMA DecideLinksKeeps ==
    ASSUME PubInv, NEW p \in Client, NEW r \in Task, DecideLinks(p, r)
    PROVE  PubInv'
  <1> DEFINE a == ActorOf[p]
             c == memory[p][r]
             at == now[p]
             h == On(Pin(p))!Held(r)
  <1>1. call[p].phase = "Captured" /\ "Links" \in Ops /\ r \in Id /\ Admitted(r)
    BY ZenonT(40) DEF DecideLinks, Id, Admitted
  <1>2. PICK parent \in Task \cup {NoTask}, deps \in SUBSET Task, lease \in Lease :
          /\ On(Pin(p))!CanLink(r, a, parent, deps, c, at, lease)
          /\ DecidedAsOwner(p, r, "LinksUpdated",
                            On(Pin(p))!LinksRow(r, parent, deps, at, lease), c.token, <<>>)
    BY ZenonT(40) DEF DecideLinks
  <1>3. c = [token |-> c.token, revision |-> c.revision]
    BY ZenonT(40), <1>1 DEF PubInv, MemoryOK, Remembered
  <1>4. c = h
    BY ZenonT(40), <1>2, <1>3, FenceIsHeld DEF On!CanLink, On!CanRenew
  <1>5. ASSUME NEW plan,
               Is(plan, r, "LinksUpdated",
                  On(Pin(p))!LinksRow(r, parent, deps, at, lease), c.token, <<>>)
        PROVE  FencedJustified(Pin(p), plan, a, at)
    BY Zenon, <1>1, <1>2, <1>4, <1>5 DEF FencedJustified
  <1> QED BY ZenonT(40), <1>1, <1>2, <1>5, FencedKeeps

\* A call moves on to another phase, its other parts unchanged.
LEMMA PhaseKeeps ==
    ASSUME PubInv, NEW p \in Client, NEW phase, To(p, phase),
           \/ phase = "Committed" /\ version' = version + 1
           \/ /\ phase = "Checked" /\ call[p].phase = "Decided"
              /\ version' = version /\ Snapshot' = Snapshot
    PROVE  CallsOK'
  <1> DEFINE c == [call[p] EXCEPT !.phase = phase]
  <1>1. CallOK(call[p], version, Snapshot, ActorOf[p])
    BY DEF PubInv, CallsOK
  <1>2. /\ c.phase = phase /\ c.pin = call[p].pin /\ c.base = call[p].base
        /\ c.plan = call[p].plan
        /\ DOMAIN c = {"phase", "pin", "base", "indexed", "plan", "lease"}
    BY <1>1 DEF CallOK
  <1>3. call' = [call EXCEPT ![p] = c]
    BY ZenonT(40) DEF To
  <1> HIDE DEF c
  <1>4. CallOK(c, version', Snapshot', ActorOf[p])
    BY <1>1, <1>2 DEF CallOK
  <1> QED BY Zenon, <1>3, <1>4, OneCall

\* Every step of a caller keeps the invariant, whatever is lost on the way.
LEMMA PubInvStep ==
    PubInv /\ [PubNext]_allVars => PubInv'
  <1> SUFFICES ASSUME PubInv, [PubNext]_allVars PROVE PubInv'
    BY ZenonT(40)
  <1>1. CASE UNCHANGED allVars
    BY ZenonT(40), <1>1 DEF allVars, pubVars, vars, PubInv, CallsOK, ClocksOK, MemoryOK, Snapshot
  <1>2. ASSUME NEW p \in Client, Step(p) \/ Crash(p) \/ Depart(p) \/ Tick(p)
        PROVE  PubInv'
    <2>0. CallOK(call[p], version, Snapshot, ActorOf[p]) /\ version \in Nat
      BY DEF PubInv, CallsOK
    <2>1. CASE Capture(p)
      <3> DEFINE c == [Idle EXCEPT !.phase = "Captured", !.pin = Snapshot,
                                   !.base = version, !.indexed = indexed]
      <3>1. /\ c.phase = "Captured" /\ c.pin = Snapshot /\ c.base = version
            /\ DOMAIN c = {"phase", "pin", "base", "indexed", "plan", "lease"}
        BY DEF Idle
      <3>2. call' = [call EXCEPT ![p] = c]
        BY ZenonT(40), <2>1 DEF Capture
      <3> HIDE DEF c
      <3>3. CallOK(c, version, Snapshot, ActorOf[p])
        BY <2>0, <3>1 DEF CallOK
      <3>4. CallsOK'
        BY Zenon, <2>1, <3>2, <3>3, OneCall DEF Capture, vars, Snapshot
      <3> QED BY <2>1, <3>4 DEF Capture, PubInv, ClocksOK, MemoryOK
    <2>2. CASE DecideCreateSession(p) \/ DecideCreateTask(p)
      BY <2>2, DecideCreateSessionKeeps, DecideCreateTaskKeeps
    <2>3. ASSUME NEW r \in Id, \/ DecideClaim(p, r) \/ DecideRenew(p, r)
                               \/ DecideRelease(p, r) \/ DecideComplete(p, r)
          PROVE  PubInv'
      BY ZenonT(40), <2>3, DecideClaimKeeps, DecideRenewKeeps, DecideReleaseKeeps, DecideCompleteKeeps
    <2>4. ASSUME NEW t \in Task, DecideComment(p, t) \/ DecideLinks(p, t) \/ DecideCancel(p, t)
          PROVE  PubInv'
      BY ZenonT(40), <2>4, DecideCommentKeeps, DecideLinksKeeps, DecideCancelKeeps
    <2>5. ASSUME NEW r \in Id, Reclaim(p, r) PROVE PubInv'
      <3>1. Remembered(On(Pin(p))!Held(r))
        BY DEF Remembered, On!Held
      <3>2. MemoryOK'
        BY Zenon, <2>5, <3>1, OneMemory DEF Reclaim
      <3> QED BY ZenonT(40), <2>5, <3>2, EndKeeps DEF Reclaim
    <2>6. ASSUME NEW r \in Id, NEW n, memory' = [memory EXCEPT ![p][r].revision = n]
          PROVE  MemoryOK'
      <3>1. memory' = [memory EXCEPT ![p][r] = [token |-> memory[p][r].token, revision |-> n]]
        <4>1. Remembered(memory[p][r])
          BY DEF PubInv, MemoryOK
        <4>2. [memory[p][r] EXCEPT !.revision = n]
                = [token |-> memory[p][r].token, revision |-> n]
          BY <4>1 DEF Remembered
        <4> QED BY ZenonT(40), <2>6, <4>2
      <3>2. Remembered([token |-> memory[p][r].token, revision |-> n])
        BY DEF Remembered
      <3> QED BY Zenon, <3>1, <3>2, OneMemory
    <2>7. ASSUME NEW t \in Task, RecallComment(p, t) PROVE PubInv'
      <3>1. MemoryOK'
        BY Zenon, <2>6, <2>7 DEF RecallComment, Id
      <3> QED BY Zenon, <2>7, <3>1, EndKeeps DEF RecallComment
    <2>8. CASE Refuse(p)
      <3>1. MemoryOK'
        <4>1. CASE UNCHANGED memory
          BY <4>1 DEF PubInv, MemoryOK
        <4> QED BY <2>6, <2>8, <4>1 DEF Refuse
      <3> QED BY <2>8, <3>1, EndKeeps DEF Refuse
    <2>9. CASE PublishIndex(p)
      <3> DEFINE c == [call[p] EXCEPT !.base = version + 1, !.indexed = TRUE]
      <3>1. /\ c.phase = call[p].phase /\ c.pin = call[p].pin /\ c.base = version + 1
            /\ c.plan = call[p].plan
            /\ DOMAIN c = {"phase", "pin", "base", "indexed", "plan", "lease"}
        BY <2>0 DEF CallOK
      <3>2. call' = [call EXCEPT ![p] = c]
        BY Zenon, <2>9 DEF PublishIndex
      <3> HIDE DEF c
      <3>3. c.pin = Snapshot /\ Justified(c.pin, c.plan, ActorOf[p])
        BY <2>0, <2>9, <3>1 DEF PublishIndex, CallOK
      <3>4. Snapshot' = Snapshot /\ version' = version + 1
        BY ZenonT(40), <2>9 DEF PublishIndex, Snapshot, vars
      <3>5. CallOK(c, version', Snapshot', ActorOf[p])
        BY <2>0, <3>1, <3>3, <3>4 DEF CallOK
      <3>6. CallsOK'
        BY Zenon, <3>2, <3>4, <3>5, OneCall
      <3> QED BY <2>0, <2>9, <3>6 DEF PublishIndex, PubInv, ClocksOK, MemoryOK
    <2>10. CASE Recheck(p)
      <3>1. CallsOK'
        <4>1. /\ To(p, "Checked") /\ call[p].phase = "Decided"
              /\ version' = version /\ Snapshot' = Snapshot
          <5>1. UNCHANGED vars
            BY Zenon, <2>10 DEF Recheck
          <5>2. Snapshot' = Snapshot
            BY Zenon, <5>1 DEF Snapshot, vars
          <5> QED BY Zenon, <2>10, <5>2 DEF Recheck
        <4> QED BY Zenon, <4>1, PhaseKeeps
      <3> QED BY ZenonT(40), <2>10, <3>1 DEF Recheck, PubInv, ClocksOK, MemoryOK
    <2>11. CASE Abort(p)
      BY ZenonT(40), <2>11, EndKeeps DEF Abort, PubInv, MemoryOK
    <2>12. CASE StrictCommit(p)
      <3>1. CallsOK'
        BY Zenon, <2>12, PhaseKeeps DEF StrictCommit
      <3> QED BY SMTT(30), <2>0, <2>12, <3>1 DEF StrictCommit, PubInv, ClocksOK, MemoryOK
    <2>13. CASE Answer(p)
      <3>1. MemoryOK'
        BY ZenonT(40), <2>13 DEF Answer, PubInv, MemoryOK, Remembered, NoClaim
      <3> QED BY ZenonT(40), <2>13, <3>1, EndKeeps DEF Answer
    <2>14. CASE Crash(p)
      BY <2>14, EndKeeps DEF Crash, PubInv, MemoryOK
    <2>15. CASE Depart(p)
      <3>1. CallsOK'
        BY Zenon, <2>15, NoCallOK, OneCall DEF Depart, Snapshot, vars
      <3>2. MemoryOK'
        BY Zenon, <2>15 DEF Depart, PubInv, MemoryOK, Remembered, NoClaim
      <3> QED BY <2>15, <3>1, <3>2 DEF Depart, PubInv, ClocksOK
    <2>16. CASE Tick(p)
      <3>1. CallsOK'
        BY <2>16 DEF Tick, PubInv, CallsOK, Snapshot, vars
      <3>2. ClocksOK'
        BY <2>16, TaskPublishAssumption, TaskStoreAssumption DEF Tick, PubInv, ClocksOK
      <3> QED BY ZenonT(40), <2>16, <3>1, <3>2 DEF Tick, PubInv, MemoryOK
    <2> QED BY ZenonT(40), <1>2, <2>1, <2>2, <2>3, <2>4, <2>5, <2>7, <2>8, <2>9, <2>10, <2>11, <2>12,
               <2>13, <2>14, <2>15, <2>16 DEF Step
  <1> QED BY <1>1, <1>2 DEF PubNext

\* The invariant holds when no call was made yet.
LEMMA PubInvInit ==
    PubInit => PubInv
  <1> SUFFICES ASSUME PubInit PROVE PubInv
    OBVIOUS
  <1>1. CallsOK
    BY NoCallOK DEF PubInit, CallsOK
  <1>2. ClocksOK
    <2>1. ASSUME NEW p \in Client PROVE 1 \in 1..ClockLimit[p]
      <3>1. ClockLimit[p] \in Nat \ {0}
        BY Zenon, TaskPublishAssumption, TaskStoreAssumption
      <3> QED BY <3>1
    <2> QED BY <2>1 DEF PubInit, ClocksOK
  <1>3. MemoryOK
    BY DEF PubInit, MemoryOK, Remembered, NoClaim
  <1> QED BY <1>1, <1>2, <1>3 DEF PubInit, PubInv

\* A step of a caller leaves the dataset alone or is one step of the store:
\* only the strict commit writes rows, and it does on the base it was decided on.
LEMMA PubStepIsStep ==
    PubInv /\ [PubNext]_allVars => [Next]_vars
  <1> SUFFICES ASSUME PubInv, [PubNext]_allVars PROVE [Next]_vars
    OBVIOUS
  <1>1. CASE UNCHANGED allVars
    BY <1>1 DEF allVars
  <1>2. ASSUME NEW p \in Client, StrictCommit(p) PROVE Next
    <2>1. CallOK(call[p], version, Snapshot, ActorOf[p])
      BY ZenonT(40) DEF PubInv, CallsOK
    <2>2. Justified(Snapshot, call[p].plan, ActorOf[p]) /\ Merge(p, call[p].plan)
      BY ZenonT(40), <1>2, <2>1 DEF StrictCommit, CallOK
    <2> QED BY <2>2, CommitIsStep
  <1>3. ASSUME NEW p \in Client, Step(p) \/ Crash(p) \/ Depart(p) \/ Tick(p),
               ~StrictCommit(p)
        PROVE  UNCHANGED vars
    <2>1. CASE DecideCreateSession(p)
      BY <2>1 DEF DecideCreateSession, Decided
    <2>2. ASSUME NEW r \in Id, \/ DecideClaim(p, r) \/ DecideRenew(p, r)
                               \/ DecideRelease(p, r) \/ DecideComplete(p, r)
          PROVE  UNCHANGED vars
      <3>1. CASE DecideClaim(p, r)
        BY <3>1 DEF DecideClaim, Decided
      <3>2. CASE DecideRenew(p, r)
        BY <3>2 DEF DecideRenew, DecidedAsOwner, Decided
      <3>3. CASE DecideRelease(p, r)
        BY <3>3 DEF DecideRelease, DecidedAsOwner, Decided
      <3>4. CASE DecideComplete(p, r)
        BY <3>4 DEF DecideComplete, DecidedAsOwner, Decided
      <3> QED BY ZenonT(40), <2>2, <3>1, <3>2, <3>3, <3>4
    <2>3. ASSUME NEW t \in Task, \/ DecideComment(p, t) \/ DecideLinks(p, t)
                                 \/ DecideCancel(p, t)
          PROVE  UNCHANGED vars
      <3>1. CASE DecideComment(p, t)
        BY <3>1 DEF DecideComment, DecidedAsOwner, Decided
      <3>2. CASE DecideLinks(p, t)
        BY <3>2 DEF DecideLinks, DecidedAsOwner, Decided
      <3>3. CASE DecideCancel(p, t)
        BY ZenonT(40), <3>3 DEF DecideCancel, DecidedAsOwner, Decided
      <3> QED BY <2>3, <3>1, <3>2, <3>3
    <2>4. CASE \/ Capture(p) \/ Refuse(p) \/ PublishIndex(p) \/ Recheck(p) \/ Abort(p)
               \/ Answer(p) \/ Crash(p) \/ Depart(p) \/ Tick(p)
      BY <2>4 DEF Capture, Refuse, PublishIndex, Recheck, Abort, Answer, Crash, Depart, Tick
    <2>5. ASSUME NEW r \in Id, Reclaim(p, r) PROVE UNCHANGED vars
      BY ZenonT(40), <2>5 DEF Reclaim
    <2>6. ASSUME NEW t \in Task, RecallComment(p, t) PROVE UNCHANGED vars
      BY Zenon, <2>6 DEF RecallComment
    <2>7. CASE DecideCreateTask(p)
      BY <2>7 DEF DecideCreateTask, Decided
    <2> QED BY ZenonT(40), <1>3, <2>1, <2>2, <2>3, <2>4, <2>5, <2>6, <2>7 DEF Step
  <1> QED BY <1>1, <1>2, <1>3 DEF PubNext

\* The publication protocol implements the atomic store: for any number of
\* callers, any clocks, with or without the writer lock, and with calls lost
\* anywhere, the dataset evolves by whole operations decided on the rows they
\* are applied to.
THEOREM PublishImplementsStore ==
    PubSpec => ImplementsStore
  <1>1. PubInit => Init
    BY DEF PubInit
  <1> QED BY <1>1, PubInvInit, PubInvStep, PubStepIsStep, PTL
          DEF PubSpec, ImplementsStore, Spec

\* What was proved of the atomic store is true of the dataset under concurrent
\* publication: the graph stays acyclic with its links resolved, a completed
\* task stays settled, and a completed session has no unfinished task.
THEOREM GatesHoldWhenPublished ==
    PubSpec => [](GraphStaysValid /\ CompletedIsSettled /\ ClosedSessionStaysClosed)
  BY PublishImplementsStore, GraphAlwaysValid, CompletedStaysSettled, SessionsStayClosed, PTL
     DEF ImplementsStore
=============================================================================
