SPECIFICATION Spec
CONSTANTS
  t1 = t1
  t2 = t2
  t3 = t3
  s1 = s1
  s2 = s2
  a1 = a1
  a2 = a2
  k1 = k1
  k2 = k2
  k3 = k3
  x1 = x1
  x2 = x2
  g1 = g1
  acc1 = acc1
  acc2 = acc2
  tst1 = tst1
  tst2 = tst2
  NoTask = NoTask
  NoCheck = NoCheck
  NoSession = NoSession
  NoActor = NoActor
  NoCommit = NoCommit
  AcceptanceCheck = {acc1}
  TestCheck = {tst1}
  Task = {t1, t2}
  Session = {s1, s2}
  Actor = {a1}
  Key = {k1, k2, k3}
  Text = {x1}
  Commit = {}
  Clock = {1}
  Lease = {1}
  MaxStamp = 2
  MaxRevision = 60
  Ops = {"CreateSession", "CreateTask", "Claim", "Verify", "Links", "Release", "Complete", "Cancel", "CoordinateTask"}
VIEW GraphView
INVARIANTS
  GraphStaysValid
  CompletedIsSettled
  ClosedSessionStaysClosed
\* A project whose work is all closed has nothing left to do.
CHECK_DEADLOCK FALSE
