SPECIFICATION Spec
CONSTANTS
  t1 = t1
  t2 = t2
  t3 = t3
  s1 = s1
  s2 = s2
  a1 = a1
  a2 = a2
  k1 = k1
  k2 = k2
  k3 = k3
  x1 = x1
  x2 = x2
  g1 = g1
  acc1 = acc1
  acc2 = acc2
  tst1 = tst1
  tst2 = tst2
  NoTask = NoTask
  NoCheck = NoCheck
  NoSession = NoSession
  NoActor = NoActor
  NoCommit = NoCommit
  AcceptanceCheck = {acc1}
  TestCheck = {tst1}
  Task = {}
  Session = {s1}
  Actor = {a1, a2}
  Key = {k1}
  Text = {x1, x2}
  Commit = {}
  Clock = {1, 2, 3}
  Lease = {1, 2}
  MaxStamp = 4
  MaxRevision = 6
  Ops = {"CreateSession", "Claim", "Renew", "Progress", "Release", "Complete", "CoordinateTask"}
SYMMETRY ActorSymmetry
INVARIANTS
  RowsDecode
  HistoryValidates
  EpochHasOneWriter
\* Terminal records take no further operation and revisions end at
\* MaxRevision: a behaviour may stop.
CHECK_DEADLOCK FALSE
