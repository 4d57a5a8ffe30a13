SPECIFICATION PubSpec
CONSTANTS
  t1 = t1
  t2 = t2
  s1 = s1
  a1 = a1
  a2 = a2
  k1 = k1
  k2 = k2
  k3 = k3
  x1 = x1
  acc1 = acc1
  tst1 = tst1
  p1 = p1
  p2 = p2
  NoTask = NoTask
  NoCheck = NoCheck
  NoSession = NoSession
  NoActor = NoActor
  NoCommit = NoCommit
  NoClient = NoClient
  AcceptanceCheck = {acc1}
  TestCheck = {tst1}
  Task = {t1}
  Session = {s1}
  Actor = {a1}
  Key = {k1}
  Text = {x1}
  Commit = {}
  Clock = {1, 2}
  Lease = {1}
  MaxStamp = 3
  MaxRevision = 4
  Ops = {"CreateSession", "CreateTask", "Claim", "Renew", "Release", "Cancel", "Comment"}
  Client = {p1, p2}
  ActorOf <- OneActor
  Remote = FALSE
  ClockLimit <- TwoReadings
  Lossy = TRUE
  Mortal = {}
INVARIANTS
  LocalCaptureIsCurrent
PROPERTIES
  ImplementsStore
\* Clocks end at their bound, revisions at MaxRevision, and a caller may be
\* gone for good: a behaviour may stop.
CHECK_DEADLOCK FALSE
