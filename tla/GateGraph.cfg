SPECIFICATION Spec
CONSTANTS
  a = a
  t = t
  t1 = t1
  t2 = t2
  t3 = t3
  s1 = s1
  s2 = s2
  NoTask = NoTask
  NoCheck = NoCheck
  AcceptanceCheck = {a}
  TestCheck = {t}
  Session = {s1, s2}
  Task = {t1, t2, t3}
  InitialFacts <- ThreeTasks
INVARIANTS
  TypeOK
  AcceptsExactlyValidGraphs
  VerdictsAreTheGates
  SourcesBeforeTargets
PROPERTIES
  Terminates
\* The evaluation is one call: it ends in a state without successor.
CHECK_DEADLOCK FALSE
