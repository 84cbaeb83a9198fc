SPECIFICATION Spec
CONSTANTS
  s1 = s1
  a1 = a1
  a2 = a2
  a3 = a3
  Approver = {a1, a2, a3}
  NoOne = NoOne
  Session = {s1}
  MaxFaults = 2
INVARIANT JoinedWasApproved
INVARIANT OkMeansJoined
CHECK_DEADLOCK FALSE
