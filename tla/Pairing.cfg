SPECIFICATION FairSpec
CONSTANTS
  s1 = s1
  a1 = a1
  a2 = a2
  a3 = a3
  Session = {s1}
  Approver = {a1, a2, a3}
  NoOne = NoOne
  MaxFaults = 2
INVARIANT JoinedWasApproved
INVARIANT OkWasCollected
INVARIANT AnswerFindsVault
PROPERTY ApprovedJoins
CHECK_DEADLOCK FALSE
