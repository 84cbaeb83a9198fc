SPECIFICATION Spec
CONSTANTS
  m1 = m1
  m2 = m2
  Mailbox = {m1, m2}
  VaultPurpose = {"vault_open", "vault_backup"}
  OtherPurpose = {"enroll"}
  MaxAge = {1, 9}
  Overflow = 9
  MaxDelay = 1
  MaxChallenges = 3
  MaxFaults = 1
  MaxTime = 3
SYMMETRY MailboxSymmetry
INVARIANT GrantFitsItsCall
INVARIANT RememberedIsNewest
INVARIANT RightAnswerIsGranted
INVARIANT CachedConfigIsFresh
CHECK_DEADLOCK FALSE
