SPECIFICATION AskSpec
CONSTANTS
  q = 5
  PasswordLength = 8
  PasswordBytes = 2
  Algorithm = {"mlkem", "x25519"}
  PqAlgorithm = {"mlkem"}
INVARIANT EvaluationIsRight
INVARIANT ProofBindsEvaluation
INVARIANT PairedDevicesAgree
INVARIANT PasswordSurvivesTransfer
INVARIANT BestKeyIsChosen
CHECK_DEADLOCK FALSE
