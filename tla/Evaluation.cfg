SPECIFICATION Spec
CONSTANTS
  Cases <- MCCases
  Requires <- MCRequires
  Faulty = {"write"}
  Selections <- MCSelections
  Judgements <- MCJudgements
  Retries = 2
  K = 1
  Votes = 3
  Purge = TRUE
  Variant <- MCVariant
  Downstream <- MCDownstream
  Chains = {"kept", "withdrawn"}
  Logs <- MCLogs
  Answered <- MCAnswered
  MaxRounds = 2
  MaxFails = 1
  MaxKills = 1
  MaxEdits = 1
INVARIANT SamplesAreValid
INVARIANT ComparisonsAreFair
INVARIANT NothingIsLost
INVARIANT DepositsAreEarned
CHECK_DEADLOCK FALSE
