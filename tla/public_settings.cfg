SPECIFICATION FairSpec
CONSTANTS
  Offered <- Requests
  MaxCommand = 2
  MaxMishap = 1
  MaxLost = 1
  None = None
CHECK_DEADLOCK FALSE
INVARIANTS SecretsFollowTheAnswers SettingsSurvive
PROPERTIES CommandsEnd
