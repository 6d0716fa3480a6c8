SPECIFICATION Spec
CONSTANTS
  Messages = {m1, m2}
  MaxRetries = 1
  MaxDeaths = 0

CHECK_DEADLOCK FALSE
PROPERTIES ComesAgain
