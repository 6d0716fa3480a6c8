SPECIFICATION FairSpec
CONSTANTS
  Messages = {m1, m2, m3}
  MaxRetries = 1
  MaxDeaths = 1

CHECK_DEADLOCK FALSE
PROPERTIES DeliversAtLeastOnce EverythingSettles
