\* Two settings, restarts, I2C failures and one interrupting datagram.
CONSTANTS
  NumPages = 2
  Values = {0, 1}
  Defaults <- BothZero
  Torn = Torn
  Requests <- SetOrGet
  GateMax = 1
  GateValues = {0, 1}
  MaxUdp = 1
SPECIFICATION SettingsSpec
INVARIANTS
  StoreKeepsPromises
  LoadsAreWhole
PROPERTIES
  EveryRequestAnswered
