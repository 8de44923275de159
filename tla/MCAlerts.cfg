SPECIFICATION Spec
CONSTANTS
  Alerts = {"a1", "a2", "a3"}
  NoAlert = NoAlert
  SymbolOf <- WithCopper
  MaxFaults = 1
INVARIANTS
  TypeOK
  ToldOnce
  AtMostOneLateAlert
PROPERTIES
  StaysOff
  AlertsFire
