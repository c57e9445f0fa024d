\* SQLite, every call of the remote side that is made is answered.
SPECIFICATION FairSpec
CONSTANTS
  k1 = k1
  k2 = k2
  k3 = k3
  Keys = {k1, k2}
  Loops = {l1}
  Runs = {r1}
  KeyOf <- MCKeyOf
  ConnectorOf <- MCConnectorOf
  Limit = 1
  MaxAttempts = 2
  Results = {"ok", "raised", "refused"}
  Serialized = TRUE
  SlowBatches = FALSE
  MaxPayload = 1
  MaxCrashes = 1
INVARIANTS
  ClaimNumbersDiffer
  AcceptedOnce
PROPERTIES
  EventSettles
