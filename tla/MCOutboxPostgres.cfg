\* Postgres, with lost answers and slow batches.
SPECIFICATION Spec
CONSTANTS
  k1 = k1
  k2 = k2
  k3 = k3
  Keys = {k1, k3}
  Loops = {l1}
  Runs = {r1}
  KeyOf <- MCKeyOf
  ConnectorOf <- MCConnectorOf
  Limit = 1
  MaxAttempts = 2
  Results = {"ok", "raised", "raised_late", "refused", "unverified"}
  Serialized = FALSE
  SlowBatches = TRUE
  MaxPayload = 1
  MaxCrashes = 0
INVARIANTS
  DispatchedWasAccepted
