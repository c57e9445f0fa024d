\* One resume at a time, dying at most once; a plan made up to twice.
SPECIFICATION Spec
CONSTANTS
  Actions = {a1, a2}
  Resumes = {e1}
  Results = {"ok", "unverified", "raised"}
  MaxPlans = 2
  MaxGrants = 2
  MaxCrashes = 1
INVARIANTS
  OneWritePerGrant
PROPERTIES
  ExecutedIsFinal
  WriteNeedsApproval
  CompletionIsEarned
