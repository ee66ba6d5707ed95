SPECIFICATION MCSpec
CONSTANTS
  old = old
  fresh = fresh
  alien = alien
  None = None
  N = 2
  Entry <- MCEntry
  Scope = {s1}
  Proposals <- MCProposals
  MaxTxns = 1
  MaxCrashes = 0
  MaxFaults = 0
  MaxEdits = 1
INVARIANT OrdinaryErrorsRollBack
