SPECIFICATION MCSpec
CONSTANTS
  old = old
  fresh = fresh
  alien = alien
  None = None
  N = 3
  Entry <- MCEntry
  Scope = {s1}
  Proposals <- MCProposals
  MaxTxns = 2
  MaxCrashes = 2
  MaxFaults = 1
  MaxEdits = 0
PROPERTY Implements
