SPECIFICATION MCFairSpec
CONSTANTS
  old = old
  fresh = fresh
  alien = alien
  None = None
  N = 2
  Entry <- MCEntry
  Scope = {s1, s2}
  Proposals <- MCProposals
  MaxTxns = 2
  MaxCrashes = 2
  MaxFaults = 2
  MaxEdits = 1
INVARIANT AllOrNothing
INVARIANT OldKept
INVARIANT HonestReply
INVARIANT PointersLead
INVARIANT NoSlotOutlivesJournal
PROPERTY CommittedIsFinal
PROPERTY NothingForeignDisplaced
PROPERTY RecoveryCompletes
