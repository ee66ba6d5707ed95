SPECIFICATION Spec
CONSTANTS
  tool = tool
  Tool = Tool
  site = site
  one = one
  two = two
  build = build
  other = other
  None = None
  Proc = {p1, p2}
  Spelling = {tool, Tool, site}
  Host = {site}
  Alias <- MCAlias
  Id = {one, two}
  Workflow = {build, other}
  Docs <- MCDocs
  Approvals <- MCApprovals
  MaxSeq = 2
  MaxRuns = 3
  MaxMoves = 1
SYMMETRY MCSymmetry
CHECK_DEADLOCK FALSE
INVARIANT NoOlderList
 
PROPERTY SequenceNeverFalls
PROPERTY TrustChangesReviewed
