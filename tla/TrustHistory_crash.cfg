SPECIFICATION Spec
CONSTANTS
  tool = tool
  Tool = Tool
  site = site
  one = one
  two = two
  build = build
  other = other
  None = None
  Proc = {p1}
  Spelling = {tool, site}
  Host = {site}
  Alias <- MCAlias
  Id = {one, two}
  Workflow = {build, other}
  Docs <- MCDocs
  Approvals <- MCApprovals
  MaxSeq = 1
  MaxRuns = 2
  MaxMoves = 1
CHECK_DEADLOCK FALSE
INVARIANT RememberedNameIsKept
