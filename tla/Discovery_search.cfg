CONSTANTS
    Leads <- MCLeads
    BundleNames <- MCBundleNames
    Sites <- MCSites
    Publications <- MCOwnTags
    Requests <- MCRequests
    MaxBundles = 3
    None = None
SPECIFICATION Spec
INVARIANT OffersAsDefined
INVARIANT RightRelease
INVARIANT FetchesBounded
CHECK_DEADLOCK FALSE
