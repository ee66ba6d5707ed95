CONSTANTS
    Publications <- MCPublications
    MaxTime = 2
    None = None
    u1 = u1
    u2 = u2
    Url <- MCUrl
    Documents = {u1}
    Origin <- MCOrigin
    Editions = {1}
    Absent = Absent
    Unknown = Unknown
SPECIFICATION Spec
PROPERTY FallbackJustified
INVARIANT OfflineAsAnswered
PROPERTY StoredNeverOlder
CHECK_DEADLOCK FALSE
