CONSTANTS
    Docs <- MCDocs
    Requests <- MCRequests
    Requirements <- MCRequirements
    Fold <- MCFold
    KeyId <- MCKeyId
    Ids <- MCIds
    Names <- MCNames
    Born <- MCBorn
    Moves <- MCMoves
    MaxTrail = 3
    Arguments <- MCArguments
    None = None
SPECIFICATION Spec
INVARIANT OwnRepository
INVARIANT SignerKept
INVARIANT LinksKept
INVARIANT RenamesAreQuiet
INVARIANT CommandsAgree
CHECK_DEADLOCK FALSE
