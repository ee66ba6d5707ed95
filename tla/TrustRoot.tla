------------------------------ MODULE TrustRoot ------------------------------
(***************************************************************************)
(* src/trust_root.rs: the keys that signatures are verified with. A run    *)
(* refreshes them from a TUF repository, starting from a root built in,    *)
(* and keeps all metadata in one file, replaced when a refresh is          *)
(* complete. Without a network the file is replayed.                       *)
(*                                                                         *)
(* The metadata of one publication: the version of the root whose keys     *)
(* sign it, those of its roles, and when it expires. What the client       *)
(* library does is external: it starts from the root in its store, takes   *)
(* metadata that the root it knows has signed and that agree with each     *)
(* other, and refuses a timestamp older than a stored one which that root  *)
(* has signed.                                                             *)
(***************************************************************************)
EXTENDS Naturals, Sequences

CONSTANTS
    Publications,   \* what the repository publishes, in order
    MaxTime,        \* bound
    None

Roles == {"timestamp", "snapshot", "targets"}

Publication == [Roles \cup {"root", "expires"} -> Nat]

ASSUME PublicationsAssumption ==
    Publications \in Seq(Publication) /\ Publications # <<>>
ASSUME NoneAssumption ==
    None \notin Nat /\ None \notin Publication /\ None \notin {"online", "offline", "network"}

VARIABLES
    published,  \* how many publications there are: caches may serve any of them
    now,
    stored,     \* tuf.json: the metadata of a complete refresh, None before
    mode,       \* of the run: "online", "offline", None when none runs
    stage,      \* what it asks for next
    previous,   \* what was stored when it began, for as long as it refreshes
    floors,     \* the versions it refuses to go below
    root,       \* the root it knows
    taken,      \* role |-> the publication it took that role's metadata from
    failure,    \* how it failed to get something: "network", "other", or None
    keys        \* the keys it uses: the version of their target, None before

tufVars == <<stored, mode, stage, previous, floors, root, taken, failure, keys>>
repository == <<published, now>>

Nothing(x) == [r \in Roles |-> x]

TufInit ==
    /\ published = 1 /\ now = 0 /\ stored = None
    /\ mode = None /\ stage = "done" /\ keys = None
    /\ previous = None /\ root = 1 /\ failure = None
    /\ floors = Nothing(0) /\ taken = Nothing(None)

-----------------------------------------------------------------------------
\* validate_cache: the versions that were authenticated before, expired or not.
FloorsOf(cache) ==
    [r \in Roles |-> IF cache = None THEN 0 ELSE cache[r]]

\* replay: signatures and expiry are checked again.
Replays(cache) == cache # None /\ now < cache.expires

\* Mutant: any failure falls back to what is stored.
MutantFallBackAlways == TRUE

\* Only a failure of the network does: to connect, in time, or in the body.
MayFallBack == failure = "network"

\* HttpRepository: how a request may fail. A status, a size or a redirect that
\* is refused is no failure of the network.
Failures == {"network", "other"}

Return(got) ==
    /\ stage' = "done" /\ keys' = got
    /\ previous' = None /\ root' = 1 /\ failure' = None
    /\ floors' = Nothing(0) /\ taken' = Nothing(None)

UseStored(cache) == Return(IF Replays(cache) THEN cache.targets ELSE None)

\* refresh, up to the first request.
Refresh(how) ==
    /\ mode = None
    /\ mode' = how
    /\ IF how = "offline" THEN UseStored(stored)
       ELSE /\ stage' = "root" /\ keys' = None /\ failure' = None
            /\ previous' = stored
            /\ floors' = FloorsOf(stored)
            /\ root' = IF stored = None THEN 1 ELSE stored.root
            /\ taken' = Nothing(None)
    /\ UNCHANGED <<repository, stored>>

Request(what) == mode = "online" /\ stage = what /\ failure = None

FetchRoot(served) ==
    /\ Request("root")
    /\ root' = IF served.root > root THEN served.root ELSE root
    /\ stage' = "timestamp"
    /\ UNCHANGED <<repository, stored, mode, previous, floors, taken, failure, keys>>

\* Mutant: only the library's own check.
MutantNoFloors(role, served) == TRUE

\* FloorRepository
AboveFloor(role, served) == served[role] >= floors[role]

\* What the library accepts.
Accepts(role, served) ==
    /\ served.root = root /\ now < served.expires
    /\ CASE role = "timestamp" -> previous # None /\ previous.root = root =>
                                    served.timestamp >= previous.timestamp
         [] role = "snapshot"  -> served.snapshot = taken.timestamp.snapshot
         [] role = "targets"   -> served.targets = taken.snapshot.targets

FetchRole(role, served) ==
    /\ Request(role)
    /\ IF AboveFloor(role, served) /\ Accepts(role, served)
         THEN /\ taken' = [taken EXCEPT ![role] = served]
              /\ stage' = (CASE role = "timestamp" -> "snapshot"
                             [] role = "snapshot" -> "targets"
                             [] role = "targets" -> "keys")
              /\ UNCHANGED failure
         ELSE failure' = "other" /\ UNCHANGED <<taken, stage>>
    /\ UNCHANGED <<repository, stored, mode, previous, floors, root, keys>>

Breaks(how) ==
    /\ mode = "online" /\ stage # "done" /\ failure = None
    /\ failure' = how
    /\ UNCHANGED <<repository, stored, mode, stage, previous, floors, root, taken, keys>>

\* The target's digest is in the metadata; then everything is stored at once.
FetchKeys ==
    /\ Request("keys")
    /\ stored' = [taken.timestamp EXCEPT !.snapshot = taken.snapshot.snapshot,
                                         !.targets = taken.targets.targets]
    /\ Return(taken.targets.targets)
    /\ UNCHANGED <<repository, mode>>

Recover ==
    /\ mode = "online" /\ stage # "done" /\ failure # None
    /\ IF MayFallBack THEN UseStored(previous) ELSE Return(None)
    /\ UNCHANGED <<repository, stored, mode>>

TufStep ==
    \/ \E i \in 1..published :
         \/ FetchRoot(Publications[i])
         \/ \E role \in Roles : FetchRole(role, Publications[i])
    \/ \E how \in Failures : Breaks(how)
    \/ FetchKeys
    \/ Recover

\* The run is over, or is killed: a file that was not in place is gone.
TufLeave ==
    /\ mode # None
    /\ mode' = None /\ Return(None)
    /\ UNCHANGED <<repository, stored>>

Publish ==
    /\ published < Len(Publications) /\ published' = published + 1
    /\ UNCHANGED <<now, tufVars>>
Tick == now < MaxTime /\ now' = now + 1 /\ UNCHANGED <<published, tufVars>>

-----------------------------------------------------------------------------
(* Properties.                                                             *)

\* FloorRepository: whatever an out-of-date server has, and whichever root
\* signs it, no role that was once authenticated is replaced by an older one,
\* and no run uses keys older than those that were stored.
StoredNeverOlder ==
    [][stored # None =>
         /\ \A r \in Roles : stored'[r] >= stored[r]
         /\ keys' # None => keys' >= stored.targets]_<<stored, keys>>

\* refresh: "only a transport marked as a genuine network failure permits
\* fallback". Keys that are not of a complete refresh are those of the last
\* one, not yet expired, for a run without a network or one that lost it.
FallbackJustified ==
    [][keys = None /\ keys' # None =>
         \/ taken.targets # None /\ failure = None
         \/ /\ mode' = "offline" \/ failure = "network"
            /\ stored # None /\ keys' = stored.targets /\ now < stored.expires]_keys
=============================================================================
