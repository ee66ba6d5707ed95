--------------------------- MODULE DeliveryProofs ---------------------------
(***************************************************************************)
(* Proofs about what reaches a host: the documents it fetches (TrustRoot   *)
(* and DownloadCache, composed in Lookups) and the archives it unpacks     *)
(* (Extraction), for every publication, server, document and archive.      *)
(***************************************************************************)
EXTENDS Lookups, Extraction, SequenceTheorems, FiniteSetTheorems, WellFoundedInduction,
        TLAPS

-----------------------------------------------------------------------------
(* Lookups. The keys: nobody writes the stored metadata while a run        *)
(* refreshes, so the floors are still those of what is stored when the     *)
(* refresh ends, and each role that was taken is above its floor           *)
(* (Refreshing). The documents: whatever is left to do of a fetch, what is *)
(* there and the marker answer as the last caller was told or as the       *)
(* server did since (Storing).                                             *)

Stages == {"root", "timestamp", "snapshot", "targets", "keys", "done"}

TufTypes ==
    /\ published \in 1..Len(Publications) /\ now \in Nat
    /\ stored \in Publication \cup {None}
    /\ mode \in {"online", "offline", None}
    /\ stage \in Stages
    /\ previous \in Publication \cup {None}
    /\ floors \in [Roles -> Nat]
    /\ root \in Nat
    /\ taken \in [Roles -> Publication \cup {None}]
    /\ failure \in Failures \cup {None}
    /\ keys \in Nat \cup {None}

\* The roles a refresh has got, before its next stage.
Got ==
    CASE stage = "snapshot" -> {"timestamp"}
      [] stage = "targets"  -> {"timestamp", "snapshot"}
      [] stage = "keys"     -> Roles
      [] OTHER              -> {}

\* A refresh goes on from what is stored, and took nothing below its floors.
Refreshing ==
    stage # "done" =>
        /\ mode = "online" /\ keys = None
        /\ previous = stored /\ floors = FloorsOf(stored)
        /\ \A r \in Got : taken[r] # None /\ taken[r][r] >= floors[r]

\* Keys are those of what is stored.
KeysOfStored == keys # None => stored # None /\ keys = stored.targets

TufInv == TufTypes /\ Refreshing /\ KeysOfStored

-----------------------------------------------------------------------------
CacheTypes ==
    /\ file \in [Slot -> Body \cup {Absent}]
    /\ missing \in [Slot -> BOOLEAN]
    /\ DOMAIN returned = Slot /\ DOMAIN received = Slot
    /\ task # NoTask =>
         /\ task \in [slot : Slot, got : Body \cup {Absent},
                      steps : {<<"mark", "remove">>, <<"remove">>,
                               <<"persist", "unmark">>, <<"unmark">>}]

\* A fetch at hand: what the server answered is not yet told, and the steps
\* that are left fit what is there.
Storing ==
    task # NoTask =>
        LET slot == task.slot
        IN  /\ task.got \in received[slot]
            /\ slot[1] = "host" /\ task.got # Absent => task.got.origin = Origin[slot[2]]
            /\ task.steps \in {<<"mark", "remove">>, <<"remove">>} <=> task.got = Absent
            /\ task.steps = <<"remove">> => missing[slot]
            /\ task.steps = <<"unmark">> => file[slot] = task.got

CacheInv == CacheTypes /\ Storing /\ OfflineAsAnswered

IInv == TufInv /\ CacheInv

-----------------------------------------------------------------------------
(* The keys.                                                               *)

LEMMA ServedType ==
    ASSUME TufTypes, NEW i \in 1..published
    PROVE  Publications[i] \in Publication
BY PublicationsAssumption DEF TufTypes

\* A run that stops refreshing, with the keys it has got.
LEMMA ReturnInv ==
    ASSUME TufTypes, NEW got \in Nat \cup {None}, Return(got),
           published' = published, now' = now,
           mode' \in {"online", "offline", None}, stored' \in Publication \cup {None},
           got # None => stored' # None /\ got = stored'.targets
    PROVE  TufInv'
BY DEF Return, Nothing, TufInv, TufTypes, Refreshing, KeysOfStored, Stages, Roles

LEMMA UseStoredInv ==
    ASSUME TufTypes, UseStored(stored), UNCHANGED <<published, now, stored>>,
           mode' \in {"online", "offline", None}
    PROVE  TufInv'
<1>1. stored # None => stored.targets \in Nat
    BY DEF TufTypes, Publication, Roles
<1>2. QED
    BY <1>1, ReturnInv DEF UseStored, Replays, TufTypes

LEMMA TufInitInv == TufInit => TufInv
BY PublicationsAssumption
   DEF TufInit, TufInv, TufTypes, Refreshing, KeysOfStored, Nothing, Roles, Stages

LEMMA RefreshInv ==
    ASSUME TufInv, NEW how \in {"online", "offline"}, Refresh(how)
    PROVE  TufInv'
<1>1. CASE how = "offline"
    BY <1>1, UseStoredInv DEF Refresh, TufInv, repository
<1>2. CASE how = "online"
    <2>1. FloorsOf(stored) \in [Roles -> Nat] /\ (stored # None => stored.root \in Nat)
        BY DEF TufInv, TufTypes, FloorsOf, Publication
    <2>2. TufTypes'
        BY <1>2, <2>1 DEF Refresh, TufInv, TufTypes, repository, Nothing, Stages
    <2>3. QED
        BY <1>2, <2>2 DEF Refresh, TufInv, Refreshing, KeysOfStored, Got, repository, FloorsOf
<1>3. QED
    BY <1>1, <1>2

LEMMA FetchRootInv ==
    ASSUME TufInv, NEW i \in 1..published, FetchRoot(Publications[i])
    PROVE  TufInv'
<1>1. Publications[i].root \in Nat
    BY ServedType DEF TufInv, Publication
<1>2. QED
    BY <1>1 DEF FetchRoot, Request, TufInv, TufTypes, Refreshing, KeysOfStored, Got,
                repository, FloorsOf, Stages

LEMMA FetchRoleInv ==
    ASSUME TufInv, NEW role \in Roles, NEW i \in 1..published,
           FetchRole(role, Publications[i])
    PROVE  TufInv'
<1> DEFINE served == Publications[i]
<1>1. served \in Publication /\ served # None /\ served[role] \in Nat
    BY ServedType, NoneAssumption DEF TufInv, Publication
<1>2. /\ mode = "online" /\ stage = role /\ failure = None
      /\ UNCHANGED <<published, now, stored, mode, previous, floors, root, keys>>
    BY DEF FetchRole, Request, repository
<1>3. CASE AboveFloor(role, served) /\ Accepts(role, served)
    <2>1. /\ taken' = [taken EXCEPT ![role] = served] /\ UNCHANGED failure
          /\ stage' = (CASE role = "timestamp" -> "snapshot"
                         [] role = "snapshot" -> "targets"
                         [] role = "targets" -> "keys")
          /\ served[role] >= floors[role]
        BY <1>3 DEF FetchRole, AboveFloor
    <2>2. TufTypes'
        BY <1>1, <1>2, <2>1 DEF TufInv, TufTypes, Roles, Stages
    <2>3. Refreshing'
        BY <1>1, <1>2, <2>1 DEF TufInv, TufTypes, Refreshing, Got, Roles, FloorsOf
    <2>4. QED
        BY <1>2, <2>2, <2>3 DEF TufInv, KeysOfStored
<1>4. CASE ~(AboveFloor(role, served) /\ Accepts(role, served))
    <2>1. failure' = "other" /\ UNCHANGED <<taken, stage>>
        BY <1>4 DEF FetchRole
    <2>2. QED
        BY <1>2, <2>1 DEF TufInv, TufTypes, Refreshing, KeysOfStored, Got, FloorsOf, Failures
<1>5. QED
    BY <1>3, <1>4

LEMMA BreaksInv ==
    ASSUME TufInv, NEW how \in Failures, Breaks(how)
    PROVE  TufInv'
BY DEF Breaks, TufInv, TufTypes, Refreshing, KeysOfStored, Got, FloorsOf, repository

\* What a complete refresh stores.
LEMMA RefreshedType ==
    ASSUME TufInv, stage = "keys"
    PROVE  LET new == [taken.timestamp EXCEPT !.snapshot = taken.snapshot.snapshot,
                                              !.targets = taken.targets.targets]
           IN  /\ new \in Publication /\ new # None
               /\ \A r \in Roles : new[r] = taken[r][r] /\ new[r] >= floors[r]
<1>1. \A r \in Roles : taken[r] \in Publication /\ taken[r][r] >= floors[r]
    BY DEF TufInv, TufTypes, Refreshing, Got
<1>2. QED
    BY <1>1, NoneAssumption DEF Publication, Roles

LEMMA FetchKeysInv ==
    ASSUME TufInv, FetchKeys
    PROVE  TufInv'
<1>1. /\ stored' \in Publication /\ stored' # None
      /\ stored'.targets = taken.targets.targets /\ taken.targets.targets \in Nat
    BY RefreshedType DEF FetchKeys, Request, Roles, Publication
<1>2. QED
    BY <1>1, ReturnInv DEF FetchKeys, TufInv, TufTypes, repository

LEMMA RecoverInv ==
    ASSUME TufInv, Recover
    PROVE  TufInv'
<1>1. previous = stored /\ UNCHANGED <<published, now, stored, mode>>
    BY DEF Recover, TufInv, Refreshing, repository
<1>2. QED
    BY <1>1, ReturnInv, UseStoredInv DEF Recover, TufInv, TufTypes

LEMMA TufStepInv ==
    TufInv /\ (TufStep \/ TufLeave \/ Publish \/ Tick \/ UNCHANGED <<repository, tufVars>>)
        => TufInv'
<1>1. TufInv /\ TufStep => TufInv'
    BY FetchRootInv, FetchRoleInv, BreaksInv, FetchKeysInv, RecoverInv DEF TufStep
<1>2. TufInv /\ TufLeave => TufInv'
    BY ReturnInv DEF TufLeave, TufInv, TufTypes, repository
<1>3. TufInv /\ (Publish \/ Tick \/ UNCHANGED <<repository, tufVars>>) => TufInv'
    BY DEF Publish, Tick, repository, tufVars, TufInv, TufTypes, Refreshing, KeysOfStored,
           Got, FloorsOf
<1>4. QED
    BY <1>1, <1>2, <1>3

-----------------------------------------------------------------------------
(* The documents.                                                          *)

LEMMA BodiesType ==
    ASSUME NEW slot \in Slot, NEW got \in Bodies(slot)
    PROVE  /\ got \in Body /\ got # Absent /\ got # Unknown
           /\ slot[1] = "host" => got.origin = Origin[slot[2]]
<1>1. got \in Body
    BY DEF Bodies, Body
<1>2. slot[1] = "host" => got.origin = Origin[slot[2]]
    BY DEF Bodies, MayGo
<1>3. QED
    BY <1>1, <1>2, AbsentAssumption

LEMMA CacheInitInv == CacheInit => CacheInv
BY DEF CacheInit, CacheInv, CacheTypes, Storing, OfflineAsAnswered, Offline

LEMMA FetchInv ==
    ASSUME CacheInv, NEW slot \in Slot, Fetch(slot)
    PROVE  CacheInv'
<1>1. PICK got \in Bodies(slot) \cup {Absent} :
        /\ received' = [received EXCEPT ![slot] = @ \cup {got}]
        /\ task' = [slot |-> slot, got |-> got, steps |-> StepsFor(got)]
    BY DEF Fetch
<1>2. UNCHANGED <<file, missing, returned>>
    BY DEF Fetch
<1>3. /\ got \in Body \cup {Absent}
      /\ slot[1] = "host" /\ got # Absent => got.origin = Origin[slot[2]]
    BY BodiesType
<1>4. StepsFor(got) = IF got = Absent THEN <<"mark", "remove">> ELSE <<"persist", "unmark">>
    BY DEF StepsFor, AfterAbsent
<1>5. CacheTypes'
    BY <1>1, <1>2, <1>3, <1>4 DEF CacheInv, CacheTypes
<1>6. Storing'
    BY <1>1, <1>3, <1>4 DEF CacheInv, CacheTypes, Storing
<1>7. OfflineAsAnswered'
    BY <1>1, <1>2 DEF CacheInv, CacheTypes, OfflineAsAnswered, Offline
<1>8. QED
    BY <1>5, <1>6, <1>7 DEF CacheInv

\* One change of the file or the marker, and what is left after it.
LEMMA StoreInv ==
    ASSUME CacheInv, Store
    PROVE  CacheInv'
<1> DEFINE slot == task.slot
           got == task.got
<1>1. /\ task # NoTask /\ slot \in Slot /\ got \in Body \cup {Absent}
      /\ got \in received[slot]
      /\ slot[1] = "host" /\ got # Absent => got.origin = Origin[slot[2]]
    BY DEF Store, CacheInv, CacheTypes, Storing
<1>2. CASE task.steps = <<"mark", "remove">>
    <2>1. Head(task.steps) = "mark" /\ Len(task.steps) = 2 /\ Tail(task.steps) = <<"remove">>
        BY <1>2
    <2>2. /\ file' = file /\ missing' = [missing EXCEPT ![slot] = TRUE]
          /\ task' = [task EXCEPT !.steps = <<"remove">>] /\ UNCHANGED <<returned, received>>
        <3>1. /\ missing' = [missing EXCEPT ![slot] = TRUE]
              /\ file' = [file EXCEPT ![slot] = file[slot]]
            BY <2>1 DEF Store
        <3>2. task' = [task EXCEPT !.steps = Tail(task.steps)] /\ UNCHANGED <<returned, received>>
            BY <2>1 DEF Store
        <3>3. QED
            BY <1>1, <2>1, <3>1, <3>2 DEF CacheInv, CacheTypes
    <2>3. got = Absent
        BY <1>1, <1>2 DEF CacheInv, Storing
    <2>4. CacheTypes' /\ Storing'
        BY <1>1, <2>2, <2>3 DEF CacheInv, CacheTypes, Storing
    <2>5. OfflineAsAnswered'
        BY <1>1, <2>2, <2>3 DEF CacheInv, CacheTypes, OfflineAsAnswered, Offline
    <2>6. QED
        BY <2>4, <2>5 DEF CacheInv
<1>3. CASE task.steps = <<"remove">>
    <2>1. Head(task.steps) = "remove" /\ Len(task.steps) = 1
        BY <1>3
    <2>2. got = Absent /\ missing[slot]
        BY <1>1, <1>3 DEF CacheInv, Storing
    <2>3. /\ file' = [file EXCEPT ![slot] = Absent] /\ missing' = missing /\ Answer(slot, Absent)
        BY <2>1, <2>2 DEF Store, CacheInv, CacheTypes
    <2>4. CacheTypes' /\ Storing'
        BY <1>1, <2>3 DEF CacheInv, CacheTypes, Storing, Answer
    <2>5. OfflineAsAnswered'
        BY <1>1, <2>2, <2>3 DEF CacheInv, CacheTypes, OfflineAsAnswered, Offline, Answer
    <2>6. QED
        BY <2>4, <2>5 DEF CacheInv
<1>4. CASE task.steps = <<"persist", "unmark">>
    <2>1. Head(task.steps) = "persist" /\ Len(task.steps) = 2 /\ Tail(task.steps) = <<"unmark">>
        BY <1>4
    <2>2. /\ file' = [file EXCEPT ![slot] = got] /\ missing' = missing
          /\ task' = [task EXCEPT !.steps = <<"unmark">>] /\ UNCHANGED <<returned, received>>
        <3>1. /\ missing' = [missing EXCEPT ![slot] = missing[slot]]
              /\ file' = [file EXCEPT ![slot] = got]
            BY <2>1 DEF Store
        <3>2. task' = [task EXCEPT !.steps = Tail(task.steps)] /\ UNCHANGED <<returned, received>>
            BY <2>1 DEF Store
        <3>3. QED
            BY <1>1, <2>1, <3>1, <3>2 DEF CacheInv, CacheTypes
    <2>3. got # Absent
        BY <1>1, <1>4 DEF CacheInv, Storing
    <2>4. CacheTypes' /\ Storing'
        BY <1>1, <2>2, <2>3 DEF CacheInv, CacheTypes, Storing
    <2>5. OfflineAsAnswered'
        BY <1>1, <2>2, <2>3 DEF CacheInv, CacheTypes, OfflineAsAnswered, Offline
    <2>6. QED
        BY <2>4, <2>5 DEF CacheInv
<1>5. CASE task.steps = <<"unmark">>
    <2>1. Head(task.steps) = "unmark" /\ Len(task.steps) = 1
        BY <1>5
    <2>2. got # Absent /\ file[slot] = got
        BY <1>1, <1>5 DEF CacheInv, Storing
    <2>3. /\ file' = file /\ missing' = [missing EXCEPT ![slot] = FALSE] /\ Answer(slot, got)
        BY <2>1 DEF Store, CacheInv, CacheTypes
    <2>4. CacheTypes' /\ Storing'
        BY <1>1, <2>3 DEF CacheInv, CacheTypes, Storing, Answer
    <2>5. OfflineAsAnswered'
        BY <1>1, <2>2, <2>3 DEF CacheInv, CacheTypes, OfflineAsAnswered, Offline, Answer
    <2>6. QED
        BY <2>4, <2>5 DEF CacheInv
<1>6. QED
    BY <1>1, <1>2, <1>3, <1>4, <1>5 DEF CacheInv, CacheTypes

LEMMA DownloadInv ==
    ASSUME CacheInv, NEW url \in Documents, Download(url)
    PROVE  CacheInv'
<1> DEFINE slot == <<"general", url>>
<1>1. slot \in Slot /\ slot[1] # "host"
    BY DEF Slot, Uses
<1>2. PICK got \in Bodies(slot) : file' = [file EXCEPT ![slot] = got] /\ Answer(slot, got)
    BY DEF Download
<1>3. got \in Body /\ got # Absent
    BY <1>1, BodiesType
<1>4. UNCHANGED missing
    BY DEF Download
<1>5. CacheTypes' /\ Storing'
    BY <1>1, <1>2, <1>3, <1>4 DEF CacheInv, CacheTypes, Storing, Answer
<1>6. OfflineAsAnswered'
    BY <1>1, <1>2, <1>3, <1>4 DEF CacheInv, CacheTypes, OfflineAsAnswered, Offline, Answer
<1>7. QED
    BY <1>5, <1>6 DEF CacheInv

LEMMA CacheStepInv ==
    CacheInv /\ (CacheStep \/ CacheLeave \/ UNCHANGED cacheVars) => CacheInv'
<1>1. CacheInv /\ CacheStep => CacheInv'
    BY FetchInv, StoreInv, DownloadInv DEF CacheStep
<1>2. CacheInv /\ CacheLeave => CacheInv'
    BY DEF CacheLeave, CacheInv, CacheTypes, Storing, OfflineAsAnswered, Offline
<1>3. CacheInv /\ UNCHANGED cacheVars => CacheInv'
    BY DEF cacheVars, CacheInv, CacheTypes, Storing, OfflineAsAnswered, Offline
<1>4. QED
    BY <1>1, <1>2, <1>3

-----------------------------------------------------------------------------
(* Both, and the properties.                                               *)

THEOREM Invariance == Spec => []IInv
<1>1. Init => IInv
    BY TufInitInv, CacheInitInv DEF Init, IInv
<1>2. IInv /\ [Next]_vars => TufInv'
    BY TufStepInv, RefreshInv DEF IInv, Next, Run, Leave, Environment, vars
<1>3. IInv /\ [Next]_vars => CacheInv'
    BY CacheStepInv DEF IInv, Next, Run, Leave, Environment, vars
<1>4. QED
    BY <1>1, <1>2, <1>3, PTL DEF Spec, IInv

\* A run without a network is told what the last one with a network was, or
\* what a server answered since; never that nothing is known.
THEOREM AnswersKept == Spec => []OfflineAsAnswered
BY Invariance, PTL DEF IInv, CacheInv

\* A step that ends a refresh stores what it took or nothing, and uses no other
\* keys; every other step leaves what is stored and uses its keys.
LEMMA WhatIsUsed ==
    ASSUME IInv, [Next]_vars
    PROVE  \/ /\ stage = "keys" /\ failure = None
              /\ stored' = [taken.timestamp EXCEPT !.snapshot = taken.snapshot.snapshot,
                                                   !.targets = taken.targets.targets]
              /\ keys' = taken.targets.targets
           \/ stored' = stored /\ (keys' # None => stored # None /\ keys' = stored.targets)
<1>1. stored' = stored => (keys' # None => stored # None /\ keys' = stored.targets)
    <2>1. TufInv'
        BY TufStepInv, RefreshInv DEF IInv, Next, Run, Leave, Environment, vars
    <2>2. QED
        BY <2>1 DEF TufInv, KeysOfStored
<1>2. CASE FetchKeys
    BY <1>2 DEF FetchKeys, Request, Return
<1>3. CASE ~FetchKeys
    BY <1>1, <1>3 DEF Next, Run, Leave, Environment, TufStep, TufLeave, Refresh, FetchRoot,
       FetchRole, Breaks, Recover, Publish, Tick, vars, tufVars
<1>4. QED
    BY <1>2, <1>3

\* No role that was authenticated is replaced by an older one, whichever root
\* signs it, and no run uses older keys than those that were stored.
THEOREM NeverOlder == Spec => StoredNeverOlder
<1>1. IInv /\ [Next]_vars => (stored # None =>
         /\ \A r \in Roles : stored'[r] >= stored[r]
         /\ keys' # None => keys' >= stored.targets)
    <2> SUFFICES ASSUME IInv, [Next]_vars, stored # None
                 PROVE  /\ \A r \in Roles : stored'[r] >= stored[r]
                        /\ keys' # None => keys' >= stored.targets
        OBVIOUS
    <2>1. \A r \in Roles : stored[r] \in Nat
        BY DEF IInv, TufInv, TufTypes, Publication
    <2>2. CASE stored' = stored /\ (keys' # None => keys' = stored.targets)
        BY <2>1, <2>2 DEF Roles
    <2>3. CASE /\ stage = "keys"
               /\ stored' = [taken.timestamp EXCEPT !.snapshot = taken.snapshot.snapshot,
                                                    !.targets = taken.targets.targets]
               /\ keys' = taken.targets.targets
        <3>1. \A r \in Roles : stored'[r] = taken[r][r] /\ stored'[r] >= floors[r]
            BY <2>3, RefreshedType DEF IInv
        <3>2. \A r \in Roles : floors[r] = stored[r]
            BY <2>3 DEF IInv, TufInv, Refreshing, FloorsOf
        <3>3. QED
            BY <2>3, <3>1, <3>2 DEF Roles
    <2>4. QED
        BY <2>2, <2>3, WhatIsUsed
<1>2. QED
    BY <1>1, Invariance, PTL DEF Spec, StoredNeverOlder

\* Keys that no complete refresh gave are the last one's, not yet expired, for
\* a run that has no network or lost it.
THEOREM FallbackIsJustified == Spec => FallbackJustified
<1> DEFINE Justified ==
        keys = None /\ keys' # None =>
          \/ taken.targets # None /\ failure = None
          \/ /\ mode' = "offline" \/ failure = "network"
             /\ stored # None /\ keys' = stored.targets /\ now < stored.expires
<1>1. IInv /\ [Next]_vars => Justified
    <2> SUFFICES ASSUME IInv, [Next]_vars, keys = None, keys' # None PROVE Justified
        OBVIOUS
    <2>1. ASSUME NEW how \in {"online", "offline"}, Refresh(how) PROVE Justified
        BY <2>1 DEF Refresh, UseStored, Replays, Return
    <2>2. CASE FetchKeys
        BY <2>2 DEF FetchKeys, Request, IInv, TufInv, Refreshing, Got, Roles
    <2>3. CASE Recover
        BY <2>3 DEF Recover, MayFallBack, UseStored, Replays, Return, IInv, TufInv, Refreshing
    <2>4. QED
        BY <2>1, <2>2, <2>3 DEF Next, Run, Leave, Environment, TufStep, TufLeave, Return,
           FetchRoot, FetchRole, Breaks, Publish, Tick, vars, tufVars
<1>2. QED
    BY <1>1, Invariance, PTL DEF Spec, FallbackJustified

-----------------------------------------------------------------------------
(* Extraction. The loops that follow links and add up sizes are functions  *)
(* of the number of the turn; what they come to is shown turn by turn,     *)
(* with the induction on numbers stated for a set. A stage that is being   *)
(* made has its files and some of its links, each at its own path, and     *)
(* nothing lies below a file or a link (Placed, Stage).                    *)

\* A set with 0 that has the successor of each of its members has every
\* natural number: else the least one outside would be no successor.
LEMMA EveryNatural ==
  ASSUME NEW S, 0 \in S, \A n \in Nat : n \in S => n + 1 \in S
  PROVE  \A n \in Nat : n \in S
<1> DEFINE T == {n \in Nat : n \notin S}
           R == OpToRel(<, Nat)
<1>1. SUFFICES ASSUME T # {} PROVE FALSE
  OBVIOUS
<1>2. PICK n \in T : \A m \in T : ~(<<m, n>> \in R)
  <2>1. T \subseteq Nat
    OBVIOUS
  <2>2. QED
    BY <1>1, <2>1, NatLessThanWellFounded, WFMin, Zenon
<1>3. n \in Nat /\ n # 0 /\ n \notin S /\ n - 1 \in Nat
  OBVIOUS
<1>4. n - 1 \notin S
  BY <1>3
<1>5. <<n - 1, n>> \in R
  BY <1>3 DEF OpToRel
<1>6. QED
  BY <1>2, <1>3, <1>4, <1>5

\* The same up to a bound.
LEMMA EveryNaturalUpTo ==
  ASSUME NEW N \in Nat, NEW S, 0 \in S, \A n \in 0..(N - 1) : n \in S => n + 1 \in S
  PROVE  \A n \in 0..N : n \in S
<1> DEFINE T == {n \in Nat : n \in 0..N => n \in S}
<1>1. 0 \in T
  OBVIOUS
<1>2. \A n \in Nat : n \in T => n + 1 \in T
  OBVIOUS
<1>3. \A n \in Nat : n \in T
  <2> HIDE DEF T
  <2> QED BY <1>1, <1>2, EveryNatural
<1> QED BY <1>3

-----------------------------------------------------------------------------
(* The loops.                                                              *)

LEMMA ChaseTurns ==
  ASSUME NEW next, NEW from, NEW N \in Nat
  PROVE  \E f : /\ f[0] = from
                /\ \A n \in 1..N : f[n] = Hop(next, f[n - 1])
                /\ Chase(next, from, N) = f[N]
<1> DEFINE W(x, n) == Hop(next, x)
           P(f, k) == f[0] = from /\ \A n \in 1..k : f[n] = W(f[n - 1], n)
           S == {k \in Nat : \E f : P(f, k)}
           L == CHOOSE f : f = [n \in 0..N |-> IF n = 0 THEN from ELSE W(f[n - 1], n)]
<1>1. 0 \in S
  <2>1. P([n \in {0} |-> from], 0)
    OBVIOUS
  <2> QED BY <2>1
<1>2. \A k \in Nat : k \in S => k + 1 \in S
  <2> TAKE k \in Nat
  <2> HAVE k \in S
  <2>1. PICK g : P(g, k)
    OBVIOUS
  <2> HIDE DEF W
  <2> DEFINE f == [n \in 0..(k + 1) |-> IF n = k + 1 THEN W(g[k], k + 1) ELSE g[n]]
  <2>2. P(f, k + 1)
    <3>1. f[0] = from
      BY <2>1
    <3>2. \A n \in 1..k : f[n] = g[n] /\ f[n - 1] = g[n - 1]
      OBVIOUS
    <3>3. f[k + 1] = W(f[k], k + 1)
      OBVIOUS
    <3> HIDE DEF f
    <3> QED BY <2>1, <3>1, <3>2, <3>3
  <2> HIDE DEF P, f
  <2> QED BY <2>2
<1>3. PICK g : P(g, N)
  <2>1. \A k \in Nat : k \in S
    <3> HIDE DEF S
    <3> QED BY <1>1, <1>2, EveryNatural
  <2> QED BY <2>1
<1> DEFINE h == [n \in 0..N |-> g[n]]
<1>4. h = [n \in 0..N |-> IF n = 0 THEN from ELSE W(h[n - 1], n)]
  <2> HIDE DEF W
  <2> QED BY <1>3
<1>5. L = [n \in 0..N |-> IF n = 0 THEN from ELSE W(L[n - 1], n)]
  <2> HIDE DEF W, h
  <2> QED BY <1>4
<1>6. Chase(next, from, N) = L[N]
  BY DEF Chase
<1> HIDE DEF W, L
<1>7. P(L, N)
  BY <1>5
<1> QED BY <1>6, <1>7 DEF W

LEMMA TotalTurns ==
  ASSUME NEW size, Len(size) \in Nat
  PROVE  \E f : /\ f[0] = 0
                /\ \A n \in 1..Len(size) : f[n] = f[n - 1] + size[n]
                /\ Total(size) = f[Len(size)]
<1> DEFINE N == Len(size)
           W(x, n) == x + size[n]
           P(f, k) == f[0] = 0 /\ \A n \in 1..k : f[n] = W(f[n - 1], n)
           S == {k \in Nat : \E f : P(f, k)}
           L == CHOOSE f : f = [n \in 0..N |-> IF n = 0 THEN 0 ELSE W(f[n - 1], n)]
<1>1. 0 \in S
  <2>1. P([n \in {0} |-> 0], 0)
    OBVIOUS
  <2> QED BY <2>1
<1>2. \A k \in Nat : k \in S => k + 1 \in S
  <2> TAKE k \in Nat
  <2> HAVE k \in S
  <2>1. PICK g : P(g, k)
    OBVIOUS
  <2> HIDE DEF W
  <2> DEFINE f == [n \in 0..(k + 1) |-> IF n = k + 1 THEN W(g[k], k + 1) ELSE g[n]]
  <2>2. P(f, k + 1)
    <3>1. f[0] = 0
      BY <2>1
    <3>2. \A n \in 1..k : f[n] = g[n] /\ f[n - 1] = g[n - 1]
      OBVIOUS
    <3>3. f[k + 1] = W(f[k], k + 1)
      OBVIOUS
    <3> HIDE DEF f
    <3> QED BY <2>1, <3>1, <3>2, <3>3
  <2> HIDE DEF P, f
  <2> QED BY <2>2
<1>3. PICK g : P(g, N)
  <2>1. \A k \in Nat : k \in S
    <3> HIDE DEF S
    <3> QED BY <1>1, <1>2, EveryNatural
  <2> QED BY <2>1
<1> DEFINE h == [n \in 0..N |-> g[n]]
<1>4. h = [n \in 0..N |-> IF n = 0 THEN 0 ELSE W(h[n - 1], n)]
  <2> HIDE DEF W, N
  <2> QED BY <1>3 DEF N
<1>5. L = [n \in 0..N |-> IF n = 0 THEN 0 ELSE W(L[n - 1], n)]
  <2> HIDE DEF W, h
  <2> QED BY <1>4
<1>6. Total(size) = L[N]
  BY DEF Total
<1> HIDE DEF W, L
<1>7. P(L, N)
  BY <1>5
<1> QED BY <1>6, <1>7 DEF W

LEMMA ReadTurns ==
  ASSUME NEW link, NEW target, Len(target) \in Nat
  PROVE  \E f : /\ f[0] = Front(link)
                /\ \A n \in 1..Len(target) : f[n] = Read(f[n - 1], target[n])
                /\ ResolveLink(link, target) = f[Len(target)]
<1> DEFINE N == Len(target)
           W(x, n) == Read(x, target[n])
           P(f, k) == f[0] = Front(link) /\ \A n \in 1..k : f[n] = W(f[n - 1], n)
           S == {k \in Nat : \E f : P(f, k)}
           L == CHOOSE f : f = [n \in 0..N |-> IF n = 0 THEN Front(link) ELSE W(f[n - 1], n)]
<1>1. 0 \in S
  <2>1. P([n \in {0} |-> Front(link)], 0)
    OBVIOUS
  <2> QED BY <2>1
<1>2. \A k \in Nat : k \in S => k + 1 \in S
  <2> TAKE k \in Nat
  <2> HAVE k \in S
  <2>1. PICK g : P(g, k)
    OBVIOUS
  <2> HIDE DEF W
  <2> DEFINE f == [n \in 0..(k + 1) |-> IF n = k + 1 THEN W(g[k], k + 1) ELSE g[n]]
  <2>2. P(f, k + 1)
    <3>1. f[0] = Front(link)
      BY <2>1
    <3>2. \A n \in 1..k : f[n] = g[n] /\ f[n - 1] = g[n - 1]
      OBVIOUS
    <3>3. f[k + 1] = W(f[k], k + 1)
      OBVIOUS
    <3> HIDE DEF f
    <3> QED BY <2>1, <3>1, <3>2, <3>3
  <2> HIDE DEF P, f
  <2> QED BY <2>2
<1>3. PICK g : P(g, N)
  <2>1. \A k \in Nat : k \in S
    <3> HIDE DEF S
    <3> QED BY <1>1, <1>2, EveryNatural
  <2> QED BY <2>1
<1> DEFINE h == [n \in 0..N |-> g[n]]
<1>4. h = [n \in 0..N |-> IF n = 0 THEN Front(link) ELSE W(h[n - 1], n)]
  <2> HIDE DEF W, N
  <2> QED BY <1>3 DEF N
<1>5. L = [n \in 0..N |-> IF n = 0 THEN Front(link) ELSE W(L[n - 1], n)]
  <2> HIDE DEF W, h
  <2> QED BY <1>4
<1>6. ResolveLink(link, target) = L[N]
  BY DEF ResolveLink
<1> HIDE DEF W, L
<1>7. P(L, N)
  BY <1>5
<1> QED BY <1>6, <1>7 DEF W

LEMMA DescendTurns ==
  ASSUME NEW from, NEW target, Len(target) \in Nat
  PROVE  \E f : /\ f[0] = from
                /\ \A n \in 1..Len(target) : f[n] = Enter(f[n - 1], target[n])
                /\ Descend(from, target) = f[Len(target)]
<1> DEFINE N == Len(target)
           W(x, n) == Enter(x, target[n])
           P(f, k) == f[0] = from /\ \A n \in 1..k : f[n] = W(f[n - 1], n)
           S == {k \in Nat : \E f : P(f, k)}
           L == CHOOSE f : f = [n \in 0..N |-> IF n = 0 THEN from ELSE W(f[n - 1], n)]
<1>1. 0 \in S
  <2>1. P([n \in {0} |-> from], 0)
    OBVIOUS
  <2> QED BY <2>1
<1>2. \A k \in Nat : k \in S => k + 1 \in S
  <2> TAKE k \in Nat
  <2> HAVE k \in S
  <2>1. PICK g : P(g, k)
    OBVIOUS
  <2> HIDE DEF W
  <2> DEFINE f == [n \in 0..(k + 1) |-> IF n = k + 1 THEN W(g[k], k + 1) ELSE g[n]]
  <2>2. P(f, k + 1)
    <3>1. f[0] = from
      BY <2>1
    <3>2. \A n \in 1..k : f[n] = g[n] /\ f[n - 1] = g[n - 1]
      OBVIOUS
    <3>3. f[k + 1] = W(f[k], k + 1)
      OBVIOUS
    <3> HIDE DEF f
    <3> QED BY <2>1, <3>1, <3>2, <3>3
  <2> HIDE DEF P, f
  <2> QED BY <2>2
<1>3. PICK g : P(g, N)
  <2>1. \A k \in Nat : k \in S
    <3> HIDE DEF S
    <3> QED BY <1>1, <1>2, EveryNatural
  <2> QED BY <2>1
<1> DEFINE h == [n \in 0..N |-> g[n]]
<1>4. h = [n \in 0..N |-> IF n = 0 THEN from ELSE W(h[n - 1], n)]
  <2> HIDE DEF W, N
  <2> QED BY <1>3 DEF N
<1>5. L = [n \in 0..N |-> IF n = 0 THEN from ELSE W(L[n - 1], n)]
  <2> HIDE DEF W, h
  <2> QED BY <1>4
<1>6. Descend(from, target) = L[N]
  BY DEF Descend
<1> HIDE DEF W, L
<1>7. P(L, N)
  BY <1>5
<1> QED BY <1>6, <1>7 DEF W

LEMMA PutTurns ==
  ASSUME NEW tree, NEW nodes, Len(archive) \in Nat
  PROVE  \E f : /\ f[0] = tree
                /\ \A n \in 1..Len(archive) : f[n] = PutMember(f[n - 1], Mapped(archive[n].path), nodes)
                /\ PutAll(tree, nodes) = f[Len(archive)]
<1> DEFINE N == Len(archive)
           W(x, n) == PutMember(x, Mapped(archive[n].path), nodes)
           P(f, k) == f[0] = tree /\ \A n \in 1..k : f[n] = W(f[n - 1], n)
           S == {k \in Nat : \E f : P(f, k)}
           L == CHOOSE f : f = [n \in 0..N |-> IF n = 0 THEN tree ELSE W(f[n - 1], n)]
<1>1. 0 \in S
  <2>1. P([n \in {0} |-> tree], 0)
    OBVIOUS
  <2> QED BY <2>1
<1>2. \A k \in Nat : k \in S => k + 1 \in S
  <2> TAKE k \in Nat
  <2> HAVE k \in S
  <2>1. PICK g : P(g, k)
    OBVIOUS
  <2> HIDE DEF W
  <2> DEFINE f == [n \in 0..(k + 1) |-> IF n = k + 1 THEN W(g[k], k + 1) ELSE g[n]]
  <2>2. P(f, k + 1)
    <3>1. f[0] = tree
      BY <2>1
    <3>2. \A n \in 1..k : f[n] = g[n] /\ f[n - 1] = g[n - 1]
      OBVIOUS
    <3>3. f[k + 1] = W(f[k], k + 1)
      OBVIOUS
    <3> HIDE DEF f
    <3> QED BY <2>1, <3>1, <3>2, <3>3
  <2> HIDE DEF P, f
  <2> QED BY <2>2
<1>3. PICK g : P(g, N)
  <2>1. \A k \in Nat : k \in S
    <3> HIDE DEF S
    <3> QED BY <1>1, <1>2, EveryNatural
  <2> QED BY <2>1
<1> DEFINE h == [n \in 0..N |-> g[n]]
<1>4. h = [n \in 0..N |-> IF n = 0 THEN tree ELSE W(h[n - 1], n)]
  <2> HIDE DEF W, N
  <2> QED BY <1>3 DEF N
<1>5. L = [n \in 0..N |-> IF n = 0 THEN tree ELSE W(L[n - 1], n)]
  <2> HIDE DEF W, h
  <2> QED BY <1>4
<1>6. PutAll(tree, nodes) = L[N]
  BY DEF PutAll
<1> HIDE DEF W, L
<1>7. P(L, N)
  BY <1>5
<1> QED BY <1>6, <1>7 DEF W

-----------------------------------------------------------------------------
(* Following links turn by turn.                                           *)

LEMMA ChaseAgain ==
  ASSUME NEW next, NEW from
  PROVE  /\ Chase(next, from, 0) = from
         /\ \A n \in Nat : Chase(next, from, n + 1) = Hop(next, Chase(next, from, n))
<1>1. Chase(next, from, 0) = from
  BY ChaseTurns
<1>2. ASSUME NEW n \in Nat PROVE Chase(next, from, n + 1) = Hop(next, Chase(next, from, n))
  <2>1. PICK f : /\ f[0] = from /\ \A m \in 1..n : f[m] = Hop(next, f[m - 1])
                 /\ Chase(next, from, n) = f[n]
    BY ChaseTurns
  <2>2. PICK g : /\ g[0] = from /\ \A m \in 1..(n + 1) : g[m] = Hop(next, g[m - 1])
                 /\ Chase(next, from, n + 1) = g[n + 1]
    <3>1. n + 1 \in Nat
      OBVIOUS
    <3> QED BY <3>1, ChaseTurns
  <2> DEFINE S == {m \in 0..n : f[m] = g[m]}
  <2>3. 0 \in S
    BY <2>1, <2>2
  <2>4. \A m \in 0..(n - 1) : m \in S => m + 1 \in S
    <3> SUFFICES ASSUME NEW m \in 0..(n - 1), f[m] = g[m] PROVE f[m + 1] = g[m + 1]
      OBVIOUS
    <3>1. /\ m + 1 \in 1..n /\ m + 1 \in 1..(n + 1) /\ (m + 1) - 1 = m
      OBVIOUS
    <3> QED BY <2>1, <2>2, <3>1
  <2>5. \A m \in 0..n : m \in S
    <3> HIDE DEF S
    <3> QED BY <2>3, <2>4, EveryNaturalUpTo
  <2>6. f[n] = g[n]
    BY <2>5
  <2>7. g[n + 1] = Hop(next, g[n])
    <3>1. n + 1 \in 1..(n + 1) /\ (n + 1) - 1 = n
      OBVIOUS
    <3> QED BY <2>2, <3>1
  <2> QED BY <2>1, <2>2, <2>6, <2>7
<1> QED BY <1>1, <1>2

LEMMA ChaseNext ==
  ASSUME NEW next, NEW from, NEW m \in Nat, NEW n \in Nat, n = m + 1
  PROVE  Chase(next, from, n) = Hop(next, Chase(next, from, m))
<1>1. Chase(next, from, m + 1) = Hop(next, Chase(next, from, m))
  BY ChaseAgain
<1> QED BY <1>1

\* Where there is no link the place stays.
LEMMA ChaseStays ==
  ASSUME NEW next, NEW from, NEW m \in Nat, NEW n \in Nat, m <= n,
         Chase(next, from, m) \notin DOMAIN next
  PROVE  Chase(next, from, n) = Chase(next, from, m)
<1> DEFINE S == {k \in Nat : Chase(next, from, m + k) = Chase(next, from, m)}
<1>1. 0 \in S
  OBVIOUS
<1>2. \A k \in Nat : k \in S => k + 1 \in S
  <2> SUFFICES ASSUME NEW k \in Nat, Chase(next, from, m + k) = Chase(next, from, m)
               PROVE  Chase(next, from, m + (k + 1)) = Chase(next, from, m)
    OBVIOUS
  <2>1. m + k \in Nat /\ m + (k + 1) \in Nat /\ m + (k + 1) = (m + k) + 1
    OBVIOUS
  <2>2. Chase(next, from, m + (k + 1)) = Hop(next, Chase(next, from, m + k))
    BY <2>1, ChaseNext
  <2> QED BY <2>2 DEF Hop
<1>3. \A k \in Nat : k \in S
  <2> HIDE DEF S
  <2> QED BY <1>1, <1>2, EveryNatural
<1>4. n - m \in S /\ m + (n - m) = n
  BY <1>3
<1> QED BY <1>4

\* The first turn.
LEMMA ChaseNone ==
  ASSUME NEW next, NEW from, from \notin DOMAIN next, NEW n \in Nat
  PROVE  Chase(next, from, n) = from
<1>1. PICK m : m = 0
  OBVIOUS
<1>2. m \in Nat /\ m <= n /\ Chase(next, from, m) = from
  BY <1>1, ChaseAgain
<1>3. Chase(next, from, n) = Chase(next, from, m)
  BY <1>2, ChaseStays
<1> QED BY <1>2, <1>3

LEMMA ChaseFirst ==
  ASSUME NEW next, NEW from, NEW n \in Nat
  PROVE  Chase(next, from, n + 1) = Chase(next, Hop(next, from), n)
<1> DEFINE to == Hop(next, from)
           S == {k \in Nat : \A l \in Nat : l = k + 1 => Chase(next, from, l) = Chase(next, to, k)}
<1> HIDE DEF to
<1>1. 0 \in S
  <2> SUFFICES ASSUME NEW l \in Nat, l = 0 + 1 PROVE Chase(next, from, l) = Chase(next, to, 0)
    OBVIOUS
  <2>1. Chase(next, from, l) = Hop(next, Chase(next, from, 0))
    BY ChaseNext
  <2> QED BY <2>1, ChaseAgain DEF to
<1>2. \A k \in Nat : k \in S => k + 1 \in S
  <2> SUFFICES ASSUME NEW k \in Nat, k \in S, NEW m \in Nat, m = k + 1,
                      NEW l \in Nat, l = m + 1
               PROVE  Chase(next, from, l) = Chase(next, to, m)
    OBVIOUS
  <2>1. Chase(next, from, l) = Hop(next, Chase(next, from, m))
    BY ChaseNext
  <2>2. Chase(next, to, m) = Hop(next, Chase(next, to, k))
    BY ChaseNext
  <2> QED BY <2>1, <2>2
<1>3. \A k \in Nat : k \in S
  <2> HIDE DEF S
  <2> QED BY <1>1, <1>2, EveryNatural
<1>4. n + 1 \in Nat /\ n \in S
  BY <1>3
<1> QED BY <1>4 DEF to

\* A formula that each turn keeps.
LEMMA ChaseKeeps ==
  ASSUME NEW next, NEW from, NEW S, from \in S,
         \A x \in S \cap DOMAIN next : next[x] \in S
  PROVE  \A n \in Nat : Chase(next, from, n) \in S
<1> DEFINE T == {n \in Nat : Chase(next, from, n) \in S}
<1>1. 0 \in T
  BY ChaseAgain
<1>2. \A n \in Nat : n \in T => n + 1 \in T
  <2> SUFFICES ASSUME NEW n \in Nat, Chase(next, from, n) \in S
               PROVE  Chase(next, from, n + 1) \in S
    OBVIOUS
  <2>1. Chase(next, from, n + 1) = Hop(next, Chase(next, from, n))
    BY ChaseAgain
  <2> QED BY <2>1 DEF Hop
<1>3. \A n \in Nat : n \in T
  <2> HIDE DEF T
  <2> QED BY <1>1, <1>2, EveryNatural
<1> QED BY <1>3

-----------------------------------------------------------------------------
(* Paths, word by word.                                                    *)

LEMMA PathIs ==
  ASSUME NEW p \in Paths
  PROVE  /\ Len(p) \in Nat /\ DOMAIN p = 1..Len(p)
         /\ \A i \in 1..Len(p) : p[i] \in Words
BY LenProperties, ElementOfSeq DEF Paths

\* What one word does.
LEMMA EnterTypes ==
  ASSUME NEW at \in Paths \cup {NoFile}, NEW word \in Words
  PROVE  /\ Enter(at, word) \in Paths \cup {NoFile}
         /\ at = NoFile => Enter(at, word) = NoFile
         /\ Enter(at, word) # NoFile =>
              /\ at \in Paths
              /\ \/ word = Up /\ at # <<>> /\ Enter(at, word) = Front(at)
                 \/ word \notin {Up, Slash} /\ Enter(at, word) = Append(at, word)
<1>1. CASE at = NoFile
  BY <1>1 DEF Enter
<1>2. CASE at \in Paths
  <2>1. at # NoFile
    BY <1>2, WordsComplete
  <2>2. CASE word = Up
    <3>1. CASE at = <<>>
      BY <2>1, <2>2, <3>1 DEF Enter
    <3>2. CASE at # <<>>
      <4>1. Enter(at, word) = Front(at)
        BY <2>1, <2>2, <3>2 DEF Enter
      <4>2. Front(at) \in Paths
        BY <1>2, <3>2, PathIs, SubSeqProperties DEF Front, Paths
      <4> QED BY <1>2, <2>1, <2>2, <3>2, <4>1, <4>2
    <3> QED BY <3>1, <3>2
  <2>3. CASE word # Up
    <3>1. Enter(at, word) = IF SafePath(<<word>>) THEN Append(at, word) ELSE NoFile
      BY <2>1, <2>3 DEF Enter
    <3>2. Append(at, word) \in Paths
      BY <1>2, AppendProperties DEF Paths
    <3>3. SafePath(<<word>>) => word \notin {Up, Slash}
      BY DEF SafePath
    <3> QED BY <1>2, <2>1, <3>1, <3>2, <3>3
  <2> QED BY <2>2, <2>3
<1> QED BY <1>1, <1>2

\* The beginning of a target.
LEMMA Beginning ==
  ASSUME NEW t \in Paths, NEW n \in 0..Len(t)
  PROVE  /\ SubSeq(t, 1, n) \in Paths /\ Len(SubSeq(t, 1, n)) = n
         /\ \A i \in 1..n : SubSeq(t, 1, n)[i] = t[i]
<1>1. n \in Int /\ \A i \in 1..n : t[i] \in Words
  BY PathIs
<1> QED BY <1>1, SubSeqProperties DEF Paths

\* The places on the way.
LEMMA DescendPlaces ==
  ASSUME NEW from, NEW t \in Paths
  PROVE  \E f : /\ f[0] = from
                /\ \A n \in 1..Len(t) : f[n] = Enter(f[n - 1], t[n])
                /\ \A n \in 0..Len(t) : Descend(from, SubSeq(t, 1, n)) = f[n]
                /\ Descend(from, t) = f[Len(t)]
<1>0. Len(t) \in Nat
  BY PathIs
<1>1. PICK f : /\ f[0] = from
               /\ \A n \in 1..Len(t) : f[n] = Enter(f[n - 1], t[n])
               /\ Descend(from, t) = f[Len(t)]
  BY <1>0, DescendTurns
<1>2. ASSUME NEW n \in 0..Len(t) PROVE Descend(from, SubSeq(t, 1, n)) = f[n]
  <2> DEFINE u == SubSeq(t, 1, n)
  <2>1. Len(u) = n /\ \A i \in 1..n : u[i] = t[i]
    BY Beginning
  <2> HIDE DEF u
  <2>2. PICK g : /\ g[0] = from
                 /\ \A m \in 1..n : g[m] = Enter(g[m - 1], u[m])
                 /\ Descend(from, u) = g[n]
    <3>1. Len(u) \in Nat
      BY <1>0, <2>1
    <3> QED BY <2>1, <3>1, DescendTurns
  <2> DEFINE S == {m \in 0..n : f[m] = g[m]}
  <2>3. 0 \in S
    BY <1>1, <2>2
  <2>4. \A m \in 0..(n - 1) : m \in S => m + 1 \in S
    <3> SUFFICES ASSUME NEW m \in 0..(n - 1), f[m] = g[m] PROVE f[m + 1] = g[m + 1]
      OBVIOUS
    <3>1. m + 1 \in 1..n /\ m + 1 \in 1..Len(t) /\ (m + 1) - 1 = m
      BY <1>0
    <3> QED BY <1>1, <2>1, <2>2, <3>1
  <2>5. \A m \in 0..n : m \in S
    <3> HIDE DEF S
    <3> QED BY <2>3, <2>4, EveryNaturalUpTo
  <2> QED BY <2>2, <2>5 DEF u
<1> QED BY <1>1, <1>2

LEMMA DescendNothing ==
  ASSUME NEW from
  PROVE  Descend(from, <<>>) = from
<1>1. Len(<<>>) = 0
  BY EmptySeq
<1> QED BY <1>1, DescendTurns

\* Place by place.
LEMMA DescendTypes ==
  ASSUME NEW from \in Paths \cup {NoFile}, NEW t \in Paths, NEW n \in 0..Len(t)
  PROVE  /\ Descend(from, SubSeq(t, 1, n)) \in Paths \cup {NoFile}
         /\ Descend(from, SubSeq(t, 1, n)) = NoFile => Descend(from, t) = NoFile
         /\ \A m \in 1..Len(t) : m = n + 1 =>
              Descend(from, SubSeq(t, 1, m)) = Enter(Descend(from, SubSeq(t, 1, n)), t[m])
<1>0. Len(t) \in Nat /\ \A i \in 1..Len(t) : t[i] \in Words
  BY PathIs
<1>1. PICK f : /\ f[0] = from
               /\ \A m \in 1..Len(t) : f[m] = Enter(f[m - 1], t[m])
               /\ \A m \in 0..Len(t) : Descend(from, SubSeq(t, 1, m)) = f[m]
               /\ Descend(from, t) = f[Len(t)]
  BY DescendPlaces
<1> DEFINE S == {m \in 0..Len(t) : f[m] \in Paths \cup {NoFile}}
           T == {k \in 0..(Len(t) - n) : f[n] = NoFile => f[n + k] = NoFile}
<1>2. \A m \in 0..Len(t) : m \in S
  <2>1. 0 \in S
    BY <1>0, <1>1
  <2>2. \A m \in 0..(Len(t) - 1) : m \in S => m + 1 \in S
    <3> SUFFICES ASSUME NEW m \in 0..(Len(t) - 1), f[m] \in Paths \cup {NoFile}
                 PROVE  f[m + 1] \in Paths \cup {NoFile}
      OBVIOUS
    <3>1. m + 1 \in 1..Len(t) /\ (m + 1) - 1 = m
      BY <1>0
    <3>2. f[m + 1] = Enter(f[m], t[m + 1]) /\ t[m + 1] \in Words
      BY <1>0, <1>1, <3>1
    <3> QED BY <3>2, EnterTypes
  <2> HIDE DEF S
  <2> QED BY <1>0, <2>1, <2>2, EveryNaturalUpTo
<1>3. \A k \in 0..(Len(t) - n) : k \in T
  <2>1. 0 \in T
    BY <1>0
  <2>2. \A k \in 0..((Len(t) - n) - 1) : k \in T => k + 1 \in T
    <3> SUFFICES ASSUME NEW k \in 0..((Len(t) - n) - 1), f[n] = NoFile, f[n + k] = NoFile
                 PROVE  f[n + (k + 1)] = NoFile
      BY <1>0
    <3>1. n + (k + 1) \in 1..Len(t) /\ (n + (k + 1)) - 1 = n + k
      BY <1>0
    <3>2. f[n + (k + 1)] = Enter(NoFile, t[n + (k + 1)])
      BY <1>1, <3>1
    <3> QED BY <1>0, <3>1, <3>2, EnterTypes
  <2>3. Len(t) - n \in Nat
    BY <1>0
  <2> HIDE DEF T
  <2> QED BY <2>1, <2>2, <2>3, EveryNaturalUpTo
<1>4. f[n] = NoFile => f[Len(t)] = NoFile
  <2>1. Len(t) - n \in T /\ n + (Len(t) - n) = Len(t)
    BY <1>0, <1>3
  <2> QED BY <2>1
<1>5. f[n] \in Paths \cup {NoFile}
  BY <1>2
<1>6. \A m \in 1..Len(t) : m = n + 1 => f[m] = Enter(f[n], t[m]) /\ m \in 0..Len(t)
  BY <1>0, <1>1
<1> HIDE DEF S, T
<1> QED BY <1>1, <1>4, <1>5, <1>6

LEMMA DescendsToPath ==
  ASSUME NEW from \in Paths \cup {NoFile}, NEW t \in Paths
  PROVE  /\ Descend(from, t) \in Paths \cup {NoFile}
         /\ from = NoFile => Descend(from, t) = NoFile
<1>1. Len(t) \in Nat /\ Len(t) \in 0..Len(t) /\ 0 \in 0..Len(t)
  BY PathIs
<1>2. SubSeq(t, 1, Len(t)) = t /\ SubSeq(t, 1, 0) = <<>>
  BY SubSeqFull, SubSeqEmpty DEF Paths
<1>3. Descend(from, t) \in Paths \cup {NoFile}
  BY <1>1, <1>2, DescendTypes
<1>4. Descend(from, <<>>) = NoFile => Descend(from, t) = NoFile
  BY <1>1, <1>2, DescendTypes
<1> QED BY <1>3, <1>4, DescendNothing

LEMMA ConcatTypes ==
  ASSUME NEW t \in Paths, NEW u \in Paths
  PROVE  /\ t \o u \in Paths /\ Len(t \o u) = Len(t) + Len(u)
         /\ \A i \in 1..Len(t) : (t \o u)[i] = t[i]
         /\ \A i \in 1..Len(u) : (t \o u)[Len(t) + i] = u[i]
<1>1. Len(t) \in Nat /\ Len(u) \in Nat
  BY PathIs
<1>2. /\ t \o u \in Paths /\ Len(t \o u) = Len(t) + Len(u)
      /\ \A i \in 1..(Len(t) + Len(u)) : (t \o u)[i] = IF i <= Len(t) THEN t[i] ELSE u[i - Len(t)]
  BY ConcatProperties DEF Paths
<1>3. ASSUME NEW i \in 1..Len(t) PROVE (t \o u)[i] = t[i]
  BY <1>1, <1>2
<1>4. ASSUME NEW i \in 1..Len(u) PROVE (t \o u)[Len(t) + i] = u[i]
  <2>1. Len(t) + i \in 1..(Len(t) + Len(u)) /\ ~(Len(t) + i <= Len(t)) /\ (Len(t) + i) - Len(t) = i
    BY <1>1
  <2> QED BY <1>2, <2>1
<1> QED BY <1>2, <1>3, <1>4

LEMMA DescendConcat ==
  ASSUME NEW from, NEW t \in Paths, NEW u \in Paths
  PROVE  Descend(from, t \o u) = Descend(Descend(from, t), u)
<1> DEFINE v == t \o u
           mid == Descend(from, t)
<1>1. /\ v \in Paths /\ Len(v) = Len(t) + Len(u) /\ Len(t) \in Nat /\ Len(u) \in Nat
      /\ \A i \in 1..Len(t) : v[i] = t[i]
      /\ \A i \in 1..Len(u) : v[Len(t) + i] = u[i]
  BY ConcatTypes, PathIs
<1> HIDE DEF v, mid
<1>0. Len(v) \in Nat /\ Len(t) \in Nat /\ Len(u) \in Nat
  BY <1>1
<1>2. PICK f : /\ f[0] = from /\ \A n \in 1..Len(v) : f[n] = Enter(f[n - 1], v[n])
               /\ Descend(from, v) = f[Len(v)]
  BY <1>0, DescendTurns
<1>3. PICK g : /\ g[0] = from /\ \A n \in 1..Len(t) : g[n] = Enter(g[n - 1], t[n])
               /\ mid = g[Len(t)]
  BY <1>0, DescendTurns DEF mid
<1>4. PICK h : /\ h[0] = mid /\ \A n \in 1..Len(u) : h[n] = Enter(h[n - 1], u[n])
               /\ Descend(mid, u) = h[Len(u)]
  BY <1>0, DescendTurns
<1> DEFINE S == {n \in 0..Len(t) : f[n] = g[n]}
           T == {n \in 0..Len(u) : f[Len(t) + n] = h[n]}
<1>5. \A n \in 0..Len(t) : n \in S
  <2>1. 0 \in S
    BY <1>1, <1>2, <1>3
  <2>2. \A n \in 0..(Len(t) - 1) : n \in S => n + 1 \in S
    <3> SUFFICES ASSUME NEW n \in 0..(Len(t) - 1), f[n] = g[n] PROVE f[n + 1] = g[n + 1]
      BY <1>1
    <3>1. n + 1 \in 1..Len(t) /\ n + 1 \in 1..Len(v) /\ (n + 1) - 1 = n
      BY <1>1
    <3> QED BY <1>1, <1>2, <1>3, <3>1
  <2> HIDE DEF S
  <2> QED BY <1>1, <2>1, <2>2, EveryNaturalUpTo
<1>6. \A n \in 0..Len(u) : n \in T
  <2>1. 0 \in T
    <3>1. Len(t) \in S /\ Len(t) + 0 = Len(t)
      BY <1>1, <1>5
    <3>2. f[Len(t)] = g[Len(t)]
      BY <3>1
    <3> QED BY <1>1, <1>3, <1>4, <3>1, <3>2
  <2>2. \A n \in 0..(Len(u) - 1) : n \in T => n + 1 \in T
    <3> SUFFICES ASSUME NEW n \in 0..(Len(u) - 1), f[Len(t) + n] = h[n]
                 PROVE  f[Len(t) + (n + 1)] = h[n + 1]
      BY <1>1
    <3>1. /\ Len(t) + (n + 1) \in 1..Len(v) /\ (Len(t) + (n + 1)) - 1 = Len(t) + n
          /\ n + 1 \in 1..Len(u) /\ (n + 1) - 1 = n
      BY <1>1
    <3>2. f[Len(t) + (n + 1)] = Enter(f[Len(t) + n], v[Len(t) + (n + 1)])
      BY <1>2, <3>1
    <3>3. h[n + 1] = Enter(h[n], u[n + 1]) /\ v[Len(t) + (n + 1)] = u[n + 1]
      BY <1>1, <1>4, <3>1
    <3> QED BY <3>2, <3>3
  <2> HIDE DEF T
  <2> QED BY <1>1, <2>1, <2>2, EveryNaturalUpTo
<1>7. f[Len(v)] = h[Len(u)]
  <2>1. Len(u) \in T
    BY <1>1, <1>6
  <2> QED BY <1>1, <2>1
<1> QED BY <1>2, <1>4, <1>7 DEF v, mid

LEMMA DescendOne ==
  ASSUME NEW from, NEW w \in Words
  PROVE  Descend(from, <<w>>) = Enter(from, w)
<1>1. Len(<<w>>) = 1 /\ <<w>>[1] = w
  OBVIOUS
<1>2. PICK f : /\ f[0] = from /\ \A n \in 1..1 : f[n] = Enter(f[n - 1], <<w>>[n])
               /\ Descend(from, <<w>>) = f[1]
  BY <1>1, DescendTurns
<1>3. f[1] = Enter(f[0], w)
  BY <1>1, <1>2
<1> QED BY <1>2, <1>3

\* A path without its first word.
LEMMA FirstWord ==
  ASSUME NEW t \in Paths, t # <<>>
  PROVE  /\ Head(t) \in Words /\ Tail(t) \in Paths /\ <<Head(t)>> \in Paths
         /\ t = <<Head(t)>> \o Tail(t)
         /\ Len(t) \in Nat \ {0} /\ Len(Tail(t)) = Len(t) - 1 /\ Head(t) = t[1]
         /\ \A i \in 1..Len(Tail(t)) : Tail(t)[i] = t[i + 1]
<1>1. /\ Head(t) \in Words /\ Tail(t) \in Paths /\ Len(Tail(t)) = Len(t) - 1
      /\ \A i \in 1..Len(Tail(t)) : Tail(t)[i] = t[i + 1]
  BY HeadTailProperties DEF Paths
<1>2. Len(t) \in Nat \ {0}
  BY EmptySeq DEF Paths
<1>3. Head(t) = t[1]
  OBVIOUS
<1> DEFINE one == <<Head(t)>>
<1>4. one \in Paths /\ Len(one) = 1 /\ one[1] = Head(t)
  <2>1. one = Append(<<>>, Head(t)) /\ <<>> \in Seq(Words)
    BY EmptySeq
  <2>2. Append(<<>>, Head(t)) \in Seq(Words)
    BY <1>1, <2>1, AppendProperties
  <2>3. Len(one) = 1 /\ one[1] = Head(t)
    OBVIOUS
  <2> HIDE DEF one
  <2> QED BY <2>1, <2>2, <2>3 DEF Paths
<1> HIDE DEF one
<1> DEFINE rest == Tail(t)
<1>8. rest \in Paths /\ Len(rest) = Len(t) - 1
  BY <1>1
<1> HIDE DEF rest
<1>9. /\ one \o rest \in Paths /\ Len(one \o rest) = Len(one) + Len(rest)
      /\ \A i \in 1..Len(one) : (one \o rest)[i] = one[i]
      /\ \A i \in 1..Len(rest) : (one \o rest)[Len(one) + i] = rest[i]
  BY <1>4, <1>8, ConcatTypes
<1>5. /\ one \o Tail(t) \in Paths /\ Len(one \o Tail(t)) = Len(t)
      /\ (one \o Tail(t))[1] = one[1]
      /\ \A i \in 1..Len(Tail(t)) : (one \o Tail(t))[1 + i] = Tail(t)[i]
  BY <1>2, <1>4, <1>8, <1>9 DEF rest
<1>6. ASSUME NEW i \in 1..Len(t) PROVE t[i] = (one \o Tail(t))[i]
  <2>1. CASE i = 1
    BY <1>3, <1>4, <1>5, <2>1
  <2>2. CASE i # 1
    <3>1. i - 1 \in 1..Len(Tail(t)) /\ 1 + (i - 1) = i /\ (i - 1) + 1 = i
      BY <1>1, <1>2, <2>2
    <3> QED BY <1>1, <1>5, <3>1
  <2> QED BY <2>1, <2>2
<1>7. t = one \o Tail(t)
  BY <1>5, <1>6, SeqEqual DEF Paths
<1> QED BY <1>1, <1>2, <1>3, <1>4, <1>7 DEF one

LEMMA DescendHead ==
  ASSUME NEW from, NEW t \in Paths, t # <<>>
  PROVE  Descend(from, t) = Descend(Enter(from, Head(t)), Tail(t))
<1>1. Head(t) \in Words /\ Tail(t) \in Paths /\ <<Head(t)>> \in Paths /\ t = <<Head(t)>> \o Tail(t)
  BY FirstWord
<1>2. Descend(from, <<Head(t)>> \o Tail(t)) = Descend(Descend(from, <<Head(t)>>), Tail(t))
  BY <1>1, DescendConcat
<1>3. Descend(from, <<Head(t)>>) = Enter(from, Head(t))
  BY <1>1, DescendOne
<1> QED BY <1>1, <1>2, <1>3

\* A path with a word more.
LEMMA AppendIs ==
  ASSUME NEW p \in Paths, NEW w \in Words
  PROVE  /\ Append(p, w) \in Paths /\ Append(p, w) # <<>> /\ Append(p, w) # NoFile
         /\ Len(Append(p, w)) = Len(p) + 1
         /\ \A i \in 1..Len(p) : Append(p, w)[i] = p[i]
         /\ Append(p, w)[Len(p) + 1] = w
<1>1. /\ Append(p, w) \in Paths /\ Append(p, w) # <<>>
      /\ Len(Append(p, w)) = Len(p) + 1
      /\ \A i \in 1..Len(p) : Append(p, w)[i] = p[i]
      /\ Append(p, w)[Len(p) + 1] = w
  BY AppendProperties DEF Paths
<1> QED BY <1>1, WordsComplete

LEMMA SamePath ==
  ASSUME NEW p \in Paths, NEW q \in Paths, Len(p) = Len(q), \A i \in 1..Len(p) : p[i] = q[i]
  PROVE  p = q
BY SeqEqual DEF Paths

\* The directory and the name of a path.
LEMMA FrontIs ==
  ASSUME NEW p \in Paths, p # <<>>
  PROVE  /\ Front(p) \in Paths /\ Last(p) \in Words
         /\ Len(p) \in Nat \ {0} /\ Len(Front(p)) = Len(p) - 1
         /\ \A i \in 1..(Len(p) - 1) : Front(p)[i] = p[i]
         /\ Append(Front(p), Last(p)) = p
<1>1. Len(p) \in Nat \ {0} /\ \A i \in 1..Len(p) : p[i] \in Words
  BY EmptySeq, PathIs DEF Paths
<1>2. Len(p) - 1 \in 0..Len(p)
  BY <1>1
<1>3. /\ Front(p) \in Paths /\ Len(Front(p)) = Len(p) - 1
      /\ \A i \in 1..(Len(p) - 1) : Front(p)[i] = p[i]
  BY <1>2, Beginning DEF Front
<1>4. Last(p) \in Words /\ Last(p) = p[Len(p)]
  BY <1>1 DEF Last
<1> DEFINE q == Append(Front(p), Last(p))
<1>5. /\ q \in Paths /\ Len(q) = (Len(p) - 1) + 1
      /\ \A i \in 1..(Len(p) - 1) : q[i] = Front(p)[i]
      /\ q[(Len(p) - 1) + 1] = p[Len(p)]
  BY <1>3, <1>4, AppendIs
<1> HIDE DEF q
<1>6. Len(q) = Len(p) /\ \A i \in 1..Len(q) : q[i] = p[i]
  BY <1>1, <1>3, <1>5
<1>7. q = p
  BY <1>5, <1>6, SamePath
<1> QED BY <1>1, <1>3, <1>4, <1>7 DEF q

LEMMA FrontOfAppend ==
  ASSUME NEW p \in Paths, NEW w \in Words
  PROVE  Front(Append(p, w)) = p /\ Last(Append(p, w)) = w
<1> DEFINE q == Append(p, w)
<1>1. /\ q \in Paths /\ q # <<>> /\ Len(q) = Len(p) + 1 /\ \A i \in 1..Len(p) : q[i] = p[i]
      /\ q[Len(p) + 1] = w /\ Len(p) \in Nat
  BY AppendIs, PathIs
<1> HIDE DEF q
<1>2. /\ Front(q) \in Paths /\ Len(Front(q)) = Len(q) - 1
      /\ \A i \in 1..(Len(q) - 1) : Front(q)[i] = q[i]
  BY <1>1, FrontIs
<1>3. Len(Front(q)) = Len(p) /\ \A i \in 1..Len(Front(q)) : Front(q)[i] = p[i]
  BY <1>1, <1>2
<1>4. Front(q) = p
  BY <1>2, <1>3, SamePath
<1>5. Last(q) = w
  BY <1>1 DEF Last
<1> QED BY <1>4, <1>5 DEF q

\* A step down a path.
LEMMA StepDown ==
  ASSUME NEW d \in Paths, NEW t \in Paths, t # <<>>
  PROVE  Append(d, Head(t)) \o Tail(t) = d \o t
<1>1. Head(t) \in Words /\ Tail(t) \in Paths /\ <<Head(t)>> \in Paths /\ t = <<Head(t)>> \o Tail(t)
  BY FirstWord
<1>2. Append(d, Head(t)) = d \o <<Head(t)>>
  BY <1>1, AppendIsConcat DEF Paths
<1>3. (d \o <<Head(t)>>) \o Tail(t) = d \o (<<Head(t)>> \o Tail(t))
  BY <1>1, ConcatAssociative DEF Paths
<1> QED BY <1>1, <1>2, <1>3

LEMMA PrefixIs ==
  ASSUME NEW s \in Paths, NEW t \in Paths
  PROVE  /\ IsPrefix(s, t) <=> Len(s) <= Len(t) /\ \A i \in 1..Len(s) : s[i] = t[i]
         /\ IsStrictPrefix(s, t) <=> Len(s) < Len(t) /\ \A i \in 1..Len(s) : s[i] = t[i]
<1>1. Len(s) \in Nat /\ Len(t) \in Nat
  BY PathIs
<1>2. SubSeq(s, 1, Len(s)) = s
  BY SubSeqFull DEF Paths
<1>3. ASSUME Len(s) <= Len(t) PROVE s = SubSeq(t, 1, Len(s)) <=> \A i \in 1..Len(s) : s[i] = t[i]
  <2> DEFINE u == SubSeq(t, 1, Len(s))
  <2>1. u \in Paths /\ Len(u) = Len(s) /\ \A i \in 1..Len(s) : u[i] = t[i]
    <3>1. Len(s) \in 0..Len(t)
      BY <1>1, <1>3
    <3> QED BY <3>1, Beginning
  <2> HIDE DEF u
  <2>2. (\A i \in 1..Len(s) : s[i] = u[i]) => s = u
    BY <2>1, SamePath
  <2>3. s = u <=> \A i \in 1..Len(s) : s[i] = t[i]
    BY <2>1, <2>2
  <2> QED BY <2>3 DEF u
<1>4. IsPrefix(s, t) <=> Len(s) <= Len(t) /\ \A i \in 1..Len(s) : s[i] = t[i]
  BY <1>2, <1>3 DEF IsPrefix
<1>5. s # t <=> ~(Len(s) = Len(t) /\ \A i \in 1..Len(s) : s[i] = t[i])
  BY SamePath
<1> QED BY <1>1, <1>4, <1>5 DEF IsStrictPrefix

\* A path without the difference of case.
LEMMA FoldIs ==
  ASSUME NEW p \in Paths
  PROVE  Fold(p) \in Paths /\ Len(Fold(p)) = Len(p) /\ \A i \in 1..Len(p) : Fold(p)[i] = Lower[p[i]]
<1>1. Len(p) \in Nat /\ DOMAIN p = 1..Len(p) /\ \A i \in 1..Len(p) : p[i] \in Words
  BY PathIs
<1>2. Fold(p) = [i \in 1..Len(p) |-> Lower[p[i]]]
  BY <1>1 DEF Fold
<1>3. Fold(p) \in [1..Len(p) -> Words]
  BY <1>1, <1>2, WordsComplete
<1>4. Fold(p) \in Seq(Words) /\ Len(Fold(p)) = Len(p)
  BY <1>1, <1>3
<1> QED BY <1>2, <1>4 DEF Paths

LEMMA FoldBelow ==
  ASSUME NEW x \in Paths, NEW p \in Paths, NEW q \in Paths, Fold(x) = Fold(p), IsStrictPrefix(p, q)
  PROVE  IsStrictPrefix(Fold(x), Fold(q))
<1>1. Fold(p) \in Paths /\ Len(Fold(p)) = Len(p) /\ \A i \in 1..Len(p) : Fold(p)[i] = Lower[p[i]]
  BY FoldIs
<1>2. Fold(q) \in Paths /\ Len(Fold(q)) = Len(q) /\ \A i \in 1..Len(q) : Fold(q)[i] = Lower[q[i]]
  BY FoldIs
<1>3. Len(p) < Len(q) /\ \A i \in 1..Len(p) : p[i] = q[i]
  BY PrefixIs
<1>4. \A i \in 1..Len(p) : Fold(p)[i] = Fold(q)[i]
  <2>1. Len(p) \in Nat /\ Len(q) \in Nat
    BY PathIs
  <2> QED BY <1>1, <1>2, <1>3, <2>1
<1>5. IsStrictPrefix(Fold(p), Fold(q))
  BY <1>1, <1>2, <1>3, <1>4, PrefixIs
<1> QED BY <1>5

-----------------------------------------------------------------------------
(* The members of an archive.                                              *)

LEMMA MemberTypes ==
  ASSUME archive \in Seq(Members), NEW i \in DOMAIN archive
  PROVE  /\ archive[i] \in Members /\ DOMAIN archive[i] = MemberFields
         /\ archive[i].path \in Paths /\ archive[i].target \in Paths /\ archive[i].size \in Nat
         /\ archive[i].kind \in {"file", "dir", "symlink", "hardlink", "special"}
         /\ archive[i].kind = "file" => archive[i].content # NoFile
         /\ i \in 1..Len(archive) /\ Len(archive) \in Nat
<1>1. DOMAIN archive = 1..Len(archive) /\ Len(archive) \in Nat
  BY LenProperties
<1>2. archive[i] \in Members
  BY <1>1, ElementOfSeq
<1> QED BY <1>1, <1>2, MembersComplete

\* The directory that is stripped is one word, and everything is in it.
LEMMA PrefixTypes ==
  ASSUME archive \in Seq(Members)
  PROVE  /\ Prefix \in Paths
         /\ \A i \in DOMAIN archive : IsPrefix(Prefix, archive[i].path)
         /\ Prefix # <<>> => \A i \in DOMAIN archive :
                               archive[i].path = Prefix => archive[i].kind = "dir"
<1> DEFINE base == SubSeq(archive[1].path, 1, 1)
           Shared == /\ archive # <<>>
                     /\ \A i \in DOMAIN archive :
                          /\ IsPrefix(base, archive[i].path)
                          /\ archive[i].path = base => archive[i].kind = "dir"
                     /\ \E i \in DOMAIN archive : archive[i].path # base
<1>1. Prefix = IF Shared THEN base ELSE <<>>
  BY DEF Prefix
<1>2. CASE Shared
  <2>1. 1 \in DOMAIN archive
    BY <1>2, EmptySeq, LenProperties
  <2>2. archive[1].path \in Paths
    BY <2>1, MemberTypes
  <2>3. IsPrefix(base, archive[1].path)
    BY <1>2, <2>1
  <2>4. Len(base) = 1
    BY DEF IsPrefix
  <2>5. 1 \in 0..Len(archive[1].path)
    <3> HIDE DEF base
    <3> QED BY <2>2, <2>3, <2>4, PathIs DEF IsPrefix
  <2>6. base \in Paths
    BY <2>2, <2>5, Beginning
  <2> HIDE DEF base
  <2> QED BY <1>1, <1>2, <2>6
<1>3. CASE ~Shared
  <2>1. Prefix = <<>>
    BY <1>1, <1>3
  <2>2. <<>> \in Paths
    BY EmptySeq DEF Paths
  <2>3. ASSUME NEW i \in DOMAIN archive PROVE IsPrefix(<<>>, archive[i].path)
    <3> DEFINE e == <<>>
    <3>1. archive[i].path \in Paths /\ e \in Paths /\ Len(e) = 0
      BY <2>2, MemberTypes, EmptySeq
    <3>2. Len(archive[i].path) \in Nat
      BY <3>1, PathIs
    <3> HIDE DEF e
    <3>3. IsPrefix(e, archive[i].path)
      BY <3>1, <3>2, PrefixIs
    <3> QED BY <3>3 DEF e
  <2> QED BY <2>1, <2>2, <2>3
<1> QED BY <1>2, <1>3

LEMMA MappedIs ==
  ASSUME archive \in Seq(Members), NEW p \in Paths
  PROVE  /\ Mapped(p) \in Paths
         /\ IsPrefix(Prefix, p) => Prefix \o Mapped(p) = p
         /\ ~IsPrefix(Prefix, p) => Mapped(p) = p
         /\ \A j \in 1..Len(Mapped(p)) : \E k \in 1..Len(p) : Mapped(p)[j] = p[k]
<1> DEFINE P == Prefix
<1>1. P \in Paths /\ Len(P) \in Nat /\ Len(p) \in Nat
  BY PrefixTypes, PathIs
<1>2. Mapped(p) = IF IsPrefix(P, p) THEN SubSeq(p, Len(P) + 1, Len(p)) ELSE p
  BY DEF Mapped, Strip
<1> HIDE DEF P
<1>3. CASE ~IsPrefix(P, p)
  BY <1>2, <1>3 DEF P
<1>4. CASE IsPrefix(P, p)
  <2> DEFINE r == SubSeq(p, Len(P) + 1, Len(p))
  <2>1. Len(P) <= Len(p) /\ \A i \in 1..Len(P) : P[i] = p[i]
    BY <1>1, <1>4, PrefixIs
  <2>2. \A i \in (Len(P) + 1)..Len(p) : p[i] \in Words
    BY <1>1, PathIs
  <2>3. /\ r \in Paths /\ Len(r) = Len(p) - Len(P)
        /\ \A i \in 1..(Len(p) - Len(P)) : r[i] = p[Len(P) + i]
    <3>1. Len(P) + 1 \in Int /\ Len(p) \in Int
      BY <1>1
    <3>2. /\ r \in Seq(Words)
          /\ Len(r) = IF Len(P) + 1 <= Len(p) THEN Len(p) - (Len(P) + 1) + 1 ELSE 0
          /\ \A i \in 1..(Len(p) - (Len(P) + 1) + 1) : r[i] = p[(Len(P) + 1) + i - 1]
      BY <2>2, <3>1, SubSeqProperties
    <3> HIDE DEF r
    <3> QED BY <1>1, <2>1, <3>2 DEF Paths
  <2>4. Mapped(p) = r
    BY <1>2, <1>4
  <2> HIDE DEF r
  <2>5. /\ P \o r \in Paths /\ Len(P \o r) = Len(P) + Len(r)
        /\ \A i \in 1..Len(P) : (P \o r)[i] = P[i]
        /\ \A i \in 1..Len(r) : (P \o r)[Len(P) + i] = r[i]
    BY <1>1, <2>3, ConcatTypes
  <2>6. \A i \in 1..Len(P \o r) : (P \o r)[i] = p[i]
    <3> SUFFICES ASSUME NEW i \in 1..Len(P \o r) PROVE (P \o r)[i] = p[i]
      OBVIOUS
    <3>1. CASE i \in 1..Len(P)
      BY <2>1, <2>5, <3>1
    <3>2. CASE ~(i \in 1..Len(P))
      <4>1. i - Len(P) \in 1..Len(r) /\ Len(P) + (i - Len(P)) = i
        BY <1>1, <2>3, <2>5, <3>2
      <4> QED BY <2>3, <2>5, <4>1
    <3> QED BY <3>1, <3>2
  <2>7. P \o r = p
    <3>1. Len(P \o r) = Len(p)
      BY <1>1, <2>3, <2>5
    <3> QED BY <2>5, <2>6, <3>1, SamePath
  <2>8. \A j \in 1..Len(r) : \E k \in 1..Len(p) : r[j] = p[k]
    <3> SUFFICES ASSUME NEW j \in 1..Len(r) PROVE \E k \in 1..Len(p) : r[j] = p[k]
      OBVIOUS
    <3>1. Len(P) + j \in 1..Len(p)
      BY <1>1, <2>1, <2>3
    <3> QED BY <2>3, <3>1
  <2> QED BY <1>4, <2>3, <2>4, <2>7, <2>8 DEF P
<1> QED BY <1>3, <1>4

\* A path in the stripped directory.
LEMMA MappedBack ==
  ASSUME archive \in Seq(Members), NEW q \in Paths
  PROVE  Prefix \o q \in Paths /\ IsPrefix(Prefix, Prefix \o q) /\ Mapped(Prefix \o q) = q
<1> DEFINE P == Prefix
           r == P \o q
<1>1. P \in Paths /\ Len(P) \in Nat /\ Len(q) \in Nat
  BY PrefixTypes, PathIs
<1>2. r \in Paths /\ Len(r) = Len(P) + Len(q) /\ \A i \in 1..Len(P) : r[i] = P[i]
  <2> HIDE DEF P
  <2> QED BY <1>1, ConcatTypes
<1>3. IsPrefix(P, r)
  <2> HIDE DEF P, r
  <2> QED BY <1>1, <1>2, PrefixIs
<1>4. P \o Mapped(r) = r /\ Mapped(r) \in Paths
  <2> HIDE DEF r
  <2> QED BY <1>2, <1>3, MappedIs
<1>5. Mapped(r) = q
  <2>1. P \o Mapped(r) = P \o q
    BY <1>4
  <2> HIDE DEF P, r
  <2> QED BY <1>1, <1>4, <2>1, ConcatSimplifications DEF Paths
<1> QED BY <1>2, <1>3, <1>5

\* A path that goes nowhere but down.
Downward(p) == p \in Paths /\ p # <<>> /\ \A i \in 1..Len(p) : p[i] \notin Unsafe \cup {Up, Slash}

LEMMA SafeIsDownward ==
  ASSUME NEW p \in Paths, SafePath(p)
  PROVE  Downward(p)
BY PathIs DEF SafePath, Downward

Accepted == archive \in Seq(Members) /\ Validate

LEMMA KeptIs ==
  ASSUME Accepted, NEW i \in Kept
  PROVE  /\ i \in DOMAIN archive
         /\ Downward(Mapped(archive[i].path))
         /\ Prefix \o Mapped(archive[i].path) = archive[i].path
<1>1. i \in DOMAIN archive /\ Mapped(archive[i].path) # <<>> /\ archive \in Seq(Members)
  BY DEF Kept, Accepted
<1>2. archive[i].path \in Paths /\ IsPrefix(Prefix, archive[i].path)
  BY <1>1, MemberTypes, PrefixTypes
<1>3. Downward(archive[i].path)
  BY <1>1, <1>2, SafeIsDownward DEF Accepted, Validate, Readable
<1> DEFINE p == archive[i].path
           q == Mapped(p)
<1>4. /\ q \in Paths /\ Prefix \o q = p /\ \A j \in 1..Len(q) : \E k \in 1..Len(p) : q[j] = p[k]
  <2> HIDE DEF p
  <2>1. p \in Paths /\ IsPrefix(Prefix, p)
    BY <1>2 DEF p
  <2> QED BY <1>1, <2>1, MappedIs
<1>5. q # <<>>
  BY <1>1
<1>6. Downward(q)
  <2>1. Downward(p)
    BY <1>3
  <2> HIDE DEF p, q
  <2> QED BY <1>4, <1>5, <2>1 DEF Downward
<1> QED BY <1>1, <1>4, <1>6

\* The entry behind a place in the stage is the only one, whatever its case.
LEMMA EntryBehind ==
  ASSUME Accepted, NEW kind, NEW p \in Of(kind)
  PROVE  \E i \in Kept :
           /\ archive[i].kind = kind /\ Mapped(archive[i].path) = p /\ At(p) = archive[i]
           /\ \A j \in Kept : Fold(Mapped(archive[j].path)) = Fold(p) => j = i
<1>1. PICK i \in Kept : archive[i].kind = kind /\ Mapped(archive[i].path) = p
  BY DEF Of
<1>2. \A j \in Kept : Fold(Mapped(archive[j].path)) = Fold(p) => j = i
  BY <1>1 DEF Accepted, Validate
<1>3. \A j \in Kept : Mapped(archive[j].path) = p => j = i
  BY <1>2
<1>4. At(p) = archive[i]
  <2>1. (CHOOSE j \in Kept : Mapped(archive[j].path) = p) = i
    BY <1>1, <1>3
  <2> QED BY <2>1 DEF At
<1> QED BY <1>1, <1>2, <1>4

LEMMA OfIs ==
  ASSUME Accepted, NEW kind, NEW p \in Of(kind)
  PROVE  /\ Downward(p) /\ p \in Paths /\ p # NoFile
         /\ At(p) \in Members /\ At(p).kind = kind
         /\ Mapped(At(p).path) = p /\ Prefix \o p = At(p).path
         /\ At(p).target \in Paths /\ At(p).size \in Nat
         /\ kind = "file" => At(p).content # NoFile
<1>1. PICK i \in Kept : archive[i].kind = kind /\ Mapped(archive[i].path) = p /\ At(p) = archive[i]
  BY EntryBehind
<1>2. i \in DOMAIN archive /\ Downward(p) /\ Prefix \o p = archive[i].path
  BY <1>1, KeptIs
<1>3. /\ archive[i] \in Members /\ archive[i].target \in Paths /\ archive[i].size \in Nat
      /\ archive[i].kind = "file" => archive[i].content # NoFile
  BY <1>2, MemberTypes DEF Accepted
<1>4. p \in Paths /\ p # NoFile
  BY <1>2, WordsComplete DEF Downward
<1> QED BY <1>1, <1>2, <1>3, <1>4

LEMMA Alone ==
  ASSUME Accepted, NEW k, NEW l, NEW p \in Of(k), NEW q \in Of(l), Fold(p) = Fold(q)
  PROVE  p = q /\ k = l
<1>1. PICK i \in Kept : /\ archive[i].kind = k /\ Mapped(archive[i].path) = p
                        /\ \A j \in Kept : Fold(Mapped(archive[j].path)) = Fold(p) => j = i
  BY EntryBehind
<1>2. PICK j \in Kept : archive[j].kind = l /\ Mapped(archive[j].path) = q
  BY DEF Of
<1> QED BY <1>1, <1>2

\* What has an entry below it is a directory.
LEMMA AboveIsDirectory ==
  ASSUME Accepted, NEW k, NEW l, NEW p \in Of(k), NEW q \in Of(l), NEW x \in Paths,
         Fold(x) = Fold(p), IsStrictPrefix(x, q)
  PROVE  k = "dir"
<1>1. PICK i \in Kept : archive[i].kind = k /\ Mapped(archive[i].path) = p
  BY DEF Of
<1>2. PICK j \in Kept : archive[j].kind = l /\ Mapped(archive[j].path) = q
  BY DEF Of
<1>3. p \in Paths /\ q \in Paths
  BY OfIs
<1>4. IsStrictPrefix(Fold(p), Fold(q))
  BY <1>3, FoldBelow
<1> QED BY <1>1, <1>2, <1>4 DEF Accepted, Validate, AncestorsOk

-----------------------------------------------------------------------------
(* Sums of sizes.                                                          *)

LEMMA TotalSplit ==
  ASSUME NEW N \in Nat, NEW a \in [1..N -> Nat], NEW b \in [1..N -> Nat],
         NEW c \in [1..N -> Nat], \A i \in 1..N : c[i] <= a[i] + b[i]
  PROVE  /\ Total(a) \in Nat /\ Total(b) \in Nat /\ Total(c) \in Nat
         /\ Total(c) <= Total(a) + Total(b)
<1>1. Len(a) = N /\ Len(b) = N /\ Len(c) = N
  OBVIOUS
<1>2. PICK f : f[0] = 0 /\ (\A n \in 1..N : f[n] = f[n - 1] + a[n]) /\ Total(a) = f[N]
  <2>1. Len(a) \in Nat
    BY <1>1
  <2> QED BY <1>1, <2>1, TotalTurns
<1>3. PICK g : g[0] = 0 /\ (\A n \in 1..N : g[n] = g[n - 1] + b[n]) /\ Total(b) = g[N]
  <2>1. Len(b) \in Nat
    BY <1>1
  <2> QED BY <1>1, <2>1, TotalTurns
<1>4. PICK h : h[0] = 0 /\ (\A n \in 1..N : h[n] = h[n - 1] + c[n]) /\ Total(c) = h[N]
  <2>1. Len(c) \in Nat
    BY <1>1
  <2> QED BY <1>1, <2>1, TotalTurns
<1> DEFINE S == {n \in 0..N : /\ f[n] \in Nat /\ g[n] \in Nat /\ h[n] \in Nat
                              /\ h[n] <= f[n] + g[n]}
<1>5. 0 \in S
  BY <1>2, <1>3, <1>4
<1>6. \A n \in 0..(N - 1) : n \in S => n + 1 \in S
  <2> SUFFICES ASSUME NEW n \in 0..(N - 1), n \in S PROVE n + 1 \in S
    OBVIOUS
  <2>1. n + 1 \in 1..N /\ (n + 1) - 1 = n
    OBVIOUS
  <2>2. f[n + 1] = f[n] + a[n + 1] /\ g[n + 1] = g[n] + b[n + 1] /\ h[n + 1] = h[n] + c[n + 1]
    BY <1>2, <1>3, <1>4, <2>1
  <2>3. a[n + 1] \in Nat /\ b[n + 1] \in Nat /\ c[n + 1] \in Nat /\ c[n + 1] <= a[n + 1] + b[n + 1]
    BY <2>1
  <2>4. f[n] \in Nat /\ g[n] \in Nat /\ h[n] \in Nat /\ h[n] <= f[n] + g[n]
    OBVIOUS
  <2>5. \A x, y, z, u, v, w \in Nat : z <= x + y /\ w <= u + v => z + w <= (x + u) + (y + v)
    OBVIOUS
  <2>6. h[n] + c[n + 1] <= (f[n] + a[n + 1]) + (g[n] + b[n + 1])
    BY <2>3, <2>4, <2>5
  <2>7. f[n + 1] \in Nat /\ g[n + 1] \in Nat /\ h[n + 1] \in Nat
    <3>1. \A x, y \in Nat : x + y \in Nat
      OBVIOUS
    <3>2. f[n] + a[n + 1] \in Nat /\ g[n] + b[n + 1] \in Nat /\ h[n] + c[n + 1] \in Nat
      BY <2>3, <2>4, <3>1
    <3> QED BY <2>2, <3>2
  <2>8. h[n + 1] <= f[n + 1] + g[n + 1]
    BY <2>2, <2>6
  <2>9. n + 1 \in 0..N
    OBVIOUS
  <2> QED BY <2>7, <2>8, <2>9
<1>7. \A n \in 0..N : n \in S
  <2> HIDE DEF S
  <2> QED BY <1>5, <1>6, EveryNaturalUpTo
<1>8. N \in S
  BY <1>7
<1> QED BY <1>2, <1>3, <1>4, <1>8

LEMMA TotalZero ==
  ASSUME NEW N \in Nat, NEW a \in [1..N -> Nat], \A i \in 1..N : a[i] = 0
  PROVE  Total(a) = 0
<1>1. Len(a) = N
  OBVIOUS
<1>2. PICK f : f[0] = 0 /\ (\A n \in 1..N : f[n] = f[n - 1] + a[n]) /\ Total(a) = f[N]
  <2>1. Len(a) \in Nat
    BY <1>1
  <2> QED BY <1>1, <2>1, TotalTurns
<1> DEFINE S == {n \in 0..N : f[n] = 0}
<1>5. 0 \in S
  BY <1>2
<1>6. \A n \in 0..(N - 1) : n \in S => n + 1 \in S
  <2> SUFFICES ASSUME NEW n \in 0..(N - 1), f[n] = 0 PROVE f[n + 1] = 0
    OBVIOUS
  <2>1. n + 1 \in 1..N /\ (n + 1) - 1 = n
    OBVIOUS
  <2>2. f[n + 1] = f[n] + a[n + 1]
    BY <1>2, <2>1
  <2> QED BY <2>1, <2>2
<1>7. \A n \in 0..N : n \in S
  <2> HIDE DEF S
  <2> QED BY <1>5, <1>6, EveryNaturalUpTo
<1> QED BY <1>2, <1>7

LEMMA TotalBound ==
  ASSUME NEW N \in Nat, NEW a \in [1..N -> Nat], NEW c \in [1..N -> Nat],
         \A i \in 1..N : c[i] <= a[i]
  PROVE  Total(a) \in Nat /\ Total(c) \in Nat /\ Total(c) <= Total(a)
<1> DEFINE b == [i \in 1..N |-> 0]
<1>1. b \in [1..N -> Nat] /\ \A i \in 1..N : b[i] = 0 /\ c[i] <= a[i] + b[i]
  OBVIOUS
<1> HIDE DEF b
<1>2. Total(b) = 0
  BY <1>1, TotalZero
<1>3. Total(a) \in Nat /\ Total(c) \in Nat /\ Total(c) <= Total(a) + Total(b)
  BY <1>1, TotalSplit
<1> QED BY <1>2, <1>3

LEMMA TurnsIs ==
  ASSUME archive \in Seq(Members), NEW p \in Paths
  PROVE  Turns(p) \in Nat /\ Turns(p) >= Len(p)
<1> DEFINE size == [i \in DOMAIN archive |-> Len(archive[i].target)]
<1>1. Len(archive) \in Nat /\ DOMAIN archive = 1..Len(archive)
  BY LenProperties
<1>2. \A i \in DOMAIN archive : Len(archive[i].target) \in Nat
  BY MemberTypes, PathIs
<1>3. size \in [1..Len(archive) -> Nat]
  BY <1>1, <1>2
<1> HIDE DEF size
<1>4. Total(size) \in Nat
  BY <1>1, <1>3, TotalBound
<1>5. Expansions * Total(size) \in Nat
  BY <1>4, LimitsAreNumbers
<1>6. Turns(p) = Len(p) + Expansions * Total(size)
  BY DEF Turns, size
<1> DEFINE more == Expansions * Total(size)
<1>7. more \in Nat /\ Turns(p) = Len(p) + more /\ Len(p) \in Nat
  BY <1>5, <1>6, PathIs
<1> HIDE DEF more
<1>8. \A k, n \in Nat : k + n \in Nat /\ k + n >= k
  OBVIOUS
<1>9. Len(p) + more \in Nat /\ Len(p) + more >= Len(p)
  BY <1>7, <1>8
<1> QED BY <1>7, <1>9

-----------------------------------------------------------------------------
(* A path through the links of a stage.                                    *)

WalkNext(tree, strict) == [s \in {t \in Walks : t.todo # <<>>} |-> Follow(tree, strict, s)]

WalkStart(p) == [done |-> <<>>, todo |-> p, left |-> Expansions]

IsA(tree, p, kind) == p \in DOMAIN tree /\ tree[p].kind = kind

LEMMA ResolvedIs ==
  ASSUME NEW tree, NEW strict, NEW p
  PROVE  /\ Chase(WalkNext(tree, strict), WalkStart(p), Turns(p)).todo = <<>> =>
              ResolvedLink(tree, strict, p)
                = Chase(WalkNext(tree, strict), WalkStart(p), Turns(p)).done
         /\ Chase(WalkNext(tree, strict), WalkStart(p), Turns(p)).todo # <<>> =>
              ResolvedLink(tree, strict, p) = NoFile
BY Zenon DEF ResolvedLink, WalkNext, WalkStart

LEMMA WalkStarts ==
  ASSUME NEW p \in Paths
  PROVE  /\ WalkStart(p) \in Walks /\ WalkStart(p).done = <<>> /\ WalkStart(p).todo = p
         /\ WalkStart(p).left = Expansions
BY EmptySeq, LimitsAreNumbers DEF WalkStart, Walks, Paths

\* What a turn does.
Turn(tree, strict, s, next, here, r) ==
    \/ /\ next = Slash \/ (next = Up /\ s.done = <<>>)
       /\ r = [done |-> <<Up>>, todo |-> <<>>, left |-> 0]
    \/ /\ next = Up /\ s.done # <<>>
       /\ r = [done |-> Front(s.done), todo |-> Tail(s.todo), left |-> s.left]
    \/ /\ next \notin {Up, Slash} /\ IsA(tree, here, "symlink") /\ s.left # 0
       /\ r = [done |-> s.done, todo |-> tree[here].target \o Tail(s.todo), left |-> s.left - 1]
    \/ /\ next \notin {Up, Slash} /\ ~IsA(tree, here, "symlink") /\ ~IsA(tree, s.done, "file")
       /\ r = [done |-> here, todo |-> Tail(s.todo), left |-> s.left]
    \/ /\ r = [done |-> NoFile, todo |-> <<>>, left |-> 0]
       /\ \/ strict
          \/ IsA(tree, here, "symlink") /\ s.left = 0
          \/ IsA(tree, s.done, "file") /\ ~IsA(tree, here, "symlink")

LEMMA FollowIs ==
  ASSUME NEW tree, NEW strict \in BOOLEAN, NEW s \in Walks, s.todo # <<>>, s.done \in Paths,
         NEW next, next = Head(s.todo), NEW here, here = Append(s.done, next),
         NEW r, r = Follow(tree, strict, s)
  PROVE  Turn(tree, strict, s, next, here, r)
<1> USE DEF Turn
<1> DEFINE Missing == ~\E q \in DOMAIN tree \cup Of("dir") : IsPrefix(here, q)
<1>1. r = CASE next = Slash \/ (next = Up /\ s.done = <<>>) -> [done |-> <<Up>>, todo |-> <<>>, left |-> 0]
            [] next = Up /\ s.done # <<>> ->
                 IF strict /\ IsA(tree, s.done, "file") THEN [done |-> NoFile, todo |-> <<>>, left |-> 0]
                 ELSE [done |-> Front(s.done), todo |-> Tail(s.todo), left |-> s.left]
            [] next \notin {Up, Slash} /\ IsA(tree, here, "symlink") ->
                 IF s.left = 0 THEN [done |-> NoFile, todo |-> <<>>, left |-> 0]
                 ELSE [done |-> s.done, todo |-> tree[here].target \o Tail(s.todo), left |-> s.left - 1]
            [] OTHER ->
                 IF IsA(tree, s.done, "file") \/ (strict /\ Missing)
                   THEN [done |-> NoFile, todo |-> <<>>, left |-> 0]
                 ELSE [done |-> here, todo |-> Tail(s.todo), left |-> s.left]
  BY DEF Follow, IsA
<1> HIDE DEF Missing
<1>2. CASE next = Slash \/ (next = Up /\ s.done = <<>>)
  BY <1>1, <1>2
<1>3. CASE next = Up /\ next # Slash /\ s.done # <<>>
  BY <1>1, <1>3
<1>4. CASE next \notin {Up, Slash} /\ IsA(tree, here, "symlink")
  BY <1>1, <1>4
<1>5. CASE next \notin {Up, Slash} /\ ~IsA(tree, here, "symlink")
  BY <1>1, <1>5
<1> QED BY <1>2, <1>3, <1>4, <1>5

\* A path down without a link or a file on the way.
Open(tree, p) ==
    /\ \A i \in 1..Len(p) : p[i] \notin {Up, Slash}
    /\ \A q \in Paths : IsPrefix(q, p) => ~IsA(tree, q, "symlink")
    /\ \A q \in Paths : IsStrictPrefix(q, p) => ~IsA(tree, q, "file")

LEMMA GoesDown ==
  ASSUME NEW tree, NEW s \in Walks, s.done \in Paths, s.todo # <<>>,
         NEW w, w = Head(s.todo), w # Up, w # Slash,
         NEW here, here = Append(s.done, w),
         ~IsA(tree, here, "symlink"), ~IsA(tree, s.done, "file")
  PROVE  Hop(WalkNext(tree, FALSE), s) = [done |-> here, todo |-> Tail(s.todo), left |-> s.left]
<1>1. Hop(WalkNext(tree, FALSE), s) = Follow(tree, FALSE, s)
  <2>1. s \in {x \in Walks : x.todo # <<>>}
    OBVIOUS
  <2> QED BY <2>1 DEF Hop, WalkNext
<1>2. Follow(tree, FALSE, s) = [done |-> here, todo |-> Tail(s.todo), left |-> s.left]
  BY FollowIs DEF Turn
<1> QED BY <1>1, <1>2

\* A turn down such a path.
OnTheWay(p, n, s) ==
    \E d, t \in Paths, left \in Nat :
      s = [done |-> d, todo |-> t, left |-> left] /\ d \o t = p /\ Len(d) = n

LEMMA OpenTurn ==
  ASSUME NEW tree, NEW p \in Paths, Open(tree, p), NEW n \in Nat, n < Len(p),
         NEW s, OnTheWay(p, n, s)
  PROVE  OnTheWay(p, n + 1, Hop(WalkNext(tree, FALSE), s))
<1>13. PICK d \in Paths, t \in Paths, left \in Nat :
         s = [done |-> d, todo |-> t, left |-> left] /\ d \o t = p /\ Len(d) = n
  BY DEF OnTheWay
<1>0. d \o t = p /\ Len(d) = n
  BY <1>13
<1>17. t # <<>>
  <2>1. Len(p) = n + Len(t)
    BY <1>0, ConcatTypes
  <2>2. Len(<<>>) = 0
    BY EmptySeq
  <2> QED BY <2>1, <2>2
<1>1. PICK w : w = Head(t)
  OBVIOUS
<1>2. PICK u : u = Tail(t)
  OBVIOUS
<1>3. PICK here : here = Append(d, w)
  OBVIOUS
<1>4. w \in Words /\ u \in Paths /\ w = t[1] /\ Len(t) \in Nat \ {0}
  BY <1>1, <1>2, <1>17, FirstWord
<1>5. Len(d) \in Nat /\ Len(p) = Len(d) + Len(t) /\ \A i \in 1..Len(t) : p[Len(d) + i] = t[i]
  BY <1>0, ConcatTypes, PathIs
<1>6. w = p[Len(d) + 1] /\ Len(d) + 1 \in 1..Len(p)
  BY <1>4, <1>5
<1>7. w \notin {Up, Slash}
  BY <1>6 DEF Open
<1>8. here \in Paths /\ Len(here) = Len(d) + 1
  BY <1>3, <1>4, AppendIs
<1>9. here \o u = p
  BY <1>0, <1>1, <1>2, <1>3, <1>17, StepDown
<1>10. IsPrefix(here, p)
  <2>1. Len(here \o u) = Len(here) + Len(u) /\ \A i \in 1..Len(here) : (here \o u)[i] = here[i]
    BY <1>4, <1>8, ConcatTypes
  <2>2. Len(u) \in Nat /\ Len(here) \in Nat
    BY <1>4, <1>8, PathIs
  <2>3. Len(here) <= Len(p)
    BY <1>9, <2>1, <2>2
  <2>4. \A i \in 1..Len(here) : here[i] = p[i]
    BY <1>9, <2>1
  <2> QED BY <1>8, <2>3, <2>4, PrefixIs
<1>11. IsStrictPrefix(d, p)
  <2>1. \A i \in 1..Len(d) : p[i] = d[i]
    BY <1>0, ConcatTypes
  <2>2. Len(d) < Len(p)
    BY <1>4, <1>5
  <2> QED BY <2>1, <2>2, PrefixIs
<1>12. ~IsA(tree, here, "symlink") /\ ~IsA(tree, d, "file")
  BY <1>8, <1>10, <1>11 DEF Open
<1>14. s \in Walks /\ s.done = d /\ s.todo = t /\ s.left = left
  BY <1>13 DEF Walks
<1>15. Hop(WalkNext(tree, FALSE), s) = [done |-> here, todo |-> Tail(s.todo), left |-> s.left]
  BY <1>1, <1>3, <1>7, <1>12, <1>14, <1>17, GoesDown
<1>16. Hop(WalkNext(tree, FALSE), s) = [done |-> here, todo |-> u, left |-> left]
  BY <1>2, <1>14, <1>15
<1>18. Len(here) = n + 1 /\ here \o u = p
  BY <1>0, <1>8, <1>9
<1> QED BY <1>4, <1>8, <1>16, <1>18 DEF OnTheWay

\* Such a path is the place it says.
LEMMA WalkDown ==
  ASSUME archive \in Seq(Members), NEW tree, NEW p \in Paths, Open(tree, p)
  PROVE  Resolve(tree, p) = p
<1> DEFINE next == WalkNext(tree, FALSE)
           S == {n \in 0..Len(p) : OnTheWay(p, n, Chase(next, WalkStart(p), n))}
<1>0. Len(p) \in Nat /\ Turns(p) \in Nat /\ Turns(p) >= Len(p)
  BY PathIs, TurnsIs
<1>1. 0 \in S
  <2>1. Chase(next, WalkStart(p), 0) = WalkStart(p)
    BY ChaseAgain
  <2>2. <<>> \in Paths /\ <<>> \o p = p /\ Len(<<>>) = 0
    BY EmptySeq, ConcatEmptySeq DEF Paths
  <2>3. WalkStart(p) = [done |-> <<>>, todo |-> p, left |-> Expansions] /\ Expansions \in Nat
    BY LimitsAreNumbers DEF WalkStart
  <2>4. OnTheWay(p, 0, WalkStart(p))
    BY <2>2, <2>3 DEF OnTheWay
  <2> HIDE DEF next
  <2> QED BY <1>0, <2>1, <2>4
<1>2. \A n \in 0..(Len(p) - 1) : n \in S => n + 1 \in S
  <2> HIDE DEF next
  <2> SUFFICES ASSUME NEW n \in 0..(Len(p) - 1), OnTheWay(p, n, Chase(next, WalkStart(p), n))
               PROVE  OnTheWay(p, n + 1, Chase(next, WalkStart(p), n + 1)) /\ n + 1 \in 0..Len(p)
    OBVIOUS
  <2>0. n \in Nat /\ n < Len(p) /\ n + 1 \in 0..Len(p)
    BY <1>0
  <2>1. Chase(next, WalkStart(p), n + 1) = Hop(next, Chase(next, WalkStart(p), n))
    BY <2>0, ChaseAgain
  <2>2. OnTheWay(p, n + 1, Hop(next, Chase(next, WalkStart(p), n)))
    BY <2>0, OpenTurn DEF next
  <2> QED BY <2>0, <2>1, <2>2
<1>3. PICK e : e = Chase(next, WalkStart(p), Len(p))
  OBVIOUS
<1>4. OnTheWay(p, Len(p), e)
  <2>1. \A n \in 0..Len(p) : n \in S
    <3> HIDE DEF S
    <3> QED BY <1>0, <1>1, <1>2, EveryNaturalUpTo
  <2>2. Len(p) \in 0..Len(p)
    BY <1>0
  <2> QED BY <1>3, <2>1, <2>2
<1> HIDE DEF S
<1>5. PICK d \in Paths, t \in Paths, left \in Nat :
        e = [done |-> d, todo |-> t, left |-> left] /\ d \o t = p /\ Len(d) = Len(p)
  BY <1>4 DEF OnTheWay
<1>6. e.todo = <<>> /\ e.done = p
  <2>1. Len(t) \in Nat /\ Len(p) = Len(d) + Len(t)
    BY <1>5, ConcatTypes, PathIs
  <2>2. Len(t) = 0
    BY <1>0, <1>5, <2>1
  <2>3. t = <<>>
    BY <2>2, EmptySeq DEF Paths
  <2>4. d \o <<>> = d
    BY ConcatEmptySeq DEF Paths
  <2>5. e.todo = t /\ e.done = d
    BY <1>5
  <2> QED BY <1>5, <2>3, <2>4, <2>5
<1>7. e \notin DOMAIN next
  BY <1>6 DEF WalkNext
<1> HIDE DEF next
<1>8. Chase(next, WalkStart(p), Turns(p)) = e
  BY <1>0, <1>3, <1>7, ChaseStays
<1>9. ResolvedLink(tree, FALSE, p) = p
  BY <1>6, <1>8, ResolvedIs DEF next
<1> QED BY <1>9 DEF Resolve

-----------------------------------------------------------------------------
(* Nodes are placed where the archive says.                                *)

\* A stage has files and links of the archive, each at its own path.
Placed(tree) ==
    \A q \in DOMAIN tree : q \in Of("file") \cup Linked /\ tree[q].kind \in {"file", "symlink"}

\* Nothing that is in a stage is above an entry.
LEMMA NothingAbove ==
  ASSUME Accepted, NEW tree, Placed(tree), NEW k, NEW p \in Of(k), NEW q \in Paths,
         IsStrictPrefix(q, p)
  PROVE  q \notin DOMAIN tree
<1> SUFFICES ASSUME q \in DOMAIN tree PROVE FALSE
  OBVIOUS
<1>1. PICK l \in {"file", "symlink", "hardlink"} : q \in Of(l)
  BY DEF Placed, Linked
<1>2. l = "dir"
  BY <1>1, AboveIsDirectory
<1> QED BY <1>1, <1>2

LEMMA FrontIsAbove ==
  ASSUME NEW p \in Paths, p # <<>>, NEW q \in Paths, IsPrefix(q, Front(p))
  PROVE  IsStrictPrefix(q, p)
<1>1. /\ Front(p) \in Paths /\ Len(p) \in Nat \ {0} /\ Len(Front(p)) = Len(p) - 1
      /\ \A i \in 1..(Len(p) - 1) : Front(p)[i] = p[i]
  BY FrontIs
<1>2. Len(q) <= Len(Front(p)) /\ \A i \in 1..Len(q) : q[i] = Front(p)[i]
  BY <1>1, PrefixIs
<1>3. Len(q) \in Nat
  BY PathIs
<1>4. Len(q) < Len(p) /\ \A i \in 1..Len(q) : q[i] = p[i]
  BY <1>1, <1>2, <1>3
<1> QED BY <1>4, PrefixIs

LEMMA ResolveDirectory ==
  ASSUME Accepted, NEW tree, Placed(tree), NEW k, NEW p \in Of(k)
  PROVE  Resolve(tree, Front(p)) = Front(p)
<1>1. p \in Paths /\ p # <<>> /\ \A i \in 1..Len(p) : p[i] \notin {Up, Slash}
  BY OfIs DEF Downward
<1>2. /\ Front(p) \in Paths /\ Len(p) \in Nat \ {0} /\ Len(Front(p)) = Len(p) - 1
      /\ \A i \in 1..(Len(p) - 1) : Front(p)[i] = p[i]
  BY <1>1, FrontIs
<1>3. \A q \in Paths : IsPrefix(q, Front(p)) => q \notin DOMAIN tree
  BY <1>1, FrontIsAbove, NothingAbove
<1>4. \A i \in 1..Len(Front(p)) : Front(p)[i] \notin {Up, Slash}
  <2>1. \A i \in 1..Len(Front(p)) : i \in 1..Len(p) /\ Front(p)[i] = p[i]
    BY <1>2
  <2> QED BY <1>1, <2>1
<1>5. Open(tree, Front(p))
  BY <1>3, <1>4 DEF Open, IsA, IsStrictPrefix
<1> QED BY <1>2, <1>5, WalkDown DEF Accepted

LEMMA ResolveFile ==
  ASSUME Accepted, NEW tree, Placed(tree), NEW k, NEW p \in Of(k), ~IsA(tree, p, "symlink")
  PROVE  Resolve(tree, p) = p
<1>1. p \in Paths /\ p # <<>> /\ \A i \in 1..Len(p) : p[i] \notin {Up, Slash}
  BY OfIs DEF Downward
<1>2. \A q \in Paths : IsStrictPrefix(q, p) => q \notin DOMAIN tree
  BY NothingAbove
<1>3. \A q \in Paths : IsPrefix(q, p) => ~IsA(tree, q, "symlink")
  <2> SUFFICES ASSUME NEW q \in Paths, IsPrefix(q, p) PROVE ~IsA(tree, q, "symlink")
    OBVIOUS
  <2>1. CASE q = p
    BY <2>1
  <2>2. CASE q # p
    BY <1>2, <2>2 DEF IsStrictPrefix, IsA
  <2> QED BY <2>1, <2>2
<1>4. Open(tree, p)
  BY <1>1, <1>2, <1>3 DEF Open, IsA
<1> QED BY <1>1, <1>4, WalkDown DEF Accepted

LEMMA DownwardIsInside ==
  ASSUME NEW p \in Paths, \A i \in 1..Len(p) : p[i] \notin {Up, Slash}
  PROVE  Inside(p)
<1>1. p # NoFile
  BY WordsComplete
<1>2. p # <<Up>>
  <2> SUFFICES ASSUME p = <<Up>> PROVE FALSE
    OBVIOUS
  <2>1. Len(p) = 1 /\ p[1] = Up
    OBVIOUS
  <2> QED BY <2>1
<1> QED BY <1>1, <1>2 DEF Inside

IsPut(tree, p, node, r) ==
    \/ p \in DOMAIN tree /\ r = NoFile
    \/ /\ p \notin DOMAIN tree /\ DOMAIN r = DOMAIN tree \cup {p} /\ r[p] = node
       /\ \A q \in DOMAIN tree : r[q] = tree[q]

LEMMA PutIs ==
  ASSUME Accepted, NEW tree, Placed(tree), tree # NoFile, NEW k, NEW p \in Of(k), NEW node
  PROVE  IsPut(tree, p, node, Put(tree, p, node))
<1>1. p \in Paths /\ p # NoFile /\ p # <<>> /\ \A i \in 1..Len(p) : p[i] \notin {Up, Slash}
  BY OfIs DEF Downward
<1>2. /\ Front(p) \in Paths /\ Len(p) \in Nat \ {0} /\ Len(Front(p)) = Len(p) - 1
      /\ \A i \in 1..(Len(p) - 1) : Front(p)[i] = p[i]
      /\ Append(Front(p), Last(p)) = p
  BY <1>1, FrontIs
<1>3. Inside(Front(p))
  <2>1. \A i \in 1..Len(Front(p)) : i \in 1..Len(p) /\ Front(p)[i] = p[i]
    BY <1>2
  <2>2. \A i \in 1..Len(Front(p)) : Front(p)[i] \notin {Up, Slash}
    BY <1>1, <2>1
  <2> QED BY <1>2, <2>2, DownwardIsInside
<1>4. Resolve(tree, Front(p)) = Front(p)
  BY ResolveDirectory
<1>5. Below(Resolve(tree, Front(p)), Last(p)) = p
  BY <1>2, <1>3, <1>4 DEF Below
<1>6. Put(tree, p, node) = PutAt(tree, p, node)
  BY <1>5 DEF Put
<1> QED BY <1>1, <1>6 DEF PutAt, IsPut

\* A stage with nodes added to it.
Grown(tree, nodes, t) ==
    /\ DOMAIN tree \subseteq DOMAIN t /\ DOMAIN t \subseteq DOMAIN tree \cup DOMAIN nodes
    /\ \A q \in DOMAIN tree : t[q] = tree[q]
    /\ \A q \in DOMAIN t : q \notin DOMAIN tree => t[q] = nodes[q]

AreNodes(nodes) ==
    /\ DOMAIN nodes \subseteq Linked
    /\ \A q \in DOMAIN nodes : nodes[q].kind \in {"file", "symlink"}

LEMMA GrownIsPlaced ==
  ASSUME NEW tree, Placed(tree), NEW nodes, AreNodes(nodes),
         NEW t, Grown(tree, nodes, t)
  PROVE  Placed(t)
BY DEF Placed, AreNodes, Grown

LEMMA PutMemberGrows ==
  ASSUME Accepted, NEW tree, Placed(tree), NEW nodes, AreNodes(nodes),
         NEW t, t = NoFile \/ Grown(tree, nodes, t), NEW p, NEW r, r = PutMember(t, p, nodes)
  PROVE  r = NoFile \/ Grown(tree, nodes, r)
<1>1. CASE p \notin DOMAIN nodes
  BY <1>1 DEF PutMember
<1>2. CASE p \in DOMAIN nodes
  <2>1. r = Put(t, p, nodes[p])
    BY <1>2 DEF PutMember
  <2>2. CASE t = NoFile
    BY <2>1, <2>2 DEF Put
  <2>3. CASE t # NoFile
    <3>1. Grown(tree, nodes, t) /\ Placed(t)
      BY <2>3, GrownIsPlaced
    <3>2. PICK k : p \in Of(k)
      BY <1>2 DEF AreNodes, Linked
    <3>3. Placed(t)
      BY <3>1
    <3>4. IsPut(t, p, nodes[p], r)
      BY <2>1, <2>3, <3>2, <3>3, PutIs
    <3>5. CASE p \notin DOMAIN t
      <4>1. /\ DOMAIN r = DOMAIN t \cup {p} /\ r[p] = nodes[p]
            /\ \A q \in DOMAIN t : r[q] = t[q]
        BY <3>4, <3>5 DEF IsPut
      <4>2. Grown(tree, nodes, r)
        BY <1>2, <3>1, <3>5, <4>1 DEF Grown
      <4> QED BY <4>2
    <3> QED BY <3>4, <3>5 DEF IsPut
  <2> QED BY <2>2, <2>3
<1> QED BY <1>1, <1>2

LEMMA PutAllGrows ==
  ASSUME Accepted, NEW tree, Placed(tree), NEW nodes, AreNodes(nodes)
  PROVE  PutAll(tree, nodes) = NoFile \/ Grown(tree, nodes, PutAll(tree, nodes))
<1>0. Len(archive) \in Nat
  BY LenProperties DEF Accepted
<1>1. PICK f : /\ f[0] = tree
               /\ \A n \in 1..Len(archive) : f[n] = PutMember(f[n - 1], Mapped(archive[n].path), nodes)
               /\ PutAll(tree, nodes) = f[Len(archive)]
  BY <1>0, PutTurns
<1> DEFINE S == {n \in 0..Len(archive) : f[n] = NoFile \/ Grown(tree, nodes, f[n])}
<1>2. 0 \in S
  BY <1>0, <1>1 DEF Grown
<1>3. \A n \in 0..(Len(archive) - 1) : n \in S => n + 1 \in S
  <2> SUFFICES ASSUME NEW n \in 0..(Len(archive) - 1), f[n] = NoFile \/ Grown(tree, nodes, f[n])
               PROVE  f[n + 1] = NoFile \/ Grown(tree, nodes, f[n + 1])
    BY <1>0
  <2>1. n + 1 \in 1..Len(archive) /\ (n + 1) - 1 = n
    BY <1>0
  <2>2. f[n + 1] = PutMember(f[n], Mapped(archive[n + 1].path), nodes)
    BY <1>1, <2>1
  <2> QED BY <2>2, PutMemberGrows
<1>4. \A n \in 0..Len(archive) : n \in S
  <2> HIDE DEF S
  <2> QED BY <1>0, <1>2, <1>3, EveryNaturalUpTo
<1>5. Len(archive) \in S
  BY <1>0, <1>4
<1> QED BY <1>1, <1>5

-----------------------------------------------------------------------------
(* What a finished stage holds.                                            *)

LEMMA NodeIs ==
  ASSUME Accepted, NEW kind, NEW p \in Of(kind)
  PROVE  /\ Node(At(p)).kind = kind /\ Node(At(p)).target = At(p).target
         /\ Node(At(p)).content = At(p).content /\ Node(At(p)).size = At(p).size
BY OfIs DEF Node

LEMMA FilesAre ==
  ASSUME Accepted
  PROVE  /\ DOMAIN Files = Of("file")
         /\ \A p \in Of("file") : /\ Files[p].kind = "file" /\ Files[p].content = At(p).content
                                  /\ Files[p].size = At(p).size
<1>1. DOMAIN Files = Of("file") /\ \A p \in Of("file") : Files[p] = Node(At(p))
  BY DEF Files
<1> QED BY <1>1, NodeIs

LEMMA Disjoint ==
  ASSUME Accepted, NEW p
  PROVE  /\ p \in Of("file") => p \notin Linked
         /\ p \in Of("symlink") => p \notin Of("hardlink")
<1>1. \A k, l : p \in Of(k) /\ p \in Of(l) => k = l
  BY Alone
<1> QED BY <1>1 DEF Linked

\* A stage with links, finished or with the hard links to come.
Stage(tree) ==
    /\ DOMAIN tree \subseteq Of("file") \cup Linked
    /\ \A p \in Of("file") : p \in DOMAIN tree /\ tree[p] = Files[p]
    /\ \A p \in Of("symlink") : p \in DOMAIN tree => tree[p] = Node(At(p))
    /\ \A p \in Of("hardlink") : p \in DOMAIN tree => tree[p].kind = "file"

LEMMA StageIsPlaced ==
  ASSUME Accepted, NEW tree, Stage(tree)
  PROVE  Placed(tree) /\ \A p : IsA(tree, p, "symlink") => p \in Of("symlink")
<1> SUFFICES ASSUME NEW p \in DOMAIN tree
             PROVE  /\ p \in Of("file") \cup Linked /\ tree[p].kind \in {"file", "symlink"}
                    /\ tree[p].kind = "symlink" => p \in Of("symlink")
  BY DEF Placed, IsA
<1>1. p \in Of("file") \/ p \in Of("symlink") \/ p \in Of("hardlink")
  BY DEF Stage, Linked
<1>2. CASE p \in Of("file")
  BY <1>2, FilesAre DEF Stage
<1>3. CASE p \in Of("symlink")
  BY <1>3, NodeIs DEF Stage, Linked
<1>4. CASE p \in Of("hardlink")
  BY <1>4 DEF Stage, Linked
<1> QED BY <1>1, <1>2, <1>3, <1>4

LEMMA FilesAreAStage ==
  ASSUME Accepted
  PROVE  Stage(Files) /\ Placed(Files)
<1>1. Stage(Files)
  <2>1. \A p \in Of("symlink") : p \notin Of("file")
    BY Disjoint DEF Linked
  <2>2. \A p \in Of("hardlink") : p \notin Of("file")
    BY Disjoint DEF Linked
  <2> QED BY <2>1, <2>2, FilesAre DEF Stage
<1> QED BY <1>1, StageIsPlaced

Sym == WithSymlinks(Files)

SymNodes == [p \in Of("symlink") |-> Node(At(p))]

LEMMA SymIs ==
  ASSUME Accepted, Sym # NoFile
  PROVE  Stage(Sym) /\ DOMAIN Sym \subseteq Of("file") \cup Of("symlink")
<1>1. DOMAIN SymNodes = Of("symlink") /\ \A p \in Of("symlink") : SymNodes[p] = Node(At(p))
  BY DEF SymNodes
<1>2. AreNodes(SymNodes)
  BY <1>1, NodeIs DEF AreNodes, Linked
<1>3. Sym = PutAll(Files, SymNodes)
  BY DEF Sym, WithSymlinks, SymNodes
<1>4. Grown(Files, SymNodes, Sym)
  BY <1>2, <1>3, FilesAreAStage, PutAllGrows
<1>5. DOMAIN Sym \subseteq Of("file") \cup Of("symlink")
  BY <1>1, <1>4, FilesAre DEF Grown
<1>6. \A p \in Of("file") : p \in DOMAIN Sym /\ Sym[p] = Files[p]
  BY <1>4, FilesAre DEF Grown
<1>7. \A p \in Of("symlink") : p \in DOMAIN Sym => Sym[p] = Node(At(p))
  <2> SUFFICES ASSUME NEW p \in Of("symlink"), p \in DOMAIN Sym PROVE Sym[p] = Node(At(p))
    OBVIOUS
  <2>1. p \notin DOMAIN Files
    BY Disjoint, FilesAre DEF Linked
  <2> QED BY <1>1, <1>4, <2>1 DEF Grown
<1>8. \A p \in Of("hardlink") : p \notin DOMAIN Sym
  BY <1>5, Disjoint DEF Linked
<1> QED BY <1>5, <1>6, <1>7, <1>8 DEF Stage, Linked

Anchors == [p \in Of("hardlink") |-> Anchor(Sym, p)]

HardNodes == [p \in Of("hardlink") |-> Sym[Anchors[p]]]

\* A finished stage of a host with links.
LEMMA UnixIs ==
  ASSUME Accepted, NEW tree, tree = UnixTree, tree # NoFile
  PROVE  /\ Sym # NoFile /\ Stage(tree) /\ LinksStay(tree, Links)
         /\ \A p \in Of("hardlink") : Anchor(Sym, p) \in Of("file")
         /\ \A p \in Of("hardlink") : p \in DOMAIN tree => tree[p] = Files[Anchor(Sym, p)]
<1> DEFINE one == Checked(Sym, {"symlink"})
           two == WithHardlinks(one)
<1>1. tree = Checked(two, Links)
  BY DEF UnixTree, Sym
<1>2. two # NoFile /\ tree = two /\ LinksStay(two, Links)
  <2> HIDE DEF two
  <2> QED BY <1>1 DEF Checked
<1>3. one # NoFile
  <2> HIDE DEF one
  <2> QED BY <1>2 DEF WithHardlinks
<1>4. Sym # NoFile /\ one = Sym
  BY <1>3 DEF Checked
<1>5. two = HardlinksTo(Sym, Anchors)
  BY <1>4 DEF WithHardlinks, Anchors
<1>6. DOMAIN Anchors = Of("hardlink") /\ \A p \in Of("hardlink") : Anchors[p] = Anchor(Sym, p)
  BY DEF Anchors
<1>7. /\ \A p \in Of("hardlink") : Anchors[p] # NoFile /\ Sym[Anchors[p]].kind = "file"
      /\ two = PutAll(Sym, HardNodes)
  <2>1. two = IF \E p \in DOMAIN Anchors : Anchors[p] = NoFile \/ Sym[Anchors[p]].kind # "file"
                THEN NoFile ELSE PutAll(Sym, [p \in DOMAIN Anchors |-> Sym[Anchors[p]]])
    BY <1>5 DEF HardlinksTo
  <2>2. [p \in DOMAIN Anchors |-> Sym[Anchors[p]]] = HardNodes
    BY <1>6 DEF HardNodes
  <2> HIDE DEF two
  <2> QED BY <1>2, <1>6, <2>1, <2>2
<1> HIDE DEF one, two
<1>8. Stage(Sym) /\ DOMAIN Sym \subseteq Of("file") \cup Of("symlink") /\ Placed(Sym)
  BY <1>4, SymIs, StageIsPlaced
<1>9. \A p \in Of("hardlink") : Anchors[p] \in Of("file")
  <2> SUFFICES ASSUME NEW p \in Of("hardlink") PROVE Anchors[p] \in Of("file")
    OBVIOUS
  <2>1. Anchors[p] \in DOMAIN Sym
    BY <1>6, <1>7 DEF Anchor
  <2>2. Anchors[p] \in Of("symlink") => Sym[Anchors[p]].kind = "symlink"
    BY <1>8, <2>1, NodeIs DEF Stage
  <2> QED BY <1>7, <1>8, <2>1, <2>2
<1>10. DOMAIN HardNodes = Of("hardlink") /\ \A p \in Of("hardlink") : HardNodes[p] = Sym[Anchors[p]]
  BY DEF HardNodes
<1>11. AreNodes(HardNodes)
  BY <1>7, <1>10 DEF AreNodes, Linked
<1>12. Grown(Sym, HardNodes, tree)
  BY <1>2, <1>7, <1>8, <1>11, PutAllGrows
<1>13. \A p \in Of("hardlink") : p \notin DOMAIN Sym
  BY <1>8, Disjoint DEF Linked
<1>14. \A p \in Of("hardlink") : p \in DOMAIN tree => tree[p] = Files[Anchor(Sym, p)]
  <2> SUFFICES ASSUME NEW p \in Of("hardlink"), p \in DOMAIN tree
               PROVE  tree[p] = Files[Anchor(Sym, p)]
    OBVIOUS
  <2>1. tree[p] = Sym[Anchors[p]]
    BY <1>10, <1>12, <1>13 DEF Grown
  <2>2. Sym[Anchors[p]] = Files[Anchors[p]]
    BY <1>8, <1>9 DEF Stage
  <2> QED BY <1>6, <2>1, <2>2
<1>15. Stage(tree)
  <2>1. DOMAIN tree \subseteq Of("file") \cup Linked
    BY <1>8, <1>10, <1>12 DEF Grown, Linked
  <2>2. \A p \in Of("file") : p \in DOMAIN tree /\ tree[p] = Files[p]
    BY <1>8, <1>12 DEF Grown, Stage
  <2>3. \A p \in Of("symlink") : p \in DOMAIN tree => tree[p] = Node(At(p))
    <3> SUFFICES ASSUME NEW p \in Of("symlink"), p \in DOMAIN tree PROVE tree[p] = Node(At(p))
      OBVIOUS
    <3>1. p \in DOMAIN Sym
      BY <1>10, <1>12, Disjoint DEF Grown
    <3> QED BY <1>8, <1>12, <3>1 DEF Grown, Stage
  <2>4. \A p \in Of("hardlink") : p \in DOMAIN tree => tree[p].kind = "file"
    BY <1>6, <1>9, <1>14, FilesAre
  <2> QED BY <2>1, <2>2, <2>3, <2>4 DEF Stage
<1>16. \A p \in Of("hardlink") : Anchor(Sym, p) \in Of("file")
  BY <1>6, <1>9
<1> QED BY <1>2, <1>4, <1>14, <1>15, <1>16

LEMMA FileBehindIs ==
  ASSUME NEW key
  PROVE  FileBehind(key) = NoFile \/ FileBehind(key) \in Of("file")
BY DEF FileBehind

\* A finished stage of a host with copies.
LEMMA MaterializedIs ==
  ASSUME Accepted, NEW tree, tree = MaterializedTree, tree # NoFile
  PROVE  /\ DOMAIN tree = Of("file") \cup Linked
         /\ \A p \in Of("file") : tree[p] = Files[p]
         /\ \A p \in Linked : /\ FileBehind(Fold(p)) # NoFile
                              /\ FileBehind(Fold(p)) \in Of("file")
                              /\ tree[p] = Files[FileBehind(Fold(p))]
         /\ ~(PhysicalSize > MaxBytes)
<1>1. ~(\E p \in Linked : FileBehind(Fold(p)) = NoFile) /\ ~(PhysicalSize > MaxBytes)
  BY DEF MaterializedTree
<1>2. tree = [p \in DOMAIN Files \cup Linked |->
                IF p \in Linked THEN Files[FileBehind(Fold(p))] ELSE Files[p]]
  BY <1>1 DEF MaterializedTree
<1>3. \A p \in Of("file") : p \notin Linked
  BY Disjoint
<1>4. DOMAIN Files = Of("file")
  BY FilesAre
<1> QED BY <1>1, <1>2, <1>3, <1>4, FileBehindIs

LEMMA OfIsMapped ==
  ASSUME NEW k, NEW p \in Of(k)
  PROVE  p \in {Mapped(archive[i].path) : i \in DOMAIN archive}
BY DEF Of, Kept

ConfinedTree(tree) ==
    /\ DOMAIN tree \subseteq {Mapped(archive[i].path) : i \in DOMAIN archive}
    /\ \A p \in DOMAIN tree : Inside(Resolve(tree, p))

\* Whatever is finished is confined: links by the last check, the others since
\* nothing above them is a link.
LEMMA TreeConfined ==
  ASSUME archive \in Seq(Members), NEW h \in Hosts, NEW tree, tree = Tree(h), tree # NoFile
  PROVE  ConfinedTree(tree)
<1>1. Accepted /\ (h = "unix" => tree = UnixTree) /\ (h # "unix" => tree = MaterializedTree)
  BY DEF Tree, Accepted
<1>2. /\ Placed(tree)
      /\ \A p \in DOMAIN tree : IsA(tree, p, "symlink") => Inside(Resolve(tree, p))
  <2>1. CASE h = "unix"
    <3>1. Stage(tree) /\ LinksStay(tree, Links)
      BY <1>1, <2>1, UnixIs
    <3>2. Placed(tree) /\ \A p : IsA(tree, p, "symlink") => p \in Of("symlink")
      BY <1>1, <3>1, StageIsPlaced
    <3>3. \A p \in Of("symlink") : Inside(Resolve(tree, p))
      BY <3>1 DEF LinksStay, Links
    <3> QED BY <3>2, <3>3
  <2>2. CASE h # "unix"
    <3>1. /\ DOMAIN tree = Of("file") \cup Linked
          /\ \A p \in Of("file") : tree[p] = Files[p]
          /\ \A p \in Linked : /\ FileBehind(Fold(p)) \in Of("file")
                               /\ tree[p] = Files[FileBehind(Fold(p))]
      BY <1>1, <2>2, MaterializedIs
    <3>2. \A p \in DOMAIN tree : tree[p].kind = "file"
      BY <1>1, <3>1, FilesAre
    <3> QED BY <3>1, <3>2 DEF Placed, IsA
  <2> QED BY <2>1, <2>2
<1>3. \A p \in DOMAIN tree : \E k \in {"file", "symlink", "hardlink"} : p \in Of(k)
  BY <1>2 DEF Placed, Linked
<1>4. \A p \in DOMAIN tree : Inside(Resolve(tree, p))
  <2> SUFFICES ASSUME NEW p \in DOMAIN tree PROVE Inside(Resolve(tree, p))
    OBVIOUS
  <2>1. CASE IsA(tree, p, "symlink")
    BY <1>2, <2>1
  <2>2. CASE ~IsA(tree, p, "symlink")
    <3>1. PICK k : p \in Of(k)
      BY <1>3
    <3>2. Resolve(tree, p) = p
      BY <1>1, <1>2, <2>2, <3>1, ResolveFile
    <3>3. p \in Paths /\ \A i \in 1..Len(p) : p[i] \notin {Up, Slash}
      BY <1>1, <3>1, OfIs DEF Downward
    <3> QED BY <3>2, <3>3, DownwardIsInside
  <2> QED BY <2>1, <2>2
<1>5. \A p \in DOMAIN tree : p \in {Mapped(archive[i].path) : i \in DOMAIN archive}
  BY <1>3, OfIsMapped
<1> QED BY <1>4, <1>5 DEF ConfinedTree

-----------------------------------------------------------------------------
(* The bytes of a stage.                                                   *)

BytesIn(tree, m) ==
    LET p == Mapped(m.path)
    IN  IF p \in DOMAIN tree /\ tree[p].kind = "file" /\ m.kind # "hardlink"
          THEN tree[p].size ELSE 0

Sizes == [i \in DOMAIN archive |-> archive[i].size]

Copied(p) == IF p \in Of("symlink") THEN Files[FileBehind(Fold(p))].size ELSE 0

Copies == [i \in DOMAIN archive |-> Copied(Mapped(archive[i].path))]

LEMMA SizesAre ==
  ASSUME Accepted
  PROVE  /\ Len(archive) \in Nat /\ DOMAIN archive = 1..Len(archive)
         /\ Sizes \in [1..Len(archive) -> Nat]
         /\ \A i \in DOMAIN archive : Sizes[i] = archive[i].size
         /\ Total(Sizes) = TotalSize /\ TotalSize <= MaxBytes /\ MaxBytes \in Nat
<1>1. Len(archive) \in Nat /\ DOMAIN archive = 1..Len(archive)
  BY LenProperties DEF Accepted
<1>2. \A i \in DOMAIN archive : archive[i].size \in Nat
  BY MemberTypes DEF Accepted
<1>3. Sizes \in [1..Len(archive) -> Nat] /\ \A i \in DOMAIN archive : Sizes[i] = archive[i].size
  BY <1>1, <1>2 DEF Sizes
<1>4. Total(Sizes) = TotalSize
  BY DEF Sizes, TotalSize
<1>5. TotalSize <= MaxBytes
  BY DEF Accepted, Validate, Readable
<1> QED BY <1>1, <1>3, <1>4, <1>5, LimitsAreNumbers

\* An entry of a stage is its member's.
LEMMA EntryOf ==
  ASSUME Accepted, NEW i \in DOMAIN archive, NEW k, Mapped(archive[i].path) \in Of(k)
  PROVE  archive[i].kind = k /\ At(Mapped(archive[i].path)) = archive[i]
<1> DEFINE p == Mapped(archive[i].path)
<1>1. p # <<>>
  <2>1. Downward(p)
    BY OfIs
  <2> QED BY <2>1 DEF Downward
<1>2. i \in Kept
  BY <1>1 DEF Kept
<1>3. PICK j \in Kept : /\ archive[j].kind = k /\ Mapped(archive[j].path) = p /\ At(p) = archive[j]
                        /\ \A l \in Kept : Fold(Mapped(archive[l].path)) = Fold(p) => l = j
  BY EntryBehind
<1>4. i = j
  BY <1>2, <1>3
<1> QED BY <1>3, <1>4

\* On a host with links each file has the bytes of its member.
LEMMA UnixBytes ==
  ASSUME Accepted, NEW tree, Stage(tree), NEW i \in DOMAIN archive
  PROVE  BytesIn(tree, archive[i]) \in Nat /\ BytesIn(tree, archive[i]) <= Sizes[i]
<1>0. Sizes[i] \in Nat /\ Sizes[i] = archive[i].size
  BY SizesAre
<1>1. PICK p : p = Mapped(archive[i].path)
  OBVIOUS
<1>2. PICK n : n = BytesIn(tree, archive[i])
  OBVIOUS
<1>3. n = IF p \in DOMAIN tree /\ tree[p].kind = "file" /\ archive[i].kind # "hardlink"
            THEN tree[p].size ELSE 0
  BY <1>1, <1>2 DEF BytesIn
<1>4. CASE ~(p \in DOMAIN tree /\ tree[p].kind = "file" /\ archive[i].kind # "hardlink")
  BY <1>0, <1>2, <1>3, <1>4
<1>5. CASE p \in DOMAIN tree /\ tree[p].kind = "file" /\ archive[i].kind # "hardlink"
  <2>1. PICK k \in {"file", "symlink", "hardlink"} : p \in Of(k)
    BY <1>5 DEF Stage, Linked
  <2>2. archive[i].kind = k /\ At(p) = archive[i]
    BY <1>1, <2>1, EntryOf
  <2>3. k = "symlink" => tree[p].kind = "symlink"
    BY <1>5, <2>1, NodeIs DEF Stage
  <2>4. k = "file"
    BY <1>5, <2>1, <2>2, <2>3
  <2>5. tree[p].size = archive[i].size
    BY <2>1, <2>2, <2>4, FilesAre DEF Stage
  <2> QED BY <1>0, <1>2, <1>3, <1>5, <2>5
<1> QED BY <1>4, <1>5

LEMMA CopiesAre ==
  ASSUME Accepted, \A p \in Linked : FileBehind(Fold(p)) \in Of("file")
  PROVE  /\ Copies \in [1..Len(archive) -> Nat]
         /\ \A i \in DOMAIN archive : Copies[i] = Copied(Mapped(archive[i].path))
         /\ PhysicalSize = TotalSize + Total(Copies)
<1>1. DOMAIN archive = 1..Len(archive)
  BY SizesAre
<1>2. \A p : Copied(p) \in Nat
  <2> SUFFICES ASSUME NEW p PROVE Copied(p) \in Nat
    OBVIOUS
  <2>1. CASE p \in Of("symlink")
    <3>1. FileBehind(Fold(p)) \in Of("file")
      BY <2>1 DEF Linked
    <3>2. Files[FileBehind(Fold(p))].size \in Nat
      BY <3>1, FilesAre, OfIs
    <3> QED BY <2>1, <3>2 DEF Copied
  <2>2. CASE p \notin Of("symlink")
    BY <2>2 DEF Copied
  <2> QED BY <2>1, <2>2
<1>3. Copies \in [1..Len(archive) -> Nat]
  BY <1>1, <1>2 DEF Copies
<1>4. PhysicalSize = TotalSize + Total(Copies)
  BY DEF PhysicalSize, Copies, Copied
<1> QED BY <1>3, <1>4 DEF Copies

LEMMA WindowsBytes ==
  ASSUME Accepted, NEW tree, tree = MaterializedTree, tree # NoFile, NEW i \in DOMAIN archive
  PROVE  /\ BytesIn(tree, archive[i]) \in Nat
         /\ BytesIn(tree, archive[i]) <= Sizes[i] + Copies[i]
<1>0. /\ DOMAIN tree = Of("file") \cup Linked
      /\ \A q \in Of("file") : tree[q] = Files[q]
      /\ \A q \in Linked : /\ FileBehind(Fold(q)) \in Of("file")
                           /\ tree[q] = Files[FileBehind(Fold(q))]
  BY MaterializedIs
<1>1. PICK p : p = Mapped(archive[i].path)
  OBVIOUS
<1>2. PICK n : n = BytesIn(tree, archive[i])
  OBVIOUS
<1>3. n = IF p \in DOMAIN tree /\ tree[p].kind = "file" /\ archive[i].kind # "hardlink"
            THEN tree[p].size ELSE 0
  BY <1>1, <1>2 DEF BytesIn
<1>4. /\ Sizes[i] \in Nat /\ Sizes[i] = archive[i].size
      /\ Copies[i] \in Nat /\ Copies[i] = Copied(p)
  <2>1. i \in 1..Len(archive)
    BY SizesAre
  <2>2. Copies \in [1..Len(archive) -> Nat] /\ Copies[i] = Copied(p)
    BY <1>0, <1>1, CopiesAre
  <2> QED BY <2>1, <2>2, SizesAre
<1>5. CASE ~(p \in DOMAIN tree /\ tree[p].kind = "file" /\ archive[i].kind # "hardlink")
  BY <1>2, <1>3, <1>4, <1>5
<1>6. CASE p \in DOMAIN tree /\ tree[p].kind = "file" /\ archive[i].kind # "hardlink"
  <2>1. PICK k \in {"file", "symlink", "hardlink"} : p \in Of(k)
    BY <1>0, <1>6 DEF Linked
  <2>2. archive[i].kind = k /\ At(p) = archive[i]
    BY <1>1, <2>1, EntryOf
  <2>3. CASE k = "file"
    <3>1. tree[p].size = archive[i].size
      BY <1>0, <2>1, <2>2, <2>3, FilesAre
    <3> QED BY <1>2, <1>3, <1>4, <1>6, <3>1
  <2>4. CASE k = "symlink"
    <3>1. p \in Linked /\ Copied(p) = Files[FileBehind(Fold(p))].size
      BY <2>1, <2>4 DEF Copied, Linked
    <3>2. tree[p].size = Copied(p)
      BY <1>0, <3>1
    <3> QED BY <1>2, <1>3, <1>4, <1>6, <3>2
  <2> QED BY <1>6, <2>1, <2>2, <2>3, <2>4
<1> QED BY <1>2, <1>5, <1>6

WithinTree(tree) == Total([i \in DOMAIN archive |-> BytesIn(tree, archive[i])]) <= MaxBytes

\* A finished stage is within the limit: links share bytes, and the copies were
\* counted before they were made.
LEMMA TreeWithin ==
  ASSUME archive \in Seq(Members), NEW h \in Hosts, NEW tree, tree = Tree(h), tree # NoFile
  PROVE  WithinTree(tree)
<1>1. Accepted /\ (h = "unix" => tree = UnixTree) /\ (h # "unix" => tree = MaterializedTree)
  BY DEF Tree, Accepted
<1> DEFINE bytes == [i \in DOMAIN archive |-> BytesIn(tree, archive[i])]
<1>2. /\ Len(archive) \in Nat /\ DOMAIN archive = 1..Len(archive)
      /\ Sizes \in [1..Len(archive) -> Nat]
      /\ Total(Sizes) = TotalSize /\ TotalSize <= MaxBytes /\ MaxBytes \in Nat
  BY <1>1, SizesAre
<1>3. \A i \in DOMAIN archive : bytes[i] = BytesIn(tree, archive[i])
  OBVIOUS
<1>4. ASSUME \A i \in DOMAIN archive : BytesIn(tree, archive[i]) \in Nat
      PROVE  bytes \in [1..Len(archive) -> Nat]
  BY <1>2, <1>4
<1> HIDE DEF bytes
<1>5. CASE h = "unix"
  <2>1. Stage(tree)
    BY <1>1, <1>5, UnixIs
  <2>2. \A i \in DOMAIN archive : bytes[i] \in Nat /\ bytes[i] <= Sizes[i]
    BY <1>1, <1>3, <2>1, UnixBytes
  <2>3. bytes \in [1..Len(archive) -> Nat]
    BY <1>3, <1>4, <2>2
  <2>4. Total(Sizes) \in Nat /\ Total(bytes) \in Nat /\ Total(bytes) <= Total(Sizes)
    BY <1>2, <2>2, <2>3, TotalBound
  <2> QED BY <1>2, <2>4 DEF WithinTree, bytes
<1>6. CASE h # "unix"
  <2>1. tree = MaterializedTree
    BY <1>1, <1>6
  <2>2. (\A p \in Linked : FileBehind(Fold(p)) \in Of("file")) /\ ~(PhysicalSize > MaxBytes)
    BY <1>1, <2>1, MaterializedIs
  <2>3. Copies \in [1..Len(archive) -> Nat] /\ PhysicalSize = TotalSize + Total(Copies)
    BY <1>1, <2>2, CopiesAre
  <2>4. \A i \in DOMAIN archive : bytes[i] \in Nat /\ bytes[i] <= Sizes[i] + Copies[i]
    BY <1>1, <1>3, <2>1, WindowsBytes
  <2>5. bytes \in [1..Len(archive) -> Nat]
    BY <1>3, <1>4, <2>4
  <2>6. /\ Total(Sizes) \in Nat /\ Total(Copies) \in Nat /\ Total(bytes) \in Nat
        /\ Total(bytes) <= Total(Sizes) + Total(Copies)
    BY <1>2, <2>3, <2>4, <2>5, TotalSplit
  <2>7. PhysicalSize = Total(Sizes) + Total(Copies) /\ PhysicalSize <= MaxBytes
    BY <1>2, <2>2, <2>3, <2>6
  <2> QED BY <1>2, <2>6, <2>7 DEF WithinTree, bytes
<1> QED BY <1>5, <1>6

-----------------------------------------------------------------------------
(* What a path means: following links on disk, reading their words and     *)
(* copying them lead to one content.                                       *)

\* Contents of paths that agree with each entry: a file's is its own, a link's
\* is that of the path its words lead to, and nothing else has one.
Sound(B) ==
    /\ \A p \in Of("file") : B[p] = At(p).content
    /\ \A p \in Of("symlink") :
         B[p] # NoFile => B[LinkPath(Front(p), At(p).target)] = B[p]
    /\ \A p \in Of("hardlink") : B[p] # NoFile => B[Mapped(At(p).target)] = B[p]
    /\ \A q \in Paths : B[q] # NoFile => \E x \in Of("file") \cup Linked : Fold(x) = Fold(q)

\* No way up from the place of a link, at the start or after some words.
GoodWay(d, t) ==
    \A k \in 1..(Len(t) - 1) : t[k + 1] = Up => Descend(d, SubSeq(t, 1, k)) \notin Of("symlink")

GoodFrom(d, t) ==
    \A k \in 0..(Len(t) - 1) : t[k + 1] = Up => Descend(d, SubSeq(t, 1, k)) \notin Of("symlink")

LEMMA FoldedAncestor ==
  ASSUME Accepted, NEW k, NEW l, NEW p \in Of(k), NEW q \in Of(l),
         IsStrictPrefix(Fold(p), Fold(q))
  PROVE  k = "dir"
<1>1. PICK i \in Kept : archive[i].kind = k /\ Mapped(archive[i].path) = p
  BY DEF Of
<1>2. PICK j \in Kept : archive[j].kind = l /\ Mapped(archive[j].path) = q
  BY DEF Of
<1> QED BY <1>1, <1>2 DEF Accepted, Validate, AncestorsOk

LEMMA ConcatIsBelow ==
  ASSUME NEW p \in Paths, NEW w \in Paths, w # <<>>
  PROVE  p \o w \in Paths /\ IsStrictPrefix(p, p \o w)
<1>1. p \o w \in Paths /\ Len(p \o w) = Len(p) + Len(w) /\ \A i \in 1..Len(p) : (p \o w)[i] = p[i]
  BY ConcatTypes
<1>2. Len(w) \in Nat \ {0} /\ Len(p) \in Nat
  BY PathIs, EmptySeq DEF Paths
<1>3. Len(p) < Len(p \o w)
  BY <1>1, <1>2
<1> QED BY <1>1, <1>3, PrefixIs

\* A path with a content is neither below a link nor above an entry.
LEMMA MeansAnEntry ==
  ASSUME Accepted, NEW B, Sound(B), NEW q \in Paths, B[q] # NoFile
  PROVE  /\ \A k, p : p \in Of(k) /\ IsStrictPrefix(p, q) => k = "dir"
         /\ \A k, p : p \in Of(k) => ~IsStrictPrefix(q, p)
<1>1. PICK l, x : l \in {"file", "symlink", "hardlink"} /\ x \in Of(l) /\ Fold(x) = Fold(q)
  BY DEF Sound, Linked
<1>2. ASSUME NEW k, NEW p \in Of(k), IsStrictPrefix(p, q) PROVE k = "dir"
  <2>1. p \in Paths
    BY OfIs
  <2>2. IsStrictPrefix(Fold(p), Fold(q))
    BY <1>2, <2>1, FoldBelow
  <2>3. IsStrictPrefix(Fold(p), Fold(x))
    BY <1>1, <2>2
  <2> QED BY <1>1, <2>3, FoldedAncestor
<1>3. ASSUME NEW k, NEW p \in Of(k), IsStrictPrefix(q, p) PROVE FALSE
  <2>1. Fold(q) = Fold(x)
    BY <1>1
  <2>2. l = "dir"
    BY <1>1, <1>3, <2>1, AboveIsDirectory
  <2> QED BY <1>1, <2>2
<1> QED BY <1>2, <1>3

LEMMA BeginningOfTail ==
  ASSUME NEW t \in Paths, t # <<>>, NEW k \in 0..(Len(t) - 1)
  PROVE  SubSeq(t, 1, k + 1) = <<Head(t)>> \o SubSeq(Tail(t), 1, k)
<1> DEFINE u == Tail(t)
           a == SubSeq(t, 1, k + 1)
           b == SubSeq(u, 1, k)
           one == <<Head(t)>>
<1>1. /\ u \in Paths /\ one \in Paths /\ Len(t) \in Nat \ {0} /\ Len(u) = Len(t) - 1
      /\ Head(t) = t[1] /\ \A i \in 1..Len(u) : u[i] = t[i + 1]
  BY FirstWord
<1>2. Len(one) = 1 /\ one[1] = Head(t)
  OBVIOUS
<1>3. k \in Nat /\ k \in 0..Len(u) /\ k + 1 \in 0..Len(t)
  BY <1>1
<1>4. a \in Paths /\ Len(a) = k + 1 /\ \A i \in 1..(k + 1) : a[i] = t[i]
  BY <1>3, Beginning
<1> HIDE DEF u, one
<1>5. b \in Paths /\ Len(b) = k /\ \A i \in 1..k : b[i] = u[i]
  BY <1>1, <1>3, Beginning
<1> HIDE DEF a, b
<1>6. /\ one \o b \in Paths /\ Len(one \o b) = 1 + k
      /\ \A i \in 1..1 : (one \o b)[i] = one[i]
      /\ \A i \in 1..k : (one \o b)[1 + i] = b[i]
  <2>1. /\ one \o b \in Paths /\ Len(one \o b) = Len(one) + Len(b)
        /\ \A i \in 1..Len(one) : (one \o b)[i] = one[i]
        /\ \A i \in 1..Len(b) : (one \o b)[Len(one) + i] = b[i]
    BY <1>1, <1>5, ConcatTypes
  <2> QED BY <1>2, <1>5, <2>1
<1>7. ASSUME NEW i \in 1..(k + 1) PROVE a[i] = (one \o b)[i]
  <2>1. CASE i = 1
    BY <1>1, <1>2, <1>3, <1>4, <1>6, <2>1
  <2>2. CASE i # 1
    <3>1. PICK j : j = i - 1
      OBVIOUS
    <3>2. j \in 1..k /\ 1 + j = i /\ j + 1 = i /\ j \in 1..Len(u)
      BY <1>1, <1>3, <2>2, <3>1
    <3>3. (one \o b)[1 + j] = b[j]
      BY <1>6, <3>2
    <3>4. b[j] = u[j]
      BY <1>5, <3>2
    <3>5. u[j] = t[j + 1]
      BY <1>1, <3>2
    <3> QED BY <1>4, <3>2, <3>3, <3>4, <3>5
  <2> QED BY <2>1, <2>2
<1>8. a = one \o b
  <2>1. Len(a) = Len(one \o b)
    BY <1>3, <1>4, <1>6
  <2> QED BY <1>4, <1>6, <1>7, <2>1, SamePath
<1> QED BY <1>8 DEF a, b, u, one

\* The rest of a good way is good, from its start on.
LEMMA GoodTail ==
  ASSUME NEW d \in Paths, NEW t \in Paths, t # <<>>, GoodWay(d, t)
  PROVE  GoodFrom(Enter(d, Head(t)), Tail(t)) /\ GoodWay(Enter(d, Head(t)), Tail(t))
<1>1. /\ Head(t) \in Words /\ Tail(t) \in Paths /\ <<Head(t)>> \in Paths
      /\ Len(t) \in Nat \ {0} /\ Len(Tail(t)) = Len(t) - 1
      /\ \A i \in 1..Len(Tail(t)) : Tail(t)[i] = t[i + 1]
  BY FirstWord
<1>2. ASSUME NEW k \in 0..(Len(Tail(t)) - 1), Tail(t)[k + 1] = Up
      PROVE  Descend(Enter(d, Head(t)), SubSeq(Tail(t), 1, k)) \notin Of("symlink")
  <2>1. /\ k \in 0..(Len(t) - 1) /\ k + 1 \in 1..(Len(t) - 1) /\ k + 1 \in 1..Len(Tail(t))
        /\ k \in 0..Len(Tail(t))
    BY <1>1
  <2>2. PICK m : m = k + 1
    OBVIOUS
  <2>3. t[m + 1] = Up /\ m \in 1..(Len(t) - 1)
    BY <1>1, <1>2, <2>1, <2>2
  <2>4. Descend(d, SubSeq(t, 1, m)) \notin Of("symlink")
    BY <2>3 DEF GoodWay
  <2>5. SubSeq(t, 1, m) = <<Head(t)>> \o SubSeq(Tail(t), 1, k)
    BY <2>1, <2>2, BeginningOfTail
  <2>6. PICK b : b = SubSeq(Tail(t), 1, k)
    OBVIOUS
  <2>7. b \in Paths
    BY <1>1, <2>1, <2>6, Beginning
  <2>8. Descend(d, <<Head(t)>> \o b) = Descend(Descend(d, <<Head(t)>>), b)
    BY <1>1, <2>7, DescendConcat
  <2>9. Descend(d, <<Head(t)>>) = Enter(d, Head(t))
    BY <1>1, DescendOne
  <2> QED BY <2>4, <2>5, <2>6, <2>8, <2>9
<1>3. GoodFrom(Enter(d, Head(t)), Tail(t))
  BY <1>2 DEF GoodFrom
<1>4. \A k \in 1..(Len(Tail(t)) - 1) : k \in 0..(Len(Tail(t)) - 1)
  BY <1>1
<1> QED BY <1>3, <1>4 DEF GoodFrom, GoodWay

LEMMA EnterIs ==
  ASSUME NEW at \in Paths, NEW word \in Words
  PROVE  /\ word = Up => Enter(at, word) = IF at = <<>> THEN NoFile ELSE Front(at)
         /\ word # Up => Enter(at, word) = IF SafePath(<<word>>) THEN Append(at, word) ELSE NoFile
BY WordsComplete DEF Enter

LEMMA ConcatAppend ==
  ASSUME NEW p \in Paths, NEW w \in Paths, NEW x \in Words
  PROVE  Append(p \o w, x) = p \o Append(w, x)
<1>1. p \o w \in Paths /\ <<x>> \in Paths
  <2>1. <<x>> \in Seq(Words)
    OBVIOUS
  <2> QED BY <2>1, ConcatTypes DEF Paths
<1>2. Append(p \o w, x) = (p \o w) \o <<x>> /\ Append(w, x) = w \o <<x>>
  BY <1>1, AppendIsConcat DEF Paths
<1>3. (p \o w) \o <<x>> = p \o (w \o <<x>>)
  BY <1>1, ConcatAssociative DEF Paths
<1> QED BY <1>2, <1>3

LEMMA ConcatFront ==
  ASSUME NEW p \in Paths, NEW w \in Paths, w # <<>>
  PROVE  p \o w # <<>> /\ Front(w) \in Paths /\ Front(p \o w) = p \o Front(w)
<1>1. PICK v : v = Front(w)
  OBVIOUS
<1>2. PICK x : x = Last(w)
  OBVIOUS
<1>3. v \in Paths /\ x \in Words /\ Append(v, x) = w
  BY <1>1, <1>2, FrontIs
<1>4. p \o w = Append(p \o v, x)
  BY <1>3, ConcatAppend
<1>5. p \o v \in Paths
  BY <1>3, ConcatTypes
<1>6. Append(p \o v, x) # <<>> /\ Front(Append(p \o v, x)) = p \o v
  BY <1>3, <1>5, AppendIs, FrontOfAppend
<1> QED BY <1>1, <1>3, <1>4, <1>6

\* Two places that are the same way below two others.
Moved(here, place, a, b) == \E w \in Paths : a = here \o w /\ b = place \o w

LEMMA MovedTurn ==
  ASSUME NEW here \in Paths, NEW place \in Paths, NEW a, NEW b, Moved(here, place, a, b),
         NEW word \in Words, Enter(a, word) # NoFile, word = Up => a # here
  PROVE  Moved(here, place, Enter(a, word), Enter(b, word))
<1>1. PICK w \in Paths : a = here \o w /\ b = place \o w
  BY DEF Moved
<1>2. a \in Paths /\ b \in Paths
  BY <1>1, ConcatTypes
<1>3. CASE word = Up
  <2>1. w # <<>>
    <3>1. here \o <<>> = here
      BY ConcatEmptySeq DEF Paths
    <3> QED BY <1>1, <1>3, <3>1
  <2>2. /\ a # <<>> /\ b # <<>> /\ Front(w) \in Paths
        /\ Front(a) = here \o Front(w) /\ Front(b) = place \o Front(w)
    BY <1>1, <2>1, ConcatFront
  <2>3. Enter(a, word) = Front(a) /\ Enter(b, word) = Front(b)
    BY <1>2, <1>3, <2>2, EnterIs
  <2> QED BY <2>2, <2>3 DEF Moved
<1>4. CASE word # Up
  <2>1. SafePath(<<word>>)
    BY <1>2, <1>4, EnterIs
  <2>2. Enter(a, word) = Append(a, word) /\ Enter(b, word) = Append(b, word)
    BY <1>2, <1>4, <2>1, EnterIs
  <2>3. Append(a, word) = here \o Append(w, word) /\ Append(b, word) = place \o Append(w, word)
    BY <1>1, ConcatAppend
  <2>4. Append(w, word) \in Paths
    BY AppendIs
  <2> QED BY <2>2, <2>3, <2>4 DEF Moved
<1> QED BY <1>3, <1>4

\* A way from the place of a link that never goes up from it, walked from
\* where the link leads.
LEMMA Relocated ==
  ASSUME Accepted, NEW here \in Of("symlink"), NEW place \in Paths, NEW u \in Paths,
         GoodFrom(here, u), Descend(here, u) # NoFile
  PROVE  \A k \in 0..Len(u) :
           Moved(here, place, Descend(here, SubSeq(u, 1, k)), Descend(place, SubSeq(u, 1, k)))
<1> DEFINE a(k) == Descend(here, SubSeq(u, 1, k))
           b(k) == Descend(place, SubSeq(u, 1, k))
           S == {k \in 0..Len(u) : Moved(here, place, a(k), b(k))}
<1>0. here \in Paths /\ Len(u) \in Nat /\ <<>> \in Paths
  BY OfIs, PathIs, EmptySeq DEF Paths
<1>1. 0 \in S
  <2>1. SubSeq(u, 1, 0) = <<>>
    BY SubSeqEmpty
  <2>2. a(0) = here /\ b(0) = place
    BY <2>1, DescendNothing
  <2>3. here \o <<>> = here /\ place \o <<>> = place
    BY <1>0, ConcatEmptySeq DEF Paths
  <2>4. Moved(here, place, a(0), b(0))
    <3> HIDE DEF a, b
    <3> QED BY <1>0, <2>2, <2>3 DEF Moved
  <2> HIDE DEF a, b
  <2> QED BY <1>0, <2>4
<1>2. ASSUME NEW k \in 0..(Len(u) - 1), Moved(here, place, a(k), b(k)), NEW m, m = k + 1
      PROVE  Moved(here, place, a(m), b(m))
  <2>1. m \in 1..Len(u) /\ m \in 0..Len(u) /\ k \in 0..Len(u) /\ u[m] \in Words
    BY <1>0, <1>2, PathIs
  <2>2. a(m) = Enter(a(k), u[m]) /\ b(m) = Enter(b(k), u[m])
    BY <1>0, <1>2, <2>1, DescendTypes
  <2>3. a(m) # NoFile
    BY <1>0, <2>1, DescendTypes
  <2>4. u[m] = Up => a(k) # here
    BY <1>2 DEF GoodFrom
  <2> HIDE DEF a, b
  <2> QED BY <1>0, <1>2, <2>1, <2>2, <2>3, <2>4, MovedTurn
<1>3. \A k \in 0..(Len(u) - 1) : k \in S => k + 1 \in S
  <2> HIDE DEF a, b
  <2> SUFFICES ASSUME NEW k \in 0..(Len(u) - 1), Moved(here, place, a(k), b(k))
               PROVE  Moved(here, place, a(k + 1), b(k + 1)) /\ k + 1 \in 0..Len(u)
    OBVIOUS
  <2>1. k + 1 \in 0..Len(u)
    BY <1>0
  <2> QED BY <1>2, <2>1
<1>4. \A k \in 0..Len(u) : k \in S
  <2> HIDE DEF S
  <2> QED BY <1>0, <1>1, <1>3, EveryNaturalUpTo
<1> QED BY <1>4

LEMMA BeginningOfConcat ==
  ASSUME NEW g \in Paths, NEW u \in Paths
  PROVE  /\ \A k \in 0..Len(g) : SubSeq(g \o u, 1, k) = SubSeq(g, 1, k)
         /\ \A j \in 0..Len(u) : \A k : k = Len(g) + j =>
              SubSeq(g \o u, 1, k) = g \o SubSeq(u, 1, j)
<1> DEFINE v == g \o u
<1>1. /\ v \in Paths /\ Len(v) = Len(g) + Len(u) /\ Len(g) \in Nat /\ Len(u) \in Nat
      /\ \A i \in 1..Len(g) : v[i] = g[i]
      /\ \A i \in 1..Len(u) : v[Len(g) + i] = u[i]
  BY ConcatTypes, PathIs
<1> HIDE DEF v
<1>2. ASSUME NEW k \in 0..Len(g) PROVE SubSeq(v, 1, k) = SubSeq(g, 1, k)
  <2>1. k \in Nat /\ k \in 0..Len(v) /\ \A i \in 1..k : i \in 1..Len(g)
    BY <1>1
  <2>2. SubSeq(g, 1, k) \in Paths /\ Len(SubSeq(g, 1, k)) = k /\ \A i \in 1..k : SubSeq(g, 1, k)[i] = g[i]
    BY Beginning
  <2>3. SubSeq(v, 1, k) \in Paths /\ Len(SubSeq(v, 1, k)) = k /\ \A i \in 1..k : SubSeq(v, 1, k)[i] = v[i]
    BY <1>1, <2>1, Beginning
  <2>4. \A i \in 1..k : SubSeq(v, 1, k)[i] = SubSeq(g, 1, k)[i]
    BY <1>1, <2>1, <2>2, <2>3
  <2> QED BY <2>2, <2>3, <2>4, SamePath
<1>3. ASSUME NEW j \in 0..Len(u), NEW k, k = Len(g) + j
      PROVE  SubSeq(v, 1, k) = g \o SubSeq(u, 1, j)
  <2> DEFINE a == SubSeq(v, 1, k)
             b == SubSeq(u, 1, j)
             w == g \o b
  <2>1. j \in Nat /\ k \in Nat /\ k \in 0..Len(v)
    BY <1>1, <1>3
  <2>2. b \in Paths /\ Len(b) = j /\ \A i \in 1..j : b[i] = u[i]
    BY Beginning
  <2>3. a \in Paths /\ Len(a) = k /\ \A i \in 1..k : a[i] = v[i]
    BY <1>1, <2>1, Beginning
  <2> HIDE DEF a, b
  <2>4. /\ w \in Paths /\ Len(w) = Len(g) + j
        /\ \A i \in 1..Len(g) : w[i] = g[i]
        /\ \A i \in 1..j : w[Len(g) + i] = b[i]
    BY <2>2, ConcatTypes
  <2> HIDE DEF w
  <2>5. ASSUME NEW i \in 1..k PROVE a[i] = w[i]
    <3>1. CASE i \in 1..Len(g)
      BY <1>1, <2>3, <2>4, <3>1
    <3>2. CASE i \notin 1..Len(g)
      <4>1. PICK l : l = i - Len(g)
        OBVIOUS
      <4>2. l \in 1..j /\ l \in 1..Len(u) /\ i = Len(g) + l
        BY <1>1, <1>3, <2>1, <3>2, <4>1
      <4>3. v[i] = u[l] /\ w[i] = b[l] /\ b[l] = u[l]
        BY <1>1, <2>2, <2>4, <4>2
      <4> QED BY <2>3, <4>3
    <3> QED BY <3>1, <3>2
  <2>6. a = w
    BY <1>3, <2>3, <2>4, <2>5, SamePath
  <2> QED BY <2>6 DEF a, w, b
<1> QED BY <1>2, <1>3 DEF v

\* Reading on through a link leads to what the link leads to.
LEMMA ThroughLink ==
  ASSUME Accepted, Plain, NEW B, Sound(B), NEW here \in Of("symlink"), NEW u \in Paths,
         GoodFrom(here, u), Descend(here, u) \in Paths, B[Descend(here, u)] # NoFile,
         NEW g, g = At(here).target
  PROVE  /\ g \in Paths /\ g \o u \in Paths
         /\ Descend(Front(here), g \o u) \in Paths
         /\ B[Descend(Front(here), g \o u)] = B[Descend(here, u)]
         /\ GoodWay(Front(here), g \o u)
<1> DEFINE d == Front(here)
           T == Descend(d, g)
           v == g \o u
<1>1. here \in Paths /\ here # <<>> /\ g \in Paths /\ d \in Paths
  BY OfIs, FrontIs DEF Downward
<1>2. T = LinkPath(Front(here), At(here).target) /\ T \in Paths
  <2>1. PICK i \in Kept : archive[i].kind = "symlink" /\ Mapped(archive[i].path) = here /\ At(here) = archive[i]
    BY EntryBehind
  <2>2. LinkPath(Front(here), At(here).target) # NoFile
    BY <2>1 DEF Accepted, Validate, LinksOk
  <2>3. LinkPath(Front(here), At(here).target) = T
    BY <2>2 DEF LinkPath
  <2> QED BY <1>1, <2>2, <2>3, DescendsToPath
<1>3. /\ v \in Paths /\ Len(v) = Len(g) + Len(u) /\ Len(g) \in Nat /\ Len(u) \in Nat
      /\ \A i \in 1..Len(g) : v[i] = g[i]
      /\ \A i \in 1..Len(u) : v[Len(g) + i] = u[i]
  <2>1. Len(g) \in Nat /\ Len(u) \in Nat
    BY <1>1, PathIs
  <2>2. /\ g \o u \in Paths /\ Len(g \o u) = Len(g) + Len(u)
        /\ \A i \in 1..Len(g) : (g \o u)[i] = g[i]
        /\ \A i \in 1..Len(u) : (g \o u)[Len(g) + i] = u[i]
    BY <1>1, ConcatTypes
  <2> QED BY <2>1, <2>2
<1>4. \A x \in Paths : Descend(d, g \o x) = Descend(T, x)
  BY <1>1, DescendConcat
<1>0. /\ \A k \in 0..Len(g) : SubSeq(v, 1, k) = SubSeq(g, 1, k)
      /\ \A j \in 0..Len(u) : \A k : k = Len(g) + j => SubSeq(v, 1, k) = g \o SubSeq(u, 1, j)
  <2>1. /\ \A k \in 0..Len(g) : SubSeq(g \o u, 1, k) = SubSeq(g, 1, k)
        /\ \A j \in 0..Len(u) : \A k : k = Len(g) + j =>
             SubSeq(g \o u, 1, k) = g \o SubSeq(u, 1, j)
    BY <1>1, BeginningOfConcat
  <2> QED BY <2>1
<1> HIDE DEF T, d, v
<1>5. \A k \in 0..Len(u) : Moved(here, T, Descend(here, SubSeq(u, 1, k)), Descend(T, SubSeq(u, 1, k)))
  <2>1. Descend(here, u) # NoFile
    BY WordsComplete
  <2> QED BY <1>2, <2>1, Relocated
<1>6. SubSeq(u, 1, Len(u)) = u /\ here \o <<>> = here /\ T \o <<>> = T
  <2>1. \A x \in Paths : SubSeq(x, 1, Len(x)) = x /\ x \o <<>> = x
    BY DEF Paths
  <2> QED BY <1>1, <1>2, <2>1
<1>7. Descend(here, u) = here /\ Descend(T, u) = T
  <2>1. Moved(here, T, Descend(here, u), Descend(T, u))
    <3>1. PICK n : n = Len(u)
      OBVIOUS
    <3>2. n \in 0..Len(u) /\ SubSeq(u, 1, n) = u
      BY <1>3, <1>6, <3>1
    <3> QED BY <1>5, <3>2
  <2>2. PICK w \in Paths : Descend(here, u) = here \o w /\ Descend(T, u) = T \o w
    BY <2>1 DEF Moved
  <2>3. w = <<>>
    <3>1. SUFFICES ASSUME w # <<>> PROVE FALSE
      OBVIOUS
    <3>2. IsStrictPrefix(here, Descend(here, u))
      BY <1>1, <2>2, <3>1, ConcatIsBelow
    <3>3. \A k, p : p \in Of(k) /\ IsStrictPrefix(p, Descend(here, u)) => k = "dir"
      BY MeansAnEntry
    <3> QED BY <3>2, <3>3
  <2> QED BY <1>6, <2>2, <2>3
<1>8. B[T] = B[here] /\ B[T] # NoFile
  BY <1>2, <1>7 DEF Sound
<1>9. Descend(d, v) = T
  BY <1>4, <1>7 DEF v
<1>10. GoodWay(d, v)
  <2>1. SUFFICES ASSUME NEW k \in 1..(Len(v) - 1), v[k + 1] = Up
                 PROVE  Descend(d, SubSeq(v, 1, k)) \notin Of("symlink")
    BY DEF GoodWay
  <2>2. CASE k < Len(g)
    <3>1. k \in 1..(Len(g) - 1) /\ k \in 0..Len(g) /\ k + 1 \in 1..Len(g)
      BY <1>3, <2>2
    <3>2. g[k + 1] = Up /\ SubSeq(v, 1, k) = SubSeq(g, 1, k)
      BY <1>0, <1>3, <2>1, <3>1
    <3>3. PICK i \in Kept : archive[i].kind = "symlink" /\ Mapped(archive[i].path) = here /\ At(here) = archive[i]
      BY EntryBehind
    <3>4. ~ClimbsFromLink(archive[i])
      BY KeptIs DEF Plain
    <3> QED BY <3>1, <3>2, <3>3, <3>4 DEF ClimbsFromLink, d
  <2>3. CASE ~(k < Len(g))
    <3>1. PICK j : j = k - Len(g)
      OBVIOUS
    <3>2. /\ j \in 0..(Len(u) - 1) /\ j \in 0..Len(u) /\ k = Len(g) + j
          /\ j + 1 \in 1..Len(u) /\ k + 1 = Len(g) + (j + 1)
      BY <1>3, <2>3, <3>1
    <3>3. u[j + 1] = Up /\ SubSeq(v, 1, k) = g \o SubSeq(u, 1, j)
      <4>1. PICK l : l = j + 1
        OBVIOUS
      <4>2. l \in 1..Len(u) /\ k + 1 = Len(g) + l
        BY <3>2, <4>1
      <4>3. v[Len(g) + l] = u[l]
        BY <1>3, <4>2
      <4>4. SubSeq(v, 1, k) = g \o SubSeq(u, 1, j)
        BY <1>0, <3>2
      <4>5. u[l] = Up
        BY <2>1, <4>2, <4>3
      <4> QED BY <4>1, <4>4, <4>5
    <3>4. SubSeq(u, 1, j) \in Paths
      BY <3>2, Beginning
    <3>5. Descend(d, SubSeq(v, 1, k)) = Descend(T, SubSeq(u, 1, j))
      BY <1>4, <3>3, <3>4
    <3>6. PICK w \in Paths : /\ Descend(here, SubSeq(u, 1, j)) = here \o w
                             /\ Descend(T, SubSeq(u, 1, j)) = T \o w
      BY <1>5, <3>2 DEF Moved
    <3>7. Descend(here, SubSeq(u, 1, j)) \notin Of("symlink")
      BY <3>2, <3>3 DEF GoodFrom
    <3>8. w # <<>>
      BY <1>6, <3>6, <3>7
    <3>9. IsStrictPrefix(T, T \o w)
      BY <1>2, <3>8, ConcatIsBelow
    <3>10. \A l, p : p \in Of(l) => ~IsStrictPrefix(T, p)
      BY <1>2, <1>8, MeansAnEntry
    <3> QED BY <3>5, <3>6, <3>9, <3>10
  <2> QED BY <2>2, <2>3
<1> QED BY <1>1, <1>2, <1>3, <1>7, <1>8, <1>9, <1>10 DEF d, v

\* Where a walk is, and what it has still to do, leads to a file that is c.
Leads(B, c, s) ==
    \E d, t \in Paths, left \in Nat :
      /\ s = [done |-> d, todo |-> t, left |-> left]
      /\ Descend(d, t) \in Paths /\ B[Descend(d, t)] = c /\ GoodWay(d, t)

Stopped == [done |-> NoFile, todo |-> <<>>, left |-> 0]

LEMMA LeadsTurn ==
  ASSUME Accepted, Plain, NEW B, Sound(B), NEW c, c # NoFile, NEW tree, Stage(tree),
         NEW strict \in BOOLEAN, NEW s, Leads(B, c, s), s.todo # <<>>,
         NEW r, r = Follow(tree, strict, s)
  PROVE  r = Stopped \/ Leads(B, c, r)
<1> DEFINE d == s.done
           t == s.todo
           left == s.left
<1>1. /\ d \in Paths /\ t \in Paths /\ left \in Nat
      /\ Descend(d, t) \in Paths /\ B[Descend(d, t)] = c /\ GoodWay(d, t)
  BY DEF Leads
<1>2. s \in Walks /\ t # <<>>
  BY DEF Leads, Walks
<1>3. PICK w, u, here : w = Head(t) /\ u = Tail(t) /\ here = Append(d, w)
  OBVIOUS
<1>4. w \in Words /\ u \in Paths
  BY <1>1, <1>2, <1>3, FirstWord
<1>5. Descend(d, t) = Descend(Enter(d, w), u)
  BY <1>1, <1>2, <1>3, DescendHead
<1>6. /\ Enter(d, w) # NoFile
      /\ \/ w = Up /\ d # <<>> /\ Enter(d, w) = Front(d)
         \/ w \notin {Up, Slash} /\ Enter(d, w) = here
  <2>1. Enter(d, w) \in Paths \cup {NoFile}
    BY <1>1, <1>4, EnterTypes
  <2>2. Enter(d, w) # NoFile
    BY <1>1, <1>4, <1>5, <2>1, DescendsToPath, WordsComplete
  <2> QED BY <1>1, <1>3, <1>4, <2>2, EnterTypes
<1>7. GoodFrom(Enter(d, w), u) /\ GoodWay(Enter(d, w), u)
  BY <1>1, <1>2, <1>3, GoodTail
<1>8. \/ /\ w = Slash \/ (w = Up /\ d = <<>>)
         /\ r = [done |-> <<Up>>, todo |-> <<>>, left |-> 0]
      \/ /\ w = Up /\ d # <<>>
         /\ r = [done |-> Front(d), todo |-> u, left |-> left]
      \/ /\ w \notin {Up, Slash} /\ IsA(tree, here, "symlink") /\ left # 0
         /\ r = [done |-> d, todo |-> tree[here].target \o u, left |-> left - 1]
      \/ /\ w \notin {Up, Slash} /\ ~IsA(tree, here, "symlink")
         /\ r = [done |-> here, todo |-> u, left |-> left]
      \/ r = [done |-> NoFile, todo |-> <<>>, left |-> 0]
  <2>1. Turn(tree, strict, s, w, here, r)
    BY <1>1, <1>2, <1>3, FollowIs
  <2>2. Tail(s.todo) = u
    BY <1>3
  <2> QED BY <2>1, <2>2 DEF Turn
<1>9. ASSUME NEW e \in Paths, NEW x \in Paths, NEW n \in Nat,
             r = [done |-> e, todo |-> x, left |-> n],
             Descend(e, x) \in Paths, B[Descend(e, x)] = c, GoodWay(e, x)
      PROVE  Leads(B, c, r)
  BY <1>9 DEF Leads
<1>10. CASE w = Up /\ d # <<>> /\ r = [done |-> Front(d), todo |-> u, left |-> left]
  <2>1. Enter(d, w) = Front(d) /\ Front(d) \in Paths
    BY <1>1, <1>6, <1>10, FrontIs
  <2> QED BY <1>1, <1>4, <1>5, <1>7, <1>9, <1>10, <2>1
<1>11. CASE w \notin {Up, Slash} /\ r = [done |-> here, todo |-> u, left |-> left]
  <2>1. Enter(d, w) = here /\ here \in Paths
    BY <1>1, <1>3, <1>4, <1>6, <1>11, AppendIs
  <2> QED BY <1>1, <1>4, <1>5, <1>7, <1>9, <1>11, <2>1
<1>12. CASE /\ w \notin {Up, Slash} /\ IsA(tree, here, "symlink") /\ left # 0
            /\ r = [done |-> d, todo |-> tree[here].target \o u, left |-> left - 1]
  <2>1. Enter(d, w) = here /\ Front(here) = d
    BY <1>1, <1>3, <1>4, <1>6, <1>12, FrontOfAppend
  <2>2. here \in Of("symlink")
    BY <1>12, StageIsPlaced
  <2>3. tree[here].target = At(here).target
    <3>1. tree[here] = Node(At(here))
      BY <1>12, <2>2 DEF Stage, IsA
    <3> QED BY <2>2, <3>1, NodeIs
  <2>4. PICK g : g = At(here).target
    OBVIOUS
  <2>5. Descend(here, u) \in Paths /\ B[Descend(here, u)] = c /\ GoodFrom(here, u)
    BY <1>1, <1>5, <1>7, <2>1
  <2>6. /\ g \in Paths /\ g \o u \in Paths
        /\ Descend(Front(here), g \o u) \in Paths
        /\ B[Descend(Front(here), g \o u)] = B[Descend(here, u)]
        /\ GoodWay(Front(here), g \o u)
    BY <1>4, <2>2, <2>4, <2>5, ThroughLink
  <2>7. PICK x, n : x = g \o u /\ n = left - 1
    OBVIOUS
  <2>8. n \in Nat
    BY <1>1, <1>12, <2>7
  <2>9. r = [done |-> d, todo |-> x, left |-> n]
    BY <1>12, <2>3, <2>4, <2>7
  <2>10. x \in Paths /\ Descend(d, x) \in Paths /\ B[Descend(d, x)] = c /\ GoodWay(d, x)
    BY <2>1, <2>5, <2>6, <2>7
  <2> QED BY <1>1, <1>9, <2>8, <2>9, <2>10
<1>13. ~(w = Slash \/ (w = Up /\ d = <<>>))
  BY <1>6, WordsComplete
<1> QED BY <1>8, <1>10, <1>11, <1>12, <1>13 DEF Stopped

\* A path with no "..", read word by word, is itself.
LEMMA DescendDown ==
  ASSUME NEW p \in Paths, Downward(p)
  PROVE  Descend(<<>>, p) = p
<1> DEFINE a(k) == Descend(<<>>, SubSeq(p, 1, k))
           b(k) == SubSeq(p, 1, k)
           S == {k \in 0..Len(p) : a(k) = b(k)}
<1>0. Len(p) \in Nat /\ <<>> \in Paths /\ SubSeq(p, 1, Len(p)) = p
  <2>1. \A x \in Paths : SubSeq(x, 1, Len(x)) = x
    BY DEF Paths
  <2>2. Len(p) \in Nat
    BY PathIs
  <2>3. <<>> \in Paths
    BY EmptySeq DEF Paths
  <2> QED BY <2>1, <2>2, <2>3
<1>1. 0 \in S
  <2>1. SubSeq(p, 1, 0) = <<>>
    BY SubSeqEmpty
  <2>2. Descend(<<>>, <<>>) = <<>>
    BY DescendNothing
  <2>3. a(0) = b(0)
    BY <2>1, <2>2
  <2> HIDE DEF a, b
  <2> QED BY <1>0, <2>3
<1>2. ASSUME NEW k \in 0..(Len(p) - 1), a(k) = b(k), NEW m, m = k + 1
      PROVE  a(m) = b(m)
  <2>1. m \in 1..Len(p) /\ m \in 0..Len(p) /\ k \in 0..Len(p) /\ k \in Nat /\ p[m] \in Words
    BY <1>0, <1>2, PathIs
  <2>2. a(m) = Enter(a(k), p[m])
    BY <1>0, <1>2, <2>1, DescendTypes
  <2>3. SafePath(<<p[m]>>) /\ p[m] # Up
    BY <2>1 DEF Downward, SafePath
  <2>4. b(k) \in Paths /\ Len(b(k)) = k /\ \A i \in 1..k : b(k)[i] = p[i]
    BY <2>1, Beginning
  <2>5. b(m) \in Paths /\ Len(b(m)) = m /\ \A i \in 1..m : b(m)[i] = p[i]
    BY <2>1, Beginning
  <2> HIDE DEF a, b
  <2>6. a(m) = Append(b(k), p[m])
    BY <1>2, <2>1, <2>2, <2>3, <2>4, EnterIs
  <2>7. PICK x : x = Append(b(k), p[m])
    OBVIOUS
  <2>8. /\ x \in Paths /\ Len(x) = k + 1 /\ x[k + 1] = p[m]
        /\ \A i \in 1..k : x[i] = b(k)[i]
    BY <2>1, <2>4, <2>7, AppendIs
  <2>9. \A i \in 1..m : x[i] = b(m)[i]
    BY <1>2, <2>1, <2>4, <2>5, <2>8
  <2> QED BY <1>2, <2>5, <2>6, <2>7, <2>8, <2>9, SamePath
<1>3. \A k \in 0..(Len(p) - 1) : k \in S => k + 1 \in S
  <2> HIDE DEF a, b
  <2> SUFFICES ASSUME NEW k \in 0..(Len(p) - 1), a(k) = b(k)
               PROVE  a(k + 1) = b(k + 1) /\ k + 1 \in 0..Len(p)
    OBVIOUS
  <2> QED BY <1>0, <1>2
<1>4. \A k \in 0..Len(p) : k \in S
  <2> HIDE DEF S
  <2> QED BY <1>0, <1>1, <1>3, EveryNaturalUpTo
<1>5. a(Len(p)) = b(Len(p))
  <2> HIDE DEF a, b
  <2> QED BY <1>0, <1>4
<1> QED BY <1>0, <1>5

Means(B, c, e) == e = NoFile \/ (e \in Paths /\ B[e] = c)

\* Following a path on disk leads to what it means by its words, or nowhere.
LEMMA ResolvedMeans ==
  ASSUME Accepted, Plain, NEW B, Sound(B), NEW c, c # NoFile, NEW tree, Stage(tree),
         NEW strict \in BOOLEAN, NEW p \in Paths, Downward(p), B[p] = c,
         NEW e, e = ResolvedLink(tree, strict, p)
  PROVE  Means(B, c, e)
<1> DEFINE next == WalkNext(tree, strict)
           S == {s \in Walks : s = Stopped \/ Leads(B, c, s)}
<1>1. WalkStart(p) \in S
  <2>1. /\ WalkStart(p) \in Walks /\ <<>> \in Paths /\ Expansions \in Nat
        /\ WalkStart(p) = [done |-> <<>>, todo |-> p, left |-> Expansions]
    BY WalkStarts, LimitsAreNumbers, EmptySeq DEF WalkStart, Paths
  <2>2. Descend(<<>>, p) = p
    BY DescendDown
  <2>3. GoodWay(<<>>, p)
    <3>1. \A k \in 1..(Len(p) - 1) : p[k + 1] # Up
      BY PathIs DEF Downward
    <3> QED BY <3>1 DEF GoodWay
  <2>4. Leads(B, c, WalkStart(p))
    BY <2>1, <2>2, <2>3 DEF Leads
  <2> QED BY <2>1, <2>4
<1>2. \A s \in S \cap DOMAIN next : next[s] \in S
  <2> SUFFICES ASSUME NEW s \in S, s \in DOMAIN next PROVE next[s] \in S
    OBVIOUS
  <2>1. s \in Walks /\ s.todo # <<>> /\ next[s] = Follow(tree, strict, s)
    BY DEF WalkNext
  <2>2. s # Stopped
    BY <2>1 DEF Stopped
  <2>3. PICK r : r = Follow(tree, strict, s)
    OBVIOUS
  <2>4. r = Stopped \/ Leads(B, c, r)
    BY <2>1, <2>2, <2>3, LeadsTurn
  <2>5. r \in Walks
    <3>1. <<>> \in Paths
      BY EmptySeq DEF Paths
    <3>2. CASE r = Stopped
      BY <3>1, <3>2 DEF Stopped, Walks
    <3>3. CASE Leads(B, c, r)
      <4>1. PICK d, t, left : /\ d \in Paths /\ t \in Paths /\ left \in Nat
                              /\ r = [done |-> d, todo |-> t, left |-> left]
        BY <3>3 DEF Leads
      <4> QED BY <4>1 DEF Walks
    <3> QED BY <2>4, <3>2, <3>3
  <2> HIDE DEF next
  <2> QED BY <2>1, <2>3, <2>4, <2>5
<1>3. Turns(p) \in Nat
  BY TurnsIs DEF Accepted
<1>4. PICK end : end = Chase(next, WalkStart(p), Turns(p))
  OBVIOUS
<1>5. end \in S
  <2> HIDE DEF S, next
  <2> QED BY <1>1, <1>2, <1>3, <1>4, ChaseKeeps
<1>6. IF end.todo = <<>> THEN e = end.done ELSE e = NoFile
  BY <1>4, ResolvedIs
<1>7. CASE end = Stopped
  BY <1>6, <1>7 DEF Stopped, Means
<1>8. CASE Leads(B, c, end)
  <2>1. PICK d, t, left : /\ d \in Paths /\ t \in Paths /\ left \in Nat
                          /\ end = [done |-> d, todo |-> t, left |-> left]
                          /\ B[Descend(d, t)] = c
    BY <1>8 DEF Leads
  <2>2. end.done = d /\ end.todo = t
    BY <2>1
  <2>3. t = <<>> => Descend(d, t) = d
    BY DescendNothing
  <2> QED BY <1>6, <2>1, <2>2, <2>3 DEF Means
<1> QED BY <1>5, <1>7, <1>8

\* So does a chain of hard links.
LEMMA AnchorMeans ==
  ASSUME Accepted, Plain, NEW B, Sound(B), NEW c, c # NoFile, Stage(Sym),
         NEW p \in Of("hardlink"), B[p] = c, NEW e, e = Anchor(Sym, p)
  PROVE  e = NoFile \/ (e \in Paths /\ B[e] = c)
<1> DEFINE next == [q \in Of("hardlink") |-> Resolve(Sym, Mapped(At(q).target))]
           end == Chase(next, p, Len(archive))
           S == {x \in Paths \cup {NoFile} : x = NoFile \/ B[x] = c}
<1>1. p \in S /\ Len(archive) \in Nat
  <2>1. p \in Paths
    BY OfIs
  <2>2. Len(archive) \in Nat
    BY DEF Accepted
  <2> QED BY <2>1, <2>2
<1>2. \A q \in S \cap DOMAIN next : next[q] \in S
  <2> SUFFICES ASSUME NEW q \in S, q \in Of("hardlink") PROVE Resolve(Sym, Mapped(At(q).target)) \in S
    OBVIOUS
  <2>1. q # NoFile /\ B[q] = c
    BY OfIs
  <2>2. PICK t : t = Mapped(At(q).target)
    OBVIOUS
  <2>3. B[t] = c
    BY <2>1, <2>2 DEF Sound
  <2>4. t \in Paths /\ Downward(t)
    <3>1. PICK i \in Kept : archive[i].kind = "hardlink" /\ Mapped(archive[i].path) = q /\ At(q) = archive[i]
      BY EntryBehind
    <3>2. SafePath(archive[i].target) /\ Mapped(archive[i].target) # <<>>
      BY <3>1 DEF Accepted, Validate, LinksOk
    <3>3. archive[i].target \in Paths
      BY <3>1, OfIs
    <3>4. Downward(archive[i].target)
      BY <3>2, <3>3, SafeIsDownward
    <3> QED BY <2>2, <3>1, <3>2, <3>3, <3>4, MappedIs DEF Accepted, Downward
  <2>5. PICK r, strict : strict = FALSE /\ r = ResolvedLink(Sym, strict, t)
    OBVIOUS
  <2>6. Means(B, c, r)
    <3>1. strict \in BOOLEAN
      BY <2>5
    <3>2. r = ResolvedLink(Sym, strict, t)
      BY <2>5
    <3> QED BY <2>3, <2>4, <3>1, <3>2, ResolvedMeans
  <2> QED BY <2>2, <2>5, <2>6 DEF Resolve, Means
<1>3. end \in S
  <2> HIDE DEF S, next
  <2> QED BY <1>1, <1>2, ChaseKeeps
<1>4. e = IF end \in DOMAIN Sym THEN end ELSE NoFile
  BY DEF Anchor
<1> HIDE DEF end
<1> QED BY <1>3, <1>4

\* What a Unix host installs as a command is what its path means.
LEMMA UnixMeans ==
  ASSUME Accepted, Plain, NEW B, Sound(B), NEW c, c # NoFile, NEW tree, tree = UnixTree,
         tree # NoFile, Downward(Mapped(command)), B[Mapped(command)] = c,
         NEW f, f = FindCommand("unix", tree), f # NoFile
  PROVE  f = c
<1>1. PICK p, e, strict : p = Mapped(command) /\ strict = TRUE /\ e = ResolvedLink(tree, strict, p)
  OBVIOUS
<1>2. /\ Sym # NoFile /\ Stage(tree)
      /\ \A q \in Of("hardlink") : Anchor(Sym, q) \in Of("file")
      /\ \A q \in Of("hardlink") : q \in DOMAIN tree => tree[q] = Files[Anchor(Sym, q)]
  BY UnixIs
<1>3. e \in DOMAIN tree /\ tree[e].kind = "file" /\ f = tree[e].content
  <2> DEFINE found == {e} \cap DOMAIN tree
             chosen == CHOOSE q \in found : TRUE
  <2>0. f = IF ~SafePath(command) \/ found = {} THEN NoFile
            ELSE IF tree[chosen].kind = "file" THEN tree[chosen].content ELSE NoFile
    BY <1>1 DEF FindCommand, Canonical
  <2>1. found # {}
    <3> HIDE DEF found, chosen
    <3> QED BY <2>0
  <2>2. found = {e} /\ chosen = e
    BY <2>1
  <2>3. f = IF tree[chosen].kind = "file" THEN tree[chosen].content ELSE NoFile
    <3> HIDE DEF found, chosen
    <3> QED BY <2>0
  <2> HIDE DEF chosen, found
  <2>4. f = IF tree[e].kind = "file" THEN tree[e].content ELSE NoFile
    BY <2>2, <2>3
  <2>5. e \in DOMAIN tree
    BY <2>2 DEF found
  <2> QED BY <2>4, <2>5
<1>4. e \in Of("file") \cup Linked
  BY <1>2, <1>3 DEF Stage
<1>5. e \in Paths /\ B[e] = c
  <2>1. Means(B, c, e)
    <3>1. /\ strict \in BOOLEAN /\ p \in Paths /\ Downward(p) /\ B[p] = c
          /\ e = ResolvedLink(tree, strict, p)
      BY <1>1 DEF Downward
    <3> QED BY <1>2, <3>1, ResolvedMeans
  <2>2. e # NoFile
    BY <1>4, OfIs DEF Linked
  <2> QED BY <2>1, <2>2 DEF Means
<1>6. CASE e \in Of("file")
  <2>1. tree[e] = Files[e]
    BY <1>2, <1>6 DEF Stage
  <2> QED BY <1>3, <1>5, <1>6, <2>1, FilesAre DEF Sound
<1>7. CASE e \in Of("symlink")
  <2>1. tree[e] = Node(At(e))
    BY <1>2, <1>3, <1>7 DEF Stage
  <2>2. tree[e].kind = "symlink"
    BY <1>7, <2>1, NodeIs
  <2> QED BY <1>3, <2>2
<1>8. CASE e \in Of("hardlink")
  <2>1. PICK a : a = Anchor(Sym, e)
    OBVIOUS
  <2>2. a \in Of("file") /\ tree[e] = Files[a]
    BY <1>2, <1>3, <1>8, <2>1
  <2>3. a \in Paths /\ a # NoFile
    BY <2>2, OfIs
  <2>4. Stage(Sym)
    BY <1>2, SymIs
  <2>5. B[a] = c
    BY <1>5, <1>8, <2>1, <2>3, <2>4, AnchorMeans
  <2> QED BY <1>3, <2>2, <2>5, FilesAre DEF Sound
<1> QED BY <1>4, <1>6, <1>7, <1>8 DEF Linked

-----------------------------------------------------------------------------
(* What the links of an archive mean to a host that makes copies.          *)

LEMMA SameEntry ==
  ASSUME Accepted, NEW x \in Of("file") \cup Linked, NEW y \in Of("file") \cup Linked,
         Fold(x) = Fold(y)
  PROVE  x = y /\ x \in Paths /\ x # NoFile /\ Fold(x) \in Paths
<1>1. PICK k, l : x \in Of(k) /\ y \in Of(l)
  BY DEF Linked
<1>2. x = y
  BY <1>1, Alone
<1>3. x \in Paths /\ x # NoFile
  BY <1>1, OfIs
<1> QED BY <1>2, <1>3, FoldIs

\* What a link leads to, before its case is folded.
Target(p) == IF p \in Of("symlink") THEN LinkPath(Front(p), At(p).target) ELSE Mapped(At(p).target)

LEMMA TargetIs ==
  ASSUME Accepted, NEW p \in Linked
  PROVE  /\ Target(p) \in Paths /\ LinkTarget(p) = Fold(Target(p))
         /\ Fold(p) \in DOMAIN KeyTargets /\ KeyTargets[Fold(p)] = Fold(Target(p))
<1>1. PICK k : k \in Links /\ p \in Of(k)
  BY DEF Linked, Links
<1>2. At(p).kind = k /\ At(p).target \in Paths /\ p \in Paths /\ p # <<>>
  BY <1>1, OfIs DEF Downward
<1>3. k = "symlink" <=> p \in Of("symlink")
  BY <1>1, Disjoint DEF Links
<1>4. Target(p) \in Paths
  <2>1. CASE k = "symlink"
    <3>1. PICK i \in Kept : archive[i].kind = "symlink" /\ Mapped(archive[i].path) = p /\ At(p) = archive[i]
      BY <1>1, <2>1, EntryBehind
    <3>2. LinkPath(Front(p), At(p).target) # NoFile
      BY <3>1 DEF Accepted, Validate, LinksOk
    <3>3. Front(p) \in Paths
      BY <1>2, FrontIs
    <3>4. LinkPath(Front(p), At(p).target) \in Paths
      BY <1>2, <3>2, <3>3, DescendsToPath DEF LinkPath
    <3> QED BY <1>1, <2>1, <3>4 DEF Target
  <2>2. CASE k # "symlink"
    BY <1>2, <1>3, <2>2, MappedIs DEF Target, Accepted
  <2> QED BY <2>1, <2>2
<1>5. LinkTarget(p) = Fold(Target(p))
  BY <1>2, <1>3 DEF LinkTarget, Target
<1>6. Fold(p) \in DOMAIN KeyTargets
  BY DEF KeyTargets
<1>7. PICK q : q = CHOOSE x \in Linked : Fold(x) = Fold(p)
  OBVIOUS
<1>8. q \in Linked /\ Fold(q) = Fold(p)
  BY <1>7
<1>9. q = p
  BY <1>8, SameEntry
<1>10. KeyTargets[Fold(p)] = LinkTarget(q)
  BY <1>6, <1>7 DEF KeyTargets
<1> QED BY <1>4, <1>5, <1>6, <1>9, <1>10

LEMMA KeyIs ==
  ASSUME Accepted, NEW x \in Of("file") \cup Linked, Fold(x) \in DOMAIN KeyTargets
  PROVE  x \in Linked
<1>1. PICK p \in Linked : Fold(p) = Fold(x)
  BY DEF KeyTargets
<1> QED BY <1>1, SameEntry

\* The end of a chain is a file's key, that of the file behind it.
LEMMA BehindIs ==
  ASSUME Accepted, NEW key, NEW end, end = Chase(KeyTargets, key, Len(archive)),
         NEW f, f = FileBehind(key)
  PROVE  /\ f # NoFile => f \in Of("file") /\ Fold(f) = end /\ end \notin DOMAIN KeyTargets
         /\ \A x \in Of("file") : Fold(x) = end => f = x
<1> DEFINE files == {p \in Of("file") : Fold(p) = end}
<1>1. f = IF files = {} THEN NoFile ELSE CHOOSE p \in files : TRUE
  BY DEF FileBehind
<1>2. f # NoFile => f \in files
  BY <1>1
<1>3. \A x \in files, y \in files : x = y
  BY SameEntry
<1>4. \A x \in files : f = x
  <2> HIDE DEF files
  <2> QED BY <1>1, <1>3
<1>5. \A x \in Of("file") : Fold(x) \notin DOMAIN KeyTargets
  BY KeyIs, Disjoint
<1> QED BY <1>2, <1>4, <1>5

LEMMA BehindFile ==
  ASSUME Accepted, NEW p \in Of("file")
  PROVE  FileBehind(Fold(p)) = p
<1>1. Fold(p) \notin DOMAIN KeyTargets
  BY KeyIs, Disjoint
<1>2. Len(archive) \in Nat
  BY DEF Accepted
<1>3. Chase(KeyTargets, Fold(p), Len(archive)) = Fold(p)
  BY <1>1, <1>2, ChaseNone
<1> QED BY <1>3, BehindIs

LEMMA BehindLink ==
  ASSUME Accepted, NEW p \in Linked, FileBehind(Fold(p)) # NoFile
  PROVE  FileBehind(Fold(Target(p))) = FileBehind(Fold(p))
<1>1. PICK n, end, m : n = Len(archive) /\ m = n + 1 /\ end = Chase(KeyTargets, Fold(p), n)
  OBVIOUS
<1>2. n \in Nat /\ m \in Nat
  BY <1>1 DEF Accepted
<1>3. PICK f : f = FileBehind(Fold(p))
  OBVIOUS
<1>4. f \in Of("file") /\ Fold(f) = end /\ end \notin DOMAIN KeyTargets
  BY <1>1, <1>3, BehindIs
<1>5. Chase(KeyTargets, Fold(p), m) = end
  BY <1>1, <1>2, <1>4, ChaseStays
<1>6. Hop(KeyTargets, Fold(p)) = Fold(Target(p))
  BY TargetIs DEF Hop
<1>7. Chase(KeyTargets, Fold(Target(p)), n) = end
  BY <1>1, <1>2, <1>5, <1>6, ChaseFirst
<1> QED BY <1>1, <1>3, <1>4, <1>7, BehindIs

\* Only an entry, in some case, leads anywhere.
LEMMA BehindEntry ==
  ASSUME Accepted, NEW q \in Paths, FileBehind(Fold(q)) # NoFile
  PROVE  \E x \in Of("file") \cup Linked : Fold(x) = Fold(q)
<1>1. CASE Fold(q) \in DOMAIN KeyTargets
  BY <1>1 DEF KeyTargets
<1>2. CASE Fold(q) \notin DOMAIN KeyTargets
  <2>1. Len(archive) \in Nat
    BY DEF Accepted
  <2>2. Chase(KeyTargets, Fold(q), Len(archive)) = Fold(q)
    BY <1>2, <2>1, ChaseNone
  <2> QED BY <2>2, BehindIs
<1> QED BY <1>1, <1>2

\* What a host that makes copies finds at a path.
Behind ==
    [q \in Paths |->
       IF FileBehind(Fold(q)) = NoFile THEN NoFile ELSE Files[FileBehind(Fold(q))].content]

LEMMA BehindSound ==
  ASSUME Accepted
  PROVE  Sound(Behind)
<1>1. ASSUME NEW q \in Paths PROVE
        /\ FileBehind(Fold(q)) = NoFile => Behind[q] = NoFile
        /\ FileBehind(Fold(q)) # NoFile =>
             Behind[q] = Files[FileBehind(Fold(q))].content /\ Behind[q] # NoFile
  <2>1. FileBehind(Fold(q)) # NoFile => Files[FileBehind(Fold(q))].content # NoFile
    BY FileBehindIs, FilesAre, OfIs
  <2> QED BY <2>1 DEF Behind
<1> HIDE DEF Behind
<1>2. ASSUME NEW p \in Of("file") PROVE Behind[p] = At(p).content
  <2>1. p \in Paths /\ p # NoFile
    BY OfIs
  <2>2. FileBehind(Fold(p)) = p
    BY BehindFile
  <2> QED BY <1>1, <2>1, <2>2, FilesAre
<1>3. ASSUME NEW p \in Linked, Behind[p] # NoFile PROVE Behind[Target(p)] = Behind[p]
  <2>1. p \in Paths /\ Target(p) \in Paths
    BY TargetIs, OfIs DEF Linked
  <2>2. FileBehind(Fold(p)) # NoFile
    BY <1>1, <1>3, <2>1
  <2>3. FileBehind(Fold(Target(p))) = FileBehind(Fold(p))
    BY <2>2, BehindLink
  <2> QED BY <1>1, <2>1, <2>2, <2>3
<1>4. ASSUME NEW q \in Paths, Behind[q] # NoFile
      PROVE  \E x \in Of("file") \cup Linked : Fold(x) = Fold(q)
  BY <1>1, <1>4, BehindEntry
<1>5. \A p \in Of("symlink") : p \in Linked /\ Target(p) = LinkPath(Front(p), At(p).target)
  BY DEF Target, Linked
<1>6. \A p \in Of("hardlink") : p \in Linked /\ Target(p) = Mapped(At(p).target)
  BY Disjoint DEF Target, Linked
<1> QED BY <1>2, <1>3, <1>4, <1>5, <1>6 DEF Sound

\* What a Windows host installs as a command is the file behind its path.
LEMMA WindowsMeans ==
  ASSUME Accepted, NEW tree, tree = MaterializedTree, tree # NoFile, Mapped(command) \in Paths,
         NEW f, f = FindCommand("windows", tree), f # NoFile
  PROVE  f = Behind[Mapped(command)] /\ Behind[Mapped(command)] # NoFile
<1> DEFINE p == Mapped(command)
           alike == {q \in DOMAIN tree : Fold(q) = Fold(p)}
           chosen == CHOOSE q \in alike : TRUE
<1>1. f = IF ~SafePath(command) \/ alike = {} THEN NoFile
          ELSE IF tree[chosen].kind = "file" THEN tree[chosen].content ELSE NoFile
  BY DEF FindCommand
<1>2. alike # {} /\ f = tree[chosen].content
  <2> HIDE DEF alike, chosen
  <2> QED BY <1>1
<1>3. PICK q : q = chosen
  OBVIOUS
<1>4. q \in DOMAIN tree /\ Fold(q) = Fold(p) /\ f = tree[q].content
  BY <1>2, <1>3
<1>5. /\ DOMAIN tree = Of("file") \cup Linked
      /\ \A x \in Of("file") : tree[x] = Files[x]
      /\ \A x \in Linked : /\ FileBehind(Fold(x)) # NoFile
                           /\ tree[x] = Files[FileBehind(Fold(x))]
  BY MaterializedIs
<1> HIDE DEF alike, chosen, p
<1>6. FileBehind(Fold(q)) # NoFile /\ tree[q] = Files[FileBehind(Fold(q))]
  <2>1. CASE q \in Of("file")
    <3>1. FileBehind(Fold(q)) = q /\ q # NoFile
      BY <2>1, BehindFile, OfIs
    <3> QED BY <1>5, <2>1, <3>1
  <2>2. CASE q \in Linked
    BY <1>5, <2>2
  <2> QED BY <1>4, <1>5, <2>1, <2>2
<1>7. FileBehind(Fold(p)) # NoFile /\ f = Files[FileBehind(Fold(p))].content
  BY <1>4, <1>6
<1>8. f = Behind[p]
  BY <1>7 DEF Behind, p
<1> QED BY <1>8 DEF p

\* Only an entry is a file, in its own case.
Exact(B) == \A q \in Paths : B[q] # NoFile => q \in Of("file") \cup Linked

\* The file behind a path is what the path means to who tells case apart.
LEMMA BehindMeans ==
  ASSUME Accepted, NEW B, Sound(B), Exact(B), NEW p \in Paths, NEW c, B[p] = c, c # NoFile,
         Behind[p] # NoFile
  PROVE  Behind[p] = c
<1> DEFINE S == {Fold(x) : x \in {y \in Paths : B[y] = c}}
<1>1. Fold(p) \in S
  OBVIOUS
<1>2. ASSUME NEW x \in Paths, B[x] = c, Fold(x) \in DOMAIN KeyTargets
      PROVE  KeyTargets[Fold(x)] \in S
  <2>1. x \in Of("file") \cup Linked
    BY <1>2 DEF Exact
  <2>2. x \in Linked
    BY <1>2, <2>1, KeyIs
  <2>3. Target(x) \in Paths /\ KeyTargets[Fold(x)] = Fold(Target(x))
    BY <2>2, TargetIs
  <2>4. B[Target(x)] = c
    <3>1. CASE x \in Of("symlink")
      BY <1>2, <3>1 DEF Sound, Target
    <3>2. CASE x \in Of("hardlink")
      <4>1. x \notin Of("symlink")
        BY <3>2, Disjoint
      <4> QED BY <1>2, <3>2, <4>1 DEF Sound, Target
    <3> QED BY <2>2, <3>1, <3>2 DEF Linked
  <2> QED BY <2>3, <2>4
<1>3. \A k \in S \cap DOMAIN KeyTargets : KeyTargets[k] \in S
  BY <1>2
<1>4. PICK end : end = Chase(KeyTargets, Fold(p), Len(archive))
  OBVIOUS
<1>5. end \in S
  <2>1. Len(archive) \in Nat
    BY DEF Accepted
  <2> HIDE DEF S
  <2> QED BY <1>1, <1>3, <1>4, <2>1, ChaseKeeps
<1>6. PICK f : f = FileBehind(Fold(p))
  OBVIOUS
<1>7. f # NoFile /\ Behind[p] = Files[f].content
  BY <1>6 DEF Behind
<1>8. f \in Of("file") /\ Fold(f) = end
  BY <1>4, <1>6, <1>7, BehindIs
<1>9. PICK x \in Paths : B[x] = c /\ Fold(x) = end
  BY <1>5
<1>10. x = f
  <2>1. x \in Of("file") \cup Linked
    BY <1>9 DEF Exact
  <2> QED BY <1>8, <1>9, <2>1, SameEntry
<1>11. At(f).content = c
  BY <1>8, <1>9, <1>10 DEF Sound
<1> QED BY <1>7, <1>8, <1>11, FilesAre

-----------------------------------------------------------------------------
(* What create reads.                                                      *)

LEMMA LeastIs ==
  ASSUME NEW T, T \subseteq Nat, T # {}
  PROVE  Min(T) \in T
<1> DEFINE R == OpToRel(<, Nat)
<1>1. PICK n \in T : \A m \in T : ~(<<m, n>> \in R)
  BY NatLessThanWellFounded, WFMin, Zenon
<1>2. \A m \in T : n <= m
  <2> SUFFICES ASSUME NEW m \in T, ~(n <= m) PROVE FALSE
    OBVIOUS
  <2>1. m \in Nat /\ n \in Nat /\ m < n
    OBVIOUS
  <2>2. <<m, n>> \in R
    BY <2>1 DEF OpToRel
  <2> QED BY <1>1, <2>2
<1> QED BY <1>2 DEF Min

\* The first member at a path, if there is one.
LEMMA MemberAtIs ==
  ASSUME archive \in Seq(Members), NEW x, NEW i, i = MemberAt(x)
  PROVE  \/ i = 0 /\ \A j \in DOMAIN archive : archive[j].path # x
         \/ i # 0 /\ i \in DOMAIN archive /\ archive[i].path = x
<1> DEFINE I == {j \in 1..Len(archive) : archive[j].path = x}
<1>1. i = IF I # {} THEN Min(I) ELSE 0
  BY DEF MemberAt, SelectInSeq
<1>2. DOMAIN archive = 1..Len(archive) /\ Len(archive) \in Nat
  OBVIOUS
<1>3. I \subseteq Nat /\ 0 \notin I
  BY <1>2
<1>4. I # {} => Min(I) \in I
  <2> HIDE DEF I
  <2> QED BY <1>3, LeastIs
<1>5. CASE I = {}
  BY <1>1, <1>2, <1>5
<1>6. CASE I # {}
  <2>1. i \in I
    <3> HIDE DEF I
    <3> QED BY <1>1, <1>4, <1>6
  <2> QED BY <1>2, <1>3, <2>1
<1> QED BY <1>5, <1>6

\* One word, read by create and by an installer, below a directory.
LEMMA ReadBelow ==
  ASSUME NEW P \in Paths, NEW x \in Paths, NEW w \in Words, Enter(x, w) # NoFile
  PROVE  Read(P \o x, w) = P \o Enter(x, w)
<1>1. \/ w = Up /\ x # <<>> /\ Enter(x, w) = Front(x)
      \/ w \notin {Up, Slash} /\ Enter(x, w) = Append(x, w)
  BY EnterTypes
<1>2. CASE w = Up /\ x # <<>> /\ Enter(x, w) = Front(x)
  <2>1. P \o x # <<>> /\ Front(P \o x) = P \o Front(x)
    BY <1>2, ConcatFront
  <2> QED BY <1>2, <2>1, WordsComplete DEF Read
<1>3. CASE w \notin {Up, Slash} /\ Enter(x, w) = Append(x, w)
  <2>1. Append(P \o x, w) = P \o Append(x, w)
    BY ConcatAppend
  <2> QED BY <1>3, <2>1 DEF Read
<1> QED BY <1>1, <1>2, <1>3

\* Where a link points to create is where it points to an installer, whatever
\* directory everything is in.
LEMMA ReadDescend ==
  ASSUME NEW P \in Paths, NEW d \in Paths, NEW t \in Paths, Descend(d, t) # NoFile,
         NEW link, Front(link) = P \o d
  PROVE  ResolveLink(link, t) = P \o Descend(d, t)
<1> DEFINE a(k) == Descend(d, SubSeq(t, 1, k))
<1>0. Len(t) \in Nat /\ SubSeq(t, 1, Len(t)) = t /\ SubSeq(t, 1, 0) = <<>>
  <2>1. \A x \in Paths : SubSeq(x, 1, Len(x)) = x
    BY DEF Paths
  <2>2. Len(t) \in Nat
    BY PathIs
  <2> QED BY <2>1, <2>2, SubSeqEmpty
<1>1. PICK f : /\ f[0] = Front(link)
               /\ \A n \in 1..Len(t) : f[n] = Read(f[n - 1], t[n])
               /\ ResolveLink(link, t) = f[Len(t)]
  BY <1>0, ReadTurns
<1> DEFINE S == {k \in 0..Len(t) : f[k] = P \o a(k)}
<1>2. 0 \in S
  <2>1. a(0) = d
    BY <1>0, DescendNothing
  <2> HIDE DEF a
  <2> QED BY <1>0, <1>1, <2>1
<1>3. ASSUME NEW k \in 0..(Len(t) - 1), f[k] = P \o a(k), NEW m, m = k + 1
      PROVE  f[m] = P \o a(m)
  <2>1. m \in 1..Len(t) /\ m \in 0..Len(t) /\ k \in 0..Len(t) /\ m - 1 = k /\ t[m] \in Words
    BY <1>0, <1>3, PathIs
  <2>2. a(m) = Enter(a(k), t[m])
    BY <1>3, <2>1, DescendTypes
  <2>3. a(m) # NoFile /\ a(m) \in Paths \cup {NoFile} /\ a(k) \in Paths \cup {NoFile}
    BY <2>1, DescendTypes
  <2>4. a(k) \in Paths
    <3>1. a(k) # NoFile
      BY <2>1, DescendTypes
    <3> QED BY <2>3, <3>1
  <2>5. f[m] = Read(f[k], t[m])
    BY <1>1, <2>1
  <2>6. PICK x, w : x = a(k) /\ w = t[m]
    OBVIOUS
  <2> HIDE DEF a
  <2>7. x \in Paths /\ w \in Words /\ a(m) = Enter(x, w) /\ Enter(x, w) # NoFile
    BY <2>1, <2>2, <2>3, <2>4, <2>6
  <2>8. Read(P \o x, w) = P \o Enter(x, w)
    BY <2>7, ReadBelow
  <2>9. f[m] = Read(P \o x, w)
    BY <1>3, <2>5, <2>6
  <2> QED BY <2>7, <2>8, <2>9
<1>4. \A k \in 0..(Len(t) - 1) : k \in S => k + 1 \in S
  <2> HIDE DEF a
  <2> SUFFICES ASSUME NEW k \in 0..(Len(t) - 1), f[k] = P \o a(k)
               PROVE  f[k + 1] = P \o a(k + 1) /\ k + 1 \in 0..Len(t)
    OBVIOUS
  <2>1. k + 1 \in 0..Len(t)
    BY <1>0
  <2>2. PICK m : m = k + 1
    OBVIOUS
  <2>3. f[m] = P \o a(m)
    BY <1>3, <2>2
  <2> QED BY <2>1, <2>2, <2>3
<1>5. \A k \in 0..Len(t) : k \in S
  <2> HIDE DEF S
  <2> QED BY <1>0, <1>2, <1>4, EveryNaturalUpTo
<1>6. f[Len(t)] = P \o a(Len(t))
  <2> HIDE DEF a
  <2> QED BY <1>0, <1>5
<1> QED BY <1>0, <1>1, <1>6

\* The member that create finds at the place of an entry is that entry.
LEMMA MemberOfEntry ==
  ASSUME Accepted, NEW k, NEW p \in Of(k), NEW i, i = MemberAt(Prefix \o p)
  PROVE  i # 0 /\ i \in DOMAIN archive /\ archive[i] = At(p) /\ archive[i].kind = k
<1>1. PICK j \in Kept : /\ archive[j].kind = k /\ Mapped(archive[j].path) = p /\ At(p) = archive[j]
                        /\ \A l \in Kept : Fold(Mapped(archive[l].path)) = Fold(p) => l = j
  BY EntryBehind
<1>2. j \in DOMAIN archive /\ archive[j].path = Prefix \o p
  BY <1>1, KeptIs
<1>3. i # 0 /\ i \in DOMAIN archive /\ archive[i].path = Prefix \o p
  BY <1>2, MemberAtIs DEF Accepted
<1>4. i \in Kept /\ Mapped(archive[i].path) = p
  BY <1>1, <1>2, <1>3 DEF Kept
<1>5. i = j
  BY <1>1, <1>4
<1> QED BY <1>1, <1>3, <1>5

\* A member that is no directory, below the one everything is in, is an entry.
LEMMA MemberIsEntry ==
  ASSUME Accepted, NEW q \in Paths, NEW i \in DOMAIN archive, archive[i].path = Prefix \o q,
         archive[i].kind \in {"file", "symlink", "hardlink"}
  PROVE  q \in Of(archive[i].kind) /\ q \in Of("file") \cup Linked
<1>1. Mapped(archive[i].path) = q /\ Prefix \o q \in Paths
  BY MappedBack DEF Accepted
<1>2. q # <<>>
  <2>1. SUFFICES ASSUME q = <<>> PROVE FALSE
    OBVIOUS
  <2>2. archive[i].path = Prefix
    <3>1. \A x \in Paths : x \o <<>> = x
      BY DEF Paths
    <3>2. Prefix \in Paths
      BY PrefixTypes DEF Accepted
    <3> QED BY <2>1, <3>1, <3>2
  <2>3. archive[i].path # <<>>
    BY DEF Accepted, Validate, Readable, SafePath
  <2> QED BY <2>2, <2>3, PrefixTypes DEF Accepted
<1>3. i \in Kept
  BY <1>1, <1>2 DEF Kept
<1>4. q \in Of(archive[i].kind)
  BY <1>1, <1>3 DEF Of
<1> QED BY <1>4 DEF Linked

\* Where create is after a number of links, from a path in a stage.
End(q, n) == Chase(LinkMembers, Prefix \o q, n)

FileAt(x) == MemberAt(x) # 0 /\ archive[MemberAt(x)].kind = "file"

EndsIn(q, n) == FileAt(End(q, n))

\* What create reads at a path in a stage.
ReadAt ==
    [q \in Paths |->
       IF \E n \in Nat : EndsIn(q, n)
         THEN archive[MemberAt(End(q, CHOOSE n \in Nat : EndsIn(q, n)))].content
       ELSE NoFile]

LEMMA FileEnds ==
  ASSUME archive \in Seq(Members), NEW x, FileAt(x)
  PROVE  x \notin DOMAIN LinkMembers
<1>1. \A y \in DOMAIN LinkMembers : archive[MemberAt(y)].kind \in Links
  BY DEF LinkMembers
<1> QED BY <1>1 DEF FileAt, Links

\* However many links it may follow, what it reads is the same.
LEMMA ReadAtIs ==
  ASSUME archive \in Seq(Members), NEW q \in Paths, NEW n \in Nat, EndsIn(q, n)
  PROVE  ReadAt[q] = archive[MemberAt(End(q, n))].content /\ ReadAt[q] # NoFile
<1>1. PICK m : m = CHOOSE k \in Nat : EndsIn(q, k)
  OBVIOUS
<1>2. m \in Nat /\ EndsIn(q, m)
  BY <1>1
<1>3. ReadAt[q] = archive[MemberAt(End(q, m))].content
  BY <1>1 DEF ReadAt
<1>4. ASSUME NEW k \in Nat, NEW l \in Nat, EndsIn(q, k), k <= l
      PROVE  End(q, l) = End(q, k)
  <2>1. End(q, k) \notin DOMAIN LinkMembers
    BY <1>4, FileEnds DEF EndsIn
  <2> QED BY <1>4, <2>1, ChaseStays DEF End
<1>5. End(q, m) = End(q, n)
  <2>1. m <= n \/ n <= m
    BY <1>2
  <2> QED BY <1>2, <1>4, <2>1
<1>6. PICK i : i = MemberAt(End(q, n))
  OBVIOUS
<1>7. i \in DOMAIN archive /\ archive[i].kind = "file"
  BY <1>6, MemberAtIs DEF EndsIn, FileAt
<1>8. archive[i].content # NoFile
  BY <1>7, MemberTypes
<1> QED BY <1>3, <1>5, <1>6, <1>8

LEMMA ReadAtEnds ==
  ASSUME NEW q \in Paths, ReadAt[q] # NoFile
  PROVE  \E n \in Nat : EndsIn(q, n)
BY DEF ReadAt

\* What is read at a path is of an entry there.
LEMMA ReadAtEntry ==
  ASSUME Accepted, NEW q \in Paths, ReadAt[q] # NoFile
  PROVE  q \in Of("file") \cup Linked
<1>1. PICK n \in Nat : EndsIn(q, n)
  BY ReadAtEnds
<1>2. PICK x, i : x = Prefix \o q /\ i = MemberAt(x)
  OBVIOUS
<1>3. i # 0 /\ archive[i].kind \in {"file", "symlink", "hardlink"}
  <2>1. CASE x \in DOMAIN LinkMembers
    <3>1. x \in {archive[j].path : j \in DOMAIN archive} /\ archive[i].kind \in Links
      BY <1>2, <2>1 DEF LinkMembers
    <3> QED BY <1>2, <3>1, MemberAtIs DEF Accepted, Links
  <2>2. CASE x \notin DOMAIN LinkMembers
    <3>1. End(q, n) = x
      BY <1>2, <2>2, ChaseNone DEF End
    <3> QED BY <1>1, <1>2, <3>1 DEF EndsIn, FileAt
  <2> QED BY <2>1, <2>2
<1>4. i \in DOMAIN archive /\ archive[i].path = Prefix \o q
  BY <1>2, <1>3, MemberAtIs DEF Accepted
<1> QED BY <1>3, <1>4, MemberIsEntry

\* Reading a link reads what it leads to.
LEMMA ReadAtLink ==
  ASSUME Accepted, NEW p \in Linked, ReadAt[p] # NoFile
  PROVE  ReadAt[Target(p)] = ReadAt[p]
<1>1. PICK k : k \in Links /\ p \in Of(k)
  BY DEF Linked, Links
<1>2. /\ p \in Paths /\ p # <<>> /\ At(p).kind = k /\ At(p).target \in Paths
      /\ Prefix \o p = At(p).path /\ Target(p) \in Paths
  BY <1>1, OfIs, TargetIs DEF Downward
<1>3. PICK n \in Nat : EndsIn(p, n)
  BY <1>2, ReadAtEnds
<1>4. PICK x, i : x = Prefix \o p /\ i = MemberAt(x)
  OBVIOUS
<1>5. i # 0 /\ i \in DOMAIN archive /\ archive[i] = At(p) /\ archive[i].kind = k
  BY <1>1, <1>4, MemberOfEntry
<1>6. x \in DOMAIN LinkMembers /\ LinkMembers[x] = PointsTo(At(p))
  <2>1. archive[i].path = x
    BY <1>2, <1>4, <1>5
  <2> QED BY <1>1, <1>4, <1>5, <2>1 DEF LinkMembers
<1>7. End(p, 0) = x
  BY <1>4, ChaseAgain DEF End
<1>8. n # 0
  <2>1. ~FileAt(x)
    BY <1>6, FileEnds DEF Accepted
  <2> QED BY <1>3, <1>7, <2>1 DEF EndsIn
<1>9. PICK m : m \in Nat /\ n = m + 1
  <2>1. n - 1 \in Nat /\ n = (n - 1) + 1
    BY <1>8
  <2> QED BY <2>1
<1>10. PICK y : y = PointsTo(At(p))
  OBVIOUS
<1>11. End(p, n) = Chase(LinkMembers, y, m)
  <2>1. Hop(LinkMembers, x) = y
    BY <1>6, <1>10 DEF Hop
  <2>2. Chase(LinkMembers, x, n) = Chase(LinkMembers, Hop(LinkMembers, x), m)
    BY <1>9, ChaseFirst
  <2> QED BY <1>4, <2>1, <2>2 DEF End
<1>12. y = Prefix \o Target(p)
  <2>1. CASE k = "symlink"
    <3>1. PICK j \in Kept : archive[j].kind = "symlink" /\ Mapped(archive[j].path) = p /\ At(p) = archive[j]
      BY <1>1, <2>1, EntryBehind
    <3>2. LinkPath(Front(p), At(p).target) # NoFile
      BY <3>1 DEF Accepted, Validate, LinksOk
    <3>3. /\ Target(p) = LinkPath(Front(p), At(p).target)
          /\ Target(p) = Descend(Front(p), At(p).target)
      BY <1>1, <2>1, <3>2 DEF Target, LinkPath
    <3>4. Prefix \in Paths /\ Front(p) \in Paths /\ Front(At(p).path) = Prefix \o Front(p)
      <4>1. Prefix \in Paths
        BY PrefixTypes DEF Accepted
      <4>2. Front(Prefix \o p) = Prefix \o Front(p) /\ Front(p) \in Paths
        BY <1>2, <4>1, ConcatFront
      <4> QED BY <1>2, <4>1, <4>2
    <3>5. ResolveLink(At(p).path, At(p).target) = Prefix \o Descend(Front(p), At(p).target)
      <4>1. PICK P, d, t, link : P = Prefix /\ d = Front(p) /\ t = At(p).target /\ link = At(p).path
        OBVIOUS
      <4>2. /\ P \in Paths /\ d \in Paths /\ t \in Paths /\ Front(link) = P \o d
            /\ Descend(d, t) # NoFile
        BY <1>2, <3>2, <3>3, <3>4, <4>1
      <4>3. ResolveLink(link, t) = P \o Descend(d, t)
        BY <4>2, ReadDescend
      <4> QED BY <4>1, <4>3
    <3>6. y = ResolveLink(At(p).path, At(p).target)
      BY <1>2, <1>10, <2>1 DEF PointsTo
    <3> QED BY <3>3, <3>5, <3>6
  <2>2. CASE k = "hardlink"
    <3>1. y = At(p).target /\ Target(p) = Mapped(At(p).target)
      BY <1>1, <1>2, <1>10, <2>2, Disjoint DEF PointsTo, Target
    <3>2. IsPrefix(Prefix, y)
      <4>1. SUFFICES ASSUME ~IsPrefix(Prefix, y) PROVE FALSE
        OBVIOUS
      <4>2. \A j \in DOMAIN archive : archive[j].path # y
        BY <4>1, PrefixTypes DEF Accepted
      <4>3. y \notin DOMAIN LinkMembers
        BY <4>2 DEF LinkMembers
      <4>4. Chase(LinkMembers, y, m) = y
        BY <1>9, <4>3, ChaseNone
      <4>5. MemberAt(y) = 0
        BY <4>2, MemberAtIs DEF Accepted
      <4> QED BY <1>3, <1>11, <4>4, <4>5 DEF EndsIn, FileAt
    <3>3. Prefix \o Mapped(y) = y
      BY <1>2, <3>1, <3>2, MappedIs DEF Accepted
    <3> QED BY <3>1, <3>3
  <2> QED BY <1>1, <2>1, <2>2 DEF Links
<1>13. End(p, n) = End(Target(p), m)
  BY <1>11, <1>12 DEF End
<1>14. EndsIn(Target(p), m)
  BY <1>3, <1>13 DEF EndsIn
<1> QED BY <1>2, <1>3, <1>9, <1>13, <1>14, ReadAtIs DEF Accepted

LEMMA ReadAtSound ==
  ASSUME Accepted
  PROVE  Sound(ReadAt) /\ Exact(ReadAt)
<1>1. ASSUME NEW p \in Of("file") PROVE ReadAt[p] = At(p).content
  <2>1. PICK x, i, n : n = 0 /\ x = Prefix \o p /\ i = MemberAt(x)
    OBVIOUS
  <2>2. i # 0 /\ i \in DOMAIN archive /\ archive[i] = At(p) /\ archive[i].kind = "file"
    BY <2>1, MemberOfEntry
  <2>3. End(p, n) = x
    BY <2>1, ChaseAgain DEF End
  <2>4. EndsIn(p, n) /\ n \in Nat /\ p \in Paths
    BY <2>1, <2>2, <2>3, OfIs DEF EndsIn, FileAt
  <2> QED BY <2>1, <2>2, <2>3, <2>4, ReadAtIs DEF Accepted
<1>2. \A p \in Linked : ReadAt[p] # NoFile => ReadAt[Target(p)] = ReadAt[p]
  BY ReadAtLink
<1>3. Exact(ReadAt)
  BY ReadAtEntry DEF Exact
<1>4. \A q \in Paths : ReadAt[q] # NoFile => \E x \in Of("file") \cup Linked : Fold(x) = Fold(q)
  BY <1>3 DEF Exact
<1>5. \A p \in Of("symlink") : p \in Linked /\ Target(p) = LinkPath(Front(p), At(p).target)
  BY DEF Target, Linked
<1>6. \A p \in Of("hardlink") : p \in Linked /\ Target(p) = Mapped(At(p).target)
  BY Disjoint DEF Target, Linked
<1>7. Sound(ReadAt)
  <2> HIDE DEF ReadAt
  <2> QED BY <1>1, <1>2, <1>4, <1>5, <1>6 DEF Sound
<1> QED BY <1>3, <1>7

\* What create read of a command is what is read at its path in a stage.
LEMMA CommandIsRead ==
  ASSUME Accepted, NEW i \in DOMAIN archive, command = archive[i].path,
         read = Assemble(command), read # NoFile
  PROVE  /\ Mapped(command) \in Paths /\ Downward(Mapped(command))
         /\ ReadAt[Mapped(command)] = read
<1>1. PICK p : p = Mapped(command)
  OBVIOUS
<1>2. p \in Paths /\ command = Prefix \o p
  <2>1. command \in Paths /\ IsPrefix(Prefix, command)
    BY PrefixTypes, MemberTypes DEF Accepted
  <2> QED BY <1>1, <2>1, MappedIs DEF Accepted
<1>3. PICK end : end = MemberAt(End(p, LinkDepth))
  OBVIOUS
<1>4. read = IF end # 0 /\ archive[end].kind = "file" THEN archive[end].content ELSE NoFile
  BY <1>2, <1>3 DEF Assemble, End
<1>5. EndsIn(p, LinkDepth) /\ read = archive[end].content
  BY <1>3, <1>4 DEF EndsIn, FileAt
<1>6. LinkDepth \in Nat
  BY LimitsAreNumbers
<1>7. ReadAt[p] = read
  BY <1>2, <1>3, <1>5, <1>6, ReadAtIs DEF Accepted
<1>8. p \in Of("file") \cup Linked
  BY <1>2, <1>7, ReadAtEntry
<1>9. Downward(p)
  BY <1>8, OfIs DEF Linked
<1> QED BY <1>1, <1>2, <1>7, <1>9

-----------------------------------------------------------------------------
(* What is installed.                                                      *)

\* A command's content in a stage: what create read of it, what a host with
\* copies finds behind its path.
RightContent(h, f) ==
    /\ read # NoFile /\ (h = "unix" => Plain) => f = read
    /\ h = "windows" => f = Behind[Mapped(command)] /\ Behind[Mapped(command)] # NoFile
    /\ h = "unix" /\ Plain /\ Behind[Mapped(command)] # NoFile => f = Behind[Mapped(command)]

LEMMA BehindDownward ==
  ASSUME Accepted, SafePath(command), command \in Paths, Behind[Mapped(command)] # NoFile
  PROVE  Mapped(command) \in Paths /\ Downward(Mapped(command))
<1>1. PICK p : p = Mapped(command)
  OBVIOUS
<1>2. p \in Paths /\ \A j \in 1..Len(p) : \E k \in 1..Len(command) : p[j] = command[k]
  BY <1>1, MappedIs DEF Accepted
<1>3. PICK x \in Of("file") \cup Linked : Fold(x) = Fold(p)
  <2>1. FileBehind(Fold(p)) # NoFile
    BY <1>1, <1>2 DEF Behind
  <2> QED BY <1>2, <2>1, BehindEntry
<1>4. p # <<>>
  <2>1. x \in Paths /\ x # <<>>
    BY OfIs DEF Linked, Downward
  <2>2. Len(x) # 0
    BY <2>1, EmptySeq DEF Paths
  <2>3. Len(p) = Len(x)
    BY <1>2, <1>3, <2>1, FoldIs
  <2> QED BY <2>2, <2>3
<1>5. Downward(command)
  BY SafeIsDownward
<1>6. \A j \in 1..Len(p) : p[j] \notin Unsafe \cup {Up, Slash}
  BY <1>2, <1>5 DEF Downward
<1> QED BY <1>1, <1>2, <1>4, <1>6 DEF Downward

LEMMA ContentIsRight ==
  ASSUME archive \in Seq(Members), NEW h \in Hosts, NEW tree, tree = Tree(h), tree # NoFile,
         NEW i \in DOMAIN archive, command = archive[i].path, read = Assemble(command),
         NEW f, f = FindCommand(h, tree), f # NoFile
  PROVE  RightContent(h, f)
<1>1. Accepted
  BY DEF Tree, Accepted
<1>2. command \in Paths /\ SafePath(command) /\ Mapped(command) \in Paths
  <2>1. command \in Paths
    BY MemberTypes
  <2>2. SafePath(command)
    BY DEF FindCommand
  <2> QED BY <2>1, <2>2, MappedIs
<1>3. PICK p : p = Mapped(command)
  OBVIOUS
<1>4. Sound(ReadAt) /\ Exact(ReadAt) /\ Sound(Behind)
  BY <1>1, ReadAtSound, BehindSound
<1>5. read # NoFile => ReadAt[p] = read /\ Downward(p)
  BY <1>1, <1>3, CommandIsRead
<1>6. CASE h = "unix"
  <2>1. tree = UnixTree /\ f = FindCommand("unix", tree)
    BY <1>6 DEF Tree
  <2>2. ASSUME read # NoFile, Plain PROVE f = read
    <3>1. PICK B, c : B = ReadAt /\ c = read
      OBVIOUS
    <3>2. Sound(B) /\ c # NoFile /\ B[Mapped(command)] = c /\ Downward(Mapped(command))
      BY <1>3, <1>4, <1>5, <2>2, <3>1
    <3>3. f = c
      BY <1>1, <2>1, <2>2, <3>2, UnixMeans
    <3> QED BY <3>1, <3>3
  <2>3. ASSUME Plain, Behind[p] # NoFile PROVE f = Behind[p]
    <3>1. PICK B, c : B = Behind /\ c = Behind[p]
      OBVIOUS
    <3>2. Sound(B) /\ c # NoFile /\ B[Mapped(command)] = c
      BY <1>3, <1>4, <2>3, <3>1
    <3>3. Downward(Mapped(command))
      BY <1>1, <1>2, <1>3, <2>3, BehindDownward
    <3>4. f = c
      BY <1>1, <2>1, <2>3, <3>2, <3>3, UnixMeans
    <3> QED BY <3>1, <3>4
  <2> QED BY <1>3, <1>6, <2>2, <2>3 DEF RightContent
<1>7. CASE h = "windows"
  <2>1. tree = MaterializedTree /\ f = FindCommand("windows", tree)
    BY <1>7 DEF Tree
  <2>2. f = Behind[p] /\ Behind[p] # NoFile
    BY <1>1, <1>2, <1>3, <2>1, WindowsMeans
  <2>3. ASSUME read # NoFile PROVE f = read
    <3>1. PICK B, c : B = ReadAt /\ c = read
      OBVIOUS
    <3>2. Sound(B) /\ Exact(B) /\ c # NoFile /\ B[p] = c /\ p \in Paths
      BY <1>2, <1>3, <1>4, <1>5, <2>3, <3>1
    <3>3. Behind[p] = c
      BY <1>1, <2>2, <3>2, BehindMeans
    <3> QED BY <2>2, <3>1, <3>3
  <2> QED BY <1>3, <1>7, <2>2, <2>3 DEF RightContent
<1> QED BY <1>6, <1>7 DEF Hosts

\* What is said of a command depends on the archive alone.
LEMMA SameMeaning ==
  ASSUME archive' = archive
  PROVE  Behind' = Behind /\ Plain' = Plain /\ \A p : Mapped(p)' = Mapped(p)
<1>1. Prefix' = Prefix
  BY DEF Prefix
<1>2. \A p : Mapped(p)' = Mapped(p)
  BY <1>1 DEF Mapped
<1>3. Kept' = Kept
  BY <1>2 DEF Kept
<1>4. \A kind : Of(kind)' = Of(kind)
  BY <1>2, <1>3 DEF Of
<1>5. \A p : At(p)' = At(p)
  BY SMT DEF At, Kept, Mapped, Prefix
<1>6. Linked' = Linked
  BY <1>4 DEF Linked
<1>7. Files' = Files
  BY <1>4, <1>5 DEF Files
<1>8. \A p : LinkTarget(p)' = LinkTarget(p)
  BY <1>2, <1>5 DEF LinkTarget
<1>9. KeyTargets' = KeyTargets
  BY <1>6, <1>8 DEF KeyTargets
<1>10. ASSUME NEW CONSTANT key PROVE FileBehind(key)' = FileBehind(key)
  <2> DEFINE end == Chase(KeyTargets, key, Len(archive))
             files == {p \in Of("file") : Fold(p) = end}
  <2>1. end' = end
    BY <1>9
  <2>2. files' = files
    BY <1>4, <2>1
  <2>3. FileBehind(key) = IF files = {} THEN NoFile ELSE CHOOSE p \in files : TRUE
    BY DEF FileBehind
  <2>4. FileBehind(key)' = IF files' = {} THEN NoFile ELSE CHOOSE p \in files' : TRUE
    BY DEF FileBehind
  <2> HIDE DEF files
  <2> QED BY <2>2, <2>3, <2>4
<1>11. Behind' = Behind
  BY <1>7, <1>10 DEF Behind
<1>12. \A m : ClimbsFromLink(m)' = ClimbsFromLink(m)
  BY <1>2, <1>4 DEF ClimbsFromLink
<1>13. Plain' = Plain
  BY <1>12 DEF Plain
<1> QED BY <1>2, <1>11, <1>13

LEMMA SameAssemble ==
  ASSUME archive' = archive, NEW CONSTANT c
  PROVE  Assemble(c)' = Assemble(c)
<1>1. \A p : MemberAt(p)' = MemberAt(p)
  BY DEF MemberAt, SelectInSeq
<1>2. LinkMembers' = LinkMembers
  BY <1>1 DEF LinkMembers
<1>3. \A x : (IF MemberAt(x) # 0 /\ archive[MemberAt(x)].kind = "file"
              THEN archive[MemberAt(x)].content ELSE NoFile)'
            = IF MemberAt(x) # 0 /\ archive[MemberAt(x)].kind = "file"
                THEN archive[MemberAt(x)].content ELSE NoFile
  BY <1>1
<1> QED BY <1>2, <1>3 DEF Assemble

-----------------------------------------------------------------------------
(* The state machine.                                                      *)

\* What is said of a stage depends on the archive alone.
LEMMA SameTree ==
  ASSUME archive' = archive, NEW CONSTANT tree
  PROVE  ConfinedTree(tree)' = ConfinedTree(tree) /\ WithinTree(tree)' = WithinTree(tree)
<1>1. Prefix' = Prefix
  BY DEF Prefix
<1>2. \A p : Mapped(p)' = Mapped(p)
  BY <1>1 DEF Mapped
<1>3. Kept' = Kept
  BY <1>2 DEF Kept
<1>4. \A kind : Of(kind)' = Of(kind)
  BY <1>2, <1>3 DEF Of
<1>5. \A p : Turns(p)' = Turns(p)
  BY DEF Turns
<1>6. \A s : Follow(tree, FALSE, s)' = Follow(tree, FALSE, s)
  BY <1>4 DEF Follow
<1>7. ASSUME NEW CONSTANT p PROVE Resolve(tree, p)' = Resolve(tree, p)
  <2>1. [s \in {t \in Walks : t.todo # <<>>} |-> Follow(tree, FALSE, s)]'
          = [s \in {t \in Walks : t.todo # <<>>} |-> Follow(tree, FALSE, s)]
    BY <1>6
  <2>2. QED
    BY <1>5, <2>1 DEF Resolve, ResolvedLink
<1>8. ConfinedTree(tree)' = ConfinedTree(tree)
  BY <1>2, <1>7 DEF ConfinedTree
<1>9. \A m : BytesIn(tree, m)' = BytesIn(tree, m)
  BY <1>2 DEF BytesIn
<1>10. WithinTree(tree)' = WithinTree(tree)
  BY <1>9 DEF WithinTree
<1>11. QED
  BY <1>8, <1>10

\* An archive is made of members, and nobody unpacks one that is not published.
Packing ==
    /\ archive \in Seq(Members) /\ DOMAIN staged = Hosts
    /\ phase # "published" => Unpacked = {}

\* Once it is published, the document names a member, and what create read of it.
Recorded ==
    phase = "published" =>
      \E c : /\ command = c /\ read = Assemble(c)
             /\ \E i \in DOMAIN archive : archive[i].path = c

GoodStage(h, unpacked) ==
    ConfinedTree(unpacked.tree) /\ WithinTree(unpacked.tree) /\ RightContent(h, unpacked.content)

GoodStages == \A h \in Unpacked : GoodStage(h, staged[h])

ArchiveInv == Packing /\ Recorded /\ GoodStages

LEMMA ResolveBinIs ==
  ASSUME NEW bin, ResolveBin(bin) # NoFile
  PROVE  \E i \in DOMAIN archive : archive[i].path = ResolveBin(bin)
<1> DEFINE named == {i \in Entries : Last(archive[i].path) = Last(bin)}
           shallowest == {i \in named : \A j \in named :
                            Len(archive[i].path) <= Len(archive[j].path)}
<1>1. Entries \subseteq DOMAIN archive
  BY DEF Entries
<1>2. CASE Len(bin) > 1
  BY <1>1, <1>2 DEF ResolveBin
<1>3. CASE ~(Len(bin) > 1)
  <2>1. ResolveBin(bin) = IF Cardinality(shallowest) # 1 THEN NoFile
                          ELSE archive[CHOOSE i \in shallowest : TRUE].path
    BY <1>3 DEF ResolveBin
  <2>2. shallowest \subseteq DOMAIN archive
    BY <1>1
  <2> HIDE DEF shallowest
  <2>3. Cardinality(shallowest) = 1
    BY <2>1
  <2>4. shallowest # {}
    BY <2>3, FS_EmptySet
  <2> QED BY <2>1, <2>2, <2>3, <2>4
<1> QED BY <1>2, <1>3

LEMMA ArchiveInitInv == ArchiveInit => ArchiveInv
<1>1. ASSUME ArchiveInit PROVE archive \in Seq(Members) /\ DOMAIN staged = Hosts /\ Unpacked = {}
  BY <1>1 DEF ArchiveInit, Unpacked
<1> QED BY <1>1 DEF ArchiveInit, ArchiveInv, Packing, Recorded, GoodStages

\* While the archive stays as it is, good stages stay good.
LEMMA StagesStayGood ==
  ASSUME archive' = archive, command' = command, read' = read, GoodStages, DOMAIN staged' = Hosts,
         \A h \in Hosts : staged'[h] # NoFile =>
           (staged[h] # NoFile /\ staged'[h] = staged[h]) \/ GoodStage(h, staged'[h])
  PROVE  GoodStages'
<1>1. SUFFICES ASSUME NEW h \in Hosts, staged'[h] # NoFile PROVE GoodStage(h, staged[h])'
  BY DEF GoodStages, Unpacked
<1>2. PICK unpacked : unpacked = staged'[h]
  OBVIOUS
<1>3. GoodStage(h, unpacked)
  BY <1>1, <1>2 DEF GoodStages, Unpacked
<1>4. PICK tree, f : tree = unpacked.tree /\ f = unpacked.content
  OBVIOUS
<1>5. ConfinedTree(tree)' /\ WithinTree(tree)'
  BY <1>3, <1>4, SameTree DEF GoodStage
<1>6. RightContent(h, f)'
  <2>1. RightContent(h, f)
    BY <1>3, <1>4 DEF GoodStage
  <2>2. Mapped(command)' = Mapped(command)
    BY DEF Mapped, Prefix
  <2>3. Behind' = Behind /\ Plain' = Plain
    BY SameMeaning
  <2> QED BY <2>1, <2>2, <2>3 DEF RightContent
<1>7. GoodStage(h, unpacked)'
  BY <1>4, <1>5, <1>6 DEF GoodStage
<1> QED BY <1>2, <1>7

LEMMA ExtractKeepsInv ==
  ASSUME ArchiveInv, NEW host \in Hosts, Extract(host)
  PROVE  ArchiveInv'
<1>1. PICK tree, found : /\ tree = Tree(host) /\ tree # NoFile
                         /\ found = FindCommand(host, tree) /\ found # NoFile
                         /\ staged' = [staged EXCEPT ![host] = [tree |-> tree, content |-> found]]
  BY DEF Extract
<1>2. /\ archive' = archive /\ command' = command /\ read' = read
      /\ phase' = phase /\ phase = "published"
  BY DEF Extract
<1>3. /\ DOMAIN staged' = Hosts /\ staged'[host] = [tree |-> tree, content |-> found]
      /\ \A h \in Hosts : h # host => staged'[h] = staged[h]
  BY <1>1 DEF ArchiveInv, Packing
<1>4. PICK c : /\ command = c /\ read = Assemble(c) /\ \E i \in DOMAIN archive : archive[i].path = c
  BY <1>2 DEF ArchiveInv, Recorded
<1>5. GoodStage(host, staged'[host])
  <2>1. ConfinedTree(tree) /\ WithinTree(tree)
    BY <1>1, TreeConfined, TreeWithin DEF ArchiveInv, Packing
  <2>2. RightContent(host, found)
    <3>1. read = Assemble(command)
      BY <1>4
    <3> QED BY <1>1, <1>4, <3>1, ContentIsRight DEF ArchiveInv, Packing
  <2>3. PICK unpacked : unpacked = staged'[host]
    OBVIOUS
  <2>4. unpacked.tree = tree /\ unpacked.content = found
    BY <1>3, <2>3
  <2> QED BY <2>1, <2>2, <2>3, <2>4 DEF GoodStage
<1>6. GoodStages'
  BY <1>2, <1>3, <1>5, StagesStayGood DEF ArchiveInv
<1>7. Packing'
  BY <1>2, <1>3 DEF ArchiveInv, Packing
<1>8. Recorded'
  <2>1. Assemble(c)' = Assemble(c)
    BY <1>2, SameAssemble
  <2>2. command' = c /\ read' = Assemble(c)' /\ \E i \in DOMAIN archive' : archive'[i].path = c
    BY <1>2, <1>4, <2>1
  <2> QED BY <2>2 DEF Recorded
<1> QED BY <1>6, <1>7, <1>8 DEF ArchiveInv

LEMMA CreateKeepsInv ==
  ASSUME ArchiveInv, NEW bin \in Commands, Create(bin)
  PROVE  ArchiveInv'
<1>1. Unpacked' = {} /\ Packing'
  BY DEF Create, ArchiveInv, Packing, Unpacked
<1>2. GoodStages'
  BY <1>1 DEF GoodStages
<1>3. Recorded'
  <2>1. PICK c : c = ResolveBin(bin)
    OBVIOUS
  <2>2. archive' = archive /\ command' = c /\ (c # NoFile => read' = Assemble(c))
    BY <2>1 DEF Create
  <2>3. phase' = "published" => c # NoFile
    BY <2>1 DEF Create
  <2>4. Assemble(c)' = Assemble(c)
    BY <2>2, SameAssemble
  <2>5. c # NoFile => \E i \in DOMAIN archive' : archive'[i].path = c
    BY <2>1, <2>2, ResolveBinIs
  <2>6. c # NoFile => /\ command' = c /\ read' = Assemble(c)'
                      /\ \E i \in DOMAIN archive' : archive'[i].path = c
    BY <2>2, <2>4, <2>5
  <2> QED BY <2>3, <2>6 DEF Recorded
<1> QED BY <1>1, <1>2, <1>3 DEF ArchiveInv

LEMMA AddMemberKeepsInv ==
  ASSUME ArchiveInv, NEW m \in Members, AddMember(m)
  PROVE  ArchiveInv'
<1>1. Unpacked' = {} /\ phase' # "published"
  BY DEF AddMember, ArchiveInv, Packing, Unpacked
<1>2. archive' \in Seq(Members)
  BY DEF AddMember, ArchiveInv, Packing
<1>3. Packing'
  BY <1>1, <1>2 DEF AddMember, ArchiveInv, Packing
<1>4. GoodStages' /\ Recorded'
  BY <1>1 DEF GoodStages, Recorded
<1> QED BY <1>3, <1>4 DEF ArchiveInv

LEMMA ArchiveStutter ==
  ASSUME ArchiveInv, UNCHANGED archiveVars
  PROVE  ArchiveInv'
<1>1. /\ archive' = archive /\ command' = command /\ read' = read /\ staged' = staged
      /\ phase' = phase
  BY DEF archiveVars
<1>2. Packing'
  BY <1>1 DEF ArchiveInv, Packing, Unpacked
<1>3. DOMAIN staged' = Hosts
  BY <1>1 DEF ArchiveInv, Packing
<1>4. GoodStages'
  BY <1>1, <1>3, StagesStayGood DEF ArchiveInv
<1>5. Recorded'
  <2>1. SUFFICES ASSUME phase' = "published"
                 PROVE \E c : /\ command' = c /\ read' = Assemble(c)'
                              /\ \E i \in DOMAIN archive' : archive'[i].path = c
    BY DEF Recorded
  <2>2. PICK c : /\ command = c /\ read = Assemble(c) /\ \E i \in DOMAIN archive : archive[i].path = c
    BY <1>1, <2>1 DEF ArchiveInv, Recorded
  <2>3. Assemble(c)' = Assemble(c)
    BY <1>1, SameAssemble
  <2> QED BY <1>1, <2>2, <2>3
<1> QED BY <1>2, <1>4, <1>5 DEF ArchiveInv

\* The invariant of an archive's way from the vendor into the stages: a stage
\* is confined and within the limit, and its command is the right file.
THEOREM ArchiveInvariance == ArchiveSpec => []ArchiveInv
<1>1. ArchiveInv /\ [ArchiveNext]_archiveVars => ArchiveInv'
  BY ExtractKeepsInv, CreateKeepsInv, AddMemberKeepsInv, ArchiveStutter DEF ArchiveNext
<1> QED BY <1>1, ArchiveInitInv, PTL DEF ArchiveSpec

\* A stage is its entries, each at its own path, and every link of it, followed
\* by the rules of the system, stays inside: by the words of its target no link
\* leads out, nothing lies below a link, and what links lead to is looked at
\* again when all of them are there.
THEOREM LinksStayInside == ArchiveSpec => []Confined
<1>1. ArchiveInv => Confined
  BY DEF ArchiveInv, GoodStages, GoodStage, ConfinedTree, Confined
<1> QED BY <1>1, ArchiveInvariance, PTL

\* No archive fills a disk with copies of one file: what is in a stage is
\* within the limit, on hosts with links and on hosts with copies.
THEOREM StagesAreWithinLimits == ArchiveSpec => []WithinLimits
<1>1. ArchiveInv => WithinLimits
  BY DEF ArchiveInv, GoodStages, GoodStage, WithinTree, BytesIn, WithinLimits
<1> QED BY <1>1, ArchiveInvariance, PTL

\* The command that a host installs is the file that create read: who follows
\* a link by its words and who follows it on disk come to the same file, the
\* latter as long as no target goes up from the place of a link.
THEOREM WhatWasReadIsInstalled == ArchiveSpec => []ReadIsInstalled
<1>1. ArchiveInv => ReadIsInstalled
  BY DEF ArchiveInv, GoodStages, GoodStage, RightContent, ReadIsInstalled
<1> QED BY <1>1, ArchiveInvariance, PTL

\* Hosts that keep the links of an archive and hosts that resolve them to
\* copies install the same command, also where create found no file to read.
THEOREM EveryHostInstallsTheSame == ArchiveSpec => []PlatformsAgree
<1>1. ASSUME ArchiveInv, Unpacked = Hosts, Plain
      PROVE  staged["unix"].content = staged["windows"].content
  <2>1. RightContent("unix", staged["unix"].content)
    BY <1>1 DEF ArchiveInv, GoodStages, GoodStage, Hosts
  <2>2. RightContent("windows", staged["windows"].content)
    BY <1>1 DEF ArchiveInv, GoodStages, GoodStage, Hosts
  <2> QED BY <1>1, <2>1, <2>2 DEF RightContent
<1>2. ArchiveInv => PlatformsAgree
  BY <1>1 DEF PlatformsAgree
<1> QED BY <1>2, ArchiveInvariance, PTL
=============================================================================
