------------------------------ MODULE Discovery ------------------------------
(***************************************************************************)
(* src/install.rs: one run's search for the release it installs. The forge *)
(* and the list, verified and remembered as in TrustHistory, give          *)
(* candidates; their bundles are fetched in turn until one has a release   *)
(* that this host can use. Who may sign is TrustPolicy's question; here a   *)
(* bundle is genuine or it is not.                                         *)
(***************************************************************************)
EXTENDS Candidates

CONSTANTS
    Sites,        \* forges, and what their URLs lead to
    Publications, \* what vendors may give to `packslip releases`, None for no list
    Requests,
    MaxBundles    \* MAX_BUNDLES

ASSUME MaxBundlesAssumption == MaxBundles \in Nat
ASSUME SitesComplete ==
    \A site \in Sites :
        /\ DOMAIN site = {"forge", "releases", "latest", "bundle", "seen", "now"}
        /\ site.releases \in Seq(ToSet(site.releases))
        /\ \A r \in ToSet(site.releases) : IsText(r.tag) /\ r.assets \in Seq(ToSet(r.assets))
        /\ \A i, j \in DOMAIN Live(site) : Live(site)[i].tag = Live(site)[j].tag => i = j
        /\ \A slip \in {site.bundle[url] : url \in DOMAIN site.bundle} \ {None} :
             slip.project \in Names /\ slip.format \in {"v1", "future", "list"}
               /\ slip.host \in {"fits", "none", "ties"}
ASSUME LeadsAssumption == ">=" \notin Leads
ASSUME PublicationsComplete ==
    \A given \in Publications \ {None} :
        /\ DOMAIN given = ListOptions
        /\ given.listed \in Seq(ToSet(given.listed))
        /\ \A e \in ToSet(given.listed) : e.slip # None => IsText(e.slip.version)

\* A request is a text, with a whole version where it is a range.
ASSUME RequestsComplete ==
    \A text \in Requests \ {None} : IsText(text) /\ (text.lead = ">=" => Len(text.n) = 3)

\* What releases may say: those of the forges, and the bundles listed.
Public == UNION {ToSet(Live(site)) : site \in Sites}
Listed == {e \in UNION {ToSet(given.listed) : given \in Publications \ {None}} : e.slip # None}
AnyVersion == {r.version : r \in Public} \cup {e.slip.version : e \in Listed}
Releases ==
    [version : AnyVersion,
     tag : AnyVersion \cup {r.tag : r \in Public} \cup {e.slip.tag : e \in Listed},
     bundles : {r.bundles : r \in Public} \cup {<<e.url>> : e \in Listed},
     recommended : BOOLEAN]

AnyNumbers == [lead : {""}, n : Seq(Nat), rc : Nat, b : Nat]
AnyEntry ==
    [version : AnyVersion, tag : {e.slip.tag : e \in Listed}, packslip : {e.url : e \in Listed},
     yanked : BOOLEAN]

\* Having no release, entry, version or error is not having one.
ASSUME NoneAssumption ==
    None \notin Releases \cup AnyEntry \cup AnyNumbers \cup {"none", "yanked"}

VARIABLES
    site,       \* forge: whether the project is a repository of one; releases,
                \* latest; bundle: what is at a URL; seen: sequence; now
    list,       \* the signed list, None without
    request,
    offers,     \* the candidates
    pc,
    index,      \* the candidate at hand, and the bundle of it
    at,
    accepted,   \* the authenticated bundle of the candidate
    unknown,    \* a bundle of it could not be fetched or read
    fetched,    \* bundles, of all candidates so far
    skipped,    \* candidates passed over, and why
    outcome

lookup == <<index, at, accepted, unknown>>
vars == <<site, list, request, offers, pc, lookup, fetched, skipped, outcome>>

Init ==
    /\ site \in Sites
    /\ list = None /\ request = None /\ offers = Error("none")
    /\ pc = "publish"
    /\ index = 0 /\ at = 1 /\ accepted = None /\ unknown = FALSE
    /\ fetched = 0 /\ skipped = <<>> /\ outcome = "none"

-----------------------------------------------------------------------------
Selected == offers.releases[index]

\* run_in ends with an answer for the user.
End(result) == outcome' = result /\ pc' = "done"

\* The vendor's list, if there is one, of bundles that are at their URLs.
Publish ==
    /\ pc = "publish"
    /\ \E given \in Publications :
         \/ given = None /\ list' = None
         \/ /\ given # None
            /\ \A e \in ToSet(given.listed) : e.url \in DOMAIN site.bundle
            /\ list' = CreateReleaseList(given, site.now - 1)
            /\ list' # None
    /\ pc' = "ask"
    /\ UNCHANGED <<site, request, offers, lookup, fetched, skipped, outcome>>

\* A project named after its host has to have a list; an old list ends the run.
ListAccepted ==
    /\ list = None => site.forge
    /\ ListFreshness(list, site.seen, site.now)

Ask ==
    /\ pc = "ask"
    /\ request' \in Requests
    /\ offers' = CandidatesFor(Live(site), list, request', site.latest)
    /\ skipped' = offers'.skipped
    /\ IF ListAccepted /\ offers'.error = None
         THEN pc' = "next" /\ index' = 0 /\ UNCHANGED outcome
         ELSE End("refused") /\ UNCHANGED index
    /\ UNCHANGED <<site, list, at, accepted, unknown, fetched>>

\* Mutant: the bundles at hand are not counted.
MutantCountLate(i) == i > 1 /\ fetched > MaxBundles

\* The first candidate is always examined, a later one while its bundles fit.
OverBudget(i) == i > 1 /\ fetched + Len(offers.releases[i].bundles) > MaxBundles

Examine ==
    /\ pc = "next"
    /\ LET i == index + 1
       IN  IF i > Len(offers.releases) THEN End("nothing") /\ UNCHANGED <<lookup, fetched>>
           ELSE IF OverBudget(i) THEN End("stopped") /\ UNCHANGED <<lookup, fetched>>
           ELSE /\ index' = i /\ at' = 1 /\ accepted' = None /\ unknown' = FALSE
                /\ fetched' = fetched + Len(offers.releases[i].bundles)
                /\ pc' = "bundle" /\ UNCHANGED outcome
    /\ UNCHANGED <<site, list, request, offers, skipped>>

-----------------------------------------------------------------------------
(* Lookup::bundles.                                                        *)

\* Mutant: what cannot be read is nobody's.
MutantIgnoreUnreadable(slip) ==
    IF slip = None \/ slip.format = "list" \/ slip.project \in {"sibling", "stranger"} THEN "other"
    ELSE IF slip.format = "future" THEN "unsupported"
    ELSE "requested"

\* candidate(): what an unverified look at a bundle says it is.
Peek(slip) ==
    IF slip = None THEN "unreadable"
    ELSE IF slip.format = "list" \/ slip.project \in {"sibling", "stranger"} THEN "other"
    ELSE IF slip.format = "future" THEN "unsupported"
    ELSE "requested"

Verifies(slip) == slip # None /\ slip.genuine /\ slip.format = "v1"
                  /\ slip.project \in {"this", "renamed"}

\* Only a bundle of a forge that no list vouches for may be passed over.
MaySkip(url) == site.forge /\ DigestOf(list, url) = None

Advance(found, doubt) ==
    /\ at' = at + 1 /\ accepted' = found /\ unknown' = doubt
    /\ UNCHANGED <<pc, outcome>>

Fail == End("failed") /\ UNCHANGED <<at, accepted, unknown>>

Bundle(arrives) ==
    /\ pc = "bundle" /\ at <= Len(Selected.bundles)
    /\ LET url == Selected.bundles[at]
           slip == site.bundle[url]
           unread == ~arrives \/ Peek(slip) = "unreadable"
       IN  IF MaySkip(url) /\ unread THEN Advance(accepted, TRUE)
           ELSE IF ~arrives \/ DigestOf(list, url) \notin {None, slip} THEN Fail
           ELSE IF MaySkip(url) /\ Peek(slip) # "requested" THEN Advance(accepted, unknown)
           ELSE IF Verifies(slip) /\ accepted = None THEN Advance(slip, unknown)
           ELSE Fail
    /\ UNCHANGED <<site, list, request, offers, index, fetched, skipped>>

Bundles == \E arrives \in BOOLEAN : Bundle(arrives)

-----------------------------------------------------------------------------
\* check_release: the signed version is the selected one, the bytes are those
\* that the list has for it.
CheckRelease(slip) ==
    /\ slip.version = Selected.version
    /\ \A e \in ToSet(Entries(list)) :
         e.version = Selected.version => DigestOf(list, e.packslip) = slip

Skip(why) ==
    /\ skipped' = Append(skipped, [version |-> Selected.version, why |-> why])
    /\ pc' = "next" /\ UNCHANGED outcome

\* The end of one candidate. Only a request for the latest release passes over
\* one with no artifact for this host.
Check ==
    /\ pc = "bundle" /\ at > Len(Selected.bundles)
    /\ \/ accepted = None /\ unknown /\ End("failed") /\ UNCHANGED skipped
       \/ accepted = None /\ ~unknown /\ Skip("no packslip")
       \/ /\ accepted # None
          /\ IF ~CheckRelease(accepted) THEN End("failed") /\ UNCHANGED skipped
             ELSE IF accepted.host = "fits" THEN End("installed") /\ UNCHANGED skipped
             ELSE IF accepted.host = "none" /\ offers.latest THEN Skip("no artifact")
             ELSE End("failed") /\ UNCHANGED skipped
    /\ UNCHANGED <<site, list, request, offers, lookup, fetched>>

Next == Publish \/ Ask \/ Examine \/ Bundles \/ Check

Spec == Init /\ [][Next]_vars

-----------------------------------------------------------------------------
(* What the code is to offer and to install, said without merging.         *)

\* A release that stands: an entry that is not withdrawn, or a forge release
\* with bundles, if no entry has its version or decides on its tag.
Withdrawn(version) == \E e \in ToSet(Entries(list)) : e.yanked /\ e.version = version
Stands(version, bundles) ==
    \/ \E e \in ToSet(Entries(list)) :
         ~e.yanked /\ e.version = version /\ bundles = <<e.packslip>>
    \/ \E r \in ToSet(Live(site)) :
         /\ r.version = version /\ r.bundles = bundles /\ bundles # <<>>
         /\ \A e \in ToSet(Entries(list)) : e.version # version /\ e.tag # r.tag

\* The versions that a request for numbers or a range means.
Means(text, version) ==
    IF text.lead = ">=" THEN InRange(version, text)
    ELSE /\ Numeric(text) # None
         /\ text.rc = version.rc /\ text.b \in {0, version.b}
         /\ IsPrefix(Asked(text).n, version.n)
         /\ NumericPrefix(text) \/ Len(Asked(text).n) = 3

\* The versions that have the requested tag, by the list or on the forge.
TagOf(text, version) ==
    \/ \E e \in ToSet(Entries(list)) : e.tag = text /\ e.version = version
    \/ \E r \in ToSet(Live(site)) : r.tag = text /\ r.version = version

InOrder(releases) ==
    \A i, j \in DOMAIN releases : i < j => ~Above(releases[j].version, releases[i].version)

\* What a latest request is offered: all that stands and is no prerelease, in
\* descending order but for the one that the list, or else the forge,
\* recommends, which comes first or is reported.
LatestOffers ==
    LET standing == {r \in ToSet(Live(site)) : Stands(r.version, r.bundles)}
        entries == {e \in ToSet(Entries(list)) : ~e.yanked}
    IN  {<<r.version, r.bundles>> : r \in ToSet(offers.releases)}
          = {<<r.version, r.bundles>> : r \in {x \in standing : x.version.rc = 0}}
            \cup {<<e.version, <<e.packslip>>>> : e \in {x \in entries : x.version.rc = 0}}
Recommended(r) ==
    IF list # None /\ list.latest # None THEN r.version = list.latest ELSE r.tag = site.latest
Named ==
    IF list # None /\ list.latest # None THEN TRUE
    ELSE \/ \E r \in ToSet(Live(site)) : r.tag = site.latest
         \/ \E e \in ToSet(Entries(list)) : site.latest # None /\ e.tag = site.latest
LatestAsDefined ==
    LET first == {i \in DOMAIN offers.releases : Recommended(offers.releases[i])}
    IN  /\ LatestOffers
        /\ first \subseteq {1}
        /\ InOrder(IF first = {1} THEN Tail(offers.releases) ELSE offers.releases)
        /\ first = {} /\ offers.error = None /\ Named => offers.skipped # <<>>

\* What another request is offered: only what stands and was asked for; and it
\* fails only if there is nothing of the kind.
RequestAsDefined ==
    /\ \A r \in ToSet(offers.releases) :
         /\ Stands(r.version, r.bundles)
         /\ Means(request, r.version) \/ TagOf(request, r.version) \/ r.tag = request
    /\ InOrder(offers.releases)
    /\ offers.error = "none" =>
         \A version \in VersionsOf(Live(site), list) :
           Means(request, version) =>
             ~\E bundles \in {r.bundles : r \in ToSet(Live(site))}
                              \cup {<<e.packslip>> : e \in ToSet(Entries(list))} :
                Stands(version, bundles)
    /\ offers.error = "yanked" =>
         \E e \in ToSet(Entries(list)) :
           e.yanked /\ (Means(request, e.version) \/ TagOf(request, e.version))

\* An answer is a sequence of releases, each with a sequence of URLs.
AreSequences(answer) ==
    LET rs == answer.releases
    IN  /\ rs \in Seq(ToSet(rs))
        /\ \A i \in DOMAIN rs : rs[i].bundles \in Seq(ToSet(rs[i].bundles))

\* candidates_with_latest is right for every forge, list and request: "signed
\* list entries always decide withdrawal, tag, URL, and vendor recommendation",
\* "an explicit version never revives a yank", and nothing that stands is lost
\* where several tags name a version.
OffersAsDefined ==
    /\ AreSequences(offers)
    /\ pc \in {"next", "done"} /\ index = 0 /\ ListAccepted =>
         IF request = None THEN LatestAsDefined ELSE RequestAsDefined

\* install_in and Lookup::bundles: what is installed is genuine, of the version
\* that was selected, not withdrawn, and the very bytes that the list has; and
\* a release that would have come first is passed over only if all its bundles
\* arrived and none is the project's, or if a genuine one has no artifact for
\* this host, whatever became of the others.
PassedOver(r) ==
    LET slips == {site.bundle[url] : url \in ToSet(r.bundles)}
    IN  \/ \A slip \in slips : slip # None /\ Peek(slip) # "requested"
        \/ /\ offers.latest
           /\ \E slip \in slips : Verifies(slip) /\ slip.version = r.version /\ slip.host = "none"
RightRelease ==
    /\ outcome = "installed" =>
         /\ Verifies(accepted) /\ accepted.host = "fits"
         /\ accepted.version = Selected.version /\ ~Withdrawn(accepted.version)
         /\ \A e \in ToSet(Entries(list)) :
              e.version = accepted.version => list.digest[e.packslip] = accepted
    /\ outcome \in {"installed", "stopped", "nothing"} /\ pc = "done" =>
         \A i \in 1..(IF outcome = "installed" THEN index - 1 ELSE index) :
           PassedOver(offers.releases[i])

\* MAX_BUNDLES: "the first candidate is always examined in full, however many
\* bundles it has. A later one is examined only if the total, its bundles
\* included, stays within this budget"; and a search that stops had to.
FetchesBounded ==
    LET most(a, b) == IF a > b THEN a ELSE b
        first == IF offers.releases = <<>> THEN 0 ELSE Len(offers.releases[1].bundles)
    IN  /\ fetched <= most(first, MaxBundles)
        /\ outcome = "stopped" =>
             fetched + Len(offers.releases[index + 1].bundles) > MaxBundles
=============================================================================
