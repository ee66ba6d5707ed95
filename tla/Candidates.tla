----------------------------- MODULE Candidates ------------------------------
(***************************************************************************)
(* src/discovery.rs: which releases a request may install, and in what     *)
(* order: the forge's releases merged with the signed release list.        *)
(*                                                                         *)
(* A request is a text, None for the latest release. As a text it may name *)
(* a tag, a version, the beginning of one, or (lead ">=") a range.         *)
(***************************************************************************)
EXTENDS ReleaseList

CONSTANTS BundleNames   \* the names of files that are packslip bundles

\* The members of a sequence that are in a set, in their order.
Only(s, S) ==
    LET Found[n \in 0..Len(s)] ==
            IF n = 0 THEN <<>>
            ELSE IF s[n] \in S THEN Append(Found[n - 1], s[n]) ELSE Found[n - 1]
    IN  Found[Len(s)]

\* github(): a forge shows releases in its order, and says which is the latest.
\* Drafts and tags that name no version are left out.
Live(forge) ==
    LET public == {r \in ToSet(forge.releases) : ~r.draft /\ TagVersion(r.tag) # None}
        shown == Only(forge.releases, public)
        Bundles(r) == Only(r.assets, {url \in ToSet(r.assets) : url.name \in BundleNames})
    IN  [i \in DOMAIN shown |->
           [version |-> TagVersion(shown[i].tag), tag |-> shown[i].tag,
            bundles |-> Bundles(shown[i]), recommended |-> forge.latest = shown[i].tag]]

-----------------------------------------------------------------------------
(* Requests.                                                               *)

\* numeric_request
Numeric(text) ==
    IF text.lead \in {"", "v"} /\ Len(text.n) \in 1..3
      THEN Text("", IF text.rc # 0 \/ text.b # 0 THEN Padded(text.n) ELSE text.n, text.rc, text.b)
      ELSE None

NumericPrefix(text) ==
    LET v == Numeric(text) IN v # None /\ v.rc = 0 /\ v.b = 0 /\ Len(v.n) < 3

\* The request as the code compares it with versions.
Asked(text) == IF Numeric(text) # None THEN Numeric(text) ELSE text

\* A version with build metadata is the version without.
Unbuilt(version) == Text("", version.n, version.rc, 0)

SameVersion(asked, version) ==
    version = asked \/ (asked.b = 0 /\ Unbuilt(version) = asked)

\* A prefix ends at a component, or before the build.
StartsWith(version, asked) ==
    \/ IsStrictPrefix(asked.n, version.n) /\ asked.rc = 0 /\ asked.b = 0
    \/ version.b # 0 /\ Unbuilt(version) = asked

\* A range has no prerelease but of the version that it names with one.
InRange(version, range) ==
    /\ ~Above(Unbuilt(range), Unbuilt(version))
    /\ version.rc = 0 \/ (range.rc # 0 /\ version.n = range.n)

MatchesRequest(release, request) ==
    LET asked == Asked(request)
    IN  \/ Numeric(request) = None /\ release.tag = request
        \/ release.version = asked
        \/ /\ release.version.rc = 0 \/ asked.rc # 0
           /\ \/ Numeric(request) # None /\ StartsWith(release.version, asked)
              \/ asked.lead = ">=" /\ InRange(release.version, asked)

-----------------------------------------------------------------------------
(* candidates_with_latest.                                                 *)

Entries(list) == IF list = None THEN <<>> ELSE list.releases

VersionsOf(live, list) ==
    {r.version : r \in ToSet(live)} \cup {e.version : e \in ToSet(Entries(list))}

\* The first release of a version with bundles is its choice, the others
\* remain: only their bundles say which project they are of.
AddLive(merged, r) ==
    LET choice == merged.choices[r.version]
    IN  IF choice = None \/ (choice.bundles = <<>> /\ r.bundles # <<>>)
          THEN [merged EXCEPT !.choices[r.version] = r]
        ELSE IF r.bundles # <<>>
          THEN [merged EXCEPT !.alternates[r.version] = Append(@, r)]
        ELSE merged

NoChoices(versions) ==
    [choices |-> [v \in versions |-> None], alternates |-> [v \in versions |-> <<>>]]

MergeLive(live, list) ==
    LET Merged[n \in 0..Len(live)] ==
            IF n = 0 THEN NoChoices(VersionsOf(live, list))
            ELSE AddLive(Merged[n - 1], live[n])
    IN  Merged[Len(live)]

FirstOr(s, default) == IF s = <<>> THEN default ELSE Head(s)

\* The tag of an entry that names none: of the forge's latest release, if it
\* has that version, or of the release that the version had.
EntryTag(live, list, latest, choice, e) ==
    LET mine == Only(live, {r \in ToSet(live) :
                              r.version = e.version /\ (r.recommended \/ r.tag = latest)})
    IN  IF e.tag # None THEN e.tag
        ELSE IF list.latest = None /\ mine # <<>> THEN mine[1].tag
        ELSE IF choice # None THEN choice.tag
        ELSE e.version

EntryRelease(live, list, latest, choice, e) ==
    LET tag == EntryTag(live, list, latest, choice, e)
    IN  [version |-> e.version, tag |-> tag, bundles |-> <<e.packslip>>,
         recommended |->
            IF list.latest # None THEN list.latest = e.version
            ELSE tag = latest \/ \E r \in ToSet(live) : r.tag = tag /\ r.recommended]

\* A signed entry replaces what the forge has for its version.
AddEntry(live, list, latest, merged, e) ==
    [choices |-> [merged.choices EXCEPT ![e.version] =
                    IF e.yanked THEN None ELSE EntryRelease(live, list, latest, @, e)],
     alternates |-> [merged.alternates EXCEPT ![e.version] = <<>>]]

\* A signed entry decides for its version, the last one for its tag.
AddEntries(live, list, latest, forge) ==
    LET Signed[n \in 0..Len(Entries(list))] ==
            IF n = 0 THEN forge
            ELSE AddEntry(live, list, latest, Signed[n - 1], Entries(list)[n])
    IN  Signed[Len(Entries(list))]

\* The version that the last entry with a tag gives it, if there is one.
Mapped(list, tag) ==
    LET named == Only(Entries(list), {e \in ToSet(Entries(list)) : e.tag = tag})
    IN  IF named = <<>> THEN {} ELSE {Last(named).version}

Unmapped(list, version, release) == Mapped(list, release.tag) \subseteq {version}

\* Mutant: the alternates of a dropped release go with it.
MutantNoPromotion(list, merged) ==
    LET kept(v) == merged.choices[v] # None /\ Unmapped(list, v, merged.choices[v])
    IN  [merged EXCEPT !.choices = [v \in DOMAIN @ |-> IF kept(v) THEN @[v] ELSE None]]

\* A release whose tag an entry gives another version is dropped; the first
\* of its alternates takes its place.
DropMapped(list, merged) ==
    LET kept(v) == merged.choices[v] # None /\ Unmapped(list, v, merged.choices[v])
        others(v) == Only(merged.alternates[v],
                          {r \in ToSet(merged.alternates[v]) : Unmapped(list, v, r)})
    IN  [choices |-> [v \in DOMAIN merged.choices |->
                        IF kept(v) THEN merged.choices[v] ELSE FirstOr(others(v), None)],
         alternates |-> [v \in DOMAIN merged.choices |->
                        IF kept(v) \/ others(v) = <<>> THEN others(v) ELSE Tail(others(v))]]

\* The list's recommendation replaces the forge's.
Recommend(list, merged) ==
    IF list = None \/ list.latest = None THEN merged
    ELSE [choices |-> [v \in DOMAIN merged.choices |->
                        IF merged.choices[v] = None THEN None
                        ELSE [merged.choices[v] EXCEPT !.recommended = (v = list.latest)]],
          alternates |-> [v \in DOMAIN merged.choices |->
                        [i \in DOMAIN merged.alternates[v] |->
                           [merged.alternates[v][i] EXCEPT !.recommended = FALSE]]]]

WithBundles(merged) ==
    [merged EXCEPT !.choices = [v \in DOMAIN @ |->
        IF @[v] # None /\ @[v].bundles = <<>> THEN None ELSE @[v]]]

Merge(live, list, latest) ==
    LET forge == MergeLive(live, list)
    IN  IF list = None THEN WithBundles(forge)
        ELSE WithBundles(Recommend(list, DropMapped(list, AddEntries(live, list, latest, forge))))

Highest(versions) == CHOOSE v \in versions : \A w \in versions : ~Above(w, v)

\* Versions by descending precedence.
Descending(versions) ==
    LET Left[n \in 0..Cardinality(versions)] ==
            IF n = 0 THEN versions ELSE Left[n - 1] \ {Highest(Left[n - 1])}
    IN  [n \in 1..Cardinality(versions) |-> Highest(Left[n - 1])]

Block(merged, v) == <<merged.choices[v]>> \o merged.alternates[v]

\* The choices of some versions in this order, each followed by its alternates.
Ordered(merged, versions) ==
    LET order == Descending(versions)
        All[n \in 0..Len(order)] ==
            IF n = 0 THEN <<>> ELSE All[n - 1] \o Block(merged, order[n])
    IN  All[Len(order)]

Chosen(merged) == {v \in DOMAIN merged.choices : merged.choices[v] # None}

-----------------------------------------------------------------------------
(* Answers.                                                                *)

Error(why) == [error |-> why, releases |-> <<>>, latest |-> FALSE, skipped |-> <<>>]
Answer(releases, latest, skipped) ==
    [error |-> None, releases |-> releases, latest |-> latest, skipped |-> skipped]

\* The forge release that a request names by its tag.
ExactTag(live, request) ==
    IF NumericPrefix(request) THEN None
    ELSE FirstOr(Only(live, {r \in ToSet(live) : r.tag = request}), None)

\* A withdrawn entry, and what the request says of it.
NamesWithdrawn(live, forge, e, request) ==
    LET exact == ExactTag(live, request)
        removed == forge.choices[e.version]
    IN  /\ e.yanked
        /\ \/ Asked(request) = e.version
           \/ exact # None /\ exact.version = e.version
           \/ ~NumericPrefix(request) /\ e.tag = request
           \/ ~NumericPrefix(request) /\ removed # None /\ removed.tag = request

\* The entries that decide on a tag: of its version, or else with that tag.
ListedFor(list, exact) ==
    LET entries == Entries(list)
        same == Only(entries, {e \in ToSet(entries) : e.version = exact.version})
    IN  IF same # <<>> THEN same
        ELSE Only(entries, {e \in ToSet(entries) : e.tag = exact.tag})

Matching(list, merged, request) ==
    LET matches == Ordered(merged,
                           {v \in Chosen(merged) : MatchesRequest(merged.choices[v], request)})
        found == Only(matches, {r \in ToSet(matches) : MatchesRequest(r, request)})
        withdrawn == \E e \in ToSet(Entries(list)) :
                        e.yanked /\ SameVersion(Asked(request), e.version)
    IN  IF found = <<>> THEN Error(IF withdrawn THEN "yanked" ELSE "none")
        ELSE Answer(found, FALSE, <<>>)

ForRequest(live, list, merged, request) ==
    LET exact == ExactTag(live, request)
        listed == ListedFor(list, exact)
        single(r) == IF r = None THEN Error("none") ELSE Answer(<<r>>, FALSE, <<>>)
    IN  IF exact = None THEN Matching(list, merged, request)
        ELSE IF listed # <<>> THEN single(merged.choices[Head(listed).version])
        ELSE IF exact.bundles # <<>> THEN single(exact)
        ELSE IF Numeric(request) = None THEN Error("none")
        ELSE Matching(list, merged, request)

\* The release a recommendation names, before it is known to be eligible.
Target(live, list, latest) ==
    LET entries == Entries(list)
        pinned == Only(entries, {e \in ToSet(entries) : e.version = list.latest})
        tagged == Only(entries, {e \in ToSet(entries) : latest # None /\ e.tag = latest})
        shown == Only(live, {r \in ToSet(live) : r.tag = latest})
    IN  IF list # None /\ list.latest # None THEN FirstOr(pinned, None)
        ELSE FirstOr(tagged, FirstOr(shown, None))

WhySkipped(list, target) ==
    LET entries == {e \in ToSet(Entries(list)) : e.version = target.version}
    IN  IF \E e \in entries : e.yanked THEN "withdrawn"
        ELSE IF target.version.rc # 0 THEN "prerelease"
        ELSE IF \E e \in entries : e.tag \notin {None, target.tag} THEN "mapped"
        ELSE "no packslip"

\* The recommendation first, if it is eligible, then the other releases.
ForLatest(live, list, latest, merged) ==
    LET eligible == Ordered(merged, {v \in Chosen(merged) : merged.choices[v].version.rc = 0})
        marked == {i \in DOMAIN eligible : eligible[i].recommended}
        target == Target(live, list, latest)
    IN  IF eligible = <<>> THEN Error("none")
        ELSE IF marked # {}
          THEN LET i == CHOOSE i \in marked : \A j \in marked : i <= j
               IN  Answer(<<eligible[i]>> \o RemoveAt(eligible, i), TRUE, <<>>)
        ELSE Answer(eligible, TRUE,
                    IF target = None THEN <<>>
                    ELSE <<[version |-> target.version, why |-> WhySkipped(list, target)]>>)

CandidatesFor(live, list, request, latest) ==
    LET merged == Merge(live, list, latest)
    IN  IF request = None THEN ForLatest(live, list, latest, merged)
        ELSE IF \E e \in ToSet(Entries(list)) :
                  NamesWithdrawn(live, MergeLive(live, list), e, request)
          THEN Error("yanked")
        ELSE ForRequest(live, list, merged, request)
=============================================================================
