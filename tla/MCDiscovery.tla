----------------------------- MODULE MCDiscovery -----------------------------
(***************************************************************************)
(* A small instance of Discovery for TLC: a tool in a repository with      *)
(* others, whose tags may carry its name, or a project named after a host. *)
(* Two releases on the forge, lists of up to two of their bundles or of    *)
(* bundles elsewhere, and forges whose releases have several bundles.      *)
(***************************************************************************)
EXTENDS Discovery

MCLeads == {"", "v", "tool-", "tool-v", "repo-", "repo-v"}
MCBundleNames == {"packslip", "packslip-2", "packslip-3"}

V(n) == Text("v", n, 0, 0)
One == V(<<1, 0, 0>>)
Tool == Text("tool-", <<1, 0>>, 0, 0)
Two == V(<<2, 0, 0>>)
Rc == Text("v", <<2, 0, 0>>, 1, 0)
Nightly == Text("nightly", <<>>, 0, 0)
Build == Text("", <<1, 0, 0>>, 0, 1)
Of(tag) == TagVersion(tag)

At(tag, name) == [at |-> tag, name |-> name]
Cdn(tag) == At([tag EXCEPT !.lead = "cdn"], "packslip")
Slip(version, tag) ==
    [version |-> version, tag |-> tag, project |-> "this", format |-> "v1",
     genuine |-> TRUE, host |-> "fits"]
Shown(tag, files) ==
    [tag |-> tag, draft |-> FALSE, assets |-> [i \in DOMAIN files |-> At(tag, files[i])]]

\* Releases of the forge with the bundle they have: as their tag says, a build
\* of that version, or none.
Plain(tag) == <<Shown(tag, <<"sbom", "packslip">>), (At(tag, "packslip") :> Slip(Of(tag), tag))>>
Bare(tag) == <<Shown(tag, <<"sbom">>), <<>>>>
Tagless(tag) == <<Shown(tag, <<"packslip">>), (At(tag, "packslip") :> Slip(Of(tag), None))>>
Built == <<Shown(One, <<"packslip">>), (At(One, "packslip") :> Slip(Build, One))>>
Draft == <<[Shown(Two, <<"packslip">>) EXCEPT !.draft = TRUE], (At(Two, "packslip") :> Slip(Of(Two), Two))>>

Shapes == {Plain(One), Bare(One), Built, Tagless(Tool), Plain(Two), Plain(Rc),
           Draft, Bare(Nightly)}

\* Bundles elsewhere: of a version, of a release whose tag names none, and of a
\* tag that names another version.
Elsewhere == (Cdn(One) :> Slip(Of(One), None)) @@ (Cdn(Nightly) :> Slip(Text("", <<3, 0, 0>>, 0, 0), Nightly))
             @@ (Cdn(Two) :> Slip(Text("", <<1, 4, 0>>, 0, 0), Two))

Site(shown, latest) ==
    [forge |-> TRUE, releases |-> [i \in DOMAIN shown |-> shown[i][1]], latest |-> latest,
     bundle |-> FoldLeft(LAMBDA all, x : all @@ x[2], Elsewhere, shown), seen |-> 0, now |-> 5]
Other == Plain(Text("repo-v", <<1, 0, 0>>, 0, 0))
Pages == {p \in Shapes \X Shapes : p[1][1].tag # p[2][1].tag}
           \cup {<<a, b, Other>> : a \in {Plain(One), Bare(One), Built}, b \in {Tagless(Tool), Plain(Two)}}
PageSites == UNION {{Site(p, latest) : latest \in {None, p[1][1].tag, p[2][1].tag}} : p \in Pages}

\* A forge whose releases have the bundles given for each.
Several(releases) ==
    LET tags == <<Two, V(<<1, 1, 0>>), One>>
        files == <<"packslip", "packslip-2", "packslip-3">>
    IN  [forge |-> TRUE, latest |-> None, seen |-> 0, now |-> 5,
         releases |-> [i \in DOMAIN releases |->
                         Shown(tags[i], [j \in DOMAIN releases[i] |-> files[j]])],
         bundle |-> [url \in {At(tags[i], files[j]) : i \in DOMAIN releases, j \in 1..3} |->
                       LET i == CHOOSE i \in DOMAIN releases : url.at = tags[i]
                           j == CHOOSE j \in 1..3 : url.name = files[j]
                           what == IF j \in DOMAIN releases[i] THEN releases[i][j] ELSE None
                       IN  IF what = None THEN None
                           ELSE [f \in DOMAIN Slip(None, None) |->
                                   IF f = "version" THEN Of(url.at)
                                   ELSE IF f = "tag" THEN url.at
                                   ELSE IF f \in DOMAIN what THEN what[f]
                                   ELSE Slip(None, None)[f]]]]

Ours == [genuine |-> TRUE]
Sibling == [project |-> "sibling"]
Renamed == [project |-> "renamed"]
Future == [format |-> "future"]
Unfit == [host |-> "none"]
Ties == [host |-> "ties"]
Forged == [genuine |-> FALSE]
ListBundle == [format |-> "list"]

Rows == {<<Ours>>, <<Sibling>>, <<Sibling, Renamed>>, <<Future, Sibling>>, <<Unfit>>,
         <<Ties>>, <<Forged>>, <<None, Sibling>>, <<Ours, Ours>>, <<None, Unfit>>,
         <<Unfit, Ours>>, <<ListBundle, Sibling, Unfit>>}
SeveralSites == {Several(<<a, b, <<Ours>>>>) : a, b \in Rows}

Hosted == [forge |-> FALSE, releases |-> <<>>, latest |-> None, seen |-> 1, now |-> 5,
           bundle |-> Elsewhere]

MCSites == PageSites \cup SeveralSites \cup {Hosted, [Hosted EXCEPT !.seen = 2]}

-----------------------------------------------------------------------------
All == UNION {{<<url, s.bundle[url]>> : url \in DOMAIN s.bundle} : s \in PageSites}
Listing == {[url |-> x[1], slip |-> x[2]] : x \in All}

Given(listed, yank, latest) ==
    [listed |-> listed, yank |-> yank, security |-> {}, latest |-> latest,
     sequence |-> 1, validFor |-> 30]
Lists == {<<a>> : a \in Listing} \cup {<<a, b>> : a, b \in Listing}

MCPublications ==
    {None, Given(<<>>, {}, None), [Given(<<>>, {}, None) EXCEPT !.validFor = 1]}
      \cup UNION {{Given(l, yank, latest) : yank \in {{}, {Head(l).url}},
                                         latest \in {None} \cup {x.slip.version : x \in ToSet(l)}} :
                  l \in Lists}

\* Lists that name no tag twice, and none that an entry without a tag would get
\* from the forge.
OwnTags(given) ==
    given = None \/
      \A i, j \in DOMAIN given.listed :
        LET a == given.listed[i].slip
            b == given.listed[j].slip
        IN  i # j /\ b.tag # None => a.tag # b.tag /\ (a.tag = None => Of(b.tag) # a.version)
MCOwnTags == {given \in MCPublications : OwnTags(given)}

MCRequests ==
    {None, Of(One), V(<<1, 0, 0>>), Build, Tool, Text("", <<1>>, 0, 0),
     Text("v", <<2, 0>>, 0, 0), Rc, Nightly, Text(">=", <<1, 0, 0>>, 0, 0),
     Text(">=", <<2, 0, 0>>, 1, 0)}
=============================================================================
