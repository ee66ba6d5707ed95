----------------------------- MODULE ReleaseList -----------------------------
(***************************************************************************)
(* Versions and tags (src/model.rs), and the release list a vendor makes   *)
(* of the bundles that it released: `packslip releases` (src/main.rs) with *)
(* create_release_list (src/create.rs) and the validation of lists.        *)
(*                                                                         *)
(* A text that may name a version is what stands before its numbers, the   *)
(* numbers, a prerelease and a build, 0 for none. A version is a text of   *)
(* three numbers with nothing before them. A bundle is what it says; two   *)
(* bundles with the same bytes are the same record.                        *)
(***************************************************************************)
EXTENDS Naturals, FiniteSets, SequencesExt

CONSTANTS
    Leads,    \* what may stand before the version in a tag of the project
    None

Text(lead, n, rc, b) == [lead |-> lead, n |-> n, rc |-> rc, b |-> b]

IsText(text) ==
    /\ text = Text(text.lead, text.n, text.rc, text.b)
    /\ text.n \in Seq(Nat) /\ text.rc \in Nat /\ text.b \in Nat

IsVersion(text) == text.lead = "" /\ Len(text.n) = 3

Padded(n) == IF Len(n) = 2 THEN Append(n, 0) ELSE n

\* normalize_version, after a prefix that the project's tags may have.
TagVersion(tag) ==
    IF tag.lead \in Leads /\ Len(tag.n) \in 2..3
      THEN Text("", Padded(tag.n), tag.rc, tag.b)
      ELSE None

\* semver's order: a prerelease comes before its release, builds come last.
Rank(v) == v.n \o <<IF v.rc = 0 THEN 99 ELSE v.rc, v.b>>
Above(v, w) ==
    \E i \in 1..5 : /\ Rank(v)[i] > Rank(w)[i]
                    /\ \A j \in 1..(i - 1) : Rank(v)[j] = Rank(w)[j]

-----------------------------------------------------------------------------
(* Making a list. Bundles are read, not verified.                          *)

\* The project a statement names against the requested one: the same in any
\* case, the repository's name before a renaming, another tool of it, or none.
Names == {"this", "renamed", "sibling", "stranger"}

\* What `packslip releases` is given: URLs with the bundles they will have.
ListOptions == {"listed", "yank", "security", "latest", "sequence", "validFor"}

Urls(request) == [i \in DOMAIN request.listed |-> request.listed[i].url]

\* A release that is withdrawn or marked has to be listed.
OptionsRefused(request) ==
    ~(request.yank \cup request.security \subseteq ToSet(Urls(request)))

NotAPackslip(slip) == slip = None \/ slip.format # "v1" \/ slip.project # "this"

EntryOf(request, listed) ==
    [version |-> listed.slip.version, tag |-> listed.slip.tag, packslip |-> listed.url,
     yanked |-> listed.url \in request.yank]

\* digest_of
DigestOf(list, url) ==
    IF list # None /\ url \in DOMAIN list.digest THEN list.digest[url] ELSE None

\* ReleaseListStatement::validate
Validate(list) ==
    /\ list.generated < list.expires
    /\ IsInjective(list.subject)
    /\ \A i, j \in DOMAIN list.releases :
         list.releases[i].version = list.releases[j].version => i = j
    /\ \A e \in ToSet(list.releases) : IsVersion(e.version) /\ DigestOf(list, e.packslip) # None
    /\ list.latest # None => \E e \in ToSet(list.releases) : e.version = list.latest

\* create_release_list at a time.
CreateReleaseList(request, now) ==
    LET urls == Urls(request)
        list == [releases |-> [i \in DOMAIN urls |-> EntryOf(request, request.listed[i])],
                 subject |-> urls,
                 digest |-> [url \in ToSet(urls) |->
                               (CHOOSE e \in ToSet(request.listed) : e.url = url).slip],
                 latest |-> request.latest, sequence |-> request.sequence,
                 generated |-> now, expires |-> now + request.validFor]
    IN  IF \/ OptionsRefused(request)
           \/ \E e \in ToSet(request.listed) : NotAPackslip(e.slip)
           \/ ~Validate(list)
          THEN None ELSE list

\* is_current
IsCurrent(list, now) == now < list.expires

\* list_freshness: a list seen before has to be there, at least as new.
ListFreshness(list, seen, now) ==
    IF list = None THEN seen = 0
    ELSE IsCurrent(list, now) /\ seen <= list.sequence
=============================================================================
