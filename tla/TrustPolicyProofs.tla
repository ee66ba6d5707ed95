-------------------------- MODULE TrustPolicyProofs --------------------------
(***************************************************************************)
(* Proofs about TrustPolicy, for every set of documents, requests and      *)
(* requirements and every history of the forges. A record says of the last *)
(* accepted release all that the next is compared with (Remembered), so    *)
(* that one quiet step keeps the signer and the links; and what one step   *)
(* keeps, any number of steps do.                                          *)
(*                                                                         *)
(* And that `packslip verify` and an installation accept the same releases *)
(* and lists (VerifyCommand), for every document, request and command line *)
(* and whatever the forges' names lead to. Both sides are reduced to what  *)
(* they have in common: who signed, and what the flags say of the signer.  *)
(***************************************************************************)
EXTENDS VerifyCommand, FiniteSetTheorems, TLAPS

\* A name leads to a repository that has had it.
NamesAreHeld ==
    /\ DOMAIN resolves = ForgeHosts \X Names
    /\ \A at \in DOMAIN resolves :
         resolves[at] # None => <<at[1], at[2], resolves[at]>> \in held

\* What is remembered after a release was accepted for a project, under a key.
Kept(want, d, k) ==
    [project |-> want, scheme |-> d.signed,
     signer |-> IF d.signed = "key" THEN KeyId[d.key] ELSE d.flow,
     issuer |-> Issuer(d),
     repository |-> IF Forge(want) THEN Pin(d) ELSE DomainRepository(d),
     pin |-> d.pin, vendor |-> d.vendor, key |-> k, links |-> LinkedOnly(d.links)]

\* A release of a forge project is signed on the forge, and its certificate is
\* of the repository that the statement names; another one names the project.
AcceptedFor(want, d) ==
    IF Forge(want)
      THEN /\ d.signed = "oidc" /\ SourceNamed(d)
           /\ Issuer(d) = want.host /\ d.project.host = want.host
      ELSE d.project = want

Remembered ==
    \/ mem = {} /\ trail = <<>> /\ pubkey = None
    \/ /\ trail # <<>>
       /\ \E r \in mem, k \in {None, pubkey} :
            /\ mem = {Kept(r.project, Last(trail), k)}
            /\ AcceptedFor(r.project, Last(trail))
            /\ Last(trail).signed = "key" => pubkey = Last(trail).key

\* The installation of a github project is of one repository id, and no key.
IdIsKept ==
    key.host = "github" =>
        /\ pubkey = None
        /\ \A r \in mem :
             /\ r.project.host = "github" /\ r.project.tool = key.tool
             /\ r.repository # None => r.repository.id = key.id

NamedSource(c) == Forge(c.project) => SourceNamed(c)

\* What a release keeps of an earlier one.
Continues(c, d) ==
    /\ Forge(c.project) <=> Forge(d.project)
    /\ c.signed = d.signed
    /\ c.signed = "key" => c.key = d.key
    /\ SourceId(c) # None /\ Forge(c.source) => SameSource(c, d)
    /\ c.pin => d.pin
    /\ c.pin /\ c.signed = "oidc" => SameSigner(c, d)

TrailContinues ==
    /\ \A i \in DOMAIN trail : NamedSource(trail[i])
    /\ \A i, j \in DOMAIN trail : i < j => Continues(trail[i], trail[j])

IInv ==
    /\ trail \in Seq(Docs)
    /\ NamesAreHeld /\ Remembered /\ IdIsKept
    /\ OwnRepository /\ TrailContinues /\ LinksKept

-----------------------------------------------------------------------------
(* The operators.                                                          *)

\* LinkedOnly keeps the linked builds and the beginning of each.
LEMMA LinkedOnlyKeeps ==
  ASSUME NEW links, \A b \in DOMAIN links : links[b] \in Seq(Nat) \ {<<>>},
         NEW b \in DOMAIN links, links[b][1] > 0
  PROVE  /\ b \in DOMAIN LinkedOnly(links)
         /\ 1 \in DOMAIN LinkedOnly(links)[b]
         /\ DOMAIN LinkedOnly(links)[b] \subseteq DOMAIN links[b]
         /\ \A i \in DOMAIN LinkedOnly(links)[b] : LinkedOnly(links)[b][i] = links[b][i]
<1> DEFINE S == {i \in DOMAIN links[b] : links[b][i] > 0}
           n == Cardinality(S)
<1>0. links[b] \in Seq(Nat) /\ Len(links[b]) \in Nat
  OBVIOUS
<1>1. IsFiniteSet(1..Len(links[b])) /\ Cardinality(1..Len(links[b])) = Len(links[b])
  BY <1>0, FS_Interval
<1>2. S \subseteq 1..Len(links[b]) /\ 1 \in S
  BY <1>0
<1>3. IsFiniteSet(S) /\ n \in Nat /\ n <= Len(links[b])
  BY <1>1, <1>2, FS_Subset, FS_CardinalityType
<1>4. n # 0
  BY <1>2, <1>3, FS_EmptySet
<1>5. LinkedOnly(links)[b] = SubSeq(links[b], 1, n) /\ b \in DOMAIN LinkedOnly(links)
  BY DEF LinkedOnly, Linked
<1> HIDE DEF n, S
<1> QED BY <1>0, <1>3, <1>4, <1>5

\* What LinkedOnly drops had no links.
LEMMA LinkedOnlyDomain ==
  ASSUME NEW links, NEW b \in DOMAIN LinkedOnly(links)
  PROVE  b \in DOMAIN links /\ links[b][1] > 0
BY DEF LinkedOnly, Linked

\* release_under: whose release it is, and under which key.
LEMMA ReleaseIsAccepted ==
  ASSUME NEW want \in Requests, NEW d \in Docs, NEW resolved, NEW req, NEW authority,
         ReleaseUnder(want, resolved, d, req, authority)
  PROVE  /\ AcceptedFor(want, d)
         /\ IF d.signed = "key" THEN Given(req, "key") = d.key ELSE Given(req, "key") = None
<1>1. CASE Forge(want)
  BY <1>1 DEF ReleaseUnder, AcceptedFor, VerifiedByIdentity, CheckSource
<1>2. CASE ~Forge(want)
  <2>1. d.project = want
    BY <1>2 DEF ReleaseUnder, SameProject
  <2>2. CASE Given(req, "key") # None
    BY <1>2, <2>1, <2>2 DEF ReleaseUnder, AcceptedFor, VerifiedByKey
  <2>3. CASE Given(req, "key") = None
    BY <1>2, <2>1, <2>3 DEF ReleaseUnder, AcceptedFor, VerifiedByIdentity
  <2> QED BY <2>2, <2>3
<1> QED BY <1>1, <1>2

LEMMA AcceptedIsNamed ==
  ASSUME NEW want, NEW d, AcceptedFor(want, d)
  PROVE  NamedSource(d) /\ (Forge(d.project) <=> Forge(want))
BY DEF AcceptedFor, NamedSource, Forge

\* A named source with an id is a repository of a forge.
LEMMA NamedSourceIsForge ==
  ASSUME NEW c, NamedSource(c), Forge(c.project), SourceId(c) # None
  PROVE  Forge(c.source)
BY DEF NamedSource, SourceNamed, SourceId, SameRepo, Forge

-----------------------------------------------------------------------------
(* One quiet release after another.                                        *)

\* changes() and SignerContinues: what is remembered of one release, and the
\* remembered key, against the next.
LEMMA QuietContinues ==
  ASSUME NEW c \in Docs, NEW d \in Docs, NEW was, NEW want, NEW k, NEW req,
         AcceptedFor(was, c), AcceptedFor(want, d), Forge(was) <=> Forge(want),
         c.signed = "key" => pubkey = c.key /\ k \in {None, pubkey},
         IF d.signed = "key" THEN Given(req, "key") = d.key ELSE Given(req, "key") = None,
         ~Changes(NameRememberedKey(Kept(was, c, k)), RecordOf(want, d, req))
  PROVE  Continues(c, d)
<1> DEFINE before == NameRememberedKey(Kept(was, c, k))
           now == RecordOf(want, d, req)
           b == before.repository
           n == now.repository
<1>1. /\ before.project = was /\ before.scheme = c.signed /\ before.issuer = Issuer(c)
      /\ before.signer = Kept(was, c, k).signer
      /\ b = IF Forge(was) THEN Pin(c) ELSE DomainRepository(c)
      /\ before.pin = c.pin
      /\ c.signed = "key" => before.key = c.key
  BY DocumentsAssumption DEF NameRememberedKey, Kept
<1>2. /\ now.project = want /\ now.scheme = d.signed /\ now.issuer = Issuer(d)
      /\ now.signer = IF d.signed = "key" THEN KeyId[d.key] ELSE d.flow
      /\ n = IF Forge(want) THEN Pin(d) ELSE DomainRepository(d)
      /\ now.pin = d.pin /\ now.key = Given(req, "key")
  BY DEF RecordOf
<1>3. /\ ~KeyChanged(before, now) /\ SignerContinues(before, now)
      /\ ~(before.pin /\ ~now.pin)
  BY DEF Changes
<1>4. c.signed = d.signed /\ Issuer(c) = Issuer(d)
  BY <1>1, <1>2, <1>3 DEF SignerContinues
<1>5. c.pin => d.pin
  BY <1>1, <1>2, <1>3
<1>6. Forge(c.project) <=> Forge(d.project)
  BY AcceptedIsNamed
<1>7. c.signed = "key" => c.key = d.key
  BY <1>1, <1>2, <1>3, <1>4, DocumentsAssumption DEF KeyChanged
<1> HIDE DEF before, now
<1>8. SourceId(c) # None /\ Forge(c.source) => SameSource(c, d)
  <2> SUFFICES ASSUME SourceId(c) # None, Forge(c.source) PROVE SameSource(c, d)
    OBVIOUS
  <2>1. c.signed = "oidc" /\ d.signed = "oidc"
    BY <1>4, DocumentsAssumption DEF SourceId
  <2>2. b # None
    BY <1>1, <2>1, NoneAssumption DEF Pin, DomainRepository
  <2>3. n # None /\ ContinuesPin(n, b)
    BY <1>1, <1>2, <1>3, <2>2 DEF SignerContinues
  <2>4. CASE Forge(want)
    <3>1. b = Pin(c) /\ n = Pin(d)
      BY <1>1, <1>2, <2>4
    <3>2. SourceId(d) # None /\ SourceId(d) = SourceId(c) /\ c.project.host = d.project.host
      BY <2>2, <2>3, <3>1 DEF Pin, ContinuesPin
    <3>3. Forge(c.project) /\ Forge(d.project) /\ NamedSource(c) /\ NamedSource(d)
      BY <2>4, AcceptedIsNamed
    <3>4. c.source.host = c.project.host /\ d.source.host = d.project.host
      BY <3>2, <3>3 DEF NamedSource, SourceNamed, SourceId, SameRepo
    <3> QED BY <1>4, <3>2, <3>3, <3>4, DocumentsAssumption DEF SameSource, Forge, SourceId
  <2>5. CASE ~Forge(want)
    <3>1. b = DomainRepository(c) /\ n = DomainRepository(d)
      BY <1>1, <1>2, <2>5
    <3>2. /\ SourceId(d) # None /\ Forge(d.source) /\ d.source.id = c.source.id
          /\ c.source.host = d.source.host
      BY <2>2, <2>3, <3>1 DEF DomainRepository, SourcePin, ContinuesPin
    <3> QED BY <1>4, <3>2, DocumentsAssumption DEF SameSource, SourceId
  <2> QED BY <2>4, <2>5
<1>9. c.pin /\ c.signed = "oidc" => SameSigner(c, d)
  <2> SUFFICES ASSUME c.pin, c.signed = "oidc" PROVE SameSigner(c, d)
    OBVIOUS
  <2>1. /\ d.signed = "oidc" /\ now.pin
        /\ before.signer = c.flow /\ now.signer = d.flow
    BY <1>1, <1>2, <1>4, <1>5 DEF Kept
  <2>2. CASE ~Forge(want)
    <3>1. SameUrl(WithoutRef(c.flow), WithoutRef(d.flow))
      BY <1>1, <1>2, <1>3, <2>1, <2>2 DEF SignerContinues, SameWorkflow, SamePath
    <3> QED BY <2>2, <3>1, AcceptedIsNamed DEF SameSigner
  <2>3. CASE Forge(want)
    <3>1. /\ Forge(c.project) /\ Forge(d.project) /\ NamedSource(c) /\ NamedSource(d)
          /\ Forge(c.flow) /\ Forge(d.flow)
          /\ c.flow.host = c.project.host /\ d.flow.host = d.project.host
      BY <2>1, <2>3, NoneAssumption DEF AcceptedFor, Issuer, Forge, NamedSource
    <3>2. b = Pin(c) /\ n = Pin(d)
      BY <1>1, <1>2, <2>3
    <3>3. CASE SourceId(c) # None
      <4>1. b # None /\ n # None
        BY <1>1, <1>2, <1>3, <2>3, <3>2, <3>3, NoneAssumption DEF Pin, SignerContinues
      <4>2. SameWorkflow(c.flow, b, d.flow, n)
        BY <1>1, <1>2, <1>3, <2>1, <2>3, <4>1 DEF SignerContinues
      <4>3. b.project = c.project /\ n.project = d.project
        BY <3>2, <4>1 DEF Pin
      <4>4. ExternalSigner(c.flow, b) = ExternalSigner(d.flow, n) /\ SamePath(c.flow, b, d.flow, n)
        BY <4>1, <4>2 DEF SameWorkflow
      <4>5. c.flow.path = d.flow.path
        BY <3>1, <4>1, <4>4 DEF SamePath
      <4>6. /\ SameRepo(c.flow, c.project) <=> SameRepo(d.flow, d.project)
            /\ ~SameRepo(c.flow, c.project) => SameRepo(c.flow, d.flow)
        BY <2>1, <3>1, <4>3, <4>4, NoneAssumption DEF ExternalSigner, SameRepo
      <4>7. SourceId(d) # None
        BY <3>2, <4>1 DEF Pin
      <4> QED BY <3>1, <3>3, <4>5, <4>6, <4>7 DEF SameSigner
    <3>4. CASE SourceId(c) = None
      <4>1. b = None
        BY <3>2, <3>4 DEF Pin
      <4>2. SameUrl(WithoutRef(c.flow), WithoutRef(d.flow))
        BY <1>1, <1>2, <1>3, <2>1, <4>1 DEF SignerContinues, SameWorkflow, SamePath
      <4>3. SameRepo(c.flow, d.flow) /\ c.flow.path = d.flow.path
        BY <2>1, <3>1, <4>2, DocumentsAssumption
        DEF SameUrl, HasPrefix, WithoutRef, SameRepo, Forge
      <4> QED BY <3>1, <3>4, <4>3 DEF SameSigner
    <3> QED BY <3>3, <3>4
  <2> QED BY <2>2, <2>3
<1> QED BY <1>4, <1>5, <1>6, <1>7, <1>8, <1>9 DEF Continues

\* The URL of one workflow, but for the ref, is that of another.
LEMMA UrlsCompose ==
  ASSUME NEW a, NEW b, NEW c, SameUrl(a, b), SameUrl(b, c)
  PROVE  SameUrl(a, c)
BY DEF SameUrl, HasPrefix, SameRepo, Forge

\* What is kept twice is kept.
LEMMA ContinuesCompose ==
  ASSUME NEW c, NEW d, NEW e,
         NamedSource(c), NamedSource(d), Continues(c, d), Continues(d, e)
  PROVE  Continues(c, e)
<1>1. SourceId(c) # None /\ Forge(c.source) => SameSource(c, e)
  BY DEF Continues, SameSource
<1>2. ASSUME c.pin, c.signed = "oidc" PROVE SameSigner(c, e)
  <2>1. /\ SameSigner(c, d) /\ SameSigner(d, e)
        /\ Forge(c.project) <=> Forge(d.project)
    BY <1>2 DEF Continues
  <2>2. CASE ~Forge(c.project)
    BY <2>1, <2>2, UrlsCompose DEF SameSigner
  <2>3. CASE Forge(c.project)
    <3>1. /\ SourceId(c) # None => SourceId(d) # None
          /\ SourceId(d) # None => SourceId(e) # None
      BY <2>1, <2>3, NamedSourceIsForge DEF Continues, SameSource
    <3> QED BY <2>1, <2>3, <3>1 DEF SameSigner, SameRepo
  <2> QED BY <2>2, <2>3
<1> QED BY <1>1, <1>2 DEF Continues

-----------------------------------------------------------------------------
(* Initial states.                                                         *)

LEMMA InitInv == Init => IInv
<1> SUFFICES ASSUME Init PROVE IInv
  OBVIOUS
<1>1. NamesAreHeld
  <2>1. DOMAIN resolves = ForgeHosts \X Names
    BY DEF Init
  <2>2. ASSUME NEW at \in DOMAIN resolves, resolves[at] # None
        PROVE  <<at[1], at[2], resolves[at]>> \in held
    <3> DEFINE there == {id \in Ids : Born[<<at[1], id>>] = at[2]}
    <3>1. at \in ForgeHosts \X Names
      BY <2>1
    <3>2. resolves[at] = IF there = {} THEN None ELSE CHOOSE id \in there : TRUE
      BY <3>1 DEF Init
    <3>3. resolves[at] \in there
      BY <2>2, <3>2
    <3> DEFINE who == <<at[1], resolves[at]>>
    <3>4. who \in DOMAIN Born /\ Born[who] = at[2] /\ Born[who] # None
      BY <3>1, <3>3, WorldAssumption
    <3>5. who[1] = at[1] /\ who[2] = resolves[at]
      OBVIOUS
    <3> HIDE DEF who
    <3>6. <<who[1], Born[who], who[2]>> \in held
      BY <3>4 DEF Init
    <3> QED BY <3>4, <3>5, <3>6
  <2> QED BY <2>1, <2>2 DEF NamesAreHeld
<1>2. CASE mem = {} /\ pubkey = None /\ trail = <<>>
  BY <1>1, <1>2 DEF IInv, Remembered, IdIsKept, OwnRepository, TrailContinues, LinksKept
<1>3. ASSUME NEW d \in Docs, d.signed = "key", d.project = key, ~Forge(key),
             mem = {[RecordOf(d.project, d, <<>>) EXCEPT !.links = LinkedOnly(d.links)]},
             pubkey = d.key, trail = <<d>>
      PROVE  IInv
  <2>1. Given(<<>>, "key") = None
    BY DEF Given, GivenBy
  <2>2. mem = {Kept(d.project, d, None)}
    BY <1>3, <2>1 DEF RecordOf, Kept
  <2>3. Last(trail) = d /\ trail \in Seq(Docs) /\ DOMAIN trail = {1}
    BY <1>3 DEF Last
  <2>4. AcceptedFor(key, d)
    BY <1>3 DEF AcceptedFor
  <2>5. Remembered
    <3> DEFINE r == Kept(d.project, d, None)
    <3>1. r \in mem /\ r.project = d.project
      BY <2>2 DEF Kept
    <3> HIDE DEF r
    <3>2. mem = {Kept(r.project, Last(trail), None)} /\ AcceptedFor(r.project, Last(trail))
      BY <1>3, <2>2, <2>3, <2>4, <3>1
    <3> QED BY <1>3, <2>3, <3>1, <3>2 DEF Remembered
  <2>6. NamedSource(d) /\ ~Forge(d.project)
    BY <1>3 DEF NamedSource
  <2>7. OwnRepository
    BY <2>2, <2>6 DEF OwnRepository, Kept
  <2>8. IdIsKept
    BY <1>3 DEF IdIsKept, Forge, ForgeHosts
  <2>9. TrailContinues /\ LinksKept
    BY <1>3, <2>3, <2>6 DEF TrailContinues, LinksKept
  <2> QED BY <1>1, <2>3, <2>5, <2>7, <2>8, <2>9 DEF IInv
<1> QED BY <1>2, <1>3 DEF Init

-----------------------------------------------------------------------------
(* Steps.                                                                  *)

LEMMA TakeNameKeeps ==
  ASSUME IInv, NEW host, NEW id, NEW name, TakeName(host, id, name)
  PROVE  IInv'
<1>1. UNCHANGED <<key, mem, pubkey, trail>>
  BY DEF TakeName
<1>2. NamesAreHeld'
  BY DEF TakeName, IInv, NamesAreHeld
<1>3. OwnRepository'
  BY <1>1 DEF TakeName, IInv, OwnRepository
<1> QED BY <1>1, <1>2, <1>3
        DEF IInv, Remembered, IdIsKept, TrailContinues, LinksKept

\* What an accepted release says of its repository, by the id that the forge
\* has for the name the user asked for, or else by the name.
LEMMA SignedUnderTheName ==
  ASSUME NEW want \in Requests, NEW d \in Docs, NEW given, NEW authority,
         NamesAreHeld, Verifies(want, d, given, authority), Forge(want)
  PROVE  /\ <<want.host, Fold[want.repo], d.origin>> \in held
         /\ want.host = "github" /\ SourceId(d) # None => SourceId(d) = Resolved(want)
<1>1. /\ Signed(d) /\ CheckSource(want, {}, Resolved(want), d) /\ d.signed = "oidc"
      /\ want.host = "github" => Resolved(want) # None
  BY DEF Verifies, ReleaseUnder, VerifiedByIdentity
<1>2. ById(d, {}, Resolved(want)) => Resolved(want) = SourceId(d)
  BY <1>1 DEF CheckSource
<1>3. CASE ById(d, {}, Resolved(want))
  <2>1. Resolved(want) # None /\ want.host = "github" /\ d.origin = Resolved(want)
    BY <1>2, <1>3, DocumentsAssumption DEF ById, Resolved, SourceId
  <2> DEFINE at == <<"github", Fold[want.repo]>>
  <2>2. at \in DOMAIN resolves /\ resolves[at] = d.origin /\ resolves[at] # None
    BY <2>1, WorldAssumption DEF NamesAreHeld, Resolved, ForgeHosts
  <2>3. <<at[1], at[2], resolves[at]>> \in held
    BY <2>2 DEF NamesAreHeld
  <2> QED BY <1>2, <1>3, <2>1, <2>2, <2>3
<1>4. CASE ~ById(d, {}, Resolved(want))
  <2>1. SameProject(d.project, want) /\ d.project.host = want.host /\ SourceNamed(d)
    BY <1>1, <1>4 DEF CheckSource
  <2>2. Fold[d.project.repo] = Fold[want.repo] /\ Forge(d.project)
    BY <2>1 DEF SameProject, SameRepo, Forge
  <2> DEFINE run == IF d.source = None THEN d.flow ELSE d.source
  <2>3. run.host = want.host /\ Fold[run.repo] = Fold[want.repo] /\ Forge(run)
    BY <2>1, <2>2 DEF SourceNamed, SameRepo, Forge
  <2>4. <<run.host, Fold[run.repo], d.origin>> \in held
    BY <1>1, <2>3 DEF Signed
  <2> HIDE DEF run
  <2> QED BY <1>1, <1>4, <2>3, <2>4 DEF ById
<1> QED BY <1>3, <1>4

LEMMA LinksAreCounts ==
  ASSUME NEW c \in Docs, NEW b \in DOMAIN c.links
  PROVE  c.links[b] \in Seq(Nat) \ {<<>>} /\ c.links[b][1] \in Nat /\ 1 \in DOMAIN c.links[b]
BY DocumentsAssumption

\* retains_provenance, of one release and the next.
LEMMA LinksRetained ==
  ASSUME NEW c \in Docs, NEW d \in Docs, RetainsProvenance(LinkedOnly(c.links), d.links)
  PROVE  /\ \A b \in DOMAIN c.links \cap DOMAIN d.links : d.links[b][1] >= c.links[b][1]
         /\ (\E b \in DOMAIN c.links : c.links[b][1] > 0) =>
              \E b \in DOMAIN c.links \cap DOMAIN d.links : c.links[b][1] > 0
<1> DEFINE before == LinkedOnly(c.links)
<1>1. \A b \in DOMAIN c.links : c.links[b] \in Seq(Nat) \ {<<>>} /\ c.links[b][1] \in Nat
  BY LinksAreCounts
<1>2. \A b \in DOMAIN d.links : d.links[b][1] \in Nat /\ 1 \in DOMAIN d.links[b]
  BY LinksAreCounts
<1>3. ASSUME NEW b \in DOMAIN c.links, c.links[b][1] > 0
      PROVE  b \in DOMAIN before /\ 1 \in DOMAIN before[b] /\ before[b][1] = c.links[b][1]
  BY <1>1, <1>3, LinkedOnlyKeeps
<1> HIDE DEF before
<1>4. /\ \A b \in DOMAIN before \cap DOMAIN d.links :
           \A i \in DOMAIN before[b] \cap DOMAIN d.links[b] : d.links[b][i] >= before[b][i]
      /\ \/ {b \in DOMAIN before : before[b][1] > 0} = {}
         \/ {b \in DOMAIN before : before[b][1] > 0} \cap DOMAIN d.links # {}
  BY DEF before, RetainsProvenance, Linked
<1>5. ASSUME NEW b \in DOMAIN c.links \cap DOMAIN d.links
      PROVE  d.links[b][1] >= c.links[b][1]
  <2>1. CASE c.links[b][1] > 0
    BY <1>2, <1>3, <1>4, <2>1
  <2>2. CASE ~(c.links[b][1] > 0)
    BY <1>1, <1>2, <2>2
  <2> QED BY <2>1, <2>2
<1>6. ASSUME NEW a \in DOMAIN c.links, c.links[a][1] > 0
      PROVE  \E b \in DOMAIN c.links \cap DOMAIN d.links : c.links[b][1] > 0
  <2>1. a \in {b \in DOMAIN before : before[b][1] > 0}
    BY <1>3, <1>6
  <2>2. PICK b \in DOMAIN before : b \in DOMAIN d.links
    BY <1>4, <2>1
  <2>3. b \in DOMAIN c.links /\ c.links[b][1] > 0
    BY LinkedOnlyDomain DEF before
  <2> QED BY <2>2, <2>3
<1> QED BY <1>5, <1>6

\* A release that continues the last of the trail continues all of it.
LEMMA TrailGrows ==
  ASSUME trail \in Seq(Docs), trail # <<>>, TrailContinues, LinksKept,
         NEW d \in Docs, NamedSource(d), Continues(Last(trail), d),
         Last(trail).vendor => d.vendor,
         RetainsProvenance(LinkedOnly(Last(trail).links), d.links),
         trail' = Append(trail, d)
  PROVE  TrailContinues' /\ LinksKept'
<1> DEFINE n == Len(trail)
           l == Last(trail)
<1>1. /\ n \in Nat /\ n >= 1 /\ l = trail[n] /\ l \in Docs
      /\ DOMAIN trail = 1..n /\ DOMAIN trail' = 1..(n + 1)
      /\ trail'[n + 1] = d /\ \A i \in 1..n : trail'[i] = trail[i] /\ trail[i] \in Docs
  BY DEF Last
<1> HIDE DEF n, l
<1>2. TrailContinues'
  <2>1. ASSUME NEW i \in DOMAIN trail' PROVE NamedSource(trail'[i])
    BY <1>1 DEF TrailContinues
  <2>2. ASSUME NEW i \in DOMAIN trail', NEW j \in DOMAIN trail', i < j
        PROVE  Continues(trail'[i], trail'[j])
    <3>1. CASE j # n + 1
      BY <1>1, <2>2, <3>1 DEF TrailContinues
    <3>2. CASE j = n + 1 /\ i = n
      BY <1>1, <3>2 DEF l
    <3>3. CASE j = n + 1 /\ i # n
      <4>1. i \in 1..n /\ n \in 1..n /\ i < n
        BY <1>1, <2>2, <3>3
      <4>2. Continues(trail[i], l) /\ NamedSource(trail[i]) /\ NamedSource(l)
        BY <1>1, <4>1 DEF TrailContinues
      <4> QED BY <1>1, <3>3, <4>1, <4>2, ContinuesCompose DEF l
    <3> QED BY <3>1, <3>2, <3>3
  <2>3. /\ (\A i \in DOMAIN trail : NamedSource(trail[i]))'
        /\ (\A i, j \in DOMAIN trail : i < j => Continues(trail[i], trail[j]))'
    BY <2>1, <2>2 DEF NamedSource, SourceNamed, Continues, SameSource, SameSigner
  <2> QED BY <2>3 DEF TrailContinues
<1>3. LinksKept'
  <2> SUFFICES ASSUME NEW i \in DOMAIN trail', NEW j \in DOMAIN trail', i < j
               PROVE  LET c == trail'[i] e == trail'[j]
                      IN  /\ c.vendor => e.vendor
                          /\ \A b \in DOMAIN c.links :
                               (\A k \in i..j : b \in DOMAIN trail'[k].links) =>
                                 e.links[b][1] >= c.links[b][1]
                          /\ j = i + 1 /\ (\E b \in DOMAIN c.links : c.links[b][1] > 0) =>
                               \E b \in DOMAIN c.links \cap DOMAIN e.links : c.links[b][1] > 0
    BY DEF LinksKept
  <2>1. CASE j # n + 1
    <3>1. i \in 1..n /\ j \in 1..n /\ \A k \in i..j : k \in 1..n
      BY <1>1, <2>1
    <3> QED BY <1>1, <3>1 DEF LinksKept
  <2>2. CASE j = n + 1 /\ i = n
    <3>1. i..j = {i, j}
      BY <1>1, <2>2
    <3> QED BY <1>1, <2>2, <3>1, LinksRetained DEF l
  <2>3. CASE j = n + 1 /\ i # n
    <3>1. i \in 1..n /\ n \in 1..n /\ i < n /\ j # i + 1 /\ n \in i..j
      BY <1>1, <2>3
    <3>2. trail'[i] = trail[i] /\ trail'[j] = d /\ trail[i] \in Docs
      BY <1>1, <2>3, <3>1
    <3>3. trail[i].vendor => d.vendor
      BY <1>1, <3>1 DEF LinksKept, l
    <3>4. ASSUME NEW b \in DOMAIN trail[i].links, \A k \in i..j : b \in DOMAIN trail'[k].links
          PROVE  d.links[b][1] >= trail[i].links[b][1]
      <4>1. \A k \in i..n : k \in i..j /\ k \in 1..n
        BY <1>1, <2>3, <3>1
      <4>2. b \in DOMAIN d.links /\ b \in DOMAIN l.links
        BY <1>1, <2>3, <3>1, <3>4
      <4>3. \A k \in i..n : b \in DOMAIN trail[k].links
        BY <1>1, <3>4, <4>1
      <4>4. l.links[b][1] >= trail[i].links[b][1]
        BY <1>1, <3>1, <4>3 DEF LinksKept
      <4>5. d.links[b][1] >= l.links[b][1]
        BY <1>1, <4>2, LinksRetained DEF l
      <4>6. d.links[b][1] \in Nat /\ l.links[b][1] \in Nat /\ trail[i].links[b][1] \in Nat
        BY <1>1, <3>2, <4>2, LinksAreCounts
      <4> QED BY <4>4, <4>5, <4>6
    <3> QED BY <3>1, <3>2, <3>3, <3>4
  <2> QED BY <2>1, <2>2, <2>3
<1> QED BY <1>2, <1>3

LEMMA InstallKeeps ==
  ASSUME IInv, NEW want \in Requests, KeyOf(want) = key, NEW d \in Docs,
         NEW given, NEW authority, Install(want, d, given, authority)
  PROVE  IInv'
<1> DEFINE req == Constraints(given, want)
           k == Given(req, "key")
           l == Last(trail)
<1>1. /\ Verifies(want, d, given, authority) /\ UNCHANGED <<key, world>>
      /\ mem' = {[RecordOf(want, d, req) EXCEPT !.links = LinkedOnly(d.links)]}
      /\ pubkey' = IF k = None THEN pubkey ELSE k
      /\ \/ Quiet(want, d, given) /\ trail' = Append(trail, d)
         \/ trail' = <<d>>
  BY DEF Install, Remember
<1>2. mem' = {Kept(want, d, k)}
  BY <1>1 DEF RecordOf, Kept
<1>3. AcceptedFor(want, d) /\ IF d.signed = "key" THEN k = d.key ELSE k = None
  BY <1>1, ReleaseIsAccepted DEF Verifies
<1>4. trail' \in Seq(Docs) /\ trail' # <<>> /\ Last(trail') = d
  <2>1. trail \in Seq(Docs) /\ Len(trail) \in Nat
    BY DEF IInv
  <2>2. CASE trail' = <<d>>
    BY <2>2 DEF Last
  <2>3. CASE trail' = Append(trail, d)
    <3>1. /\ trail' \in Seq(Docs) /\ Len(trail') = Len(trail) + 1
          /\ trail'[Len(trail) + 1] = d
      BY <2>1, <2>3
    <3> QED BY <2>1, <3>1 DEF Last
  <2> QED BY <1>1, <2>2, <2>3
<1>5. NamedSource(d) /\ (Forge(d.project) <=> Forge(want))
  BY <1>3, AcceptedIsNamed
<1> HIDE DEF req, k, l
<1>6. NamesAreHeld'
  BY <1>1 DEF IInv, NamesAreHeld, world
<1>7. Remembered'
  <2> DEFINE r == Kept(want, d, k)
  <2>1. r.project = want /\ r \in mem' /\ k \in {None, pubkey'}
    BY <1>1, <1>2 DEF Kept
  <2>2. d.signed = "key" => pubkey' = d.key
    BY <1>1, <1>3, DocumentsAssumption
  <2> HIDE DEF r
  <2>3. mem' = {Kept(r.project, Last(trail'), k)} /\ AcceptedFor(r.project, Last(trail'))
    BY <1>2, <1>3, <1>4, <2>1
  <2>4. Last(trail').signed = "key" => pubkey' = Last(trail').key
    BY <1>4, <2>2
  <2>5. \E x \in mem', y \in {None, pubkey'} :
            /\ mem' = {Kept(x.project, Last(trail'), y)}
            /\ AcceptedFor(x.project, Last(trail'))
            /\ Last(trail').signed = "key" => pubkey' = Last(trail').key
    BY <2>1, <2>3, <2>4
  <2> QED BY <1>4, <2>5 DEF Remembered, Kept, AcceptedFor, SourceNamed
<1>8. IdIsKept'
  <2> SUFFICES ASSUME key.host = "github"
               PROVE  /\ pubkey' = None
                      /\ \A r \in mem' :
                           /\ r.project.host = "github" /\ r.project.tool = key.tool
                           /\ r.repository # None => r.repository.id = key.id
    BY <1>1 DEF IdIsKept
  <2>1. want.host = "github" /\ Forge(want) /\ key.id = Resolved(want) /\ key.tool = want.tool
    BY DEF KeyOf, Forge, ForgeHosts
  <2>2. pubkey' = None
    BY <1>1, <1>3, <2>1 DEF IInv, IdIsKept, AcceptedFor
  <2>3. SourceId(d) # None => SourceId(d) = key.id
    BY <1>1, <2>1, SignedUnderTheName DEF IInv
  <2>4. /\ Kept(want, d, k).project = want
        /\ Kept(want, d, k).repository # None => Kept(want, d, k).repository.id = key.id
    BY <2>1, <2>3 DEF Kept, Pin
  <2> QED BY <1>2, <2>1, <2>2, <2>4
<1>9. OwnRepository'
  <2> SUFFICES ASSUME Forge(want)
               PROVE  <<want.host, Fold[want.repo], d.origin>> \in held'
    BY <1>2, <1>4 DEF OwnRepository, Kept
  <2> QED BY <1>1, SignedUnderTheName DEF IInv, world
<1>10. TrailContinues' /\ LinksKept'
  <2>1. CASE trail' = <<d>>
    BY <1>5, <2>1 DEF TrailContinues, LinksKept, NamedSource, SourceNamed
  <2>2. CASE Quiet(want, d, given) /\ trail' = Append(trail, d) /\ trail # <<>>
    <3>1. PICK r \in mem, k0 \in {None, pubkey} :
            /\ mem = {Kept(r.project, l, k0)} /\ AcceptedFor(r.project, l)
            /\ l.signed = "key" => pubkey = l.key
      BY <2>2 DEF IInv, Remembered, l
    <3> DEFINE was == r.project
    <3>2. r = Kept(was, l, k0)
      BY <3>1
    <3> HIDE DEF was
    <3>3. /\ PriorProjectMatches(Kept(was, l, k0), RecordOf(want, d, req))
          /\ ~Changes(NameRememberedKey(Kept(was, l, k0)), RecordOf(want, d, req))
      BY <1>1, <2>2, <3>1, <3>2 DEF Verifies, Quiet, req
    <3>4. Forge(was) <=> Forge(want)
      BY <3>3 DEF PriorProjectMatches, Kept, RecordOf, SameProject
    <3>5. l \in Docs
      BY <2>2 DEF IInv, Last, l
    <3>6. Continues(l, d)
      BY <1>3, <3>1, <3>3, <3>4, <3>5, QuietContinues DEF was, k
    <3>7. (l.vendor => d.vendor) /\ RetainsProvenance(LinkedOnly(l.links), d.links)
      BY <3>3 DEF Changes, NameRememberedKey, Kept, RecordOf
    <3> QED BY <1>5, <2>2, <3>6, <3>7, TrailGrows DEF IInv, l
  <2>3. CASE trail' = Append(trail, d) /\ trail = <<>>
    <3>1. trail' = <<d>>
      BY <2>3
    <3> QED BY <2>1, <3>1
  <2> QED BY <1>1, <2>1, <2>2, <2>3
<1> QED BY <1>4, <1>6, <1>7, <1>8, <1>9, <1>10 DEF IInv

LEMMA NextKeeps == IInv /\ [Next]_vars => IInv'
<1> SUFFICES ASSUME IInv, [Next]_vars PROVE IInv'
  OBVIOUS
<1>1. CASE UNCHANGED vars
  BY <1>1 DEF vars, world, IInv, NamesAreHeld, Remembered, IdIsKept, OwnRepository,
              TrailContinues, LinksKept
<1>2. ASSUME NEW move \in Moves, TakeName(move[1], move[2], move[3]) PROVE IInv'
  BY <1>2, TakeNameKeeps
<1>3. ASSUME NEW want \in Requests, KeyOf(want) = key, NEW d \in Docs,
             NEW given \in Requirements, NEW authority \in BOOLEAN,
             Install(want, d, given, authority)
      PROVE  IInv'
  BY <1>3, InstallKeeps
<1> QED BY <1>1, <1>2, <1>3 DEF Next

-----------------------------------------------------------------------------
(* Renamed repositories.                                                   *)

\* Without a key of its own, an installation has no requirements of Free.
LEMMA FreeAsksNothing ==
  ASSUME NEW want, pubkey = None
  PROVE  /\ Constraints(Free, want) = <<Nothing>>
         /\ \A field \in {"key", "issuer", "identity", "prefix"} : Given(<<Nothing>>, field) = None
<1>1. AdminConstraints(Free, want) = <<>>
  BY DEF AdminConstraints, Free
<1>2. Append(<<>>, Nothing) = <<Nothing>>
  OBVIOUS
<1>3. ASSUME NEW field \in {"key", "issuer", "identity", "prefix"}
      PROVE  GivenBy(<<Nothing>>, field) = {}
  BY DEF GivenBy, Nothing
<1> QED BY <1>1, <1>2, <1>3 DEF Constraints, Free, Given

\* A release keeps the links that it has itself.
LEMMA OwnLinksAreRetained ==
  ASSUME NEW d \in Docs
  PROVE  RetainsProvenance(LinkedOnly(d.links), d.links)
<1> DEFINE before == LinkedOnly(d.links)
<1>1. \A b \in DOMAIN before : b \in DOMAIN d.links /\ d.links[b][1] > 0
  BY LinkedOnlyDomain
<1>2. \A b \in DOMAIN d.links : d.links[b] \in Seq(Nat) \ {<<>>}
  BY LinksAreCounts
<1>3. ASSUME NEW b \in DOMAIN before, NEW i \in DOMAIN before[b]
      PROVE  before[b][i] = d.links[b][i] /\ d.links[b][i] \in Nat
  BY <1>1, <1>2, LinkedOnlyKeeps
<1> HIDE DEF before
<1>4. ASSUME NEW b \in DOMAIN before, NEW i \in DOMAIN before[b]
      PROVE  d.links[b][i] >= before[b][i]
  BY <1>3
<1>5. {b \in DOMAIN before : Linked(before, b)} \subseteq DOMAIN d.links
  BY <1>1
<1> QED BY <1>4, <1>5 DEF RetainsProvenance, before

LEMMA RenameIsQuiet == IInv => RenamesAreQuiet
<1> SUFFICES ASSUME IInv, NEW want \in Requests, NEW d \in Docs, NEW record \in mem,
                    Renamed(want, d, record)
             PROVE  Verifies(want, d, Free, FALSE) /\ Quiet(want, d, Free)
  BY Zenon DEF RenamesAreQuiet
<1> SUFFICES ASSUME KeyOf(want) = key, want.host = "github", Signed(d),
                    record.repository # None, d.honest, d.signed = "oidc",
                    d.project.host = "github", d.project.tool = want.tool,
                    d.source # None, SameRepo(d.source, d.project), SameRepo(d.flow, d.project),
                    d.source.id = record.repository.id,
                    SameRepo(record.signer, record.repository.project),
                    d.flow.path = record.signer.path,
                    d.pin = record.pin, d.vendor = record.vendor,
                    LinkedOnly(d.links) = record.links
             PROVE  Verifies(want, d, Free, FALSE) /\ Quiet(want, d, Free)
  BY Zenon DEF Renamed
<1> DEFINE now == RecordOf(want, d, <<Nothing>>)
<1>1. /\ key.host = "github" /\ key.id = Resolved(want) /\ key.tool = want.tool
      /\ Forge(want) /\ Forge(d.project)
  BY DEF KeyOf, Forge, ForgeHosts
<1>2. /\ pubkey = None /\ record.project.host = "github" /\ record.project.tool = want.tool
      /\ record.repository.id = Resolved(want)
  BY <1>1 DEF IInv, IdIsKept
<1>3. /\ Constraints(Free, want) = <<Nothing>>
      /\ \A field \in {"key", "issuer", "identity", "prefix"} : Given(<<Nothing>>, field) = None
  BY <1>2, FreeAsksNothing
<1>4. PICK l \in Docs, k0 \in {None, pubkey} :
        mem = {Kept(record.project, l, k0)} /\ AcceptedFor(record.project, l)
  <2>1. trail # <<>> /\ Last(trail) \in Docs
    BY DEF IInv, Remembered, Last
  <2> QED BY <2>1 DEF IInv, Remembered
<1> DEFINE was == record.project
<1>5. /\ record = Kept(was, l, k0) /\ mem = {record} /\ Forge(was) /\ was.host = "github"
      /\ l.signed = "oidc" /\ Issuer(l) = "github" /\ l.project.host = "github"
  BY <1>2, <1>4 DEF AcceptedFor, Forge, ForgeHosts
<1>6. record.repository = Pin(l) /\ record.signer = l.flow /\ record.scheme = "oidc"
      /\ record.issuer = "github" /\ record.project = was
  BY <1>5 DEF Kept
<1>7. /\ SourceId(l) # None /\ Pin(l) # None
      /\ Pin(l).project = l.project /\ Pin(l).id = SourceId(l)
  BY <1>6 DEF Pin
<1>8. SourceId(d) = Resolved(want) /\ SourceId(d) # None
  BY <1>2, <1>6, <1>7 DEF SourceId
<1>9. /\ Pin(d) # None /\ Pin(d).project = d.project /\ Pin(d).id = SourceId(d)
      /\ d.flow # None
  BY <1>8, NoneAssumption DEF Pin
<1>10. Issuer(d) = "github" /\ d.flow.host = "github"
  BY <1>1, <1>9 DEF Issuer, SameRepo
<1>11. l.flow.host = "github"
  BY <1>5, NoneAssumption DEF Issuer
<1>12. now.project = want /\ now.scheme = "oidc" /\ now.issuer = "github"
       /\ now.signer = d.flow /\ now.repository = Pin(d)
       /\ now.pin = d.pin /\ now.vendor = d.vendor /\ now.links = d.links
  BY <1>1, <1>10 DEF RecordOf
<1> HIDE DEF now, was
<1>13. ContinuesPin(Pin(d), Pin(l))
  BY <1>1, <1>2, <1>5, <1>6, <1>7, <1>8, <1>9 DEF ContinuesPin, Forge, ForgeHosts
<1>14. ReleaseUnder(want, Resolved(want), d, <<Nothing>>, FALSE)
  <2>1. KeysAgree(<<Nothing>>) /\ CheckConstraints(<<Nothing>>, d)
    BY DEF KeysAgree, GivenBy, CheckConstraints, Nothing
  <2>2. VerifiedByIdentity(d, [issuer |-> want.host, identity |-> None, prefix |-> None])
    BY <1>10 DEF VerifiedByIdentity
  <2>3. CheckSource(want, {}, Resolved(want), d)
    BY <1>1, <1>8, <1>10 DEF CheckSource, SourceNamed, ById
  <2> QED BY <1>1, <1>3, <1>9, <2>1, <2>2, <2>3 DEF ReleaseUnder
<1>15. PriorProjectMatches(record, now)
  BY <1>1, <1>2, <1>5, <1>6, <1>7, <1>9, <1>12, <1>13 DEF PriorProjectMatches
<1>16. Verifies(want, d, Free, FALSE)
  <2>1. OneEntryPerFile(Free, want)
    BY DEF OneEntryPerFile, Free
  <2> QED BY <1>3, <1>5, <1>8, <1>14, <1>15, <2>1 DEF Verifies, now
<1>17. ~Changes(NameRememberedKey(record), now)
  <2>1. NameRememberedKey(record) = record
    BY <1>2 DEF NameRememberedKey
  <2>2. SameWorkflow(l.flow, Pin(l), d.flow, Pin(d))
    BY <1>6, <1>7, <1>9, <1>10, <1>11, <1>13
    DEF SameWorkflow, ExternalSigner, SamePath, Forge, ForgeHosts
  <2>3. SignerContinues(record, now)
    BY <1>1, <1>6, <1>7, <1>9, <1>12, <1>13, <2>2 DEF SignerContinues
  <2>4. ~KeyChanged(record, now)
    BY <1>6 DEF KeyChanged
  <2>5. RetainsProvenance(record.links, now.links)
    BY <1>12, OwnLinksAreRetained
  <2> QED BY <1>6, <1>12, <2>1, <2>3, <2>4, <2>5 DEF Changes
<1>18. Quiet(want, d, Free)
  BY <1>3, <1>5, <1>17 DEF Quiet, now
<1> QED BY <1>16, <1>18

-----------------------------------------------------------------------------
(* Theorems.                                                               *)

\* What is remembered speaks for the last accepted release, and the trail of
\* accepted releases holds together.
THEOREM Invariance == Spec => []IInv
<1>1. Init => IInv
  BY InitInv
<1>2. IInv /\ [Next]_vars => IInv'
  BY NextKeeps
<1> QED BY <1>1, <1>2, PTL DEF Spec

\* check_source: a release of a forge project comes from a repository that had
\* the requested name, for all renamings and all certificates.
THEOREM ReleasesAreOfTheRepository == Spec => []OwnRepository
<1>1. IInv => OwnRepository
  BY DEF IInv
<1> QED BY <1>1, Invariance, PTL

\* changes(): any number of releases accepted without a review leave the
\* repository, the pinned workflow and the key as the first of them had them.
THEOREM SignersAreKept == Spec => []SignerKept
<1>1. IInv => SignerKept
  BY DEF IInv, TrailContinues, Continues, SignerKept
<1> QED BY <1>1, Invariance, PTL

\* retains_provenance: nor do they leave a vendor or lose links.
THEOREM LinksAreKept == Spec => []LinksKept
<1>1. IInv => LinksKept
  BY DEF IInv
<1> QED BY <1>1, Invariance, PTL

\* continuity(): a release of the workflow under a new name of its repository
\* is accepted under any of them without a review, after any history.
THEOREM RenamedVendorsAreAccepted == Spec => []RenamesAreQuiet
<1> QED BY RenameIsQuiet, Invariance, PTL

-----------------------------------------------------------------------------
(* Installing and verifying.                                              *)

\* What the flags say of a certificate, and that it comes from the project's
\* own repository.
FlagsHold(d, args) ==
    /\ d.signed = "oidc" /\ d.honest
    /\ args.issuer # None => Issuer(d) = args.issuer
    /\ args.identity # None => SameUrl(d.flow, args.identity)
    /\ args.prefix # None => HasPrefix(d.flow, args.prefix)
    /\ args.pin # None => MatchesPin(d, {args.pin})
    /\ BoundToProject(d)

-----------------------------------------------------------------------------
(* The two sides.                                                          *)

\* One requirement is the first.
LEMMA AskedAsks ==
  ASSUME NEW args
  PROVE  /\ DOMAIN Asked(args) = {1}
         /\ Asked(args)[1].key = args.key /\ Asked(args)[1].issuer = args.issuer
         /\ Asked(args)[1].identity = args.identity /\ Asked(args)[1].prefix = args.prefix
         /\ Asked(args)[1].pins = IF args.pin = None THEN {} ELSE {args.pin}
         /\ Given(Asked(args), "key") = args.key
         /\ Given(Asked(args), "issuer") = args.issuer
         /\ Given(Asked(args), "identity") = args.identity
         /\ Given(Asked(args), "prefix") = args.prefix
         /\ KeysAgree(Asked(args))
<1> DEFINE req == Asked(args)
<1>1. /\ DOMAIN req = {1}
      /\ req[1] = [pins |-> IF args.pin = None THEN {} ELSE {args.pin}, key |-> args.key,
                   issuer |-> args.issuer, identity |-> args.identity, prefix |-> args.prefix]
  BY DEF Asked
<1> HIDE DEF req
<1>2. ASSUME NEW field \in {"key", "issuer", "identity", "prefix"}
      PROVE  Given(req, field) = req[1][field]
  <2>1. CASE req[1][field] # None
    <3>1. GivenBy(req, field) = {1}
      BY <1>1, <2>1 DEF GivenBy
    <3>2. (CHOOSE i \in {1} : \A j \in {1} : i <= j) = 1
      OBVIOUS
    <3> QED BY <3>1, <3>2 DEF Given
  <2>2. CASE req[1][field] = None
    <3>1. GivenBy(req, field) = {}
      BY <1>1, <2>2 DEF GivenBy
    <3> QED BY <2>2, <3>1 DEF Given
  <2> QED BY <2>1, <2>2
<1>3. KeysAgree(req)
  BY <1>1 DEF KeysAgree, GivenBy
<1> QED BY <1>1, <1>2, <1>3 DEF req

\* The constraints of a command line on a release that no key signed.
LEMMA ConstraintsOfFlags ==
  ASSUME NEW args, NEW d
  PROVE  CheckConstraints(Asked(args), d) <=>
           /\ args.pin # None => d.signed = "oidc" /\ MatchesPin(d, {args.pin})
           /\ args.issuer # None => d.signed = "oidc" /\ Issuer(d) = args.issuer
           /\ args.identity # None => d.signed = "oidc" /\ SameUrl(d.flow, args.identity)
           /\ args.prefix # None => d.signed = "oidc" /\ HasPrefix(d.flow, args.prefix)
<1> DEFINE asked == Asked(args)[1]
<1>1. CheckConstraints(Asked(args), d) <=>
        /\ asked.pins # {} => d.signed = "oidc" /\ MatchesPin(d, asked.pins)
        /\ asked.issuer # None => d.signed = "oidc" /\ Issuer(d) = asked.issuer
        /\ asked.identity # None => d.signed = "oidc" /\ SameUrl(d.flow, asked.identity)
        /\ asked.prefix # None => d.signed = "oidc" /\ HasPrefix(d.flow, asked.prefix)
  <2>1. DOMAIN Asked(args) = {1}
    BY AskedAsks
  <2> QED BY <2>1 DEF CheckConstraints
<1>2. /\ asked.issuer = args.issuer /\ asked.identity = args.identity
      /\ asked.prefix = args.prefix
      /\ asked.pins = IF args.pin = None THEN {} ELSE {args.pin}
  BY AskedAsks
<1>3. (asked.pins # {} => d.signed = "oidc" /\ MatchesPin(d, asked.pins))
        <=> (args.pin # None => d.signed = "oidc" /\ MatchesPin(d, {args.pin}))
  <2> HIDE DEF asked
  <2>1. CASE args.pin = None
    BY <1>2, <2>1
  <2>2. CASE args.pin # None
    <3>1. asked.pins = {args.pin}
      BY <1>2, <2>2
    <3> QED BY <2>2, <3>1
  <2> QED BY <2>1, <2>2
<1> HIDE DEF asked
<1> QED BY <1>1, <1>2, <1>3

\* With no key, the installation of a project named after a host needs flags
\* that say who signs.
FlagsSuffice(args) == args.issuer # None /\ (args.identity # None \/ args.prefix # None)

\* What an installation accepts with one command line's requirements.
LEMMA InstallSide ==
  ASSUME NEW list \in BOOLEAN, NEW want \in Requests, NEW d \in Docs, NEW args,
         InstallAccepts(list, want, d, Asked(args))
  PROVE  IF args.key = None
           THEN FlagsHold(d, args) /\ (Forge(d.project) \/ FlagsSuffice(args))
           ELSE /\ ~Forge(d.project) /\ VerifiedByKey(d, args.key)
                /\ \A flag \in {"issuer", "identity", "prefix", "pin"} : args[flag] = None
<1> DEFINE req == Asked(args)
           policy == HostPolicy(d, req, FALSE)
<1>1. /\ Given(req, "key") = args.key
      /\ policy = [issuer |-> args.issuer, identity |-> args.identity, prefix |-> args.prefix]
  BY AskedAsks DEF HostPolicy
<1>2. CheckConstraints(req, d)
  BY DEF InstallAccepts, ListUnder, ReleaseUnder
<1>3. CASE Forge(want)
  <2>1. /\ args.key = None
        /\ VerifiedByIdentity(d, [issuer |-> want.host, identity |-> None, prefix |-> None])
        /\ CheckSource(want, {}, Resolved(want), d)
    BY <1>1, <1>3 DEF InstallAccepts, ListUnder, ReleaseUnder, VerifyUnder
  <2>2. Forge(d.project) /\ BoundToProject(d)
    BY <1>3, <2>1 DEF CheckSource, BoundToProject, Forge, SameProject, SameRepo, ById
  <2> QED BY <1>2, <2>1, <2>2, ConstraintsOfFlags DEF FlagsHold, VerifiedByIdentity
<1>4. CASE ~Forge(want)
  <2>1. d.project = want
    BY <1>4 DEF InstallAccepts, ListUnder, ReleaseUnder, SameProject
  <2>2. ~Forge(d.project) /\ BoundToProject(d)
    BY <1>4, <2>1 DEF BoundToProject
  <2>3. CASE args.key # None
    <3>1. VerifiedByKey(d, args.key)
      BY <1>1, <1>4, <2>3 DEF InstallAccepts, ListUnder, ReleaseUnder, VerifyUnder
    <3>2. d.signed # "oidc"
      BY <3>1 DEF VerifiedByKey
    <3>3. args.pin = None /\ args.issuer = None /\ args.identity = None /\ args.prefix = None
      BY <1>2, <3>2, ConstraintsOfFlags
    <3>4. \A flag \in {"issuer", "identity", "prefix", "pin"} : args[flag] = None
      BY <3>3
    <3> HIDE DEF req, policy
    <3> QED BY <2>2, <2>3, <3>1, <3>4
  <2>4. CASE args.key = None
    <3>1. HostPolicyComplete(policy) /\ VerifiedByIdentity(d, policy)
      BY <1>1, <1>4, <2>4 DEF InstallAccepts, ListUnder, ReleaseUnder, VerifyUnder
    <3> HIDE DEF req, policy
    <3>2. FlagsSuffice(args)
      <4>1. policy.issuer = args.issuer /\ policy.identity = args.identity
            /\ policy.prefix = args.prefix
        BY <1>1
      <4> QED BY <3>1, <4>1 DEF HostPolicyComplete, FlagsSuffice
    <3>3. d.signed = "oidc" /\ d.honest
      BY <3>1 DEF VerifiedByIdentity
    <3>4. /\ args.pin # None => MatchesPin(d, {args.pin})
          /\ args.issuer # None => Issuer(d) = args.issuer
          /\ args.identity # None => SameUrl(d.flow, args.identity)
          /\ args.prefix # None => HasPrefix(d.flow, args.prefix)
      BY <1>2, ConstraintsOfFlags DEF req
    <3>5. FlagsHold(d, args)
      BY <2>2, <3>3, <3>4 DEF FlagsHold
    <3> QED BY <2>4, <3>2, <3>5
  <2> QED BY <2>3, <2>4
<1> QED BY <1>3, <1>4

\* What `verify` accepts with a command line that keeps the project's signer.
LEMMA VerifySide ==
  ASSUME NEW list \in BOOLEAN, NEW d \in Docs, NEW args, ~args.other,
         VerifyAccepts(list, d, args)
  PROVE  IF args.key = None
           THEN FlagsHold(d, args) /\ PolicyKnown(d, args)
           ELSE /\ VerifiedByKey(d, args.key)
                /\ \A flag \in {"issuer", "identity", "prefix", "source", "pin"} :
                     args[flag] = None
<1>1. CASE args.key = None
  <2>1. VerifiedByIdentity(d, IdentityPolicy(d, args)) /\ CheckSigner(d, args)
    BY <1>1 DEF VerifyAccepts, VerifyUnder
  <2> QED BY <1>1, <2>1
          DEF VerifyAccepts, CheckSigner, VerifiedByIdentity, IdentityPolicy, Explicit, FlagsHold
<1>2. CASE args.key # None
  BY <1>2 DEF VerifyAccepts, VerifyUnder, FlagsAllowed
<1> QED BY <1>1, <1>2

-----------------------------------------------------------------------------
(* One answer.                                                             *)

\* What an installation would take, `verify` accepts.
LEMMA InstalledIsVerified ==
  ASSUME NEW list \in BOOLEAN, NEW want \in Requests, NEW d \in Docs, NEW args,
         ~args.other, args.source = None, args.files = {},
         InstallAccepts(list, want, d, Asked(args))
  PROVE  VerifyAccepts(list, d, args)
<1>1. FlagsAllowed(args)
  <2>1. args.key # None =>
          \A flag \in {"identity", "prefix", "issuer", "source", "pin"} : args[flag] = None
    BY InstallSide
  <2> QED BY <2>1 DEF FlagsAllowed
<1>2. FilesMatch(d, args.files)
  BY DEF FilesMatch
<1>3. CASE args.key = None
  <2>1. FlagsHold(d, args) /\ (Forge(d.project) \/ FlagsSuffice(args))
    BY <1>3, InstallSide
  <2>2. PolicyKnown(d, args)
    BY <2>1 DEF PolicyKnown, FlagsSuffice, Explicit
  <2>3. ~Explicit(args) => Issuer(d) = d.project.host
    BY <2>1, <2>2 DEF PolicyKnown, FlagsHold, BoundToProject, CheckSource
  <2>4. VerifiedByIdentity(d, IdentityPolicy(d, args))
    <3>1. CASE Explicit(args)
      BY <2>1, <3>1 DEF VerifiedByIdentity, IdentityPolicy, FlagsHold
    <3>2. CASE ~Explicit(args)
      BY <2>1, <2>3, <3>2 DEF VerifiedByIdentity, IdentityPolicy, FlagsHold
    <3> QED BY <3>1, <3>2
  <2>5. CheckSigner(d, args)
    BY <2>1 DEF CheckSigner, FlagsHold
  <2>6. VerifyUnder(d, args.key, IdentityPolicy(d, args))
    BY <1>3, <2>4 DEF VerifyUnder
  <2> QED BY <1>1, <1>2, <2>2, <2>5, <2>6 DEF VerifyAccepts
<1>4. CASE args.key # None
  <2>1. VerifyUnder(d, args.key, IdentityPolicy(d, args))
    BY <1>4, InstallSide DEF VerifyUnder
  <2> QED BY <1>1, <1>2, <1>4, <2>1 DEF VerifyAccepts
<1> QED BY <1>3, <1>4

\* What `verify` accepts, an installation takes under the name in the document,
\* if that name does not lead elsewhere and the flags are for it.
LEMMA VerifiedIsInstalled ==
  ASSUME NEW list \in BOOLEAN, NEW d \in Docs, NEW args, ~args.other,
         VerifyAccepts(list, d, args),
         SourceId(d) # None => Resolved(d.project) \in {None, SourceId(d)},
         IF Forge(d.project) THEN args.key = None
         ELSE args.key # None \/ HostPolicyComplete(IdentityPolicy(d, args))
  PROVE  InstallAccepts(list, d.project, d, Asked(args))
<1> DEFINE req == Asked(args)
           want == d.project
           policy == HostPolicy(d, req, FALSE)
           ours == [issuer |-> want.host, identity |-> None, prefix |-> None]
<1>1. /\ Given(req, "key") = args.key /\ KeysAgree(req)
      /\ policy = [issuer |-> args.issuer, identity |-> args.identity, prefix |-> args.prefix]
  BY AskedAsks DEF HostPolicy
<1>2. SameProject(d.project, want)
  BY DEF SameProject, SameRepo
<1>3. CheckConstraints(req, d)
  <2>1. CASE args.key = None
    <3>1. FlagsHold(d, args)
      BY <2>1, VerifySide
    <3> QED BY <3>1, ConstraintsOfFlags DEF FlagsHold
  <2>2. CASE args.key # None
    <3>1. \A flag \in {"issuer", "identity", "prefix", "source", "pin"} : args[flag] = None
      BY <2>2, VerifySide
    <3> QED BY <3>1, ConstraintsOfFlags
  <2> QED BY <2>1, <2>2
<1>4. CASE Forge(want)
  <2>1. args.key = None /\ FlagsHold(d, args)
    BY <1>4, VerifySide
  <2>2. CheckSource(want, {}, None, d)
    BY <1>4, <2>1 DEF FlagsHold, BoundToProject
  <2>3. CheckSource(want, {}, Resolved(want), d)
    BY <1>2, <2>2 DEF CheckSource, ById
  <2>4. VerifiedByIdentity(d, ours)
    BY <2>1, <2>2 DEF FlagsHold, VerifiedByIdentity, CheckSource
  <2>5. VerifyUnder(d, None, ours)
    BY <2>4 DEF VerifyUnder
  <2> HIDE DEF req, want, ours
  <2>6. ListUnder(want, Resolved(want), d, req, FALSE)
    BY <1>1, <1>2, <1>3, <1>4, <2>1, <2>3, <2>5 DEF ListUnder, ours
  <2>7. ReleaseUnder(want, Resolved(want), d, req, FALSE)
    BY <1>1, <1>2, <1>3, <1>4, <2>1, <2>3, <2>4 DEF ReleaseUnder, ours
  <2> QED BY <2>6, <2>7 DEF InstallAccepts, want, req
<1>5. CASE ~Forge(want)
  <2>1. args.key = None => HostPolicyComplete(policy) /\ VerifiedByIdentity(d, policy)
    <3> SUFFICES ASSUME args.key = None
                 PROVE  HostPolicyComplete(policy) /\ VerifiedByIdentity(d, policy)
      OBVIOUS
    <3>1. HostPolicyComplete(IdentityPolicy(d, args)) /\ FlagsHold(d, args)
      BY <1>5, VerifySide
    <3>2. Explicit(args)
      BY <3>1 DEF HostPolicyComplete, IdentityPolicy, Explicit
    <3>3. policy = IdentityPolicy(d, args)
      BY <1>1, <3>2 DEF IdentityPolicy
    <3> HIDE DEF req, policy
    <3>4. /\ policy.issuer = args.issuer /\ policy.identity = args.identity
          /\ policy.prefix = args.prefix
      BY <1>1
    <3>5. VerifiedByIdentity(d, policy)
      BY <3>1, <3>4 DEF VerifiedByIdentity, FlagsHold
    <3> QED BY <3>1, <3>3, <3>5
  <2>2. args.key # None => VerifiedByKey(d, args.key)
    BY VerifySide
  <2>3. (args.key # None \/ HostPolicyComplete(policy)) /\ VerifyUnder(d, args.key, policy)
    BY <2>1, <2>2 DEF VerifyUnder
  <2> HIDE DEF req, want, policy
  <2>4. ListUnder(want, Resolved(want), d, req, FALSE)
    BY <1>1, <1>2, <1>3, <1>5, <2>3 DEF ListUnder, policy
  <2>5. ReleaseUnder(want, Resolved(want), d, req, FALSE)
    BY <1>1, <1>2, <1>3, <1>5, <2>1, <2>2 DEF ReleaseUnder, policy
  <2> QED BY <2>4, <2>5 DEF InstallAccepts, want, req
<1> QED BY <1>4, <1>5

\* A fingerprint says whose certificate it is.
LEMMA FingerprintIsOfOne ==
  ASSUME NEW c \in Docs, NEW d \in Docs, SourceId(d) # None,
         MatchesPin(c, {<<Issuer(d), SourceId(d)>>})
  PROVE  c.origin = d.origin /\ Issuer(c) = Issuer(d)
BY DocumentsAssumption DEF MatchesPin, SourceId

\* A command line with another fingerprint has its other flags.
SameFlags(args, pinned) ==
    /\ pinned.key = args.key /\ pinned.issuer = args.issuer
    /\ pinned.identity = args.identity /\ pinned.prefix = args.prefix
    /\ pinned.source = args.source /\ pinned.other = args.other /\ pinned.files = args.files

LEMMA WithAnotherPin ==
  ASSUME NEW args \in Arguments, NEW p
  PROVE  SameFlags(args, [args EXCEPT !.pin = p]) /\ [args EXCEPT !.pin = p].pin = p
BY ArgumentsComplete DEF ArgumentFields, SameFlags

\* With the fingerprint that `pin` prints for a release, both accept what its
\* repository signed and nothing else.
LEMMA PrintedIsEnough ==
  ASSUME NEW list \in BOOLEAN, NEW d \in Docs, NEW args \in Arguments, ~args.other,
         VerifyAccepts(list, d, args), PinPrints(d, args) # None,
         NEW pinned, SameFlags(args, pinned), pinned.pin = PinPrints(d, args)
  PROVE  /\ VerifyAccepts(list, d, pinned)
         /\ \A c \in Docs :
              \/ VerifyAccepts(list, c, pinned)
              \/ \E want \in Requests : InstallAccepts(list, want, c, Asked(pinned))
              => c.origin = d.origin /\ Issuer(c) = Issuer(d)
<1> DEFINE printed == <<Issuer(d), SourceId(d)>>
<1>1. /\ PinPrints(d, args) = printed /\ SourceId(d) # None
      /\ VerifyUnder(d, None, IdentityPolicy(d, args))
  BY DEF PinPrints
<1>2. d.signed = "oidc"
  BY <1>1 DEF VerifyUnder, VerifiedByIdentity
<1>3. args.key = None
  <2>1. args.key # None => d.signed = "key"
    BY VerifySide DEF VerifiedByKey
  <2> QED BY <1>2, <2>1
<1>4. /\ pinned.pin = printed /\ pinned.pin # None
      /\ pinned.key = args.key /\ pinned.issuer = args.issuer
      /\ pinned.identity = args.identity /\ pinned.prefix = args.prefix
      /\ pinned.source = args.source /\ pinned.other = args.other /\ pinned.files = args.files
  BY <1>1 DEF SameFlags
<1> HIDE DEF printed
<1>5. VerifyAccepts(list, d, pinned)
  <2>1. /\ Explicit(pinned) <=> Explicit(args)
        /\ IdentityPolicy(d, pinned) = IdentityPolicy(d, args)
        /\ PolicyKnown(d, pinned) <=> PolicyKnown(d, args)
    BY <1>4 DEF Explicit, IdentityPolicy, PolicyKnown
  <2>2. FlagsAllowed(pinned)
    BY <1>3, <1>4 DEF VerifyAccepts, FlagsAllowed
  <2>3. MatchesPin(d, {printed})
    BY <1>1 DEF MatchesPin, printed
  <2>4. CheckSigner(d, pinned)
    BY <1>3, <1>4, <2>3 DEF VerifyAccepts, CheckSigner
  <2> QED BY <1>4, <2>1, <2>2, <2>4 DEF VerifyAccepts
<1>6. ASSUME NEW c \in Docs,
             \/ VerifyAccepts(list, c, pinned)
             \/ \E want \in Requests : InstallAccepts(list, want, c, Asked(pinned))
      PROVE  c.origin = d.origin /\ Issuer(c) = Issuer(d)
  <2>1. FlagsHold(c, pinned)
    <3>1. CASE VerifyAccepts(list, c, pinned)
      BY <1>3, <1>4, <3>1, VerifySide
    <3>2. CASE \E want \in Requests : InstallAccepts(list, want, c, Asked(pinned))
      BY <1>3, <1>4, <3>2, InstallSide
    <3> QED BY <1>6, <3>1, <3>2
  <2>2. MatchesPin(c, {printed})
    BY <1>4, <2>1 DEF FlagsHold
  <2> QED BY <1>1, <2>2, FingerprintIsOfOne DEF printed
<1> QED BY <1>5, <1>6

-----------------------------------------------------------------------------
LEMMA CommandsDoAgree == CommandsAgree
<1> SUFFICES ASSUME NEW list \in BOOLEAN, NEW d \in Docs, NEW args \in Arguments,
                    ~args.other
             PROVE
        LET req == Asked(args)
            verified == VerifyAccepts(list, d, args)
            printed == PinPrints(d, args)
            pinned == [args EXCEPT !.pin = printed]
        IN  /\ args.source = None /\ args.files = {} =>
                 \A want \in Requests : InstallAccepts(list, want, d, req) => verified
            /\ /\ verified
               /\ SourceId(d) # None => Resolved(d.project) \in {None, SourceId(d)}
               /\ IF Forge(d.project) THEN args.key = None
                  ELSE args.key # None \/ HostPolicyComplete(IdentityPolicy(d, args))
               => InstallAccepts(list, d.project, d, req)
            /\ verified /\ printed # None =>
                 /\ VerifyAccepts(list, d, pinned)
                 /\ \A c \in Docs :
                      \/ VerifyAccepts(list, c, pinned)
                      \/ \E want \in Requests : InstallAccepts(list, want, c, Asked(pinned))
                      => c.origin = d.origin /\ Issuer(c) = Issuer(d)
  BY DEF CommandsAgree
<1>1. args.source = None /\ args.files = {} =>
        \A want \in Requests :
          InstallAccepts(list, want, d, Asked(args)) => VerifyAccepts(list, d, args)
  BY InstalledIsVerified
<1>2. /\ VerifyAccepts(list, d, args)
      /\ SourceId(d) # None => Resolved(d.project) \in {None, SourceId(d)}
      /\ IF Forge(d.project) THEN args.key = None
         ELSE args.key # None \/ HostPolicyComplete(IdentityPolicy(d, args))
      => InstallAccepts(list, d.project, d, Asked(args))
  BY VerifiedIsInstalled
<1>3. VerifyAccepts(list, d, args) /\ PinPrints(d, args) # None =>
        /\ VerifyAccepts(list, d, [args EXCEPT !.pin = PinPrints(d, args)])
        /\ \A c \in Docs :
             \/ VerifyAccepts(list, c, [args EXCEPT !.pin = PinPrints(d, args)])
             \/ \E want \in Requests :
                  InstallAccepts(list, want, c, Asked([args EXCEPT !.pin = PinPrints(d, args)]))
             => c.origin = d.origin /\ Issuer(c) = Issuer(d)
  <2> DEFINE pinned == [args EXCEPT !.pin = PinPrints(d, args)]
  <2>1. SameFlags(args, pinned) /\ pinned.pin = PinPrints(d, args)
    BY WithAnotherPin
  <2> HIDE DEF pinned
  <2>2. VerifyAccepts(list, d, args) /\ PinPrints(d, args) # None =>
          /\ VerifyAccepts(list, d, pinned)
          /\ \A c \in Docs :
               \/ VerifyAccepts(list, c, pinned)
               \/ \E want \in Requests : InstallAccepts(list, want, c, Asked(pinned))
               => c.origin = d.origin /\ Issuer(c) = Issuer(d)
    BY <2>1, PrintedIsEnough
  <2> QED BY <2>2 DEF pinned
<1> QED BY <1>1, <1>2, <1>3

\* Verify::run_with, Pin::run_with and release_under: a release or list that
\* one command accepts the other does too, in every state of the forges, with
\* the exceptions that CommandsAgree names; and a printed fingerprint is its
\* repository's and no other's.
THEOREM OneAnswer == Spec => []CommandsAgree
<1> QED BY CommandsDoAgree, PTL
=============================================================================
