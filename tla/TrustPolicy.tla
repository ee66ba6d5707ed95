----------------------------- MODULE TrustPolicy -----------------------------
(***************************************************************************)
(* What one installation accepts: src/verify.rs and src/forge.rs decide    *)
(* whose release a signed document is, src/install_policy.rs whether the   *)
(* user's and the administrator's requirements hold and whether it         *)
(* continues what was accepted before. TrustHistory models where the       *)
(* records are kept; here are the rules that compare them.                 *)
(*                                                                         *)
(* A workflow is its URL in parts: host, repository, path in it and ref. A *)
(* document's fields are what its certificate and its statement say. Its   *)
(* origin is the repository whose run signed it, whatever they say.        *)
(***************************************************************************)
EXTENDS Naturals, FiniteSets, SequencesExt

CONSTANTS
    Docs,          \* documents with a valid signature
    Requests,      \* projects a user may name: [host, repo, tool]
    Requirements,  \* administrator's pin files and what the caller requires
    Fold,          \* repository name |-> the name without case
    KeyId,         \* public key |-> the id in its file; two may have one
    Ids,           \* repository ids, of each forge its own
    Names,         \* the names of repositories, without case
    Born,          \* <<host, id>> |-> a repository's first name, None for later
    Moves,         \* bound: the names that repositories may get
    MaxTrail,      \* bound: releases accepted between two reviews
    None

ForgeHosts == {"github", "gitlab"}

ConstraintFields == {"pins", "key", "issuer", "identity", "prefix"}

\* A pin file is a set of entries: a project as it is spelled there, and what
\* is required of it.
ASSUME RequirementsComplete ==
    \A given \in Requirements :
        /\ DOMAIN given.caller = ConstraintFields
        /\ \A i \in DOMAIN given.files : \A entry \in given.files[i] :
             DOMAIN entry.asks = ConstraintFields

\* The forges' repositories, and the names in requests.
ASSUME WorldAssumption ==
    /\ None \notin Names \cup ForgeHosts
    /\ DOMAIN Born = ForgeHosts \X Ids
    /\ \A want \in Requests : want.host = "github" => Fold[want.repo] \in Names

VARIABLES
    key,       \* the installation: of a github repository or a named project
    current,   \* <<host, id>> |-> the name of a repository, None before it is made
    resolves,  \* <<host, name>> |-> the id it leads to, renamings included
    held,      \* <<host, name, id>>: names that repositories have had
    mem,       \* the remembered record, in a set that is empty before the first
    pubkey,    \* the remembered public key
    trail      \* what was accepted since the user last approved a change

world == <<current, resolves, held>>
vars == <<key, world, mem, pubkey, trail>>

-----------------------------------------------------------------------------
(* forge.rs: names, workflows and pins.                                    *)

Forge(x) == x.host \in ForgeHosts

SameRepo(a, b) == a.host = b.host /\ Fold[a.repo] = Fold[b.repo]

SameProject(p, q) ==
    IF Forge(p) /\ Forge(q) THEN SameRepo(p, q) /\ p.tool = q.tool ELSE p = q

\* A workflow against the URL of a repository, of a workflow in it, or of one
\* at a ref: parts that are None are not spelled.
HasPrefix(flow, url) ==
    /\ IF Forge(url) THEN SameRepo(flow, url)
       ELSE flow.host = url.host /\ flow.repo = url.repo
    /\ url.path # None => flow.path = url.path
    /\ url.ref # None => flow.ref = url.ref

WithoutRef(flow) == [flow EXCEPT !.ref = None]

SameUrl(a, b) == HasPrefix(a, b) /\ a.path = b.path /\ a.ref = b.ref

\* The same repository on the same forge, under whatever name.
ContinuesPin(now, before) ==
    /\ Forge(before.project) /\ Forge(now.project)
    /\ before.project.host = now.project.host /\ before.id = now.id

\* The repository of a workflow that is not the project's own.
ExternalSigner(flow, pin) ==
    IF Forge(flow) /\ Forge(pin.project) /\ ~SameRepo(flow, pin.project)
      THEN <<flow.host, Fold[flow.repo]>> ELSE None

SamePath(before, beforePin, now, nowPin) ==
    IF beforePin # None /\ nowPin # None
      THEN /\ ContinuesPin(nowPin, beforePin)
           /\ IF Forge(before) /\ Forge(now)
                THEN before.host = now.host /\ before.path = now.path
                ELSE SameUrl(WithoutRef(before), WithoutRef(now))
      ELSE SameUrl(WithoutRef(before), WithoutRef(now))

SameWorkflow(before, beforePin, now, nowPin) ==
    /\ beforePin # None /\ nowPin # None =>
         ExternalSigner(before, beforePin) = ExternalSigner(now, nowPin)
    /\ SamePath(before, beforePin, now, nowPin)

SourceId(d) == IF d.source = None THEN None ELSE d.source.id

\* The issuer of a certificate is the forge of the workflow.
Issuer(d) == IF d.flow = None THEN None ELSE d.flow.host

\* Mutant: the certificate's source repository is not compared with the one
\* that the statement names.
MutantSignerAlone(d) == TRUE

\* The repository the certificate records is the project's; with none, the
\* workflow has to be one of its own.
SourceNamed(d) ==
    IF d.source # None THEN SameRepo(d.source, d.project)
    ELSE SameRepo(d.flow, d.project)

\* Whether ids can be compared: the certificate's, with those of the pins that
\* the consumer has or else with the one the forge gives.
ById(d, pins, resolved) == SourceId(d) # None /\ (pins # {} \/ resolved # None)

CheckSource(want, pins, resolved, d) ==
    LET known == IF pins = {} THEN {resolved} ELSE {pin.id : pin \in pins}
    IN  /\ Forge(want) /\ d.project.host = want.host /\ d.project.tool = want.tool
        /\ Issuer(d) = want.host
        /\ SourceNamed(d)
        /\ IF ById(d, pins, resolved) THEN \A id \in known : id = SourceId(d)
           ELSE SameProject(d.project, want)

\* What documents are: a key or a certificate has signed them, and the id in a
\* certificate is that of the repository whose run it was.
ASSUME DocumentsAssumption ==
    \A d \in Docs :
        /\ d.signed \in {"key", "oidc"}
        /\ d.signed = "key" => d.key # None /\ d.flow = None /\ d.source = None
        /\ d.signed = "oidc" => DOMAIN d.flow = {"host", "repo", "path", "ref"}
        /\ SourceId(d) # None => d.origin = d.source.id
        /\ \A b \in DOMAIN d.links : d.links[b] \in Seq(Nat) \ {<<>>}

\* Check::pin
Pin(d) == IF SourceId(d) = None THEN None ELSE [project |-> d.project, id |-> SourceId(d)]

\* Check::continues_signer, for consumers with a store of their own.
ContinuesSigner(want, pins, resolved, d, before) ==
    LET byId == ById(d, pins, resolved)
        pin == IF byId THEN Pin(d) ELSE None
        names == {d.project, want} \cup {p.project : p \in pins}
        own == \E name \in names : Forge(name) /\ SameRepo(name, before)
        external == IF pin = None THEN None ELSE ExternalSigner(d.flow, pin)
    IN  IF ~d.pin
          THEN Forge(before) /\ Forge(d.flow) /\ before.host = d.flow.host
               /\ (byId \/ SameRepo(before, d.flow))
          ELSE /\ pin # None /\ Forge(before) =>
                    IF external = None THEN own
                    ELSE ~own /\ external = <<before.host, Fold[before.repo]>>
               /\ SamePath(before, pin, d.flow, pin)

-----------------------------------------------------------------------------
(* verify.rs and install_policy.rs: one document under the requirements.   *)

GivenBy(req, field) == {i \in DOMAIN req : req[i][field] # None}

\* The first source that gives it.
Given(req, field) ==
    IF GivenBy(req, field) = {} THEN None
    ELSE req[CHOOSE i \in GivenBy(req, field) : \A j \in GivenBy(req, field) : i <= j][field]

KeysAgree(req) == \A i, j \in GivenBy(req, "key") : req[i].key = req[j].key

\* A bundle under a key is signed by that key, one under an identity has a
\* certificate; and the statement's own identity block names the signer.
VerifiedByKey(d, k) == d.signed = "key" /\ d.key = k /\ d.honest

VerifiedByIdentity(d, policy) ==
    /\ d.signed = "oidc" /\ d.honest
    /\ policy.issuer # None => Issuer(d) = policy.issuer
    /\ policy.identity # None => SameUrl(d.flow, policy.identity)
    /\ policy.prefix # None => HasPrefix(d.flow, policy.prefix)

\* What a project named after a host is verified under: what the document
\* itself declares when it came from that host, else pinned requirements.
HostPolicy(d, req, authority) ==
    IF authority THEN [issuer |-> Issuer(d), identity |-> d.flow, prefix |-> None]
    ELSE [issuer |-> Given(req, "issuer"), identity |-> Given(req, "identity"),
          prefix |-> Given(req, "prefix")]

HostPolicyComplete(policy) ==
    policy.issuer # None /\ (policy.identity # None \/ policy.prefix # None)

\* The pin of the repository that signs for a project named after a host.
SourcePin(d) ==
    [project |-> [host |-> d.source.host, repo |-> d.source.repo, tool |-> None],
     id |-> d.source.id]
DomainRepository(d) ==
    IF SourceId(d) # None /\ d.signed = "oidc" /\ Forge(d.source) THEN SourcePin(d) ELSE None

\* None is unlike anything that a certificate says.
ASSUME NoneAssumption ==
    \A d \in Docs : d.signed = "oidc" =>
        /\ d.flow # None
        /\ Forge(d.flow) => <<d.flow.host, Fold[d.flow.repo]>> # None
        /\ SourceId(d) # None =>
             SourcePin(d) # None /\ [project |-> d.project, id |-> SourceId(d)] # None

RecordOf(want, d, req) ==
    [project |-> want, scheme |-> d.signed,
     signer |-> IF d.signed = "key" THEN KeyId[d.key] ELSE d.flow,
     issuer |-> Issuer(d),
     repository |-> IF Forge(want) THEN Pin(d) ELSE DomainRepository(d),
     pin |-> d.pin, vendor |-> d.vendor, key |-> Given(req, "key"), links |-> d.links]

\* A signer fingerprint is of the issuer and the repository's id.
MatchesPin(d, pins) == SourceId(d) # None /\ <<Issuer(d), SourceId(d)>> \in pins

CheckConstraints(req, d) ==
    \A i \in DOMAIN req :
        /\ req[i].pins # {} => d.signed = "oidc" /\ MatchesPin(d, req[i].pins)
        /\ req[i].issuer # None => d.signed = "oidc" /\ Issuer(d) = req[i].issuer
        /\ req[i].identity # None => d.signed = "oidc" /\ SameUrl(d.flow, req[i].identity)
        /\ req[i].prefix # None => d.signed = "oidc" /\ HasPrefix(d.flow, req[i].prefix)

\* release_under and, for the list of releases, list_under.
ReleaseUnder(want, resolved, d, req, authority) ==
    LET k == Given(req, "key")
        policy == HostPolicy(d, req, authority)
    IN  /\ KeysAgree(req)
        /\ CASE Forge(want) ->
                  /\ k = None
                  /\ VerifiedByIdentity(d, [issuer |-> want.host, identity |-> None,
                                            prefix |-> None])
                  /\ CheckSource(want, {}, resolved, d)
             [] ~Forge(want) /\ k # None -> VerifiedByKey(d, k)
             [] OTHER -> HostPolicyComplete(policy) /\ VerifiedByIdentity(d, policy)
        /\ SameProject(d.project, want) \/ (Forge(want) /\ Pin(d) # None)
        /\ CheckConstraints(req, d)

-----------------------------------------------------------------------------
(* install_policy.rs: what a release may change of what is remembered.     *)

Linked(links, b) == links[b][1] > 0

\* Mutant: only the sum of a build's links is compared.
MutantTotal(before, now) ==
    LET Total(s) == FoldLeft(LAMBDA a, b : a + b, 0, s)
    IN  \A b \in DOMAIN before \cap DOMAIN now : Total(now[b]) >= Total(before[b])

\* Links per build, of its artifacts, most first. A build both offer keeps
\* them, and one that had some is still offered.
RetainsProvenance(before, now) ==
    LET linked == {b \in DOMAIN before : Linked(before, b)}
    IN  /\ linked = {} \/ linked \cap DOMAIN now # {}
        /\ \A b \in DOMAIN before \cap DOMAIN now :
             \A i \in DOMAIN before[b] \cap DOMAIN now[b] : now[b][i] >= before[b][i]

\* Remembered state omits artifacts without links, which come last.
LinkedOnly(links) ==
    [b \in {c \in DOMAIN links : Linked(links, c)} |->
        SubSeq(links[b], 1, Cardinality({i \in DOMAIN links[b] : links[b][i] > 0}))]

KeyChanged(before, now) ==
    /\ before.scheme = "key" /\ now.scheme = "key"
    /\ before.key # None /\ now.key # before.key

\* Mutant: a signer is its URL.
MutantUrlAlone(before, now) ==
    /\ before.scheme = now.scheme /\ before.issuer = now.issuer
    /\ IF before.scheme = "oidc" THEN SameWorkflow(before.signer, None, now.signer, None)
       ELSE before.signer = now.signer

SignerContinues(before, now) ==
    LET b == before.repository n == now.repository
    IN  /\ before.scheme = now.scheme /\ before.issuer = now.issuer
        /\ CASE b # None /\ n # None /\ ~Forge(now.project) ->
                  ContinuesPin(n, b) /\ SameWorkflow(before.signer, None, now.signer, None)
             [] b # None /\ n # None /\ Forge(now.project) ->
                  /\ ContinuesPin(n, b)
                  /\ now.pin => SameWorkflow(before.signer, b, now.signer, n)
             [] b # None /\ n = None -> FALSE
             [] b = None /\ before.scheme = "oidc" ->
                  SameWorkflow(before.signer, None, now.signer, n)
             [] OTHER -> before.signer = now.signer

Changes(before, now) ==
    \/ before.scheme = "oidc" /\ now.scheme = "key"
    \/ KeyChanged(before, now)
    \/ ~SignerContinues(before, now)
    \/ before.pin /\ ~now.pin
    \/ before.vendor /\ ~now.vendor
    \/ ~RetainsProvenance(before.links, now.links)

\* Mutant: a project is its name.
MutantByName(before, now) == SameProject(before.project, now.project)

\* A record of another project is never the previous one of this.
PriorProjectMatches(before, now) ==
    \/ SameProject(before.project, now.project)
    \/ /\ Forge(before.project) /\ Forge(now.project)
       /\ before.repository # None /\ now.repository # None
       /\ ContinuesPin(now.repository, before.repository)
       /\ before.project.tool = now.project.tool

\* name_remembered_key
NameRememberedKey(record) ==
    IF pubkey # None /\ record.scheme = "key" /\ record.key = None
      THEN [record EXCEPT !.key = pubkey] ELSE record

-----------------------------------------------------------------------------
(* install.rs: the run of an installation.                                 *)

\* The forge is asked for the id of a github project only.
Resolved(want) == IF want.host = "github" THEN resolves[<<"github", Fold[want.repo]>>] ELSE None

\* installation_key
KeyOf(want) ==
    IF want.host = "github" THEN [host |-> "github", id |-> Resolved(want), tool |-> want.tool]
    ELSE want

Matching(file, want) == {entry \in file : SameProject(entry.project, want)}

\* A file that names the project twice, in two spellings, says nothing.
OneEntryPerFile(given, want) ==
    \A i \in DOMAIN given.files : Cardinality(Matching(given.files[i], want)) <= 1

Nothing == [pins |-> {}, key |-> None, issuer |-> None, identity |-> None, prefix |-> None]

\* Every file that names the project is a requirement of its own.
AdminConstraints(given, want) ==
    [i \in DOMAIN given.files |->
        IF Matching(given.files[i], want) = {} THEN Nothing
        ELSE (CHOOSE entry \in Matching(given.files[i], want) : TRUE).asks]

\* The administrator's, then the caller's. The remembered public key is a
\* requirement when no other source gives one.
Constraints(given, want) ==
    LET req == Append(AdminConstraints(given, want), given.caller)
    IN  IF Given(req, "key") = None /\ pubkey # None
          THEN Append(req, [Nothing EXCEPT !.key = pubkey]) ELSE req

\* A signature over a document exists once a repository of that name had it.
Signed(d) ==
    LET run == IF d.source = None THEN d.flow ELSE d.source
    IN  d.signed = "oidc" /\ Forge(run) => <<run.host, Fold[run.repo], d.origin>> \in held

Verifies(want, d, given, authority) ==
    /\ Signed(d) /\ KeyOf(want) = key
    /\ want.host = "github" => Resolved(want) # None
    /\ authority => ~Forge(want)
    /\ OneEntryPerFile(given, want)
    /\ ReleaseUnder(want, Resolved(want), d, Constraints(given, want), authority)
    /\ \A record \in mem :
         PriorProjectMatches(record, RecordOf(want, d, Constraints(given, want)))

Quiet(want, d, given) ==
    \A record \in mem :
        ~Changes(NameRememberedKey(record), RecordOf(want, d, Constraints(given, want)))

Remember(want, d, given) ==
    LET record == RecordOf(want, d, Constraints(given, want))
        k == Given(Constraints(given, want), "key")
    IN  /\ mem' = {[record EXCEPT !.links = LinkedOnly(d.links)]}
        /\ pubkey' = IF k = None THEN pubkey ELSE k

\* A release that continues what is remembered, if anything is; or one that
\* does not, and the user has approved exactly that change.
Install(want, d, given, authority) ==
    /\ Verifies(want, d, given, authority)
    /\ IF Quiet(want, d, given) THEN Len(trail) < MaxTrail /\ trail' = Append(trail, d)
       ELSE trail' = <<d>>
    /\ Remember(want, d, given)
    /\ UNCHANGED <<key, world>>

\* On the forge: a repository is made or renamed to a name that is free. Its
\* old name leads to it until another repository takes that.
TakeName(host, id, name) ==
    /\ \A other \in Ids : current[<<host, other>>] # name
    /\ current' = [current EXCEPT ![<<host, id>>] = name]
    /\ resolves' = [resolves EXCEPT ![<<host, name>>] = id]
    /\ held' = held \cup {<<host, name, id>>}
    /\ UNCHANGED <<key, mem, pubkey, trail>>

-----------------------------------------------------------------------------
Init ==
    /\ current = Born
    /\ resolves = [at \in ForgeHosts \X Names |->
          LET there == {id \in Ids : Born[<<at[1], id>>] = at[2]}
          IN  IF there = {} THEN None ELSE CHOOSE id \in there : TRUE]
    /\ held = {<<at[1], Born[at], at[2]>> : at \in {x \in DOMAIN Born : Born[x] # None}}
    /\ key \in {KeyOf(want) : want \in Requests}
    /\ \/ mem = {} /\ pubkey = None /\ trail = <<>>
       \/ \E d \in Docs :                 \* kept before records had keys
            /\ d.signed = "key" /\ d.project = key /\ ~Forge(key)
            /\ mem = {[RecordOf(d.project, d, <<>>) EXCEPT !.links = LinkedOnly(d.links)]}
            /\ pubkey = d.key /\ trail = <<d>>

Next ==
    \/ \E want \in {w \in Requests : KeyOf(w) = key}, d \in {c \in Docs : Signed(c)},
          given \in Requirements, authority \in BOOLEAN :
         Install(want, d, given, authority)
    \/ \E move \in Moves : TakeName(move[1], move[2], move[3])

Spec == Init /\ [][Next]_vars

-----------------------------------------------------------------------------
(* Properties.                                                             *)

\* A release of a forge project was signed by a run of a repository that had
\* the name the user asked for, approved or not: neither a caller of its
\* workflow nor another project of the signer passes for it, whatever ids,
\* names and certificates without ids there are.
OwnRepository ==
    \A record \in mem : Forge(record.project) =>
        <<record.project.host, Fold[record.project.repo], Last(trail).origin>> \in held

\* The repository by id: its forge, and the one whose run signed.
SameSource(c, d) ==
    /\ SourceId(d) # None /\ Forge(d.source) /\ d.source.host = c.source.host
    /\ c.origin = d.origin /\ Issuer(c) = Issuer(d)

\* The workflow that really signed: of a forge project, the repository's own at
\* a path, or one of a shared repository, whatever they are called by then; and
\* as long as no certificate has an id, one of the same repository name. Of a
\* project named after a host, one URL.
SameSigner(c, d) ==
    LET Own(x) == SameRepo(x.flow, x.project)
    IN  IF Forge(c.project)
          THEN /\ c.flow.path = d.flow.path
               /\ SourceId(c) # None => (Own(c) <=> Own(d))
               /\ SourceId(d) = None \/ (SourceId(c) # None /\ ~Own(c)) => SameRepo(c.flow, d.flow)
          ELSE SameUrl(WithoutRef(c.flow), WithoutRef(d.flow))

\* However many releases were accepted without a review, the last comes from
\* the repository the first one named, by its id; once a release pins its
\* workflow all later ones do, and come from it; and one key stays that key.
SignerKept ==
    \A i, j \in DOMAIN trail : i < j =>
        LET c == trail[i] d == trail[j]
        IN  /\ c.signed = d.signed
            /\ c.signed = "key" => c.key = d.key
            /\ SourceId(c) # None /\ Forge(c.source) => SameSource(c, d)
            /\ c.pin => d.pin
            /\ c.pin /\ c.signed = "oidc" => SameSigner(c, d)

\* Nor did a vendor's release become a repackager's, or a build that all of
\* them offer lose links from its best artifact, or all linked builds go.
LinksKept ==
    \A i, j \in DOMAIN trail : i < j =>
        LET c == trail[i] d == trail[j]
        IN  /\ c.vendor => d.vendor
            /\ \A b \in DOMAIN c.links :
                 (\A k \in i..j : b \in DOMAIN trail[k].links) => d.links[b][1] >= c.links[b][1]
            /\ j = i + 1 /\ (\E b \in DOMAIN c.links : c.links[b][1] > 0) =>
                 \E b \in DOMAIN c.links \cap DOMAIN d.links : c.links[b][1] > 0

\* No requirements.
Free == [files |-> <<>>, caller |-> Nothing]

\* A release by the recorded workflow and of the recorded repository, whatever
\* that is called by now, and with what the record has of vendor and links.
Renamed(want, d, record) ==
    /\ KeyOf(want) = key /\ want.host = "github" /\ Signed(d)
    /\ record.repository # None /\ d.honest /\ d.signed = "oidc"
    /\ d.project.host = "github" /\ d.project.tool = want.tool
    /\ d.source # None /\ SameRepo(d.source, d.project) /\ SameRepo(d.flow, d.project)
    /\ d.source.id = record.repository.id
    /\ SameRepo(record.signer, record.repository.project) /\ d.flow.path = record.signer.path
    /\ d.pin = record.pin /\ d.vendor = record.vendor /\ LinkedOnly(d.links) = record.links

\* A vendor who renames a repository loses no one: a release that its workflow
\* signs under the new name is accepted under either, in any case, at any ref,
\* without a review.
RenamesAreQuiet ==
    \A want \in Requests, d \in Docs, record \in mem :
        Renamed(want, d, record) => Verifies(want, d, Free, FALSE) /\ Quiet(want, d, Free)
=============================================================================
