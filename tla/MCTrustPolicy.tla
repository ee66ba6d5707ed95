---------------------------- MODULE MCTrustPolicy ----------------------------
(***************************************************************************)
(* A small instance of TrustPolicy for TLC: a tool on both forges whose    *)
(* repositories have the same id, one that is renamed and whose name is    *)
(* taken, one that calls its workflows, a shared workflow, and a project   *)
(* named after its host.                                                   *)
(***************************************************************************)
EXTENDS VerifyCommand

MCNames == {"a", "b", "s", "z"}
MCFold == [n \in MCNames \cup {"A"} |-> IF n = "A" THEN "a" ELSE n]
MCIds == {1, 2, 3}
MCBorn == [at \in ForgeHosts \X MCIds |->
             CASE at[2] = 1 -> "a" [] at[2] = 3 -> "z" [] OTHER -> None]
MCMoves == {<<"github", 1, "b">>, <<"github", 2, "a">>, <<"gitlab", 1, "b">>,
            <<"gitlab", 2, "a">>}
MCKeyId == [k \in {"k1", "k2"} |-> "id"]

Hub(repo) == [host |-> "github", repo |-> repo, tool |-> None]
Lab(repo) == [host |-> "gitlab", repo |-> repo, tool |-> None]
Sub == [Hub("a") EXCEPT !.tool = "t"]
Site == [host |-> "site", repo |-> None, tool |-> None]

MCRequests == {Hub("a"), Hub("A"), Hub("b"), Lab("a"), Site}

Flow(host, repo, path, ref) == [host |-> host, repo |-> repo, path |-> path, ref |-> ref]
From(host, repo, id) == [host |-> host, repo |-> repo, id |-> id]
One == [b \in {"linux"} |-> <<1>>]
MCFiles == [f \in {"tool", "tool.1"} |->
              [digest |-> f, size |-> IF f = "tool" THEN 1 ELSE None]]

Doc(project, flow, source, origin) ==
    [project |-> project, signed |-> "oidc", flow |-> flow, source |-> source,
     key |-> None, origin |-> origin, honest |-> TRUE, pin |-> TRUE, vendor |-> TRUE,
     links |-> One, files |-> MCFiles]

Rel(repo, ref) == Flow("github", repo, "rel", ref)
HubA == Doc(Hub("a"), Rel("a", "v1"), From("github", "a", 1), 1)
LabA == Doc(Lab("a"), Flow("gitlab", "a", "ci", "v1"), From("gitlab", "a", 1), 1)
SiteA == [HubA EXCEPT !.project = Site]
Keyed(k) == [SiteA EXCEPT !.signed = "key", !.key = k, !.flow = None, !.source = None]

MCDocs ==
    {HubA,
     Doc(Hub("A"), Rel("A", "v2"), From("github", "A", 1), 1),
     Doc(Hub("b"), Rel("b", "v2"), From("github", "b", 1), 1),
     Doc(Hub("a"), Rel("a", "v1"), From("github", "a", 2), 2),
     Doc(Hub("a"), Flow("github", "a", "try", "v1"), From("github", "a", 1), 1),
     [Doc(Hub("a"), Flow("github", "a", "try", "v1"), From("github", "a", 1), 1)
        EXCEPT !.pin = FALSE],
     Doc(Hub("a"), Rel("s", "v1"), From("github", "a", 1), 1),
     Doc(Hub("b"), Rel("s", "v1"), From("github", "b", 1), 1),
     Doc(Hub("a"), Rel("a", "v1"), None, 1),
     Doc(Hub("a"), Rel("a", "v1"), From("github", "a", None), 1),
     Doc(Hub("a"), Rel("a", "v1"), From("github", "z", 3), 3),
     Doc(Hub("a"), Rel("z", "v1"), From("github", "z", None), 3),
     Doc(Sub, Rel("a", "v1"), From("github", "a", 1), 1),
     [HubA EXCEPT !.vendor = FALSE],
     [HubA EXCEPT !.honest = FALSE],
     [HubA EXCEPT !.links = [b \in {"linux"} |-> <<2, 0>>]],
     [HubA EXCEPT !.links = [b \in {"linux"} |-> <<1, 1>>]],
     [HubA EXCEPT !.links = [b \in {"linux", "mac"} |-> <<1>>]],
     [HubA EXCEPT !.links = [b \in {"mac"} |-> <<1>>]],
     LabA,
     Doc(Lab("a"), Flow("gitlab", "a", "ci", "v1"), From("gitlab", "z", 3), 3),
     Doc(Lab("a"), Flow("gitlab", "s", "ci", "v1"), From("gitlab", "a", 1), 1),
     Doc(Lab("a"), Flow("gitlab", "a", "ci", "v1"), From("gitlab", "a", 2), 2),
     SiteA,
     [SiteA EXCEPT !.flow = Rel("a", "v2"), !.source = None],
     [SiteA EXCEPT !.source = From("github", "a", 2), !.origin = 2],
     [SiteA EXCEPT !.flow = Rel("s", "v1")],
     [LabA EXCEPT !.project = Site],
     Keyed("k1"), Keyed("k2"), [Keyed("k1") EXCEPT !.project = Hub("a")]}

Asks(pins, k, issuer, identity, prefix) ==
    [pins |-> pins, key |-> k, issuer |-> issuer, identity |-> identity, prefix |-> prefix]

Entry(project, asks) == [project |-> project, asks |-> asks]
Needs(files, caller) == [files |-> files, caller |-> caller]
IdOne == Asks({<<"github", 1>>}, None, None, None, None)
ByKey(k) == Asks({}, k, None, None, None)

MCRequirements ==
    {Free,
     Needs(<<>>, IdOne),
     Needs(<<{Entry(Hub("A"), IdOne), Entry(Site, ByKey("k1"))}>>, Nothing),
     Needs(<<{Entry(Hub("A"), IdOne), Entry(Hub("a"), Nothing)}>>, Nothing),
     Needs(<<{Entry(Site, ByKey("k1"))}>>, ByKey("k2")),
     Needs(<<>>, ByKey("k2")),
     Needs(<<{Entry(Site, Asks({}, None, "github", None, None))}>>,
           Asks({}, None, None, None, Flow("github", "a", None, None))),
     Needs(<<>>, Asks({}, None, "github", Rel("A", "v1"), None))}

\* Command lines: requirements as above, a repository, a fingerprint, a signer
\* outside the project's repository, and files.
Bare == [key |-> None, issuer |-> None, identity |-> None, prefix |-> None,
         source |-> None, pin |-> None, other |-> FALSE, files |-> {}]
File(name, digest, size) == [name |-> name, digest |-> digest, size |-> size]
ByIssuer == [Bare EXCEPT !.issuer = "github"]
BySource(repo) == [ByIssuer EXCEPT !.source = From("github", repo, None)]

MCArguments ==
    {Bare, ByIssuer, [Bare EXCEPT !.issuer = "gitlab"],
     [Bare EXCEPT !.key = "k1"], [Bare EXCEPT !.key = "k1", !.issuer = "github"],
     [Bare EXCEPT !.identity = Rel("A", "v1")],
     [ByIssuer EXCEPT !.identity = Rel("A", "v1")],
     [ByIssuer EXCEPT !.prefix = Flow("github", "a", None, None)],
     [ByIssuer EXCEPT !.prefix = Flow("github", "s", None, None)],
     BySource("A"), [BySource("a") EXCEPT !.prefix = Flow("github", "a", None, None)],
     [BySource("z") EXCEPT !.other = TRUE], [ByIssuer EXCEPT !.other = TRUE],
     [Bare EXCEPT !.pin = <<"github", 1>>], [ByIssuer EXCEPT !.pin = <<"github", 2>>],
     [Bare EXCEPT !.files = {File("tool", "tool", 1), File("tool.1", "tool.1", 7)}],
     [Bare EXCEPT !.files = {File("tool", "tool", 2)}]}

\* A store that compares two signers by itself (same_workflow) decides as one
\* that asks about a checked release (continues_signer), but for a shared
\* workflow's repository whose name the project itself got later.
ASSUME TwoWaysAgree ==
    \A want \in MCRequests, c, d \in MCDocs :
        LET before == Pin(c)
        IN  /\ Forge(c.project) /\ before # None /\ SourceNamed(c) /\ d.pin
            /\ CheckSource(want, {before}, None, d) /\ Pin(d) # None
            /\ ExternalSigner(c.flow, before) # None =>
                 ~SameRepo(c.flow, d.project) /\ ~SameRepo(c.flow, want)
            => (ContinuesSigner(want, {before}, None, d, c.flow)
                  <=> SameWorkflow(c.flow, before, d.flow, Pin(d)))
=============================================================================
