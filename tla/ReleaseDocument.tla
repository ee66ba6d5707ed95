--------------------------- MODULE ReleaseDocument ---------------------------
(***************************************************************************)
(* A release document (the packslip): what it records, when it is valid,   *)
(* which artifact a host takes from it and which resources go with that    *)
(* artifact (src/model.rs).                                                *)
(*                                                                         *)
(* A field that is left out is Absent. Names, digests and values are       *)
(* members of small sets; a value that breaks the grammar of its field is  *)
(* one outside Token. Positions in artifacts and resources are document    *)
(* order.                                                                  *)
(***************************************************************************)
EXTENDS Naturals, Sequences, FiniteSets

CONSTANTS
    Absent,    \* a field that is left out
    Token      \* values with the shape of an os, arch, libc, variant or format

-----------------------------------------------------------------------------
(* What a document records.                                                *)

\* The formats of a single executable: the file itself, perhaps compressed.
BareFormats == {"raw", "gz", "xz", "zst", "bz2"}

\* What the executables of an artifact need from the host. A libs that is
\* Absent was never checked; an empty one was, and needs nothing.
RequiresFields == {"libs", "os_min", "glibc_min", "bin"}

\* One downloadable build. bin are the names of its commands.
ArtifactFields ==
    {"name", "os", "arch", "libc", "variant", "format", "bin", "requires"}

\* Something shipped beside the executables, and its one source. placeholder
\* says that a command or its environment mentions {shell}.
ResourceFields ==
    {"kind", "artifact", "os", "arch", "libc", "shell", "shells", "name",
     "bin", "format", "archive", "asset", "repo", "exec", "env", "url",
     "placeholder"}

Scope(r) == {f \in {"os", "arch", "libc"} : r[f] # Absent}

\* The sources a resource gives; a valid one gives exactly one.
Sources(r) == {s \in {"archive", "asset", "repo", "exec"} : r[s] # Absent}

Present(r, field) == r[field] # Absent

-----------------------------------------------------------------------------
(* Which artifact a host takes.                                            *)

Fits(a, host, variant) ==
    /\ a.os \in {Absent, host.os}
    /\ a.arch \in {Absent, host.arch}
    /\ a.libc = Absent \/ a.libc = host.libc
    /\ a.variant = variant

\* The rank of a format in the consumer's preference, 0 when it has none.
FormatRank(a, formats) ==
    LET at == {i \in DOMAIN formats : formats[i] = a.format}
    IN  IF at = {} THEN 0 ELSE Len(formats) + 1 - CHOOSE i \in at : TRUE

\* What artifacts that fit are compared by: the fields they name, then the
\* preference for their format.
Preference(a, formats) == <<Cardinality(Scope(a)), FormatRank(a, formats)>>

Below(k, l) == k[1] < l[1] \/ (k[1] = l[1] /\ k[2] < l[2])

NothingFound == [best |-> Absent, tied |-> Absent]

\* Mutant: a tie is not forgotten when a better artifact is found.
MutantTieStays(found, a, host, variant, formats) ==
    LET p == Preference(a, formats)
        q == Preference(found.best, formats)
    IN  CASE ~Fits(a, host, variant) \/ FormatRank(a, formats) = 0 -> found
          [] Fits(a, host, variant) /\ FormatRank(a, formats) # 0
               /\ found.best = Absent -> [found EXCEPT !.best = a]
          [] OTHER -> IF Below(p, q) THEN found
                      ELSE IF p = q THEN [found EXCEPT !.tied = a]
                      ELSE [found EXCEPT !.best = a]

\* One turn of the loop of select_artifact, which keeps the best so far and
\* one that it is tied with.
Weigh(found, a, host, variant, formats) ==
    LET p == Preference(a, formats)
        q == Preference(found.best, formats)
    IN  IF ~Fits(a, host, variant) \/ FormatRank(a, formats) = 0
          THEN found
        ELSE IF found.best # Absent /\ Below(p, q)
          THEN found
        ELSE IF found.best # Absent /\ p = q
          THEN [found EXCEPT !.tied = a]
        ELSE [best |-> a, tied |-> Absent]

SelectArtifact(artifacts, host, variant, formats) ==
    LET Scan[n \in 0..Len(artifacts)] ==
            IF n = 0 THEN NothingFound
            ELSE Weigh(Scan[n - 1], artifacts[n], host, variant, formats)
    IN  Scan[Len(artifacts)]

-----------------------------------------------------------------------------
(* Which resources go with an artifact.                                    *)

BinNames(doc) == UNION {doc.artifacts[i].bin : i \in DOMAIN doc.artifacts}

\* The release's only executable, which a resource may leave unnamed.
SoleBin(doc) ==
    IF Cardinality(BinNames(doc)) = 1 THEN CHOOSE b \in BinNames(doc) : TRUE
    ELSE Absent

ResourceFits(r, a) ==
    /\ ~(Present(r, "archive") /\ a.format \in BareFormats)
    /\ r.artifact \in {Absent, a.name}
    /\ \A f \in Scope(r) : r[f] = a[f]

\* A scope that names the artifact beats any platform scope.
Specificity(r) ==
    (IF Present(r, "artifact") THEN 4 ELSE 0) + Cardinality(Scope(r))

\* Mutant: an entry that leaves its command out is not for the only one.
MutantUnnamedApart(r, sole) ==
    CASE r.kind = "completion" ->
           {<<r.kind, r.bin, s>> : s \in r.shells \cup ({r.shell} \ {Absent})}
      [] OTHER -> {<<r.kind, r.bin, r.format, r.name>>}

\* What an entry is an entry for. Entries compete only over the same thing.
IdentitiesFor(r, sole) ==
    LET bin == IF Present(r, "bin") THEN r.bin ELSE sole
        shells == r.shells \cup ({r.shell} \ {Absent})
    IN  CASE r.kind = "completion" ->
               IF shells = {} THEN {<<r.kind, bin>>}
               ELSE {<<r.kind, bin, s>> : s \in shells}
          [] r.kind = "cli-spec" -> {<<r.kind, r.format, r.bin>>}
          [] r.kind = "skill"    -> {<<r.kind, r.name>>}
          [] r.kind = "sbom"     -> {<<r.kind, r.format>>}
          [] OTHER ->
               {<<r.kind, bin,
                  IF Present(r, "archive") THEN r.archive
                  ELSE IF Present(r, "asset") THEN r.asset ELSE r.repo>>}

\* The entries to use with artifact a, by position: for each thing, the most
\* specific of those that fit.
SelectResources(doc, a) ==
    LET rs == doc.resources
        Of(i) == IdentitiesFor(rs[i], SoleBin(doc))
        Fitting(id) == {i \in DOMAIN rs : id \in Of(i) /\ ResourceFits(rs[i], a)}
        Best(id) == {i \in Fitting(id) :
                       \A j \in Fitting(id) : Specificity(rs[j]) <= Specificity(rs[i])}
    IN  UNION {Best(id) : id \in UNION {Of(i) : i \in DOMAIN rs}}

-----------------------------------------------------------------------------
(* When a document is valid: the checks of Statement::validate, by group.  *)

\* The envelope and the release: at least one artifact, no name twice.
EnvelopeOk(doc) ==
    /\ Len(doc.artifacts) > 0
    /\ \A i, j \in DOMAIN doc.artifacts :
         doc.artifacts[i].name = doc.artifacts[j].name => i = j

SamePlatform(a, b) ==
    \A f \in {"os", "arch", "libc", "variant", "format"} : a[f] = b[f]

\* Each artifact: a subject, a format, well-shaped values, and not the
\* platform, variant and format of an earlier one.
ArtifactsOk(doc) ==
    \A i \in DOMAIN doc.artifacts :
        LET a == doc.artifacts[i]
        IN  /\ a.name \in doc.subject
            /\ a.format # Absent
            /\ \A f \in {"os", "arch", "libc", "variant", "format"} :
                 a[f] \in Token \cup {Absent}
            /\ \A j \in 1..(i - 1) : ~SamePlatform(doc.artifacts[j], a)

\* A release does not require a command it provides itself, nor one twice.
RequiresOk(doc) ==
    \A i \in DOMAIN doc.artifacts :
        LET a == doc.artifacts[i]
        IN  a.requires # Absent =>
              /\ \A c \in a.requires.bin : c.name \notin BinNames(doc)
              /\ \A c, d \in a.requires.bin : c.name = d.name => c = d

\* A resource's scope and source.
SourceOk(doc, r) ==
    /\ Cardinality(Sources(r)) = 1
    /\ \A i \in DOMAIN doc.artifacts :
         doc.artifacts[i].name = r.artifact /\ Present(r, "archive")
           => doc.artifacts[i].format \notin BareFormats
    /\ Present(r, "artifact") =>
         \E i \in DOMAIN doc.artifacts : ResourceFits(r, doc.artifacts[i])
    /\ \A f \in Scope(r) : r[f] \in Token
    /\ Present(r, "asset") => r.asset \in doc.subject
    /\ Present(r, "repo") => doc.commit
    /\ Present(r, "exec") => r.exec \in BinNames(doc)
    /\ r.env => Present(r, "exec")
    /\ r.url => Present(r, "asset")

\* The rules of each kind.
KindOk(doc, r) ==
    /\ r.kind \in {"completion", "man"} =>
         IF Present(r, "bin") THEN r.bin \in BinNames(doc)
         ELSE Cardinality(BinNames(doc)) <= 1
    /\ r.kind = "completion" =>
         /\ Present(r, "shell") <=> r.shells = {}
         /\ Present(r, "exec") => ~Present(r, "shell")
         /\ r.shells # {} => Present(r, "exec") /\ r.placeholder
    /\ r.kind = "cli-spec" =>
         Present(r, "format") /\ Present(r, "bin") /\ r.bin \in BinNames(doc)
    /\ r.kind = "skill" => Present(r, "name")
    /\ r.kind = "app" => Present(r, "archive")
    /\ r.kind = "sbom" => Present(r, "format") /\ ~Present(r, "exec")

\* Every file the subject digests is an artifact or the asset of a resource.
SubjectsOk(doc) ==
    \A s \in doc.subject :
        \/ \E i \in DOMAIN doc.artifacts : doc.artifacts[i].name = s
        \/ \E i \in DOMAIN doc.resources : doc.resources[i].asset = s

Validate(doc) ==
    /\ EnvelopeOk(doc) /\ ArtifactsOk(doc) /\ RequiresOk(doc)
    /\ \A i \in DOMAIN doc.resources :
         SourceOk(doc, doc.resources[i]) /\ KindOk(doc, doc.resources[i])
    /\ SubjectsOk(doc)
=============================================================================
