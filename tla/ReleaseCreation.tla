--------------------------- MODULE ReleaseCreation ---------------------------
(***************************************************************************)
(* From the files of a release to what a host installs of it: a vendor     *)
(* describes its files one by one and creates the document                 *)
(* (src/create.rs, src/linkage.rs, src/manifest.rs); a host picks an       *)
(* artifact, looks at itself and accepts or refuses the artifact's         *)
(* requirements (src/model.rs, src/install_host.rs, src/install.rs).       *)
(*                                                                         *)
(* A file is what its name says, as the sequence of the words of the name, *)
(* what its bytes are (build: where it runs, for the properties only) and  *)
(* what its executables show to a reader. The vendor's own words about a   *)
(* file (the command line, or the release manifest) are its given fields.  *)
(***************************************************************************)
EXTENDS ReleaseDocument

CONSTANTS
    Inputs,        \* the files with what the vendor says of each
    Extras,        \* resources the vendor may list
    AssetFiles,    \* separate files a resource may come from: name and digest
    Defaults,      \* a manifest's bin and requires for files with none, and
                   \* the commands required of every host
    BaselineLibs,  \* libraries that every host of a platform has
    Hosts,         \* the machines that install the release
    Variants,      \* the variants a host may ask for (Absent for none)
    Formats,       \* what the installer unpacks, best first
    MaxParts       \* bound: artifacts and resources of a release

\* What a vendor may say of a file, with what its bytes are and show.
InputFields ==
    {"file", "name", "os", "arch", "libc", "portable", "variant", "format",
     "bin", "requires", "build", "seen", "readable"}

\* A list of names is finite, url is a flag, and requirements are records of
\* their fields.
ASSUME InputsComplete ==
    /\ \A input \in Inputs :
         /\ DOMAIN input = InputFields
         /\ input.bin # Absent => IsFiniteSet(input.bin)
         /\ input.requires # Absent => DOMAIN input.requires = RequiresFields
    /\ IsFiniteSet(Defaults.bin)
    /\ Defaults.requires # Absent => DOMAIN Defaults.requires = RequiresFields
    /\ \A r \in Extras : DOMAIN r = ResourceFields /\ r.url \in BOOLEAN

\* A format has one place in the list of those that the installer unpacks.
ASSUME FormatsRanked ==
    /\ Formats \in Seq({Formats[i] : i \in DOMAIN Formats})
    /\ \A i, j \in DOMAIN Formats : Formats[i] = Formats[j] => i = j

VARIABLES
    phase,      \* where the release is
    assets,     \* the names of the asset files of the request
    doc,        \* the document being built: artifacts, resources, subject
    origin,     \* per artifact, the input it was described from
    host,       \* the host that looks at the release
    variant,    \* the variant it asked for
    chosen,     \* position of the artifact it took, 0 for none
    report      \* what checking the requirements said

vars == <<phase, assets, doc, origin, host, variant, chosen, report>>

Elements(s) == {s[i] : i \in DOMAIN s}

-----------------------------------------------------------------------------
(* What a file name says.                                                  *)

\* The value of the first row that has a word of the name.
FirstRow(rows, name) ==
    LET hit == {i \in DOMAIN rows : rows[i].words \cap Elements(name) # {}}
    IN  IF hit = {} THEN Absent
        ELSE rows[CHOOSE i \in hit : \A j \in hit : i <= j].value

Row(value, words) == [value |-> value, words |-> words]

Follows(name, first, second) ==
    \E i \in 1..(Len(name) - 1) : name[i] = first /\ name[i + 1] = second

OsRows == <<Row("linux", {"linux", ".deb", ".rpm", ".appimage"}),
            Row("darwin", {"darwin", "macos", "apple", ".dmg", ".pkg"}),
            Row("windows", {"windows", "win64", ".exe", ".msi"}),
            Row("freebsd", {"freebsd"})>>

\* Rust's triples of Android and iOS say linux and apple as well: the last
\* word wins where it follows that one, or where nothing else is said.
InferOs(name) ==
    LET words == Elements(name)
    IN  CASE Follows(name, "linux", "android")
               \/ ("android" \in words /\ "linux" \notin words) -> "android"
          [] Follows(name, "apple", "ios")
               \/ ("ios" \in words /\ words \cap {"apple", "darwin", "macos"} = {}) -> "ios"
          [] OTHER -> FirstRow(OsRows, name)

\* "x86" alone is the 32-bit one, but every 64-bit spelling contains it.
ArchRows == <<Row("x86_64", {"x86_64", "amd64", "x64"}),
              Row("aarch64", {"aarch64", "arm64"}),
              Row("armv7", {"armv7", "armhf"}),
              Row("i686", {"i686", "x86", "386"}),
              Row("armv6", {"arm"}),
              Row("x86_64", {"win64"})>>

LibcRows == <<Row("musl", {"musl"}), Row("gnu", {"gnu", "gnueabihf"})>>

FormatRows == <<Row("tar.gz", {".tar.gz"}), Row("zip", {".zip"}),
                Row("gz", {".gz"}), Row("deb", {".deb"}), Row("rpm", {".rpm"}),
                Row("dmg", {".dmg"}), Row("msi", {".msi"}), Row("exe", {".exe"})>>

InferPlatform(name) ==
    LET os == InferOs(name)
        suffix == FirstRow(FormatRows, name)
    IN  [os |-> os, arch |-> FirstRow(ArchRows, name),
         libc |-> IF os \in {Absent, "linux"} THEN FirstRow(LibcRows, name) ELSE Absent,
         format |-> IF suffix = "exe" /\ "setup" \notin Elements(name)
                      THEN "raw" ELSE suffix]

\* A tail that reads as an extension but names no known format (.h, .txt).
HasExtension(name) == ".txt" \in Elements(name)

-----------------------------------------------------------------------------
(* What the executables of a file show. seen is Absent when the file could *)
(* not be opened or lists no executable, else the kinds of its executables *)
(* the libraries these load and the files shipped with them.               *)

ReadExecutables(input, bin) ==
    IF bin = {} \/ ~input.readable THEN Absent ELSE input.seen

\* The libraries that binaries name, without those of the platform itself.
NeededLibraries(seen) == seen.libs \ BaselineLibs

\* The libraries needed of the host: not those the artifact ships anywhere
\* under the same name. Absent when no executable is a binary.
HostLibraries(seen) ==
    IF seen.kinds \subseteq {"script"} THEN Absent
    ELSE NeededLibraries(seen) \ seen.shipped

\* The kinds of executable that are ELF, by the C library they load; the others
\* are "script", "pe" and "macho".
ElfKinds == {"gnu", "musl", "static"}

\* The C library a set of ELF executables loads; "unknown" when there is none or
\* one is of another kind, Absent when all are static.
ElfLibc(seen) ==
    LET elf == seen.kinds # {} /\ seen.kinds \subseteq ElfKinds
    IN  CASE ~elf -> "unknown"
          [] elf /\ "gnu" \in seen.kinds -> "gnu"
          [] elf /\ "gnu" \notin seen.kinds /\ "musl" \in seen.kinds -> "musl"
          [] OTHER -> Absent

-----------------------------------------------------------------------------
(* One file of the request.                                                *)

\* What the vendor gave, "any" leaving the field out, else what the name says.
Given(value, inferred) ==
    IF value = "any" THEN Absent ELSE IF value # Absent THEN value ELSE inferred

Bins(input) == IF input.bin = Absent THEN Defaults.bin ELSE input.bin

Requirements(input) ==
    IF input.requires # Absent THEN input.requires ELSE Defaults.requires

FormatOf(input) ==
    LET says == InferPlatform(input.name)
        os == IF input.os # Absent THEN input.os ELSE says.os
    IN  CASE input.format # Absent -> input.format
          [] input.format = Absent /\ says.format # Absent -> says.format
          [] OTHER -> IF ~HasExtension(input.name) /\ (input.portable \/ os # Absent)
                        THEN "raw" ELSE Absent

PlatformOf(input) ==
    LET says == InferPlatform(input.name)
        seen == ReadExecutables(input, Bins(input))
        os == IF input.os # Absent THEN input.os ELSE says.os
        read == IF seen = Absent THEN "unknown" ELSE ElfLibc(seen)
    IN  IF input.portable THEN [os |-> Absent, arch |-> Absent, libc |-> Absent]
        ELSE [os |-> os, arch |-> Given(input.arch, says.arch),
              libc |-> CASE input.libc # Absent -> Given(input.libc, Absent)
                         [] input.libc = Absent /\ os # "linux" -> Absent
                         [] input.libc = Absent /\ os = "linux" /\ says.libc # Absent
                              -> says.libc
                         [] OTHER -> IF read = "unknown" THEN "gnu" ELSE read]

\* A build for one OS that does not say which architecture is refused, but
\* for macOS and Windows, which run x86 builds, and packages that say all.
ArchUnknown(input) ==
    LET p == PlatformOf(input)
        everywhere == \/ FormatOf(input) = "rpm" /\ "noarch" \in Elements(input.name)
                      \/ FormatOf(input) = "deb" /\ "all" \in Elements(input.name)
    IN  /\ ~input.portable /\ p.arch = Absent /\ input.arch = Absent
        /\ ~everywhere
        /\ p.os \notin {Absent, "darwin", "windows"}

\* The libraries the manifest gives and the ones the executables load.
LibsDiffer(input) ==
    LET seen == ReadExecutables(input, Bins(input))
        given == Requirements(input)
    IN  /\ seen # Absent /\ HostLibraries(seen) # Absent
        /\ given # Absent /\ given.libs # Absent
        /\ given.libs # HostLibraries(seen)

NoRequirements ==
    [libs |-> Absent, os_min |-> Absent, glibc_min |-> Absent, bin |-> {}]

\* The requirements of an artifact, with what its executables show.
FullRequires(input) ==
    LET seen == ReadExecutables(input, Bins(input))
        base == IF Requirements(input) = Absent THEN NoRequirements
                ELSE Requirements(input)
        libs == IF seen = Absent \/ HostLibraries(seen) = Absent THEN base.libs
                ELSE HostLibraries(seen)
    IN  [base EXCEPT !.libs = libs,
           !.bin = IF Bins(input) = {} THEN @ ELSE @ \cup Defaults.commands]

RequiresOf(input) ==
    IF FullRequires(input) = NoRequirements THEN Absent ELSE FullRequires(input)

Describe(input) ==
    LET p == PlatformOf(input)
    IN  [name |-> input.file, os |-> p.os, arch |-> p.arch, libc |-> p.libc,
         variant |-> input.variant, format |-> FormatOf(input),
         bin |-> Bins(input), requires |-> RequiresOf(input)]

\* What a file is described with is not the mark of something left out, and
\* the libraries that a build needs (beyond those loaded by name while it runs,
\* of which no file tells) are the ones that its executables name, where these
\* are binaries.
ASSUME DescriptionsAreGiven ==
    \A input \in Inputs :
      /\ Describe(input) # Absent /\ FullRequires(input) # Absent
      /\ input.seen # Absent /\ ~(input.seen.kinds \subseteq {"script"}) =>
           /\ HostLibraries(input.seen) # Absent
           /\ input.build.libs \subseteq HostLibraries(input.seen)

\* No library is called what a report calls the system itself.
ASSUME LibrariesAreNamed ==
    \A h \in Hosts : \A f \in h.dirs \cup h.cache : f.lib \notin {"os", "glibc"}

-----------------------------------------------------------------------------
(* Creating the document.                                                  *)

Init ==
    /\ phase = "request" /\ assets = {}
    /\ doc = [artifacts |-> <<>>, resources |-> <<>>, subject |-> {}, commit |-> FALSE]
    /\ origin = <<>>
    /\ host = Absent /\ variant = Absent /\ chosen = 0 /\ report = Absent

Refuse ==
    /\ phase' = "refused"
    /\ UNCHANGED <<assets, doc, origin, host, variant, chosen, report>>

\* The request names its assets and may have a source commit. Two files of
\* one name cannot both be the subject of that name.
Request(files, commit) ==
    /\ phase = "request"
    /\ IF \E f, g \in files : f.file = g.file /\ f # g
         THEN Refuse
         ELSE /\ phase' = "artifacts"
              /\ assets' = {f.file : f \in files}
              /\ doc' = [doc EXCEPT !.subject = {f.file : f \in files}, !.commit = commit]
              /\ UNCHANGED <<origin, host, variant, chosen, report>>

Parts == Len(doc.artifacts) + Len(doc.resources)

\* One turn of the loop over the files: described, or the creation fails. A
\* file that is named as an asset is left out of the artifacts.
AddArtifact(input) ==
    /\ phase = "artifacts" /\ Parts < MaxParts
    /\ input.file \notin assets
    /\ IF \/ FormatOf(input) = Absent \/ ArchUnknown(input) \/ LibsDiffer(input)
          \/ \E i \in DOMAIN doc.artifacts :
               SamePlatform(doc.artifacts[i], Describe(input))
         THEN Refuse
         ELSE /\ doc' = [doc EXCEPT !.artifacts = Append(@, Describe(input)),
                                    !.subject = @ \cup {input.file}]
              /\ origin' = Append(origin, input)
              /\ UNCHANGED <<phase, assets, host, variant, chosen, report>>

\* A resource is taken as the vendor wrote it, with the URL of its asset.
AddResource(r) ==
    /\ phase \in {"artifacts", "resources"} /\ Parts < MaxParts
    /\ phase' = "resources"
    /\ doc' = [doc EXCEPT !.resources =
                 Append(@, [r EXCEPT !.url = @ \/ r.asset \in assets])]
    /\ UNCHANGED <<assets, origin, host, variant, chosen, report>>

\* The finished statement is validated before it is signed.
Create ==
    /\ phase \in {"artifacts", "resources"}
    /\ IF Validate(doc)
         THEN /\ phase' = "created"
              /\ UNCHANGED <<assets, doc, origin, host, variant, chosen, report>>
         ELSE Refuse

-----------------------------------------------------------------------------
(* Installing it.                                                          *)

\* What a host finds out about itself: gnu when getconf answers or the
\* loader is there, musl when only the musl loader is.
Detect(h) ==
    [os |-> h.os, arch |-> h.arch,
     libc |-> CASE h.os # "linux" -> Absent
                [] h.os = "linux" /\ (h.getconf \/ "gnu" \in h.loaders) -> "gnu"
                [] h.os = "linux" /\ ~h.getconf /\ h.loaders = {"musl"} -> "musl"
                [] OTHER -> Absent]

Select(h, v) ==
    LET found == SelectArtifact(doc.artifacts, Detect(h), v, Formats)
    IN  /\ phase = "created"
        /\ host' = h /\ variant' = v
        /\ phase' = IF found.best = Absent THEN "no match"
                    ELSE IF found.tied # Absent THEN "ambiguous" ELSE "chosen"
        /\ chosen' = IF found.best = Absent THEN 0
                     ELSE CHOOSE i \in DOMAIN doc.artifacts : doc.artifacts[i] = found.best
        /\ UNCHANGED <<assets, doc, origin, report>>

\* A file counts as the library only if it is one of the host's architecture.
LibraryMatches(f, lib) == f.lib = lib /\ f.arch = host.arch

\* Mutant: a cache that was not read to its end counts as read.
MutantCacheCutShort ==
    IF Detect(host).libc # "gnu" THEN Absent
    ELSE IF host.ldconfig = "complete" THEN host.cache ELSE {}

\* The loader's cache, when all of it could be read: ldconfig may be missing
\* or not trusted, may run too long or say too much, and its count of the
\* entries must agree with the entries.
LoaderCache ==
    IF Detect(host).libc = "gnu" /\ host.ldconfig = "complete"
      THEN host.cache ELSE Absent

\* Whether the host has a library: found in a directory or the loader's
\* cache; missing only where the cache could be read; else unknown.
Library(lib) ==
    IF \E f \in host.dirs : LibraryMatches(f, lib) THEN "yes"
    ELSE IF LoaderCache = Absent THEN "unknown"
    ELSE IF \E f \in LoaderCache : LibraryMatches(f, lib) THEN "yes" ELSE "no"

\* Dotted numbers, the shorter one padded with zeros; a minimum that is not
\* dotted numbers (no numbers here) cannot be compared.
AtLeast(actual, minimum) ==
    IF actual = Absent \/ minimum = <<>> THEN "unknown"
    ELSE LET width == IF Len(actual) > Len(minimum) THEN Len(actual) ELSE Len(minimum)
             Part(v, i) == IF i <= Len(v) THEN v[i] ELSE 0
             differ == {i \in 1..width : Part(actual, i) # Part(minimum, i)}
         IN  IF differ = {} THEN "yes"
             ELSE LET first == CHOOSE i \in differ : \A j \in differ : i <= j
                  IN  IF Part(actual, first) > Part(minimum, first) THEN "yes" ELSE "no"

Baseline(label, actual, minimum) ==
    IF minimum = Absent THEN <<label, "yes">> ELSE <<label, AtLeast(actual, minimum)>>

\* Observe and check: what the host surely lacks, and what nobody knows.
Check(requires) ==
    IF requires = Absent THEN [incompatible |-> {}, warnings |-> {"undeclared"}]
    ELSE LET libs == IF requires.libs = Absent THEN {<<"libs", "unknown">>}
                     ELSE {<<lib, Library(lib)>> : lib \in requires.libs}
             facts == libs \cup {Baseline("os", host.version, requires.os_min),
                                 Baseline("glibc", host.glibc, requires.glibc_min)}
             \* A command is looked for on PATH and its version never asked.
             commands == {c.name : c \in {d \in requires.bin :
                            d.name \notin host.commands \/ d.min # Absent}}
         IN  [incompatible |-> {f[1] : f \in {g \in facts : g[2] = "no"}},
              warnings |-> {f[1] : f \in {g \in facts : g[2] = "unknown"}} \cup commands]

Preflight(allowIncompatible) ==
    /\ phase = "chosen"
    /\ report' = Check(doc.artifacts[chosen].requires)
    /\ phase' = IF report'.incompatible # {} /\ ~allowIncompatible
                  THEN "incompatible"
                  ELSE IF allowIncompatible THEN "installed anyway" ELSE "installed"
    /\ UNCHANGED <<assets, doc, origin, host, variant, chosen>>

Next ==
    \/ \E files \in SUBSET AssetFiles, commit \in BOOLEAN : Request(files, commit)
    \/ \E input \in Inputs : AddArtifact(input)
    \/ \E r \in Extras : AddResource(r)
    \/ Create
    \/ \E h \in Hosts, v \in Variants : Select(h, v)
    \/ \E allow \in BOOLEAN : Preflight(allow)

Spec == Init /\ [][Next]_vars

-----------------------------------------------------------------------------
(* Properties.                                                             *)

\* Whether the bytes of a build run on a host.
Runs(build, h) ==
    /\ build.os \in {"any", h.os}
    /\ build.arch \cap h.runs # {}
    /\ build.libc \in {"any"} \cup h.loaders

\* Neither the vendor, nor the name, nor the executables say which C library
\* a Linux build needs: it is taken for the common one.
LibcGuessed(input) ==
    LET seen == ReadExecutables(input, Bins(input))
    IN  /\ input.libc = Absent /\ ~input.portable
        /\ InferPlatform(input.name).libc = Absent
        /\ IF seen = Absent THEN TRUE ELSE ElfLibc(seen) = "unknown"

Took == phase \in {"chosen", "incompatible", "installed", "installed anyway"}

\* What the host really has.
Available == {f.lib : f \in {g \in host.dirs \cup host.cache : g.arch = host.arch}}

\* A build that a host takes runs there: what names, readers and vendors say
\* of a file ends up in the fields that selection compares, whatever was left
\* out and inferred on the way.
BuildRuns ==
    Took /\ ~LibcGuessed(origin[chosen]) => Runs(origin[chosen].build, host)

\* Without --allow-incompatible-host nothing is installed whose executables
\* were read and load a library that the host lacks, if the host can see all
\* its libraries.
LibrariesPresent ==
    LET input == origin[chosen]
    IN  (/\ phase = "installed" /\ LoaderCache # Absent
         /\ ReadExecutables(input, Bins(input)) # Absent
         /\ ~(input.seen.kinds \subseteq {"script"}))
          => input.build.libs \subseteq Available

\* A library reported as missing is never there.
ReportedIsMissing ==
    phase = "incompatible" => report.incompatible \cap Available = {}

ChosenRuns == BuildRuns /\ LibrariesPresent /\ ReportedIsMissing

\* The artifacts that a host could take, and those of them that no other beats.
Usable(artifacts, h, v) ==
    {i \in DOMAIN artifacts : /\ Fits(artifacts[i], h, v)
                              /\ artifacts[i].format \in Elements(Formats)}

Better(a, b) ==
    \/ Cardinality(Scope(a)) > Cardinality(Scope(b))
    \/ /\ Cardinality(Scope(a)) = Cardinality(Scope(b))
       /\ \E m, n \in DOMAIN Formats :
            m < n /\ Formats[m] = a.format /\ Formats[n] = b.format

Top(artifacts, h, v) ==
    {i \in Usable(artifacts, h, v) :
       \A j \in Usable(artifacts, h, v) : ~Better(artifacts[j], artifacts[i])}

\* What the loop of select_artifact finds, said without a loop: the artifact
\* taken is the only one that no other usable artifact beats or equals, and
\* nothing is taken only if nothing is usable or two are equally good. Those
\* name different fields (an os in one, an arch in the other), which no rule
\* orders: a document that validates never leaves two of one format that
\* name the same ones.
SelectionIsBest ==
    LET top == Top(doc.artifacts, Detect(host), variant)
    IN  host # Absent =>
          CASE phase = "no match"  -> Usable(doc.artifacts, Detect(host), variant) = {}
            [] phase = "ambiguous" ->
                 /\ Cardinality(top) > 1
                 /\ \A i, j \in top : i # j => Scope(doc.artifacts[i]) # Scope(doc.artifacts[j])
            [] OTHER               -> top = {chosen}

\* The commands that a completion or man page of a document may be for.
CommandOf(d, r) ==
    IF Present(r, "bin") THEN {r.bin} ELSE BinNames(d)

ShellsOf(r) == r.shells \cup ({r.shell} \ {Absent})

Topic(d, r) == {<<r.kind, c, s>> : c \in CommandOf(d, r), s \in ShellsOf(r)}

Completions(d) == {i \in DOMAIN d.resources : d.resources[i].kind = "completion"}

\* In a created release every completion and man page is for one known
\* command, and for each command and shell an artifact's resources have the
\* most specific entry that fits it and no less specific rival.
OneEntryPerThing ==
    phase = "created" =>
      LET rs == doc.resources
      IN  /\ \A i \in Completions(doc) : Cardinality(CommandOf(doc, rs[i])) <= 1
          /\ \A n \in DOMAIN doc.artifacts :
               LET a == doc.artifacts[n]
                   kept == SelectResources(doc, a)
               IN  /\ \A i \in Completions(doc) : ResourceFits(rs[i], a) =>
                        \A t \in Topic(doc, rs[i]) : \E k \in kept :
                           t \in Topic(doc, rs[k]) /\ Specificity(rs[k]) >= Specificity(rs[i])
                   /\ \A k, l \in kept \cap Completions(doc) :
                        Topic(doc, rs[k]) = Topic(doc, rs[l]) /\ Topic(doc, rs[k]) # {}
                          => Specificity(rs[k]) = Specificity(rs[l])
=============================================================================
