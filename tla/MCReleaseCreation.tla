-------------------------- MODULE MCReleaseCreation --------------------------
(***************************************************************************)
(* A small instance of ReleaseCreation for TLC: one tool with builds whose *)
(* names say more or less of where they run, three resources, seven hosts. *)
(***************************************************************************)
EXTENDS ReleaseCreation, TLC

MCToken == {"linux", "android", "darwin", "windows", "freebsd", "ios", "x86_64",
            "aarch64", "armv7", "armv6", "i686", "gnu", "musl", "fips", "tar.gz",
            "zip", "gz", "deb", "rpm", "dmg", "msi", "exe", "raw"}

X64 == {"x86_64"}
Arm64 == {"aarch64"}
Every == {"x86_64", "aarch64", "i686", "armv6", "armv7"}

Build(os, arch, libc, libs) == [os |-> os, arch |-> arch, libc |-> libc, libs |-> libs]
Seen(kinds, libs) == [kinds |-> kinds, libs |-> libs, shipped |-> {"libown"}]
MCBaselineLibs == {"libc"}

\* A file with nothing said about it but its name.
File(file, name, build, seen) ==
    [file |-> file, name |-> name, build |-> build, seen |-> seen,
     readable |-> TRUE, os |-> Absent, arch |-> Absent, libc |-> Absent,
     variant |-> Absent, format |-> Absent, portable |-> FALSE,
     bin |-> Absent, requires |-> Absent]

Gnu == File("gnu", <<"tool", "x86_64", "linux", "gnu", ".tar.gz">>,
            Build("linux", X64, "gnu", {"libssl"}), Seen({"gnu"}, {"libssl", "libc", "libown"}))
Plain == File("plain", <<"tool", "linux", "amd64", ".tar.gz">>,
            Build("linux", X64, "gnu", {}), Seen({"gnu"}, {}))
Musl == File("musl", <<"tool", "linux", "x64", ".gz">>,
            Build("linux", X64, "musl", {}), Seen({"musl", "static"}, {}))
Static == File("static", <<"tool", "linux", "arm64", ".tar.gz">>,
            Build("linux", Arm64, "any", {}), Seen({"static"}, {}))
Windows == File("windows", <<"tool", "windows", ".zip">>,
            Build("windows", X64, "any", {}), Seen({"pe"}, {}))
Setup == File("setup", <<"tool", "win64", "setup", ".exe">>,
            Build("windows", X64, "any", {}), Seen({"pe"}, {}))
Exe == File("exe", <<"tool", "arm64", ".exe">>,
            Build("windows", Arm64, "any", {}), Seen({"pe"}, {}))
Mac == File("mac", <<"tool", "aarch64", "apple", "darwin", ".tar.gz">>,
            Build("darwin", Arm64, "any", {}), Seen({"macho"}, {}))
Phone == File("phone", <<"tool", "aarch64", "apple", "ios", ".tar.gz">>,
            Build("ios", Arm64, "any", {}), Seen({"macho"}, {}))
Android == File("android", <<"tool", "aarch64", "linux", "android", ".tar.gz">>,
            Build("android", Arm64, "any", {}), Seen({"gnu"}, {}))
I386 == File("i386", <<"tool", "linux", "386", ".tar.gz">>,
            Build("linux", {"i686"}, "any", {}), Seen({"static"}, {}))
Nameless == File("nameless", <<"tool", "linux", ".tar.gz">>,
            Build("linux", X64, "gnu", {}), Seen({"gnu"}, {}))
Mono == File("mono", <<"tool", "linux", "x64", ".zip">>,
            Build("linux", X64, "gnu", {}), Seen({"pe"}, {}))
Script == [File("script", <<"tool", ".tar.gz">>,
            Build("any", Every, "any", {}), Seen({"script"}, {}))
           EXCEPT !.portable = TRUE]
Bare == [File("bare", <<"tool">>, Build("linux", Every, "any", {}), Seen({"script"}, {}))
           EXCEPT !.os = "linux", !.arch = "any", !.libc = "any"]
AllArch == [File("allarch", <<"tool", "linux", ".tar.gz">>,
            Build("any", X64 \cup Arm64, "any", {}), Seen({"script"}, {}))
           EXCEPT !.arch = "any", !.libc = "any"]
NoOs == File("noos", <<"tool", "x86_64", ".tar.gz">>,
            Build("any", X64, "any", {}), Seen({"script"}, {}))
Declared == [Gnu EXCEPT !.file = "declared", !.variant = "fips",
               !.requires = [libs |-> {"libssl"}, os_min |-> <<5>>,
                             glibc_min |-> <<2, 31>>,
                             bin |-> {[name |-> "java", min |-> <<17>>]}]]
Wrong == [Gnu EXCEPT !.file = "wrong",
            !.requires = [NoRequirements EXCEPT !.libs = {}]]
Unread == [Musl EXCEPT !.file = "unread", !.readable = FALSE]
Package == File("package", <<"tool", "noarch", ".rpm">>,
            Build("linux", Every, "any", {}), Seen({"script"}, {}))
Header == [File("header", <<"tool", ".txt">>, Build("any", {}, "any", {}), Seen({}, {}))
           EXCEPT !.bin = {}]
Pair == [Plain EXCEPT !.file = "pair", !.variant = "fips", !.bin = {"tool", "toolctl"}]

MCInputs == {Gnu, Plain, Musl, Static, Windows, Setup, Exe, Mac, Phone, Android,
             I386, Nameless, Script, Bare, AllArch, NoOs, Declared, Wrong, Unread,
             Package, Header, Pair, Mono}

Entry(kind) ==
    [f \in ResourceFields \ {"shells", "env", "url", "placeholder", "kind"} |-> Absent]
    @@ [kind |-> kind, shells |-> {}, env |-> FALSE, url |-> FALSE, placeholder |-> FALSE]

Zsh == [Entry("completion") EXCEPT !.shell = "zsh", !.archive = "_tool"]
ZshLinux == [Zsh EXCEPT !.os = "linux", !.bin = "tool"]
ZshFor == [Zsh EXCEPT !.artifact = "plain"]
Generated == [Entry("completion") EXCEPT !.shells = {"zsh", "bash"},
                !.exec = "tool", !.placeholder = TRUE]
Sbom == [Entry("sbom") EXCEPT !.format = "spdx", !.asset = "sbom"]
Page == [Entry("man") EXCEPT !.repo = "tool.1", !.bin = "toolctl"]

MCExtras == {Zsh, ZshLinux, ZshFor, Generated, Sbom, Page}
MCAssetFiles == {[file |-> "sbom", digest |-> 1], [file |-> "gnu", digest |-> 1],
                 [file |-> "gnu", digest |-> 2]}
MCDefaults == [bin |-> {"tool"}, requires |-> Absent, commands |-> {}]

Ssl(arch) == {[lib |-> "libssl", arch |-> arch]}
Linux(loaders, getconf, dirs, cache, ldconfig) ==
    [os |-> "linux", arch |-> "x86_64", runs |-> {"x86_64", "i686"},
     loaders |-> loaders, getconf |-> getconf, dirs |-> dirs, cache |-> cache,
     ldconfig |-> ldconfig, version |-> <<6, 1>>,
     glibc |-> IF getconf THEN <<2, 4>> ELSE Absent, commands |-> {"java"}]
Desktop(os, arch, runs) ==
    [os |-> os, arch |-> arch, runs |-> runs, loaders |-> {}, getconf |-> FALSE,
     dirs |-> {}, cache |-> {}, ldconfig |-> "none", version |-> <<14>>,
     glibc |-> Absent, commands |-> {}]

MCHosts == {Linux({"gnu"}, TRUE, Ssl("x86_64"), {}, "complete"),
            Linux({"gnu"}, TRUE, Ssl("i686"), Ssl("x86_64"), "complete"),
            Linux({"gnu"}, TRUE, {}, Ssl("i686"), "complete"),
            Linux({"gnu"}, TRUE, {}, Ssl("x86_64"), "cut short"),
            Linux({"gnu", "musl"}, FALSE, {}, {}, "none"),
            Linux({"musl"}, FALSE, {}, {}, "none"),
            Linux({}, FALSE, {}, {}, "none"),
            [Linux({"gnu"}, TRUE, {}, {}, "complete") EXCEPT !.arch = "aarch64",
                !.runs = {"aarch64"}],
            Desktop("darwin", "aarch64", {"aarch64", "x86_64"}),
            Desktop("windows", "aarch64", {"aarch64", "x86_64"}),
            Desktop("windows", "x86_64", {"x86_64"})}
MCVariants == {Absent, "fips"}
MCFormats == <<"tar.gz", "zip", "gz", "raw">>
=============================================================================
