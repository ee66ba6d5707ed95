----------------------------- MODULE Extraction -----------------------------
(***************************************************************************)
(* An archive on its way from the vendor to a host: create looks up each   *)
(* command in it and reads the executable (src/archive.rs,                 *)
(* src/linkage.rs), and hosts of both kinds unpack it into a private stage *)
(* (src/install_extract.rs). The three read paths and links by rules of    *)
(* their own; what one of them found, the others have to find.             *)
(*                                                                         *)
(* A path is the sequence of its components, from the root of the archive. *)
(* Nobody else sees a stage before it is finished, so unpacking is one     *)
(* step; the order in which files, symbolic and hard links are made is the *)
(* order of the operators below.                                           *)
(***************************************************************************)
EXTENDS Naturals, FiniteSets, SequencesExt

CONSTANTS
    Members,       \* members an archive may have
    Commands,      \* how the vendor may name its command: a name or a path
    Up,            \* the component ".."
    Slash,         \* the start of an absolute path
    Unsafe,        \* components no archive may use: reserved or odd names
    Lower,         \* component |-> its lower case
    LinkDepth,     \* links that create follows to an executable
    Expansions,    \* links the installer follows in one path
    MaxBytes,      \* the installer's limits
    MaxEntries,
    MaxMembers,    \* bound: members of an archive
    NoFile         \* no content, no file, a refusal

MemberFields == {"path", "kind", "target", "content", "size"}

Words == DOMAIN Lower

Paths == Seq(Words)

ASSUME MembersComplete ==
    \A m \in Members :
        /\ DOMAIN m = MemberFields
        /\ m.kind \in {"file", "dir", "symlink", "hardlink", "special"}
        /\ m.path \in Paths /\ m.target \in Paths /\ m.size \in Nat
        /\ m.kind = "file" => m.content # NoFile

ASSUME WordsComplete ==
    /\ Up \in Words /\ Slash \in Words /\ Up # Slash /\ NoFile \notin Paths
    /\ Lower \in [Words -> Words] /\ Commands \subseteq Paths

ASSUME LimitsAreNumbers == {LinkDepth, Expansions, MaxBytes} \subseteq Nat

Hosts == {"unix", "windows"}

VARIABLES
    phase,     \* of the vendor: packing, published or refused
    format,    \* tar or zip
    archive,   \* the members, in the order of the archive
    command,   \* the path recorded for the command
    read,      \* the content of it that create read, NoFile when it found none
    staged     \* per host NoFile, or what it unpacked: tree, content of the command

archiveVars == <<phase, format, archive, command, read, staged>>

Links == {"symlink", "hardlink"}

\* A loop that follows links, given as a function, for a number of turns.
Hop(next, at) == IF at \in DOMAIN next THEN next[at] ELSE at

Chase(next, from, turns) ==
    LET Place[n \in 0..turns] == IF n = 0 THEN from ELSE Hop(next, Place[n - 1])
    IN  Place[turns]

\* A loop that adds up sizes.
Total(size) ==
    LET Sum[n \in 0..Len(size)] == IF n = 0 THEN 0 ELSE Sum[n - 1] + size[n]
    IN  Sum[Len(size)]

-----------------------------------------------------------------------------
(* What create does.                                                       *)

\* The files an archive lists. A tar lists its links, a zip does not.
Entries ==
    LET listed == IF format = "zip" THEN {"file"} ELSE {"file"} \cup Links
    IN  {i \in DOMAIN archive : archive[i].kind \in listed}

\* Where a command is: a path has to be there, a plain name is looked up by
\* file name, the shallowest first, and not twice at one depth.
ResolveBin(bin) ==
    LET named == {i \in Entries : Last(archive[i].path) = Last(bin)}
        shallowest == {i \in named : \A j \in named :
                         Len(archive[i].path) <= Len(archive[j].path)}
    IN  CASE Len(bin) > 1 ->
               IF \E i \in Entries : archive[i].path = bin THEN bin ELSE NoFile
          [] OTHER ->
               IF Cardinality(shallowest) # 1 THEN NoFile
               ELSE archive[CHOOSE i \in shallowest : TRUE].path

\* Where a link points, by its words alone; above the root is the root.
Read(parts, word) ==
    CASE word = Slash -> <<>>
      [] word = Up    -> IF parts = <<>> THEN <<>> ELSE Front(parts)
      [] OTHER        -> Append(parts, word)

ResolveLink(link, target) ==
    LET Place[n \in 0..Len(target)] ==
            IF n = 0 THEN Front(link) ELSE Read(Place[n - 1], target[n])
    IN  Place[Len(target)]

\* Mutant: a hard link's target is taken from the directory of the link.
MutantFromItsDirectory(m) == ResolveLink(m.path, m.target)

\* A symbolic link is relative to its directory, a hard link names a member.
PointsTo(m) ==
    IF m.kind = "hardlink" THEN m.target ELSE ResolveLink(m.path, m.target)

\* The first member at a path, 0 for none.
MemberAt(p) == SelectInSeq(archive, LAMBDA m : m.path = p)

\* What a link member points to, for each path that has one.
LinkMembers ==
    LET at == {archive[i].path : i \in DOMAIN archive}
    IN  [p \in {q \in at : archive[MemberAt(q)].kind \in Links} |-> PointsTo(archive[MemberAt(p)])]

\* Reading the archive again for the target of each link on the way.
Assemble(bin) ==
    LET end == MemberAt(Chase(LinkMembers, bin, LinkDepth))
    IN  IF end # 0 /\ archive[end].kind = "file" THEN archive[end].content ELSE NoFile

-----------------------------------------------------------------------------
(* What a host accepts.                                                    *)

SafePath(p) == p # <<>> /\ \A i \in DOMAIN p : p[i] \notin Unsafe \cup {Up, Slash}

Fold(p) == [i \in DOMAIN p |-> Lower[p[i]]]

\* A link's target from the directory it is in, word by word.
Enter(at, word) ==
    CASE at = NoFile -> NoFile
      [] at # NoFile /\ word = Up -> IF at = <<>> THEN NoFile ELSE Front(at)
      [] OTHER -> IF SafePath(<<word>>) THEN Append(at, word) ELSE NoFile

Descend(from, target) ==
    LET Place[n \in 0..Len(target)] ==
            IF n = 0 THEN from ELSE Enter(Place[n - 1], target[n])
    IN  Place[Len(target)]

\* NoFile when it leaves the tree or is the tree.
LinkPath(parent, target) ==
    IF Descend(parent, target) = <<>> THEN NoFile ELSE Descend(parent, target)

\* The one directory everything is in, <<>> when there is none.
Prefix ==
    LET base == SubSeq(archive[1].path, 1, 1)
    IN  IF /\ archive # <<>>
           /\ \A i \in DOMAIN archive :
                /\ IsPrefix(base, archive[i].path)
                /\ archive[i].path = base => archive[i].kind = "dir"
           /\ \E i \in DOMAIN archive : archive[i].path # base
          THEN base ELSE <<>>

Strip(prefix, p) ==
    IF IsPrefix(prefix, p) THEN SubSeq(p, Len(prefix) + 1, Len(p)) ELSE p

Mapped(p) == Strip(Prefix, p)

\* Entries that become something in the stage: not the stripped directory.
Kept == {i \in DOMAIN archive : Mapped(archive[i].path) # <<>>}

TotalSize == Total([i \in DOMAIN archive |-> archive[i].size])

\* What the readers of both formats refuse at once.
Readable ==
    /\ Len(archive) <= MaxEntries
    /\ \A i \in DOMAIN archive :
         SafePath(archive[i].path) /\ archive[i].kind # "special"
    /\ TotalSize <= MaxBytes

LinksOk ==
    \A i \in Kept :
        LET m == archive[i]
        IN  /\ m.kind = "symlink" =>
                 /\ LinkPath(Front(m.path), m.target) # NoFile
                 /\ LinkPath(Front(Mapped(m.path)), m.target) # NoFile
            /\ m.kind = "hardlink" => SafePath(m.target) /\ Mapped(m.target) # <<>>

\* Mutant: a file or link above another entry is found only by its own case,
\* and links are not looked at.
MutantAncestorLink ==
    \A i, j \in Kept :
        LET a == Fold(Mapped(archive[i].path)) b == Fold(Mapped(archive[j].path))
        IN  IsStrictPrefix(a, b) => archive[i].kind # "file"

\* Nothing lies below a file or a link.
AncestorsOk ==
    \A i, j \in Kept :
        LET a == Fold(Mapped(archive[i].path)) b == Fold(Mapped(archive[j].path))
        IN  IsStrictPrefix(a, b) => archive[i].kind = "dir"

Validate ==
    /\ Readable
    /\ \A i, j \in Kept : Fold(Mapped(archive[i].path)) = Fold(Mapped(archive[j].path))
                            => i = j
    /\ LinksOk /\ AncestorsOk

-----------------------------------------------------------------------------
(* What is in a stage: path |-> node. Directories above a node are there.  *)

Node(m) == [kind |-> m.kind, target |-> m.target, content |-> m.content, size |-> m.size]

Of(kind) == {Mapped(archive[i].path) : i \in {j \in Kept : archive[j].kind = kind}}

At(p) == archive[CHOOSE i \in Kept : Mapped(archive[i].path) = p]

\* Files are written first, in directories made for them.
Files == [p \in Of("file") |-> Node(At(p))]

\* One component of a path, through the links on disk: s.done is where it is
\* so far. <<Up>> is outside, NoFile a cycle or a path through a file or, when
\* strict (the system's own rules), through something that is not there or up
\* from a file.
Walks == [done : Paths \cup {NoFile}, todo : Paths, left : Nat]

Follow(tree, strict, s) ==
    LET next == Head(s.todo)
        here == Append(s.done, next)
        IsKind(p, kind) == p \in DOMAIN tree /\ tree[p].kind = kind
        Missing == ~\E q \in DOMAIN tree \cup Of("dir") : IsPrefix(here, q)
        Go(done, todo, left) == [done |-> done, todo |-> todo, left |-> left]
    IN  CASE next = Slash \/ (next = Up /\ s.done = <<>>) -> Go(<<Up>>, <<>>, 0)
          [] next = Up /\ s.done # <<>> ->
               IF strict /\ IsKind(s.done, "file") THEN Go(NoFile, <<>>, 0)
               ELSE Go(Front(s.done), Tail(s.todo), s.left)
          [] next \notin {Up, Slash} /\ IsKind(here, "symlink") ->
               IF s.left = 0 THEN Go(NoFile, <<>>, 0)
               ELSE Go(s.done, tree[here].target \o Tail(s.todo), s.left - 1)
          [] OTHER ->
               IF IsKind(s.done, "file") \/ (strict /\ Missing) THEN Go(NoFile, <<>>, 0)
               ELSE Go(here, Tail(s.todo), s.left)

\* A path has its own components and those of the links it may expand.
Turns(p) ==
    Len(p) + Expansions * Total([i \in DOMAIN archive |-> Len(archive[i].target)])

ResolvedLink(tree, strict, p) ==
    LET next == [s \in {t \in Walks : t.todo # <<>>} |-> Follow(tree, strict, s)]
        end == Chase(next, [done |-> <<>>, todo |-> p, left |-> Expansions], Turns(p))
    IN  IF end.todo = <<>> THEN end.done ELSE NoFile

Resolve(tree, p) == ResolvedLink(tree, FALSE, p)
Canonical(tree, p) == ResolvedLink(tree, TRUE, p)

Inside(p) == p \notin {NoFile, <<Up>>}

\* Making a node where the system puts it: through the links that are there.
PutAt(tree, place, node) ==
    IF place = NoFile \/ place \in DOMAIN tree THEN NoFile
    ELSE [q \in DOMAIN tree \cup {place} |-> IF q = place THEN node ELSE tree[q]]

Below(dir, name) == IF Inside(dir) THEN Append(dir, name) ELSE dir

Put(tree, p, node) ==
    IF tree = NoFile THEN NoFile
    ELSE PutAt(tree, Below(Resolve(tree, Front(p)), Last(p)), node)

\* The members that nodes are given for, in the order of the archive.
PutMember(tree, p, nodes) == IF p \in DOMAIN nodes THEN Put(tree, p, nodes[p]) ELSE tree

PutAll(tree, nodes) ==
    LET Made[n \in 0..Len(archive)] ==
            IF n = 0 THEN tree ELSE PutMember(Made[n - 1], Mapped(archive[n].path), nodes)
    IN  Made[Len(archive)]

WithSymlinks(tree) == PutAll(tree, [p \in Of("symlink") |-> Node(At(p))])

\* Every link of these kinds stays inside, however it is followed.
LinksStay(tree, kinds) ==
    \A p \in UNION {Of(k) : k \in kinds} : Inside(Resolve(tree, p))

\* The file at the end of a chain of hard links, NoFile for none or a cycle.
Anchor(tree, p) ==
    LET next == [q \in Of("hardlink") |-> Resolve(tree, Mapped(At(q).target))]
        end == Chase(next, p, Len(archive))
    IN  IF end \in DOMAIN tree THEN end ELSE NoFile

HardlinksTo(tree, anchor) ==
    IF \E p \in DOMAIN anchor : anchor[p] = NoFile \/ tree[anchor[p]].kind # "file"
      THEN NoFile
    ELSE PutAll(tree, [p \in DOMAIN anchor |-> tree[anchor[p]]])

WithHardlinks(tree) ==
    IF tree = NoFile THEN NoFile
    ELSE HardlinksTo(tree, [p \in Of("hardlink") |-> Anchor(tree, p)])

Checked(tree, kinds) ==
    IF tree = NoFile \/ ~LinksStay(tree, kinds) THEN NoFile ELSE tree

\* links on a Unix host: symbolic links, checked; hard links, checked again.
UnixTree ==
    Checked(WithHardlinks(Checked(WithSymlinks(Files), {"symlink"})), Links)

\* Mutant: a symbolic link is taken from the root of the stage.
MutantFromRoot(p) == Fold(Mapped(At(p).target))

\* Elsewhere a link is the file it leads to. What it names is found whatever
\* the case, and has to be a file or another link.
LinkTarget(p) ==
    Fold(IF At(p).kind = "symlink" THEN LinkPath(Front(p), At(p).target)
         ELSE Mapped(At(p).target))

Linked == Of("symlink") \cup Of("hardlink")

KeyTargets ==
    [key \in {Fold(p) : p \in Linked} |-> LinkTarget(CHOOSE p \in Linked : Fold(p) = key)]

\* A chain of more links than there are members is a cycle.
FileBehind(key) ==
    LET end == Chase(KeyTargets, key, Len(archive))
        files == {p \in Of("file") : Fold(p) = end}
    IN  IF files = {} THEN NoFile ELSE CHOOSE p \in files : TRUE

\* Mutant: copies are not counted.
MutantCopiesFree == TotalSize

\* The bytes a stage of copies takes: the archive's and each copy's.
PhysicalSize ==
    LET Copy(p) == IF p \in Of("symlink") THEN Files[FileBehind(Fold(p))].size ELSE 0
    IN  TotalSize + Total([i \in DOMAIN archive |-> Copy(Mapped(archive[i].path))])

MaterializedTree ==
    IF (\E p \in Linked : FileBehind(Fold(p)) = NoFile) \/ PhysicalSize > MaxBytes THEN NoFile
    ELSE [p \in DOMAIN Files \cup Linked |->
            IF p \in Linked THEN Files[FileBehind(Fold(p))] ELSE Files[p]]

-----------------------------------------------------------------------------
(* The declared command in a stage.                                        *)

\* The file that a declared command is: a Unix host follows the links, a
\* Windows host does not tell case apart.
FindCommand(host, tree) ==
    LET p == Canonical(tree, Mapped(command))
        alike == {q \in DOMAIN tree : Fold(q) = Fold(Mapped(command))}
        found == IF host = "unix" THEN {p} \cap DOMAIN tree ELSE alike
    IN  IF ~SafePath(command) \/ found = {} THEN NoFile
        ELSE LET f == tree[CHOOSE q \in found : TRUE]
             IN  IF f.kind = "file" THEN f.content ELSE NoFile

Tree(host) ==
    IF ~Validate THEN NoFile
    ELSE IF host = "unix" THEN UnixTree ELSE MaterializedTree

-----------------------------------------------------------------------------
ArchiveInit ==
    /\ phase = "packing" /\ format \in {"tar", "zip"} /\ archive = <<>>
    /\ command = NoFile /\ read = NoFile /\ staged = [h \in Hosts |-> NoFile]

\* The vendor's packer writes another member. A zip has no hard links.
AddMember(m) ==
    /\ phase = "packing" /\ Len(archive) < MaxMembers
    /\ format = "zip" => m.kind # "hardlink"
    /\ archive' = Append(archive, m)
    /\ UNCHANGED <<phase, format, command, read, staged>>

\* create records the command and reads its executable.
Create(bin) ==
    /\ phase = "packing"
    /\ command' = ResolveBin(bin)
    /\ phase' = IF command' = NoFile THEN "refused" ELSE "published"
    /\ read' = IF command' = NoFile THEN NoFile ELSE Assemble(command')
    /\ UNCHANGED <<format, archive, staged>>

\* A host unpacks it, or refuses it and leaves no stage.
Extract(host) ==
    /\ phase = "published" /\ staged[host] = NoFile
    /\ \E tree \in {Tree(host)} : tree # NoFile /\
         \E found \in {FindCommand(host, tree)} :
           /\ found # NoFile
           /\ staged' = [staged EXCEPT ![host] = [tree |-> tree, content |-> found]]
    /\ UNCHANGED <<phase, format, archive, command, read>>

ArchiveNext ==
    \/ \E m \in Members : AddMember(m)
    \/ \E bin \in Commands : Create(bin)
    \/ \E host \in Hosts : Extract(host)

ArchiveSpec == ArchiveInit /\ [][ArchiveNext]_archiveVars

-----------------------------------------------------------------------------
(* Properties.                                                             *)

Unpacked == {h \in Hosts : staged[h] # NoFile}

\* A finished stage holds each entry at its own path, none placed through a
\* link of the archive, and following any of its links by the system's rules
\* stays in the stage: links are checked by their words, then on disk before
\* the hard links are made, then again.
Confined ==
    \A h \in Unpacked :
        LET tree == staged[h].tree
        IN  /\ DOMAIN tree \subseteq {Mapped(archive[i].path) : i \in DOMAIN archive}
            /\ \A p \in DOMAIN tree : Inside(Resolve(tree, p))

\* The files of a stage are no more bytes than the limit, however many links
\* are turned into copies of one file. Hard links share their bytes.
WithinLimits ==
    \A h \in Unpacked :
        LET tree == staged[h].tree
            Bytes(m) ==
                LET p == Mapped(m.path)
                IN  IF p \in DOMAIN tree /\ tree[p].kind = "file" /\ m.kind # "hardlink"
                      THEN tree[p].size ELSE 0
        IN  Total([i \in DOMAIN archive |-> Bytes(archive[i])]) <= MaxBytes

\* A target that goes up from the place of a link means one place to who reads
\* the words and another to who follows the links.
ClimbsFromLink(m) ==
    /\ m.kind = "symlink"
    /\ \E k \in 1..(Len(m.target) - 1) :
         /\ m.target[k + 1] = Up
         /\ Descend(Front(Mapped(m.path)), SubSeq(m.target, 1, k)) \in Of("symlink")

Plain == \A i \in DOMAIN archive : ~ClimbsFromLink(archive[i])

\* The command that is installed is the executable that create read, so what
\* the document says of it (libraries, C library) is said of that file. A host
\* with links follows them on disk, where create read their words.
ReadIsInstalled ==
    \A h \in Unpacked :
        read # NoFile /\ (h = "unix" => Plain) => staged[h].content = read

\* A host with links and a host with copies install the same command.
PlatformsAgree ==
    Unpacked = Hosts /\ Plain => staged["unix"].content = staged["windows"].content
=============================================================================
