# Verification of packslip

packslip signs releases (a signed *slip* beside the artifacts, a signed *list*
of versions) and installs them: it finds a project's releases, verifies what
they say and who says it, checks that trust only changes when its user agrees,
extracts an artifact and puts it in place with its commands. This directory
holds TLA+ models of that program, TLC runs on small instances of them, and
proofs checked by TLAPS for every value of their constants. Paths below are
relative to the repository (`src/install_fs.rs` is `src/src/install_fs.rs` in
`PROJECT.json`, whose root is one directory up).

## The system

| Part | Code | State | Operations | What makes it correct |
|---|---|---|---|---|
| Journaled installation | `src/install_fs.rs` 560–710, 899–1182 | `journal.json`, slot directories beside every destination, recovery pointers | `commit_inner`, `recover` | tree, commands, receipt and history change together or not at all; an interruption is undone or finished by the next run; nothing of another program is overwritten; the answer is true |
| Sessions | `src/install_fs.rs` 711–898 | `.packslip.lock` and `.packslip-recovery.json` in every directory of a transaction | `open_under`, drop | no deadlock however the set of locks grows; a session never starts on a half-installed directory |
| Ownership | `src/install_fs.rs` 64–558, 930–1080 | receipts, export names | marker, receipt and export checks in `commit_inner`, `export_name` | no command of another project is taken or left behind without an owner |
| Install orchestration | `src/install.rs` | memory of one run | `install_in`: lookup, open, list, candidates, commit | trust is remembered before it is acted on; nothing read before the lock is used after it |
| Trust continuity | `src/install_policy.rs` | `history-<key>.json`, admin pins | `release_under`, `list_under`, `continuity`, `changes` | a signer, scheme or repository changes only by an approval of exactly that change |
| Discovery | `src/discovery.rs` | none between runs but the caches | `github`, `candidates_with_latest`, `list_freshness` | newest usable version; an old list is refused; withdrawn versions are not offered |
| Download cache | `src/discovery.rs` 150–445 | cached bodies, validators, `.missing` marks | `fetch_under`, `download`, `publish_download` | what is served offline is what was last answered online; a host's document comes from that host |
| TUF trust root | `src/trust_root.rs` | cached metadata, version floors | `refresh`, `replay`, `validate_cache` | metadata versions never go back, a half-written cache is refused |
| Extraction | `src/archive.rs`, `src/install_extract.rs` | the staging directory | `extract` | links and names stay inside the tree; limits; the same command on every host, and the one that `create` read |
| Host | `src/install_host.rs` | none | what a host finds out about itself, `check` | nothing is installed that cannot run, nothing that can run is refused |
| Launchers | `src/install_launcher.rs`, `src/launcher_*.rs` | none | one link or launcher at a staging path | — |
| Forge identity | `src/forge.rs` | none | `check_source`, `continues_signer`, `same_project` | a slip belongs to the repository the name resolves to |
| Verification, signing | `src/verify.rs`, `src/sigstore.rs`, `src/dsse.rs`, `src/minisign.rs` | none | signature schemes, `verify`, `verify_release_list` | the policy the caller gives holds of what was signed |
| Release model | `src/model.rs`, `src/manifest.rs` | none | parse, validate, select an artifact | one artifact fits a host, whatever the order of the document |
| Creation, publishing | `src/create.rs`, `src/linkage.rs`, `src/main.rs` | none | `create`, `create_release_list` | what is written down is what the files are |
| Command line | `src/main.rs`, `src/cli.rs` | none | `verify`, `pin`, `releases`, dispatch, reports | the commands agree with each other |
| Other implementations | `packages/`, `go/`, `verifier/` | none | create and verify in TypeScript, Go, JavaScript | they agree with the Rust model |
| Delivery | `installer/`, `cloudflare/`, `action.yml`, `releases/`, `scripts/`, `docs/` | none | bootstrap, worker, CI | — |

How they meet: `install_in` opens a *lookup session* on the state directory,
asks the forge which repository the name belongs to, drops it, and opens the
session of the installation, which recovers what an interrupted run left in any
of the directories it locks. Under that session it reads the history, discovers
the list and the candidates (download cache, trust root, verification), checks
each against the history, remembers the list **before** it looks at an
artifact, extracts the chosen one into staging and commits everything at once.
Processes share nothing but the file system; the journal, the pointers and the
history files are how one run talks to the next.

What is hard: a kill between any two file-system calls; a call that takes effect
and then fails in its directory flush; a journal of another project in a shared
`bin` directory, found only by its pointer; the set of locks that grows after
something was read; commands that move between directories; a name on the forge
that is deleted and recreated between the lookup and the commit; two runs of one
project that overlap; another program that changes a destination while a
transaction is on; and, where nothing runs concurrently, decisions that are made
twice by different code or in a sequence of small harmless steps: names read by
`create` and by a host, links followed by words, by the file system and by
copying, signers compared release after release. `PROJECT.json` lists each as a hazard at the line where it
bites, with the properties that are there to catch it.

## Modules

| Module | Models | Used by |
|---|---|---|
| `AtomicInstall` | what a commit promises: one step that changes everything, or none | `InstallTxn` (`Abstract`) |
| `InstallTxn` | one state directory: `commit_inner` and `recover`, call by call | `InstallTxnInv` |
| `InstallTxnInv` | the inductive invariant `IInv` of `InstallTxn` | `MCInstallTxn`, `InstallTxnProofs` |
| `InstallTxnProofs` | theorems about `InstallTxn` and their proofs | |
| `InstallSessions` | several processes and state directories: `open_under`, and commit and recovery as others see them | `MCInstallSessions` |
| `Ownership` | the checks of `commit_inner` on whose a tree and a command are, over many installations | `MCOwnership` |
| `TrustHistory` | `install_in`'s remembered trust, several overlapping runs, the forge | `MCTrustHistory` |
| `TrustPolicy` | what one installation accepts: verification, forge identity, requirements, continuity | `VerifyCommand` |
| `VerifyCommand` | the commands `verify` and `pin` | `MCTrustPolicy` |
| `ReleaseList` | versions, tags, and the list `packslip releases` makes | `Candidates` |
| `Candidates` | the merge of the list with the forge's releases, and the answer to a request | `Discovery` |
| `Discovery` | one run's search through the candidates' bundles | `MCDiscovery` |
| `ReleaseDocument` | the document, its validity, selection of artifacts and resources | `ReleaseCreation` |
| `ReleaseCreation` | from a vendor's files to what a host takes of them | `MCReleaseCreation` |
| `Extraction` | an archive as `create` and both kinds of hosts read it | `MCExtraction` |
| `TrustRoot` | the refresh of the keys from a TUF repository | `Lookups` |
| `DownloadCache` | documents and artifacts in the cache, with and without a network | `Lookups` |
| `Lookups` | the two as one run uses them, with kills | `MCLookups` |
| `InstallSessionsProofs`, `OwnershipProofs`, `TrustHistoryProofs`, `TrustPolicyProofs` (with `verify` and `pin`), `ReleaseCreationProofs`, `DiscoveryProofs`, `DeliveryProofs` (`Lookups` and `Extraction`) | the inductive invariant of each, the theorems and their proofs | |
| `MC...` | small instances for TLC | the runs |

The models of installation are layers. `InstallTxn` shows that a commit is
atomic; `InstallSessions` takes the replacement inside one directory as one step
and shows that interrupted transactions are found and finished under the right
locks; `Ownership` and `TrustHistory` take the whole commit as one step under its
locks. The rest is what a commit is given: `Lookups` the keys and documents,
`Discovery` the release, `TrustPolicy` whether to trust it, `ReleaseDocument` and
`ReleaseCreation` the artifact, `Extraction` the tree.

### `InstallTxn`

`dest`, `slot`, `new`, `backup` are the file system at destination *i*:
the entry itself, the slot directory beside it, and the two names in it.
An entry is an identity (`enum Entry`: digest of a tree, content of a file,
target of a link), because identities are all the code compares. `journal` is the
pair of flags of `journal.json`. Each rename, write or removal is an action:

| Action | Code |
|---|---|
| `Open`, `Close` | `open_under` with its locks taken; drop of `Session` |
| `Begin`, `Prepare`, `Refuse` | the `prepare` closure, its ownership checks as a refusal |
| `WriteJournal`, `Point`, `Activate` | journal inactive, pointers, journal active |
| `Check`, `Backup`, `Publish`, `Commit` | the loop over the operations and the commit point |
| `Failed`, `CommitError`, `ReadBackError` | the error branch: read the journal back, then recover |
| `Inspect`, `Unpublish`, `Restore`, `Mark`, `Unpoint`, `Unslot`, `Unjournal`, `RecoverError` | `recover` |
| `Crash` | the process is killed; its locks go |
| `Edit` | a program that takes no lock changes a destination |

`Outcome` and `Return` give every call its third result: it took effect and the
flush that follows fails. Slots made before the journal exists are `TempDir`
guards, removed on an early return (`DropSlots`) and strays on a kill; strays
have random names and nothing looks for them, so the model drops them too.

### `InstallSessions`

`lock`, `journal`, `pointer`, `receipt`, `dirty` are the directories; a process
goes through `Start`, `Lock` (one at a time in path order), `ReadOwn` (receipt and
own journal), `Scan` (pointer after pointer), `Grow` (release everything, start
again with more) or `Settle` (recover what was found), then `Write`, `Point`,
`Activate`, `Replace`, `Commit`, and recovery's `Undo`, `Mark`, `Unpoint`,
`Delete`. `seen` is the copy of a journal a process read, possibly before it had
locked the journal's directory. `Fail` is an error of a commit step, `Crash` a
kill or an error of opening or recovering. `TooMany` is the limit of 128 scopes.

### `TrustHistory`

`history` is what is kept per installation, `alias` what is kept per name,
`mem` the run's copy. `Lookup` is the first session; `Open` the second one with
`read_history` and the check of the remembered names (`NameTaken`); `NoList`,
`CheckList` are the list, `RememberKey` and `RememberName` the two writes that
follow, `Candidate` one candidate release, `Commit` the installation. `Stop` is
any error or a kill. `Move` is the forge: a name resolves to another repository.
An initial state is an empty state directory or one an earlier version left,
which remembered a name as it was typed.

Documents here are keyless or of a host's certificate, and `Docs` are those
whose signature holds: keys, pins and attested links are in `TrustPolicy`, the
search for a release in `Discovery`, the fetches in `Lookups`.

### `Ownership`

`tree` holds each tree's marker and executables, `command` what is at each place
of a command directory (a *seat*: on a file system that ignores case two paths
have one), `receipt` what each owner remembers, an owner being a project in a
state directory. `Install` is one `commit_inner`: `TreeOwned`, `CommandOwned` and
`Exportable` are its checks, `Stale` the exports of the last receipt that go,
`Published` and `Without` the replacements in journal order. A refused commit
changes nothing and is no step. `Overtaken` is the removal that finds what the
same commit just published: the commit fails, its rollback refuses (as in finding
1), and the journal keeps its directories (`stuck`). `EditCommand` and `EditTree`
are the user; there is no uninstall. `placed`, `keeper`, `hosted` and `last` record
who did what, for the properties.

Two corners of this code are visible in the exceptions the properties make.
A command is known by where it leads, so a project that lost its tree to another
by `--force` still takes, without it, that other's command of the same name
(`src/install_fs.rs:1041`). And a release that changes only the case of a command,
installed with `--force` where the file system ignores case, loses the command if
both names lead to the same file (`src/install_fs.rs:1077`), or leaves a journal that
cannot be rolled back. TLC finds both when the exceptions are taken out.

### `TrustPolicy`, `VerifyCommand`

A document is the parts of its certificate and statement that anything compares,
and its `origin`, the repository that really signed it, which nothing in the code
sees. `mem` is the record, a set of at most one. `Signed` is what the forges can sign at this point of their history
(`TakeName` renames repositories and gives their names away). `CheckSource` is
`forge::check_source`; `ReleaseUnder` is verification and requirements; `Changes` and
`SignerContinues` are the comparison with the record in `mem`; `Install` accepts a
release that continues the record or one that a user reviewed, which starts a new
`trail`. `SignerKept` says what of a signer every release of a trail shares: scheme
and key; the repository's id once it is recorded for a source on a forge; and, once a
workflow is pinned, the pin, the issuer and the workflow, which for certificates that
record no id is compared by name. An assumption of `MCTrustPolicy`, checked on its documents, says that a store
which compares two signers by itself (`SameWorkflow`) decides like one that asks
about a checked release (`ContinuesSigner`), but for a shared workflow's repository
whose name the project itself got later.

`VerifyAccepts` is `packslip verify` with its flags, `PinPrints` what `packslip pin`
prints. `CommandsAgree` compares them with `InstallAccepts` for every document, every
command line and every state of the names. Its three exceptions are all needed:
a name that now leads to another repository (only an installation asks the
forge), a key for a forge project (which `verify` takes), and flags that do not
say who signs for a project named after a host.

### `ReleaseList`, `Candidates`, `Discovery`

A text is its lead, numbers, prerelease and build; `TagVersion` and `MatchesRequest`
work on these. `CreateReleaseList` is `packslip releases`; the lists of the runs are
made by it, from bundles, so no list occurs that the program would not make
(`MCOwnTags` also leaves out lists that name a tag twice, or in which an entry
without a tag gets from the forge a tag that another entry has: of two entries
of one tag the later one is kept, `src/discovery.rs:947`, and no document says which is
right). `CandidatesFor` is
`candidates_with_latest` pass by pass: `MergeLive`, `AddEntries`, `DropMapped`,
`Recommend`, then `ForRequest` or `ForLatest`. `OffersAsDefined` says what it should
answer without any passes: which versions stand, which mean what was asked for,
in which order, and which error else. `Discovery` is `install_in` from there:
`Examine` the next candidate within the budget, `Bundle` after bundle, `Skip` or
`CheckRelease`. `RightRelease` says when a candidate may be passed over. On a latest
request one that is genuine and has no artifact for this host is passed over whatever
became of its other bundles: the match at `src/install.rs:913` looks at what was accepted
before it looks at what could not be fetched or read, although the comment at line 817
says that a fallback never follows a fetch or verification failure.

### `ReleaseDocument`, `ReleaseCreation`

A vendor's file is the words of its name, what the executables show to a reader
(`seen`), what the vendor says of it, and what it is (`build`), which only the
properties look at. `AddArtifact` infers (`InferPlatform`), reads (`ReadExecutables`,
`ElfLibc`: a file whose executables are not all ELF says nothing of its C library, so
a Linux build of a PE file is taken for `gnu`) and describes (`Describe`) one file or
refuses it, `AddResource` adds a completion or the like, `Create` validates the
document (`Validate`, with the groups of checks as operators). A host then goes through `Detect`, `Select`
(`SelectArtifact`, the loop with its ties) and `Preflight` (`Check`: three-valued).

### `Extraction`

An archive is a sequence of members with paths and link targets. `ResolveBin` and
`Assemble` are how `create` finds and reads a command; `Readable`, `LinksOk` and
`AncestorsOk` the installer's checks by words; `UnixTree` the stage with symbolic
and hard links, checked on disk by `LinksStay`; `MaterializedTree` the stage of a host
without links. The loops of the code that follow links, read words or add up sizes
are functions of the number of turns (`Chase`, `Descend`, `Total`), with as many turns as
the loop can take: `LinkDepth` for `create`, the components and allowed expansions of a path
(`Turns`) for `resolved_link`, the members for chains of links that are copied.

On hosts with links, `ReadIsInstalled` and `PlatformsAgree` except archives with a target
that goes up from the place of a link (`a/../b` where `a` is a link; `Plain`). Without it
both are false of the code: `create` (`src/linkage.rs:347`) and hosts without links
(`src/install_extract.rs:90`) read the target's words, `resolved_link` follows `a` first.

### `TrustRoot`, `DownloadCache`, `Lookups`

The TUF repository publishes roots and roles; a run fetches roots, then role after
role, each at least as new as its floor (`AboveFloor`), and replaces the store when
all is complete. `Recover` is the end of a refresh that failed. Which metadata a
root signs, and the acceptance rules of the client library, are external.
A cached document is a file and a marker that there is none, written one after
the other (`StepsFor`), with a kill in between. `Fetch` follows redirects within
`MayGo`. `Download` is the artifacts' part: it knows no marker, and without a
network takes the file as it is; `install_in` compares its size and digest.
`Lookups` puts both under `install_in`'s lookup session: `Run`, `Leave`, and the
`Environment` that publishes, lets time pass and changes what servers have.

## Runs

| Run | Instance | Shows |
|---|---|---|
| `crash` | 2 destinations, 2 scopes, 2 transactions, 2 kills, 2 failing calls, 1 foreign edit; 556k states | the safety properties of `InstallTxn`, and that recovery completes |
| `refine` | 3 destinations, 1 scope, 2 transactions, 2 kills, 1 failing call | `InstallTxn` implements `AtomicInstall` |
| `wedge` | 2 destinations, 1 foreign edit | *violated:* finding 1 |
| `shared` | 2 processes, two state directories sharing `bin`, commands that move, 4 kinds of session, limit of 5 scopes, 2 kills | the safety properties of `InstallSessions`, and that opening always ends |
| `commands` | 2 projects, one with two state directories, 2 trees, 2 command directories (one ignores case), 7 releases, 3 installations, 1 edit; 787k states up to symmetry | the properties of `Ownership` |
| `race` | 2 processes, a name in two cases and a host, 2 repositories, 3 runs, 1 move, list sequences up to 2; 2.2M states up to symmetry | the properties of `TrustHistory` |
| `forgotten_name` | 1 process, 2 runs, 1 move | *violated:* finding 2 |
| `forge` | a tool on two forges whose repositories have the same ids, renamed and recreated names, shared workflows, keys with one id, up to 3 releases between reviews | the properties of `TrustPolicy`, and that `verify`, `pin` and `install` agree |
| `search` | forges with up to 3 releases and 3 bundles each, lists of up to 2 entries, 11 requests, a budget of 3 | the properties of `Discovery` |
| `platforms` | releases of up to 3 files and resources with names that say more or less, 7 hosts; 700k states | the properties of `ReleaseCreation` |
| `archives` | archives of up to 4 of 17 members, 3 names of a command, both kinds of host | the properties of `Extraction` |
| `offline` | 4 TUF publications (a rotation, a backup), a host and another server that redirect to each other, runs with and without a network, kills anywhere | the properties of `TrustRoot` and `DownloadCache` |

**Bounds.** `MaxTxns`, `MaxCrashes`, `MaxFaults`, `MaxEdits` (InstallTxn),
`MaxSessions`, `MaxCrashes` (InstallSessions), `MaxSeq`, `MaxRuns`, `MaxMoves`
(TrustHistory), `MaxInstalls`, `MaxEdits` (Ownership), `MaxTrail` (TrustPolicy),
`MaxParts` (ReleaseCreation), `MaxMembers` (Extraction) and `MaxTime` (TrustRoot) bound
the exploration; `MaxScopes`, `MaxBundles`, `MaxBytes`, `MaxEntries`, `LinkDepth` and
`Expansions` are the code's own limits made small, so that they are reached. Two destinations are enough for every situation of a loop (done, at,
ahead) and the third is there in `refine`; two kills interrupt a recovery of an
interrupted commit, and two failing calls make an error inside the handling of an
error. Two transactions show what the first leaves to the second. In
`InstallSessions` six directories let the set of scopes grow below what is
already locked, beside it and into the other project's. In `TrustHistory` one
move between three runs gives a run before, across and after it; two sequences
give an older and a newer list. Three installations in `commands` are
one project's, another's over it, and the first one's again. A trail of three
releases shows that continuity adds up. Three bundles of budget lie below, at and
above what two releases have. Four members make a link to a link beside its
target and a directory. In the four runs on pure decisions (`forge`, `search`,
`platforms`, `archives`) the inputs are written out in the MC modules; each was
added for a branch of the code that it takes. Nothing in the safety part of `InstallTxn`
rests on its bounds, since the theorems below hold for all of them.

**Deadlock** is not checked in any run but `crash`, `refine` and `wedge`: in the
others the bounds let everything stop, or a run is over when its command is. In
`shared` the property `OpenEnds` states what a deadlock of the program would violate.

**Types.** Each module with a state of its own of some size has a `TypeOK`. They are
proved, or are part of the proved inductive invariant; the runs spend their time on
the other properties.

**Fairness.** `InstallTxn`: weak fairness of `Open \/ CommitStep \/ RecoverStep`:
a running command runs on, and packslip is run again after it stopped;
no fairness of `Begin`, `Crash`, `Edit` or the failing calls. `InstallSessions`:
weak fairness of each process's own steps, which do not include `Start`, `Fail`
or `Crash`. Locks are blocking and nothing is assumed of the order the kernel
serves them in: sessions are finitely many in an instance, so weak fairness is
enough for a waiter's turn to come. The other specifications have no liveness
property and state no fairness: their programs are finite loops.

## Findings

1. `wedge`. A commit that finds a destination changed since it was prepared
   (`src/install_fs.rs:1128`) fails and rolls back; the rollback compares the
   same destination with the journal and refuses too. The destinations replaced
   before stay replaced, the journal stays active, and every later open is
   refused until the entry is put back by hand. The module comment says
   "Ordinary errors roll back".
2. `forgotten_name`. An accepted list is remembered first for the installation
   and then for the name (`src/install.rs:517`, 518). A run that ends between
   the two leaves a name without history; recreated as another repository, it
   is taken on first use, which the comment at `src/install.rs:430` excludes.

## Proofs

Every property of the runs `crash`, `refine`, `shared`, `race`, `forge`, `offline`,
`commands` and `archives` but the two liveness properties, and two of the three of each
of `search` and `platforms`, is a theorem for every value of the constants: any numbers of
processes, directories, projects, repositories, documents, releases and archive members,
and arbitrary naturals for the `Max...` bounds. Each module of proofs has its inductive
invariant `IInv` (for archives `ArchiveInv`), lemmas that the actions keep it, and
`Invariance`. `PROJECT.json` says which theorem states which property. The assumptions are the named `ASSUME`s of the modules, which
TLC evaluates in the runs; those that are more than types are named below.

**`InstallTxnProofs`**: `AllOrNothingHolds`, `OldKeptHolds`, `HonestReplyHolds`,
`PointersLeadHolds`, `NoStraySlots`, `CommittedIsFinalHolds`, `NothingForeignHolds`, and the
refinement `ImplementsAtomicInstall`, under `MaxEdits = 0` (an edit is not a step of the
atomic commit) and `MaxFaults <= 1` (after two failures in a row a commit that was
decided is answered with an error: `HonestReply` says so). None of the properties is
inductive. `IInv` adds what they rest on: where the process is determines the
journal's flags (`JournalInv`) and what is decided (`FateInv`); which slots exist
(`SlotInv`); what the pointers are (`PointerInv`); that a destination under an active
journal is untouched, backed up or published (`SettledInv`), the three situations
`recover` can undo; how far the two loops are (`ForwardInv`, `RollbackInv`); and what
a check still guarantees when the rename it guards runs (`RaceInv`). A destination
another program changed is excused (`edited`) until the next transaction prepares it.

**`InstallSessionsProofs`**: `InterruptedIsFound`, `NeverRefused`, `CopiesAreCurrent`,
`SessionsAreClean`, `PriorExportsAreLocked`, `WritesAreLocked`. A process relies on its own
variables and on what the disk has in directories it has locked (`Local`: what it
read in this round, which journals it works on, how far it is with them), and no
other process changes these. What holds of the disk alone follows: a journal names
what it changes (`Journaled`), a directory in the middle of a transaction is one of a
journal's (`Dirty`). The step that the properties rest on is `Grow`: a journal that
was read before its directory was locked may be stale, and is used only after
a round in which all its scopes were locked and it was read again. That a request's
three directories differ is what `open_under` checks (`src/install_fs.rs:744`).

**`OwnershipProofs`**: `EveryCommandIsTracked`, `OthersStayUntouched`. `CommandsTracked` is
inductive together with three facts: what a receipt records leads only into trees
that its project was once installed in (`Hosted`), every command that is not the
user's was placed by somebody (`Answered`), and a marked tree belongs to the project of
whoever replaced it last (`Kept`). The rest is about seats: commands of one release
have different seats in a directory (`OneSeatEach`, from `Exportable`), so that
the replacements of one commit do not meet.

**`TrustHistoryProofs`**: `NeverAnOlderList`, `OneRepositoryPerName`, `NeverFalls`,
`ChangesAreReviewed`. From `Open` to its end a run holds the lock (`Locking`), so what it
read is still what is on the disk, and its memory differs from that only by
what it is about to write (`Memory`); the three properties of sequences and reviews
follow. For names: a repository's history is about that repository (`OwnRecords`);
whatever was installed under a name, `Open`'s check finds a record that says so, under
the name's own spelling or an old one (`Noticed`); and a run that got past the check
uses the repository that was installed before (`Checked`).

**`TrustPolicyProofs`**: `ReleasesAreOfTheRepository`, `SignersAreKept`, `LinksAreKept`,
`RenamedVendorsAreAccepted`. The record says of the last accepted release all that the
next one is compared with (`Remembered`, `IdIsKept`); so one release accepted without a
review keeps scheme, key, repository and pinned workflow of the last one
(`TrailContinues`), and since what it keeps is transitive, of all before it. The
assumptions on documents say what a signature means: the id in a certificate is that of
the repository whose run it was.

`OneAnswer`, in the same module: `verify` and `install` are two paths through the code
that check in different orders with different policies. Each is reduced to the same
statement of who signed and what the flags say of the signer (`InstallSide`,
`VerifySide`), and these are compared.

**`ReleaseCreationProofs`**: `TheBestIsSelected`, `EveryThingHasOneEntry`,
`LibrariesAreThere`. `SelectArtifact` is a recursive function, one `Weigh` per turn of the loop of
`select_artifact`; what it finds for a document of any length needs induction over the
document. The library's induction theorem takes an operator; `EveryNatural` states
instead that a set of naturals with 0 and every successor is all of them, and is proved from
the least element of the rest. So the answer of every turn is known (`SelectTakesTurns`):
the best so far is one that nothing before it beats, and it is tied exactly if
another of the same preference came before (`WeighFinds`, `SelectFinds`), which at the
end is `SelectionIsBest`. That tied artifacts name different fields is where the
document's validity comes in (`SamePlatform`). For resources: each topic of a resource that
fits is kept by the most specific entry (`TopicsAreKept`), and rivals that are
both kept are equally specific (`RivalsAreEqual`). The inductive invariant is `TypeOK`,
the order of the phases, `SelectionIsBest`, and the parts of `ChosenRuns` about libraries. The
assumptions that are more than types: no format is listed twice (`FormatsRanked`),
an executable names the libraries it loads (`DescriptionsAreGiven`; those loaded by name
at run time are no part of a file), and no library has the name by which a report calls the
system itself (`LibrariesAreNamed`).

**`DeliveryProofs`**, on keys and documents: `NeverOlder`, `FallbackIsJustified`,
`AnswersKept`. During a refresh nobody else writes the store, so the floors are those of
what is stored when it ends, and each role that was taken is above its floor (`Refreshing`).
Whatever is left to do of a fetch, the file and the marker together answer as the last
caller was told or as the server did since, which is what the order of the two writes is
for (`Storing`).

On archives: `LinksStayInside`, `StagesAreWithinLimits`, `WhatWasReadIsInstalled`,
`EveryHostInstallsTheSame`. The inductive invariant `ArchiveInv` says that nobody unpacks
before the archive is published (`Packing`), that what `create` recorded and read
follows from it (`Recorded`), and that a stage is confined, within the limit and has the
right command (`GoodStages`); the rest is about the operators, turn by turn, by the
induction of `ReleaseCreationProofs`.

- `Confined`: every node of a stage is at the path of its own member, since nothing lies
  below a file or a link (`Placed`); a Unix stage was checked link by link when it was
  complete, and one of copies has no links.
- `WithinLimits`: the members' sizes and those of the copies are a bound, summand by
  summand, for the bytes of the stage.
- `ReadIsInstalled`, `PlatformsAgree`: the three readers of links never meet in one state,
  so each is compared with what a path *means*. A meaning is `Sound` if it respects files,
  symbolic links (their words read from their directory) and hard links, that is, gives a
  link no content but the one its target has. The copies of a host without links
  (`BehindSound`) and what `create` reads (`ReadAtSound`) are such meanings. Where a sound
  meaning gives the command a content, a Unix host that follows the links on disk finds
  this one or stops (`LeadsTurn`, `UnixMeans`), and so does a host that looks behind links
  without regard to case (`BehindMeans`). So any two that find a file find one file
  (`ContentIsRight`). `Plain` is needed for the one turn that expands a link which the words
  then go up from (`GoodWay`).

The assumptions are what a member is (`MembersComplete`), that `..` and the start of an
absolute path are different words (`WordsComplete`), and that limits are numbers
(`LimitsAreNumbers`). TLC checks the properties and not `ArchiveInv`, which quantifies over
what the operators give for all paths.

**`DiscoveryProofs`**: `OffersAreSound`, `NothingIsLost`, `OffersAreAsDefined`, `SearchIsBounded`,
`RightReleaseIsInstalled`, for any forge, list, request and budget. The passes of `candidates_with_latest` are recursive
functions, and each is taken turn by turn, with what holds between two turns:

- while signed entries are added, a choice that remains is the forge's, of a version no
  entry so far has, or the entry's own; it has no alternates then (`Signed`);
- when mapped tags are dropped, what remains stands (`Kept`), so what `Merge` gives for a
  version has this version, stands, and comes with bundles (`Offering`);
- sorting takes the highest of those left, and the alternates share their version, so
  the whole is in order (`OrderedIs`), and filters and the move of a recommendation
  to the front keep that.

So every candidate stands, none is withdrawn, and they are in order (`CandidatesStand`,
for the theorem `OffersAreSound`). The other direction follows one release through the
same passes: a choice holds every release of its version that came before the turn
(`Whole`), the entries in their turn replace only what they decide on (`EntriesDecide`),
and no mapped tag drops or marks what no entry names (`NothingIsDropped`,
`NothingIsUnmarked`), so what is due, which is what stands and shares its tag with no
entry of another version, comes out of `Merge` and into the answer (`MergeHasAll`,
`LatestHasAll`). `NothingIsLost` says so for every latest request, and that what is offered
is exactly what stands when no entry names another's tag (`OwnTags`).

`OffersAreAsDefined` proves the whole of `OffersAsDefined` from `OwnTags`, which the
lists of the run satisfy too (`MCOwnTags`): of two entries with one tag only the later
is kept, so what `OffersAsDefined` says is not to be had without. Two arguments are
added.

- The recommendation: each release in a merge is traced to a release of the forge that no
  entry decides on, or to the entry of its version (`Traced`), and its mark says whether it
  has the forge's latest tag or the list's latest version (`Told`). Tags of different
  versions are different then (`TracedApart`), and so are those of one version's releases
  (`Alone`), so at most one release is recommended (`OrderedIsOnce`), and if none is, what
  the recommendation names (`TargetIs`) is reported (`LatestIsFirst`).
- Requests: what `MatchesRequest` compares, numbers padded or not, with a build or without,
  is what a request means (`MatchIsMeant`, `MeantIsMatched`, `SameIsMeant`). What stands is
  in the merge (`StandingIsThere`), so an answer fits its request: each release was asked
  for, nothing that was meant stands if the answer is an error, and a refusal names a
  withdrawn entry (`Fitting`, for `Matching`, `ForRequest` and `CandidatesFor` in turn).

Then, of the search: candidates stand (`OffersStand`),
what is known of the bundles seen so far (`Examined`), what was fetched (`Progress`), why
earlier candidates were passed over (`Passed`). The assumptions say what a forge and a
publication are (`SitesComplete`, with no tag twice on a forge, and `PublicationsComplete`),
that a request is a text, with three numbers where it is a range (`RequestsComplete`), that
no tag begins like a range (`LeadsAssumption`), and that having no release, entry, version or
error is not having one (`NoneAssumption`).

Only model-checked, and why: `RecoveryCompletes` and `OpenEnds` (liveness);
the first part of `ChosenRuns`, that what is installed is built for the host (it
depends on file names saying what is in the files, which is a property of
the vendors an instance has and not of the code).
The two *violated* runs are counterexamples and need no proof.

## Not modelled

- Launchers: one link or launcher written at a staging path; `Ownership` knows it by
  its target.
- Signature arithmetic, DSSE envelopes, the transparency log, and whether an entry
  in it is required: documents are genuine or not, and `verify`, `pin` and `install`
  make the same choice.
- Parsing and formatting: JSON, command lines, names character by character,
  reports. Prereleases are one number, and the pages of the forge's answer one
  sequence.
- Directory permissions and access lists (`src/install_fs.rs` 119 to 537), Windows'
  replacement of a running executable, and file-system behaviours below rename
  and flush. Decompression, and the byte layouts of ELF, Mach-O and PE, are what
  they yield.
- That a failure of the network is remembered for the rest of a refresh
  (`network_failed`): one failure per refresh is modelled. Root rotation and the
  acceptance rules of `sigstore-tuf` are external.
- Delivery code (`installer/`, `cloudflare/`, `docs/`, actions) and the other language
  implementations: stateless, or outside the program.

## Plan

All components that can be modelled are, and what the provers can reach of the
properties is proved. What is left:

1. `InstallTxn`: the refinement with foreign edits, against an atomic commit that has an
   edit of its own.
