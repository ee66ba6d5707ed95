---------------------------- MODULE VerifyCommand ----------------------------
(***************************************************************************)
(* The commands that check a release by hand: `packslip verify` and        *)
(* `packslip pin` of src/main.rs, over src/verify.rs. An installation      *)
(* decides by the project the user asks for and by the id the forge gives  *)
(* (TrustPolicy); these by the name in the document itself and by what is  *)
(* on the command line. A user who checks a bundle here and installs it    *)
(* with the same requirements expects one answer.                          *)
(*                                                                         *)
(* Which trusted root is used and whether an entry in the log is required  *)
(* are the same choice in all of them, and left out.                       *)
(***************************************************************************)
EXTENDS TrustPolicy

\* Command lines: key, issuer, identity, prefix, source (the URL of a
\* repository) and pin are None when not given; other is
\* --allow-other-repository, files the local files to check.
CONSTANT Arguments

ArgumentFields == {"key", "issuer", "identity", "prefix", "source", "pin", "other", "files"}

ASSUME ArgumentsComplete == \A args \in Arguments : DOMAIN args = ArgumentFields

-----------------------------------------------------------------------------
\* verify.rs: a file is checked by its name. A document says the digest of
\* every file and the size of its artifacts; other files' sizes are None.
FilesMatch(d, files) ==
    \A file \in files :
        /\ file.name \in DOMAIN d.files
        /\ file.digest = d.files[file.name].digest
        /\ d.files[file.name].size \in {None, file.size}

\* verify and verify_release_list under a key or an identity policy.
VerifyUnder(d, k, policy) ==
    IF k # None THEN VerifiedByKey(d, k) ELSE VerifiedByIdentity(d, policy)

-----------------------------------------------------------------------------
\* Combinations of flags that are refused.
FlagsAllowed(args) ==
    /\ args.other =>
         /\ args.identity # None \/ args.prefix # None \/ args.source # None
         /\ args.issuer # None
         /\ args.key = None
    /\ args.key # None =>
         \A flag \in {"identity", "prefix", "issuer", "source", "pin"} : args[flag] = None
    /\ args.source # None =>
         args.identity = None /\ args.prefix = None /\ args.issuer # None

\* identity_policy: the flags, or with none of them the issuer of the forge
\* that the project has to be on.
Explicit(args) == \E flag \in {"issuer", "identity", "prefix"} : args[flag] # None
PolicyKnown(d, args) == Explicit(args) \/ Forge(d.project)
IdentityPolicy(d, args) ==
    IF Explicit(args)
      THEN [issuer |-> args.issuer, identity |-> args.identity, prefix |-> args.prefix]
      ELSE [issuer |-> d.project.host, identity |-> None, prefix |-> None]

\* require_source_repository
RequireSourceRepository(d, want) ==
    /\ d.source # None
    /\ IF Forge(want) THEN SameRepo(d.source, want)
       ELSE d.source.host = want.host /\ d.source.repo = want.repo

\* Mutant: the workflow that signed has to be the project's, as for a
\* consumer that goes by the workflow.
MutantBySigner(d) == Forge(d.project) => SameRepo(d.flow, d.project)

\* What a certificate says of its repository is about the project that the
\* statement names; a project on no forge has none to compare.
BoundToProject(d) == Forge(d.project) => CheckSource(d.project, {}, None, d)

\* Verify::check_signer
CheckSigner(d, args) ==
    /\ args.source # None => RequireSourceRepository(d, args.source)
    /\ ~args.other => BoundToProject(d)
    /\ args.pin # None => MatchesPin(d, {args.pin})

\* `packslip verify` of a release or of a list of releases: a list has no
\* files, and a key is the whole policy.
VerifyAccepts(list, d, args) ==
    /\ FlagsAllowed(args)
    /\ list => args.files = {}
    /\ args.key # None \/ PolicyKnown(d, args)
    /\ VerifyUnder(d, args.key, IdentityPolicy(d, args))
    /\ FilesMatch(d, args.files)
    /\ args.key = None => CheckSigner(d, args)

\* `packslip pin` of a release: the fingerprint it prints, None for none.
PinPrints(d, args) ==
    IF /\ PolicyKnown(d, args) /\ VerifyUnder(d, None, IdentityPolicy(d, args))
       /\ BoundToProject(d) /\ SourceId(d) # None
      THEN <<Issuer(d), SourceId(d)>> ELSE None

\* A list of releases for an installation: as for a release.
ListUnder(want, resolved, d, req, authority) ==
    LET k == Given(req, "key")
        policy == HostPolicy(d, req, authority)
    IN  /\ KeysAgree(req) /\ (Forge(want) => k = None)
        /\ IF Forge(want)
             THEN /\ VerifyUnder(d, None, [issuer |-> want.host, identity |-> None,
                                           prefix |-> None])
                  /\ CheckSource(want, {}, resolved, d)
             ELSE /\ k # None \/ HostPolicyComplete(policy)
                  /\ VerifyUnder(d, k, policy)
        /\ SameProject(d.project, want) \/ (Forge(want) /\ Pin(d) # None)
        /\ CheckConstraints(req, d)

-----------------------------------------------------------------------------
\* An installation's requirements for the flags that both commands have.
Asked(args) ==
    <<[pins |-> IF args.pin = None THEN {} ELSE {args.pin}, key |-> args.key,
       issuer |-> args.issuer, identity |-> args.identity, prefix |-> args.prefix]>>

InstallAccepts(list, want, d, req) ==
    IF list THEN ListUnder(want, Resolved(want), d, req, FALSE)
    ELSE ReleaseUnder(want, Resolved(want), d, req, FALSE)

\* What an installation would take for the first time, under any name of the
\* project, `verify` accepts with the same flags. What `verify` accepts an
\* installation takes under the name in the document, with three exceptions:
\* a name that now leads to another repository, a key for a forge project,
\* and flags that do not say who signs for a project named after a host. And
\* a fingerprint that `pin` prints is its repository's: with it both accept
\* the release it was printed for, and nothing that another repository signed.
\* None of this depends on what is remembered.
CommandsAgree ==
  mem = {} =>
    \A list \in BOOLEAN, d \in {c \in Docs : Signed(c)}, args \in Arguments :
        LET req == Asked(args)
            verified == VerifyAccepts(list, d, args)
            printed == PinPrints(d, args)
            pinned == [args EXCEPT !.pin = printed]
        IN  /\ ~args.other /\ args.source = None /\ args.files = {} =>
                 \A want \in Requests : InstallAccepts(list, want, d, req) => verified
            /\ /\ verified /\ ~args.other
               /\ SourceId(d) # None => Resolved(d.project) \in {None, SourceId(d)}
               /\ IF Forge(d.project) THEN args.key = None
                  ELSE args.key # None \/ HostPolicyComplete(IdentityPolicy(d, args))
               => InstallAccepts(list, d.project, d, req)
            /\ verified /\ ~args.other /\ printed # None =>
                 /\ VerifyAccepts(list, d, pinned)
                 /\ \A c \in Docs :
                      /\ Signed(c)
                      /\ \/ VerifyAccepts(list, c, pinned)
                         \/ \E want \in Requests : InstallAccepts(list, want, c, Asked(pinned))
                      => c.origin = d.origin /\ Issuer(c) = Issuer(d)
=============================================================================
