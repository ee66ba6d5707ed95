----------------------------- MODULE TrustHistory -----------------------------
(***************************************************************************)
(* src/install.rs (install_in) with src/install_policy.rs (continuity): the *)
(* trust an installation remembers.  Every installation has a history in   *)
(* the state directory: the records of the last accepted list and release, *)
(* and the sequence of that list.  The same history is kept a second time  *)
(* under the project's name, so that a name which changes hands is noticed *)
(* although an installation is keyed by its repository's ID.               *)
(*                                                                         *)
(* A run looks the repository up in one session, drops it, and does the    *)
(* rest in a second one; runs of other processes, renames on the forge and *)
(* kills come in between.  Signatures are verified elsewhere: a document   *)
(* here is one whose signature holds.  The commit is one step, as          *)
(* InstallTxn shows it to be.                                              *)
(***************************************************************************)
EXTENDS Naturals

CONSTANTS Proc,       \* packslip processes of one scope (one state directory)
          Spelling,   \* project names as they are typed
          Host,       \* those named after a host, not a forge repository
          Alias,      \* alias_key: the name a spelling is remembered under
          Id,         \* repository IDs
          Workflow,   \* signing workflows
          Docs,       \* validly signed documents: what they describe, who signed
          None,
          Approvals,  \* the trust changes a user may have approved
          MaxSeq, MaxRuns, MaxMoves   \* bounds for TLC

Forge == Spelling \ Host
Key == Id \cup Host
Doc == [subject : Key, source : Id \cup {None}, workflow : Workflow, pinned : BOOLEAN]
Record == [project : Spelling, source : Id \cup {None}, workflow : Workflow,
           pinned : BOOLEAN]
History == [release : Record \cup {None}, list : Record \cup {None}, seq : 0..MaxSeq]
Empty == [release |-> None, list |-> None, seq |-> 0]
Change == [role : {"release", "list"}, prior : Record, next : Record]

ASSUME HostAssumption == Host \subseteq Spelling
ASSUME KeyAssumption == None \notin Id \cup Spelling \cup Proc \cup Record \cup Change
                        /\ Id \cap Spelling = {}
ASSUME AliasAssumption ==
  /\ Alias \in [Spelling -> Spelling]
  /\ \A n \in Spelling : Alias[Alias[n]] = Alias[n]
  /\ \A n \in Host : Alias[n] = n
  /\ \A n \in Forge : Alias[n] \in Forge
ASSUME DocsAssumption == /\ Docs \subseteq Doc
                         /\ \A d \in Docs : d.subject \in Id => d.source = d.subject
ASSUME ApprovalsAssumption == Approvals \subseteq Change
ASSUME SequenceBound == MaxSeq \in Nat

VARIABLES
  owner,     \* owner[a]: the repository the forge resolves the name a to
  history,   \* history[k]: history-<installation key>.json
  alias,     \* alias[n]: history-<name>.json
  lock,      \* the process whose session holds the state directory
  pc,
  name,      \* the project a process was asked for
  id,        \* the repository ID its lookup found, None for a host
  accepts,   \* the change it was told to accept (--accept-trust-change)
  mem,       \* its copy of the history
  list,      \* the sequence of the list it holds, 0 without one
  acted,     \* history: the highest list sequence artifact work began under
  used,      \* history: the repositories installed under a name
  runs, moves

world == <<owner, moves>>
disk == <<history, alias>>
ghosts == <<acted, used>>
vars == <<world, disk, lock, pc, name, id, accepts, mem, list, ghosts, runs>>

Pc == {"idle", "open", "list", "keep", "name", "candidate", "commit"}

TypeOK ==
  /\ owner \in [{Alias[n] : n \in Forge} -> Id]
  /\ history \in [Key -> History]
  /\ alias \in [Spelling -> History]
  /\ lock \in Proc \cup {None}
  /\ pc \in [Proc -> Pc]
  /\ name \in [Proc -> Spelling \cup {None}]
  /\ id \in [Proc -> Id \cup {None}]
  /\ accepts \in [Proc -> Change \cup {None}]
  /\ mem \in [Proc -> History]
  /\ list \in [Proc -> 0..MaxSeq]
  /\ acted \in [Key -> 0..MaxSeq]
  /\ used \in [Spelling -> SUBSET Id]
  /\ runs \in Nat /\ moves \in Nat

\* Nothing is remembered, or one installation of an earlier version is, which
\* kept the history of a name under the spelling it was typed in.
Init ==
  /\ owner \in [{Alias[n] : n \in Forge} -> Id]
  /\ \/ /\ history = [k \in Key |-> Empty]
        /\ alias = [n \in Spelling |-> Empty]
        /\ used = [n \in Spelling |-> {}]
     \/ \E n \in Forge, d \in Docs :
          LET i == owner[Alias[n]]
              r == [project |-> n, source |-> i, workflow |-> d.workflow,
                    pinned |-> d.pinned]
              old == [Empty EXCEPT !.release = r]
          IN  /\ d.subject = i
              /\ history = [[k \in Key |-> Empty] EXCEPT ![i] = old]
              /\ alias = [[m \in Spelling |-> Empty] EXCEPT ![n] = old]
              /\ used = [[m \in Spelling |-> {}] EXCEPT ![Alias[n]] = {i}]
  /\ lock = None
  /\ pc = [p \in Proc |-> "idle"]
  /\ name = [p \in Proc |-> None]
  /\ id = [p \in Proc |-> None]
  /\ accepts = [p \in Proc |-> None]
  /\ mem = [p \in Proc |-> Empty]
  /\ list = [p \in Proc |-> 0]
  /\ acted = [k \in Key |-> 0]
  /\ runs = 0 /\ moves = 0

-----------------------------------------------------------------------------
Goto(p, l) == pc' = [pc EXCEPT ![p] = l]

\* installation_key
KeyOf(p) == IF name[p] \in Host THEN name[p] ELSE id[p]
Known(r) == r # None

\* The variants named as mutants are the mistakes each property is there to
\* catch; no action uses them.

\* No other session holds the lock of the state directory.
MutantUnlocked == TRUE
StateUnlocked == lock = None

\* The repository ID the lookup finds; a host's name resolves to none.
Resolved(n) == IF n \in Host THEN None ELSE owner[Alias[n]]

\* The projects the records of every remembered history name.
MutantRememberNothing == {}
RememberedProjects ==
  LET files == {history[k] : k \in Key} \cup {alias[n] : n \in Spelling}
      records == {h.release : h \in files} \cup {h.list : h \in files}
  IN  {r.project : r \in records \ {None}}

\* forge::same_project
SameProject(m, n) == Alias[m] = Alias[n]

\* A name the project was remembered under now resolves to another ID.
NameTaken(p) ==
  LET names == {m \in RememberedProjects : SameProject(m, name[p])}
                 \cup {name[p], Alias[name[p]]}
      pin(h) == IF Known(h.release) THEN h.release ELSE h.list
  IN  \E n \in names : /\ id[p] # None
                       /\ Known(pin(alias[n])) /\ pin(alias[n]).source # None
                       /\ pin(alias[n]).source # id[p]

\* changes: does the signer of next continue the one of prior?
SignerContinues(prior, next) ==
  CASE prior.source # None /\ next.source # None ->
         /\ prior.source = next.source
         /\ next.project \in Host \/ next.pinned => prior.workflow = next.workflow
    [] prior.source # None /\ next.source = None -> FALSE
    [] OTHER -> prior.workflow = next.workflow

\* changes: next weakens or changes what prior established.
Changed(prior, next) ==
  \/ ~SignerContinues(prior, next)
  \/ prior.pinned /\ ~next.pinned

\* The approval names the role, the previous record and the new document.
MutantApproveSigner(p, role, prior, next) ==
  accepts[p] # None /\ accepts[p].role = role /\ accepts[p].next = next
Approved(p, role, prior, next) ==
  accepts[p] = [role |-> role, prior |-> prior, next |-> next]

\* continuity
Continues(p, role, prior, next) ==
  Known(prior) =>
    /\ \/ SameProject(prior.project, next.project)
       \/ /\ prior.project \in Forge /\ next.project \in Forge
          /\ prior.source # None /\ prior.source = next.source
    /\ Changed(prior, next) => Approved(p, role, prior, next)

\* list_freshness, for a list of sequence s, 0 if there is none.
FreshList(s, kept) == IF s = 0 THEN kept = 0 ELSE s >= kept

\* What the run has to remember before it looks at any artifact.
MutantRememberLater == "candidate"
AfterList == "keep"

\* The documents that verify for the repository that was looked up, under
\* whatever name, or for the host project.
Verified(p) == {d \in Docs : d.subject = KeyOf(p)}
RecordOf(p, d) == [project |-> name[p], source |-> d.source,
                   workflow |-> d.workflow, pinned |-> d.pinned]

\* The run is over: its session and memory go.
Leave(p) ==
  /\ Goto(p, "idle")
  /\ lock' = IF lock = p THEN None ELSE lock
  /\ name' = [name EXCEPT ![p] = None]
  /\ id' = [id EXCEPT ![p] = None]
  /\ accepts' = [accepts EXCEPT ![p] = None]
  /\ mem' = [mem EXCEPT ![p] = Empty]
  /\ list' = [list EXCEPT ![p] = 0]

-----------------------------------------------------------------------------
(* install_in.                                                             *)

\* The lookup session: resolve the name to a repository, and let go of it.
Lookup(p) ==
  /\ pc[p] = "idle" /\ StateUnlocked
  /\ runs < MaxRuns /\ runs' = runs + 1
  /\ \E n \in Spelling :
       /\ name' = [name EXCEPT ![p] = n]
       /\ id' = [id EXCEPT ![p] = Resolved(n)]
  /\ \E a \in Approvals \cup {None} : accepts' = [accepts EXCEPT ![p] = a]
  /\ Goto(p, "open")
  /\ UNCHANGED <<world, disk, lock, mem, list, ghosts>>

\* The session of the installation: read what is remembered of it, and refuse
\* a name that has changed hands.
Open(p) ==
  /\ pc[p] = "open" /\ StateUnlocked
  /\ ~NameTaken(p)
  /\ lock' = p
  /\ mem' = [mem EXCEPT ![p] = history[KeyOf(p)]]
  /\ Goto(p, "list")
  /\ UNCHANGED <<world, disk, name, id, accepts, list, ghosts, runs>>

\* No list: an error for a host, and for who has seen one before.
NoList(p) ==
  /\ pc[p] = "list"
  /\ name[p] \notin Host
  /\ FreshList(0, mem[p].seq)
  /\ Goto(p, "candidate")
  /\ UNCHANGED <<world, disk, lock, name, id, accepts, mem, list, ghosts, runs>>

\* check_list
CheckList(p) ==
  /\ pc[p] = "list"
  /\ \E d \in Verified(p), s \in 1..MaxSeq :
       LET next == RecordOf(p, d)
       IN  /\ FreshList(s, mem[p].seq)
           /\ Continues(p, "list", mem[p].list, next)
           /\ mem' = [mem EXCEPT ![p].list = next, ![p].seq = s]
           /\ list' = [list EXCEPT ![p] = s]
  /\ Goto(p, AfterList)
  /\ UNCHANGED <<world, disk, lock, name, id, accepts, ghosts, runs>>

\* session.remember(&key, &history)
RememberKey(p) ==
  /\ pc[p] = "keep"
  /\ history' = [history EXCEPT ![KeyOf(p)] = mem[p]]
  /\ Goto(p, "name")
  /\ UNCHANGED <<world, alias, lock, name, id, accepts, mem, list, ghosts, runs>>

\* session.remember(&alias, &history)
RememberName(p) ==
  /\ pc[p] = "name"
  /\ alias' = [alias EXCEPT ![Alias[name[p]]] = mem[p]]
  /\ Goto(p, "candidate")
  /\ UNCHANGED <<world, history, lock, name, id, accepts, mem, list, ghosts, runs>>

\* One candidate release: check_release, remember it under the name, and take
\* it or skip it.  What is taken is what the history will say.
Candidate(p) ==
  /\ pc[p] = "candidate"
  /\ acted' = [acted EXCEPT ![KeyOf(p)] = IF list[p] > @ THEN list[p] ELSE @]
  /\ \E d \in Verified(p) :
       LET next == RecordOf(p, d)
           remembered == [mem[p] EXCEPT !.release = next]
       IN  /\ Continues(p, "release", mem[p].release, next)
           /\ alias' = [alias EXCEPT ![Alias[name[p]]] = remembered]
           /\ \/ /\ mem' = [mem EXCEPT ![p] = remembered]
                 /\ Goto(p, "commit")
              \/ UNCHANGED <<mem, pc>>
  /\ UNCHANGED <<world, history, lock, name, id, accepts, list, used, runs>>

\* Tree, commands, receipt and history change together.
Commit(p) ==
  /\ pc[p] = "commit"
  /\ history' = [history EXCEPT ![KeyOf(p)] = mem[p]]
  /\ used' = [used EXCEPT ![Alias[name[p]]] = @ \cup ({id[p]} \ {None})]
  /\ Leave(p)
  /\ UNCHANGED <<world, alias, acted, runs>>

\* Any error, or a kill, at any point: the session is dropped, what was
\* remembered stays.
Stop(p) ==
  /\ pc[p] # "idle"
  /\ Leave(p)
  /\ UNCHANGED <<world, disk, ghosts, runs>>

\* On the forge, a name is renamed away, deleted or recreated.
Move ==
  /\ moves < MaxMoves /\ moves' = moves + 1
  /\ \E a \in DOMAIN owner, i \in Id : owner' = [owner EXCEPT ![a] = i]
  /\ UNCHANGED <<disk, lock, pc, name, id, accepts, mem, list, ghosts, runs>>

-----------------------------------------------------------------------------
Step(p) == Open(p) \/ NoList(p) \/ CheckList(p) \/ RememberKey(p)
           \/ RememberName(p) \/ Candidate(p) \/ Commit(p)

Next == Move \/ \E p \in Proc : Lookup(p) \/ Step(p) \/ Stop(p)

Spec == Init /\ [][Next]_vars

-----------------------------------------------------------------------------
(* Properties.                                                             *)

\* "A later failed install cannot make an older signed list acceptable again"
\* (Session::remember): a run that works on artifacts holds a list at least as
\* recent as every list any earlier run, failed or killed, did so under, and
\* never goes without one once there was one.
NoOlderList ==
  \A p \in Proc : pc[p] = "commit" => list[p] >= acted[KeyOf(p)]

\* What the state directory remembers is never older than it was, whatever
\* runs overlap with the lookup and the forge's answers of others.
SequenceNeverFalls ==
  [][\A k \in Key : history'[k].seq >= history[k].seq]_vars

\* "A remembered name must never silently become first use when that name is
\* deleted and recreated, in whatever case the request spells it": one
\* repository at most is ever installed under a name.
NameKeepsRepository ==
  \A n \in Forge : \A i, j \in used[n] : i = j

\* continuity, on the disk: the repository or the workflow that signs for an
\* installation is replaced, or its pinning dropped, only by a run told to
\* accept exactly this change of exactly the record that it replaces.
Reviewable(prior, next) ==
  \/ prior.source \notin {None, next.source}
  \/ prior.pinned /\ ~next.pinned
  \/ prior.workflow # next.workflow /\ (prior.project \in Host \/ next.pinned)
Reviewed(role, prior, next) ==
  Known(prior) /\ Reviewable(prior, next) =>
    \E p \in Proc : accepts[p] = [role |-> role, prior |-> prior, next |-> next]
TrustChangesReviewed ==
  [][\A k \in Key : /\ Reviewed("release", history[k].release, history'[k].release)
                    /\ Reviewed("list", history[k].list, history'[k].list)]_vars

\* The comment in install_in on remembered names, of everything the state
\* directory remembers: a run that got past the check of the name uses the
\* repository that every record of that name belongs to.
RememberedNameIsKept ==
  \A p \in Proc : pc[p] \in Pc \ {"idle", "open"} /\ id[p] # None =>
    \A k \in Key : \A r \in {history[k].release, history[k].list} :
      Known(r) /\ SameProject(r.project, name[p]) => r.source = id[p]
=============================================================================
