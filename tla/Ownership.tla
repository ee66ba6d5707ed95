------------------------------ MODULE Ownership ------------------------------
(***************************************************************************)
(* src/install_fs.rs: whose a tree and a command are.  Projects, and state *)
(* directories of different scopes, install into the same command          *)
(* directories and trees, over the years and around what the user does     *)
(* there by hand.  A tree is known by its marker, a command by the entry   *)
(* that the receipt of the last installation recorded.                     *)
(*                                                                         *)
(* One step is one run of Session::commit under the locks of its scopes    *)
(* (InstallSessions), from its checks to the last replacement: InstallTxn  *)
(* shows that it takes effect as a whole or not at all.  A commit that is  *)
(* refused changes nothing and is no step.                                 *)
(***************************************************************************)
EXTENDS Naturals, Functions

CONSTANTS Owner,     \* <<state directory, project>>: who keeps a receipt
          Tree,      \* installation trees, each in a directory of its own
          Bin,       \* command directories
          Folding,   \* those whose file system ignores the case of names
          Name,      \* command names
          Lower,     \* Lower[n]: n in lower case
          Unsafe,    \* the names that no file may have everywhere
          File,      \* executables of a release
          Release,   \* what a release exports: commands to executables
          Nothing, Alien,   \* no entry; one that packslip did not write
          MaxInstalls, MaxEdits   \* bounds for TLC

State == {o[1] : o \in Owner}
Project == {o[2] : o \in Owner}
Path == Bin \X Name

ASSUME FoldingAssumption == Folding \subseteq Bin
ASSUME LowerAssumption == Lower \in [Name -> Name] /\ \A n \in Name : Lower[Lower[n]] = Lower[n]
ASSUME UnsafeAssumption == Unsafe \subseteq Name
ASSUME ReleaseAssumption ==
  \A r \in Release : DOMAIN r \subseteq Name /\ \A n \in DOMAIN r : r[n] \in File
ASSUME BoundsAssumption == MaxInstalls \in Nat /\ MaxEdits \in Nat

\* Entry: a link, or a launcher with the path embedded, is its target.
Command == [tree : Tree, file : File]

Marked == [marker : Project, files : SUBSET File]
Exports == UNION {[paths -> Command] : paths \in SUBSET Path}
Receipt == [tree : Tree, exports : Exports]

ASSUME OwnerAssumption == \A o \in Owner : o = <<o[1], o[2]>>
ASSUME NothingAssumption ==
  /\ Nothing # Alien
  /\ \A x \in {Nothing, Alien} : x \notin Owner /\ x \notin Command /\ x \notin Marked
  /\ Nothing \notin Receipt

\* Where a path leads to in a directory that may ignore case.
Seat(path) == IF path[1] \in Folding THEN <<path[1], Lower[path[2]]>> ELSE path
Seats == {Seat(path) : path \in Path}

VARIABLES
  tree,      \* tree[t]: what is there: its marker and its executables
  command,   \* command[seat]
  receipt,   \* receipt[o]: the tree and the exports it records
  stuck,     \* the scopes of a journal that can be neither done nor undone
  placed,    \* placed[seat]: who put its command there, Nothing for others
  keeper,    \* keeper[t]: who last replaced the tree
  hosted,    \* hosted[t]: the projects that were ever installed there
  last,      \* the last step
  installs, edits

disk == <<tree, command, receipt, stuck>>
told == <<placed, keeper, hosted, last>>
vars == <<disk, told, installs, edits>>

Byhand == [owner |-> Nothing, force |-> FALSE, recased |-> {}]

TypeOK ==
  /\ tree \in [Tree -> Marked \cup {Nothing, Alien}]
  /\ command \in [Seats -> Command \cup {Nothing, Alien}]
  /\ receipt \in [Owner -> Receipt \cup {Nothing}]
  /\ stuck \subseteq State \cup Tree \cup Bin
  /\ placed \in [Seats -> Owner \cup {Nothing}]
  /\ keeper \in [Tree -> Owner \cup {Nothing}]
  /\ hosted \in [Tree -> SUBSET Project]
  /\ installs \in 0..MaxInstalls /\ edits \in 0..MaxEdits

Init ==
  /\ tree = [t \in Tree |-> Nothing]
  /\ command = [s \in Seats |-> Nothing]
  /\ receipt = [o \in Owner |-> Nothing]
  /\ stuck = {}
  /\ placed = [s \in Seats |-> Nothing]
  /\ keeper = [t \in Tree |-> Nothing]
  /\ hosted = [t \in Tree |-> {}]
  /\ last = Byhand
  /\ installs = 0 /\ edits = 0

-----------------------------------------------------------------------------
(* The checks of commit_inner.                                             *)

\* The exports of the previous installation.
Previous(o) == IF receipt[o] = Nothing THEN <<>> ELSE receipt[o].exports

\* A tree is taken unforced if it is not there or carries the project's marker.
TreeOwned(o, t) ==
  tree[t] # Nothing => tree[t] # Alien /\ tree[t].marker = o[2]

\* Mutant: a command is one's own for its name alone.
MutantOwnName(o, path) ==
  command[Seat(path)] = Nothing \/ path \in DOMAIN Previous(o)

\* A command is taken unforced if it is not there or is still the entry that
\* the receipt records at this very path.
CommandOwned(o, path) ==
  \/ command[Seat(path)] = Nothing
  \/ path \in DOMAIN Previous(o) /\ command[Seat(path)] = Previous(o)[path]

\* export_name, and no two names that differ in case only.
Exportable(r) ==
  /\ DOMAIN r \cap Unsafe = {}
  /\ IsInjective(Restrict(Lower, DOMAIN r))

\* Mutant: only the commands of the directory in use are followed up.
MutantStaleHere(o, exports) ==
  {path \in DOMAIN Previous(o) \ DOMAIN exports :
     /\ command[Seat(path)] = Previous(o)[path]
     /\ \E e \in DOMAIN exports : e[1] = path[1]}

\* The commands that the new release no longer exports, if still its own.
Stale(o, exports) ==
  {path \in DOMAIN Previous(o) \ DOMAIN exports :
     command[Seat(path)] = Previous(o)[path]}

\* The scopes of the session: those asked for and those of the receipt.
Scopes(o, t, b) == {o[1], t, b} \cup {path[1] : path \in DOMAIN Previous(o)}

-----------------------------------------------------------------------------
(* The replacements, in the order of the journal.                          *)

Published(exports) ==
  [s \in Seats |->
     IF \E path \in DOMAIN exports : Seat(path) = s
       THEN exports[CHOOSE path \in DOMAIN exports : Seat(path) = s]
       ELSE command[s]]

Without(commands, paths) ==
  [s \in Seats |-> IF \E path \in paths : Seat(path) = s THEN Nothing ELSE commands[s]]

\* A removal finds what the release just put there: "destination changed after
\* preparation". Only a command renamed in case comes to this.
Overtaken(o, exports) ==
  {path \in Stale(o, exports) : Published(exports)[Seat(path)] # command[Seat(path)]}

Recased(o, exports) ==
  {e \in DOMAIN exports :
     \E path \in DOMAIN Previous(o) \ {e} : Seat(path) = Seat(e)}

\* Who is answerable for the commands from now on.
Placed(o, commands, exports) ==
  [s \in Seats |->
     IF commands[s] = Nothing THEN Nothing
     ELSE IF \E path \in DOMAIN exports : Seat(path) = s THEN o
     ELSE placed[s]]

Replace(o, t, r, commands, exports) ==
  /\ tree' = [tree EXCEPT ![t] = [marker |-> o[2], files |-> {r[n] : n \in DOMAIN r}]]
  /\ command' = commands
  /\ placed' = Placed(o, commands, exports)
  /\ keeper' = [keeper EXCEPT ![t] = o]
  /\ hosted' = [hosted EXCEPT ![t] = @ \cup {o[2]}]

\* Session::commit.
Install(o, t, b, r, force) ==
  LET exports == [path \in {b} \X DOMAIN r |-> [tree |-> t, file |-> r[path[2]]]]
      stale == Stale(o, exports)
      overtaken == Overtaken(o, exports)
  IN /\ installs < MaxInstalls
     /\ Scopes(o, t, b) \cap stuck = {}
     /\ force \/ TreeOwned(o, t)
     /\ Exportable(r)
     /\ force \/ \A path \in DOMAIN exports : CommandOwned(o, path)
     /\ \/ /\ overtaken = {}
           /\ Replace(o, t, r, Without(Published(exports), stale), exports)
           /\ receipt' = [receipt EXCEPT ![o] = [tree |-> t, exports |-> exports]]
           /\ last' = [owner |-> o, force |-> force, recased |-> Recased(o, exports)]
           /\ UNCHANGED stuck
        \/ /\ overtaken # {}
           /\ \E done \in SUBSET (stale \ overtaken) :
                Replace(o, t, r, Without(Published(exports), done), exports)
           /\ stuck' = stuck \cup Scopes(o, t, b)
           /\ last' = [owner |-> o, force |-> force, recased |-> {}]
           /\ UNCHANGED receipt
     /\ installs' = installs + 1
     /\ UNCHANGED edits

-----------------------------------------------------------------------------
(* What the user does by hand: there is no uninstall.                      *)

EditCommand(s, entry) ==
  /\ edits < MaxEdits /\ edits' = edits + 1
  /\ command[s] # entry
  /\ command' = [command EXCEPT ![s] = entry]
  /\ placed' = [placed EXCEPT ![s] = Nothing]
  /\ last' = Byhand
  /\ UNCHANGED <<tree, receipt, stuck, keeper, hosted, installs>>

EditTree(t, entry) ==
  /\ edits < MaxEdits /\ edits' = edits + 1
  /\ tree[t] # entry
  /\ tree' = [tree EXCEPT ![t] = entry]
  /\ keeper' = [keeper EXCEPT ![t] = Nothing]
  /\ last' = Byhand
  /\ UNCHANGED <<command, receipt, stuck, placed, hosted, installs>>

Next ==
  \/ \E o \in Owner, t \in Tree, b \in Bin, r \in Release, force \in BOOLEAN :
       Install(o, t, b, r, force)
  \/ \E s \in Seats, entry \in {Nothing, Alien} : EditCommand(s, entry)
  \/ \E t \in Tree, entry \in {Nothing, Alien} : EditTree(t, entry)

Spec == Init /\ [][Next]_vars

-----------------------------------------------------------------------------
(* Properties.                                                             *)

\* "A command is owned only while its current entry matches this identity"
\* and "conflicts with an existing command; use --force": without --force an
\* install replaces or removes no command and no tree that another project or
\* the user put there, in whatever order they install, move, upgrade and drop
\* commands. An entry is told from another by where it leads, so a project does
\* take a command that leads into a tree where it was itself installed once.
OthersUntouched ==
  [][LET o == last'.owner
     IN o # Nothing /\ ~last'.force =>
          /\ \A s \in Seats :
               command[s] \notin {Nothing, command'[s]} =>
                 /\ command[s] # Alien
                 /\ placed[s] # Nothing
                 /\ placed[s][2] = o[2] \/ o[2] \in hosted[command[s].tree]
          /\ \A t \in Tree :
               tree[t] \notin {Nothing, tree'[t]} =>
                 tree[t] # Alien /\ keeper[t] # Nothing /\ keeper[t][2] = o[2]]_vars

\* No command is forgotten, whatever directories and trees an installation
\* moves through: a command that packslip placed is in the receipt of whoever
\* placed it, so that a later install replaces or removes it, and it leads to an
\* executable of the tree as long as nobody else replaces the tree. The commands
\* that an install reports are there. Commands renamed in case only, where the
\* file system ignores case, are excepted: those the code loses.
CommandsTracked ==
  /\ \A s \in Seats :
       placed[s] # Nothing /\ s[1] \notin stuck =>
         LET o == placed[s]
         IN /\ receipt[o] # Nothing
            /\ \E path \in DOMAIN receipt[o].exports :
                 Seat(path) = s /\ receipt[o].exports[path] = command[s]
            /\ keeper[command[s].tree] = o => command[s].file \in tree[command[s].tree].files
  /\ last.owner # Nothing /\ last.owner[1] \notin stuck =>
       \A path \in DOMAIN receipt[last.owner].exports \ last.recased :
         command[Seat(path)] = receipt[last.owner].exports[path]
=============================================================================
