---------------------------- MODULE InstallSessions ----------------------------
(***************************************************************************)
(* src/install_fs.rs: Session::open_under, and commit_inner and recover as *)
(* other processes see them.  Processes share directories that are locked  *)
(* one at a time in path order.  Every state directory has one journal,    *)
(* which names the directories (scopes) of its transaction, and every such *)
(* directory holds a recovery pointer back to the journal, so that whoever *)
(* locks the directory next finds, and finishes, what was interrupted.     *)
(*                                                                         *)
(* What a transaction does inside one directory is InstallTxn's subject;   *)
(* here it is one step per directory.                                      *)
(***************************************************************************)
EXTENDS Naturals, FiniteSetsExt

CONSTANTS Proc,         \* packslip processes
          D,            \* directories, numbered in the order of their paths
          Project,      \* installation keys a receipt is kept under
          None,
          Requests,     \* what a session may be opened for
          MaxScopes,    \* 128: "too many shared recovery directories"
          MaxSessions, MaxCrashes  \* bounds for TLC

Dir == 1..D

\* state, tree.parent() and bin; no project for Session::open.
Request == [state : Dir, parent : Dir, bin : Dir, project : Project \cup {None}]

ASSUME DAssumption == D \in Nat
ASSUME NoneIsNew == None \notin Proc \cup Project \cup Dir
ASSUME RequestsAssumption ==
  /\ Requests \subseteq Request
  /\ \A r \in Requests : r.state # r.parent /\ r.state # r.bin /\ r.parent # r.bin
ASSUME BoundsAssumption == MaxScopes \in Nat /\ MaxSessions \in Nat /\ MaxCrashes \in Nat

VARIABLES
  lock,      \* lock[d]: the process that holds d/.packslip.lock
  journal,   \* journal[s]: s/journal.json
  pointer,   \* pointer[d]: the state directory d/.packslip-recovery.json names
  receipt,   \* receipt[s][k]: the directories of the exports it records
  dirty,     \* dirty[d]: the journals with an unfinished replacement in d
  pc,
  req,       \* what the process asked for
  want,      \* scopes
  scanned,   \* the scopes whose pointer was read in this round
  extra,     \* the directories the receipt and the journals call for
  seen,      \* the copies of the journals read in this round
  todo,      \* the journals among them still to recover
  ending,    \* does recovery end the session (after a commit) or open it?
  sessions, crashes

disk == <<journal, pointer, receipt, dirty>>
round == <<scanned, extra, seen, todo>>
bounds == <<sessions, crashes>>
vars == <<lock, disk, pc, req, want, round, ending, bounds>>

Phase == {"absent", "inactive", "active", "committed"}
Journal == [phase : Phase, scopes : SUBSET Dir, ops : SUBSET Dir,
            project : Project \cup {None}, prior : SUBSET Dir]
Absent == [phase |-> "absent", scopes |-> {}, ops |-> {}, project |-> None,
           prior |-> {}]
RecoverPc == {"undo", "mark", "unpoint", "delete"}
CommitPc == {"point", "activate", "replace", "commit"}
Pc == {"idle", "lock", "own", "scan", "decide", "opened"} \cup RecoverPc \cup CommitPc

TypeOK ==
  /\ lock \in [Dir -> Proc \cup {None}]
  /\ journal \in [Dir -> Journal]
  /\ pointer \in [Dir -> Dir \cup {None}]
  /\ receipt \in [Dir -> [Project -> SUBSET Dir]]
  /\ dirty \in [Dir -> SUBSET Dir]
  /\ pc \in [Proc -> Pc]
  /\ req \in [Proc -> Request \cup {None}]
  /\ want \in [Proc -> SUBSET Dir]
  /\ scanned \in [Proc -> SUBSET Dir]
  /\ extra \in [Proc -> SUBSET Dir]
  /\ seen \in [Proc -> [Dir -> Journal]]
  /\ todo \in [Proc -> SUBSET Dir]
  /\ ending \in [Proc -> BOOLEAN]
  /\ sessions \in Nat /\ crashes \in Nat

Init ==
  /\ lock = [d \in Dir |-> None]
  /\ journal = [d \in Dir |-> Absent]
  /\ pointer = [d \in Dir |-> None]
  /\ receipt = [d \in Dir |-> [k \in Project |-> {}]]
  /\ dirty = [d \in Dir |-> {}]
  /\ pc = [p \in Proc |-> "idle"]
  /\ req = [p \in Proc |-> None]
  /\ want = [p \in Proc |-> {}]
  /\ scanned = [p \in Proc |-> {}]
  /\ extra = [p \in Proc |-> {}]
  /\ seen = [p \in Proc |-> [d \in Dir |-> Absent]]
  /\ todo = [p \in Proc |-> {}]
  /\ ending = [p \in Proc |-> FALSE]
  /\ sessions = 0 /\ crashes = 0

-----------------------------------------------------------------------------
Held(p) == {d \in Dir : lock[d] = p}
Current(p) == Min(todo[p])
Copy(p) == seen[p][Current(p)]
Goto(p, l) == pc' = [pc EXCEPT ![p] = l]

\* The variants named as mutants are the mistakes each property is there to
\* catch; no action uses them.

\* The locks a process keeps when its set of scopes grows: none.
MutantKeepLocks(p) == Held(p)
KeptLocks(p) == {}

\* The directory locked next: the first in path order.
NextLock(p) == Min(want[p] \ Held(p))

\* What journal j of state directory s calls for, found through a pointer: its
\* scopes, and the directory it lies in.
MutantOnlyState(s, j) == {s}
CalledFor(s, j) == j.scopes \cup {s}

\* The journals found in one round, by path.
MutantLastFound(p, s) == {s}
Found(p, s) == todo[p] \cup {s}

\* What the process's own state directory calls for: the directories of the
\* exports in the project's receipt, and the scopes of its own journal.
MutantNoReceipt(p) == journal[req[p].state].scopes
OwnCalls(p) ==
  LET r == req[p]
  IN  journal[r.state].scopes
        \cup IF r.project = None THEN {} ELSE receipt[r.state][r.project]

\* recover marks a rolled-back journal before it removes a pointer, and
\* removes the pointers before the journal.
FirstStep(j) ==
  CASE j.phase = "active" -> "undo" [] j.phase = "committed" -> "unpoint"
    [] OTHER -> "mark"
MutantDeleteFirst == "delete"
AfterMark == "unpoint"

\* The pointers are in place before the journal is active.
MutantNoPointers == "activate"
AfterWrite == "point"

\* Nothing that was read before the locks were released is used afterwards.
MutantKeepRead(p) ==
  /\ scanned' = [scanned EXCEPT ![p] = {}]
  /\ UNCHANGED <<extra, seen, todo>>
NewRound(p) ==
  /\ scanned' = [scanned EXCEPT ![p] = {}]
  /\ extra' = [extra EXCEPT ![p] = {}]
  /\ seen' = [seen EXCEPT ![p] = [d \in Dir |-> Absent]]
  /\ todo' = [todo EXCEPT ![p] = {}]

\* The session is dropped, or open_under returns an error: the kernel releases
\* the locks with the file handles.
Leave(p) ==
  /\ Goto(p, "idle")
  /\ lock' = [d \in Dir |-> IF lock[d] = p THEN None ELSE lock[d]]
  /\ req' = [req EXCEPT ![p] = None]
  /\ want' = [want EXCEPT ![p] = {}]
  /\ ending' = [ending EXCEPT ![p] = FALSE]
  /\ NewRound(p)

-----------------------------------------------------------------------------
(* open_under.                                                             *)

Start(p) ==
  /\ pc[p] = "idle" /\ sessions < MaxSessions
  /\ sessions' = sessions + 1
  /\ \E r \in Requests :
       /\ req' = [req EXCEPT ![p] = r]
       /\ want' = [want EXCEPT ![p] = {r.state, r.parent, r.bin}]
  /\ Goto(p, "lock")
  /\ UNCHANGED <<lock, disk, round, ending, crashes>>

TooMany(p) ==
  /\ pc[p] = "lock" /\ Held(p) = {}
  /\ Cardinality(want[p]) > MaxScopes
  /\ Leave(p)
  /\ UNCHANGED <<disk, bounds>>

\* One blocking lock at a time, in the order of the set of scopes.
Lock(p) ==
  /\ pc[p] = "lock"
  /\ Cardinality(want[p]) <= MaxScopes
  /\ lock[NextLock(p)] = None
  /\ lock' = [lock EXCEPT ![NextLock(p)] = p]
  /\ Goto(p, IF want[p] \ Held(p) = {NextLock(p)} THEN "own" ELSE "lock")
  /\ UNCHANGED <<disk, req, want, round, ending, bounds>>

\* The receipt of the project and the journal of the own state directory.
ReadOwn(p) ==
  /\ pc[p] = "own"
  /\ LET s == req[p].state
     IN  /\ extra' = [extra EXCEPT ![p] = OwnCalls(p)]
         /\ seen' = [seen EXCEPT ![p][s] = journal[s]]
         /\ todo' = [todo EXCEPT ![p] = IF journal[s].phase = "absent" THEN @ ELSE @ \cup {s}]
  /\ Goto(p, "scan")
  /\ UNCHANGED <<lock, disk, req, want, scanned, ending, bounds>>

\* The pointer in the next scope and the journal it leads to, which may lie in
\* a directory this process has not locked.
Scan(p) ==
  /\ pc[p] = "scan"
  /\ LET d == Min(want[p] \ scanned[p])
         s == pointer[d]
         last == want[p] \ scanned[p] = {d}
     IN  \/ /\ s = None
            /\ scanned' = [scanned EXCEPT ![p] = @ \cup {d}]
            /\ Goto(p, IF last THEN "decide" ELSE "scan")
            /\ UNCHANGED <<lock, req, want, extra, seen, todo, ending>>
         \/ /\ s # None
            /\ journal[s].phase # "absent" /\ d \in journal[s].scopes
            /\ scanned' = [scanned EXCEPT ![p] = @ \cup {d}]
            /\ extra' = [extra EXCEPT ![p] = @ \cup CalledFor(s, journal[s])]
            /\ seen' = [seen EXCEPT ![p][s] = journal[s]]
            /\ todo' = [todo EXCEPT ![p] = Found(p, s)]
            /\ Goto(p, IF last THEN "decide" ELSE "scan")
            /\ UNCHANGED <<lock, req, want, ending>>
         \/ /\ s # None  \* "recovery pointer has no journal", "does not match"
            /\ journal[s].phase = "absent" \/ d \notin journal[s].scopes
            /\ Leave(p)
  /\ UNCHANGED <<disk, bounds>>

\* Lock more directories: start again from none.
Grow(p) ==
  /\ pc[p] = "decide" /\ ~(extra[p] \subseteq want[p])
  /\ want' = [want EXCEPT ![p] = @ \cup extra[p]]
  /\ lock' = [d \in Dir |-> IF lock[d] = p /\ d \notin KeptLocks(p) THEN None ELSE lock[d]]
  /\ NewRound(p)
  /\ Goto(p, "lock")
  /\ UNCHANGED <<disk, req, ending, bounds>>

\* Everything called for is locked: recover what was found, then hand out
\* the session.
Settle(p) ==
  /\ pc[p] = "decide" /\ extra[p] \subseteq want[p]
  /\ Goto(p, IF todo[p] = {} THEN "opened" ELSE FirstStep(Copy(p)))
  /\ UNCHANGED <<lock, disk, req, want, round, ending, bounds>>

-----------------------------------------------------------------------------
(* recover, on the copy of the journal the process read.                   *)

\* Roll back directory by directory, the state directory (receipt and history
\* come last in a transaction) first.
Undo(p) ==
  /\ pc[p] = "undo"
  /\ LET s == Current(p)
         j == Copy(p)
         left == {d \in j.ops : s \in dirty[d]}
     IN  \/ \E d \in left :
              /\ s \in left => d = s
              /\ dirty' = [dirty EXCEPT ![d] = @ \ {s}]
              /\ receipt' = IF d = s THEN [receipt EXCEPT ![s][j.project] = j.prior]
                                     ELSE receipt
              /\ UNCHANGED pc
         \/ /\ left = {}
            /\ Goto(p, "mark")
            /\ UNCHANGED <<dirty, receipt>>
  /\ UNCHANGED <<lock, journal, pointer, req, want, round, ending, bounds>>

Mark(p) ==
  /\ pc[p] = "mark"
  /\ journal' = [journal EXCEPT ![Current(p)] = [Copy(p) EXCEPT !.phase = "committed"]]
  /\ seen' = [seen EXCEPT ![p][Current(p)].phase = "committed"]
  /\ Goto(p, AfterMark)
  /\ UNCHANGED <<lock, pointer, receipt, dirty, req, want, scanned, extra, todo,
                 ending, bounds>>

Unpoint(p) ==
  /\ pc[p] = "unpoint"
  /\ LET s == Current(p)
         left == {d \in Copy(p).scopes : pointer[d] = s}
     IN  \/ \E d \in left : pointer' = [pointer EXCEPT ![d] = None] /\ UNCHANGED pc
         \/ left = {} /\ Goto(p, "delete") /\ UNCHANGED pointer
  /\ UNCHANGED <<lock, journal, receipt, dirty, req, want, round, ending, bounds>>

\* The journal goes last; the next one is taken up, or the session is open,
\* or the commit returns and its session is dropped.
Delete(p) ==
  /\ pc[p] = "delete"
  /\ journal' = [journal EXCEPT ![Current(p)] = Absent]
  /\ LET rest == todo[p] \ {Current(p)}
     IN  \/ /\ rest = {} /\ ending[p]
            /\ Leave(p)
         \/ /\ rest # {} \/ ~ending[p]
            /\ todo' = [todo EXCEPT ![p] = rest]
            /\ Goto(p, IF rest = {} THEN "opened" ELSE FirstStep(seen[p][Min(rest)]))
            /\ UNCHANGED <<lock, req, want, scanned, extra, seen, ending>>
  /\ UNCHANGED <<pointer, receipt, dirty, bounds>>

-----------------------------------------------------------------------------
(* A session: it is dropped without a commit, or it commits once.          *)

Close(p) ==
  /\ pc[p] = "opened"
  /\ Leave(p)
  /\ UNCHANGED <<disk, bounds>>

\* The directories the transaction changes: the tree's, the commands', those
\* of the commands it retires, and the state directory's receipt and history.
Touched(p) ==
  {req[p].parent, req[p].bin, req[p].state}
    \cup receipt[req[p].state][req[p].project]

Write(p) ==
  /\ pc[p] = "opened" /\ req[p].project # None
  /\ Touched(p) \subseteq want[p]
  /\ LET s == req[p].state
         j == [phase |-> "inactive", scopes |-> want[p],
               ops |-> Touched(p), project |-> req[p].project,
               prior |-> receipt[s][req[p].project]]
     IN  /\ journal' = [journal EXCEPT ![s] = j]
         /\ seen' = [seen EXCEPT ![p][s] = j]
         /\ todo' = [todo EXCEPT ![p] = {s}]
  /\ ending' = [ending EXCEPT ![p] = TRUE]
  /\ Goto(p, AfterWrite)
  /\ UNCHANGED <<lock, pointer, receipt, dirty, req, want, scanned, extra, bounds>>

\* A pointer in every locked directory, whatever was there.
Point(p) ==
  /\ pc[p] = "point"
  /\ LET s == req[p].state
         left == {d \in want[p] : pointer[d] # s}
     IN  \/ \E d \in left : pointer' = [pointer EXCEPT ![d] = s] /\ UNCHANGED pc
         \/ left = {} /\ Goto(p, "activate") /\ UNCHANGED pointer
  /\ UNCHANGED <<lock, journal, receipt, dirty, req, want, round, ending, bounds>>

Activate(p) ==
  /\ pc[p] = "activate"
  /\ journal' = [journal EXCEPT ![req[p].state].phase = "active"]
  /\ seen' = [seen EXCEPT ![p][req[p].state].phase = "active"]
  /\ Goto(p, "replace")
  /\ UNCHANGED <<lock, pointer, receipt, dirty, req, want, scanned, extra, todo,
                 ending, bounds>>

\* Replace what the transaction has in one directory, the state's last.
Replace(p) ==
  /\ pc[p] = "replace"
  /\ LET s == req[p].state
         left == {d \in Copy(p).ops : s \notin dirty[d]}
     IN  \/ \E d \in left :
              /\ left # {s} => d # s
              /\ dirty' = [dirty EXCEPT ![d] = @ \cup {s}]
              /\ receipt' = IF d = s
                            THEN [receipt EXCEPT ![s][req[p].project] = {req[p].bin}]
                            ELSE receipt
              /\ UNCHANGED pc
         \/ left = {} /\ Goto(p, "commit") /\ UNCHANGED <<dirty, receipt>>
  /\ UNCHANGED <<lock, journal, pointer, req, want, round, ending, bounds>>

\* The commit point: the replacements are the installation now.
Commit(p) ==
  /\ pc[p] = "commit"
  /\ journal' = [journal EXCEPT ![req[p].state].phase = "committed"]
  /\ seen' = [seen EXCEPT ![p][req[p].state].phase = "committed"]
  /\ dirty' = [d \in Dir |-> dirty[d] \ {req[p].state}]
  /\ Goto(p, "unpoint")
  /\ UNCHANGED <<lock, pointer, receipt, req, want, scanned, extra, todo, ending,
                 bounds>>

\* A step of the transaction fails: recover from the journal on disk.
Fail(p) ==
  /\ pc[p] \in CommitPc
  /\ seen' = [seen EXCEPT ![p][req[p].state] = journal[req[p].state]]
  /\ Goto(p, FirstStep(journal[req[p].state]))
  /\ UNCHANGED <<lock, disk, req, want, scanned, extra, todo, ending, bounds>>

\* The process is killed, or open_under or recover returns an error.
Crash(p) ==
  /\ pc[p] \notin {"idle", "opened"} /\ crashes < MaxCrashes
  /\ crashes' = crashes + 1
  /\ Leave(p)
  /\ UNCHANGED <<disk, sessions>>

-----------------------------------------------------------------------------
Opening(p) == TooMany(p) \/ Lock(p) \/ ReadOwn(p) \/ Scan(p) \/ Grow(p) \/ Settle(p)
Recovering(p) == Undo(p) \/ Mark(p) \/ Unpoint(p) \/ Delete(p)
Committing(p) == Point(p) \/ Activate(p) \/ Replace(p) \/ Commit(p)

Step(p) == Opening(p) \/ Recovering(p) \/ Close(p) \/ Write(p) \/ Committing(p)

Next == \E p \in Proc : Start(p) \/ Step(p) \/ Fail(p) \/ Crash(p)

Spec == Init /\ [][Next]_vars

\* Every running process runs on.  Nothing is assumed of the order in which
\* the kernel serves the waiters of a lock: sessions are finitely many.
Fairness == \A p \in Proc : WF_vars(Step(p))
FairSpec == Spec /\ Fairness

-----------------------------------------------------------------------------
(* Properties.                                                             *)

\* The lock of every scope is held to the end of the session: nothing in a
\* directory is replaced, rolled back or pointed elsewhere, and no journal is
\* written or deleted, except by the process that holds the directory's lock.
Changed(d) == \/ dirty'[d] # dirty[d] \/ pointer'[d] # pointer[d]
              \/ journal'[d] # journal[d] \/ receipt'[d] # receipt[d]
OnlyHolderWrites ==
  [][\A d \in Dir : Changed(d) => \E p \in Proc : lock[d] = p /\ Step(p)]_vars

\* A half-installed directory can be found from itself: its pointer leads to
\* the active journal of the one transaction that is changing it.
DirtyIsFound ==
  \A d \in Dir : \A s \in dirty[d] :
    /\ dirty[d] = {s} /\ pointer[d] = s
    /\ journal[s].phase = "active" /\ d \in journal[s].scopes

\* "Never a pointer to a journal already deleted": open_under never meets a
\* pointer it has to refuse, whichever directory it comes from.
PointerLeads ==
  \A d \in Dir : pointer[d] # None =>
    journal[pointer[d]].phase # "absent" /\ d \in journal[pointer[d]].scopes

\* recover acts on a copy of the journal that was read before all its
\* directories were locked only if that copy was read again: it is what the
\* disk holds.
CopyIsCurrent ==
  \A p \in Proc : pc[p] \in RecoverPc => Copy(p) = journal[Current(p)]

\* open_under hands out a session only when no directory of it is in the
\* middle of a transaction, of its own state directory or of another one.
OpenedClean ==
  \A p \in Proc : pc[p] = "opened" =>
    /\ \A d \in want[p] : dirty[d] = {} /\ pointer[d] = None
    /\ journal[req[p].state].phase = "absent"

\* "Include still-owned previous command directories": the receipt is read
\* before an interrupted transaction is rolled back, and still the session of
\* a project holds the directories of all exports in the receipt that counts.
PriorExportsLocked ==
  \A p \in Proc : pc[p] = "opened" /\ req[p].project # None =>
    receipt[req[p].state][req[p].project] \subseteq want[p]

\* "Locks are ordered to avoid cross-project deadlocks": whoever opens a
\* session gets it, or an error, however the sets of scopes grow.
OpenEnds ==
  \A p \in Proc : pc[p] = "lock" ~> pc[p] \in {"opened", "idle"}
=============================================================================
