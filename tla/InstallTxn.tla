------------------------------ MODULE InstallTxn ------------------------------
(***************************************************************************)
(* src/install_fs.rs: the journaled replacement of an installation.  One   *)
(* state directory, its journal.json, the recovery pointers in every       *)
(* locked directory, and the commit (commit_inner) and recovery (recover)  *)
(* that work on them.                                                      *)
(*                                                                         *)
(* A transaction replaces N destinations: the tree, each exported command, *)
(* each obsolete command, the receipt and the history, in that order.      *)
(* Destination i is replaced through a private slot directory beside it    *)
(* that holds the staged entry ("new") and the displaced one ("backup").   *)
(*                                                                         *)
(* The process may be killed between any two file-system calls, any call   *)
(* may fail before or after taking effect (every rename and remove is      *)
(* followed by a directory flush that can fail on its own), and another    *)
(* program that takes no lock may change a destination at any time.        *)
(* Several processes and several state directories are InstallSessions'.   *)
(***************************************************************************)
EXTENDS Naturals

CONSTANTS N,            \* destinations of a transaction
          Entry,        \* identities of a directory entry (enum Entry)
          None,         \* no entry: Option<Entry>::None
          Scope,        \* directories that hold a lock and a recovery pointer
          Proposals,    \* the vectors of entries a commit may be asked for
          MaxTxns, MaxCrashes, MaxFaults, MaxEdits  \* bounds for TLC

Op == 1..N
Value == Entry \cup {None}

ASSUME NAssumption == N \in Nat \ {0}
ASSUME NoneAssumption == None \notin Entry
ASSUME ScopeAssumption == Scope # {}
ASSUME ProposalsAssumption == Proposals \subseteq [Op -> Value]
ASSUME BoundAssumption == /\ MaxTxns \in Nat
                          /\ MaxCrashes \in Nat
                          /\ MaxFaults \in Nat
                          /\ MaxEdits \in Nat

VARIABLES
  dest,      \* dest[i]: the entry at destination i
  slot,      \* slot[i]: does the slot directory of operation i exist?
  new,       \* new[i]: the entry <slot>/new
  backup,    \* backup[i]: the entry <slot>/backup
  journal,   \* journal.json: "absent", or its (active, committed) flags
  pointers,  \* the scopes whose .packslip-recovery.json names this journal
  before,    \* before[i], after[i]: the identities the journal records
  after,
  pc, op,    \* the step the process is at, and its operation index
  result,    \* who runs recover: an "open", or a commit to answer "ok"/"err"
  reply,     \* what the last commit returned, "none" if it never did
  fate,      \* history: what the journal on disk decided for that commit
  edited,    \* history: destinations the other program changed since prepared
  raced,     \* history: it did so between a check and the rename it guards
  txns, crashes, faults, edits   \* history: counts against the bounds

disk == <<dest, slot, new, backup, journal, pointers>>
plan == <<before, after>>
answer == <<result, reply, fate>>
bounds == <<txns, crashes, faults, edits>>
foreign == <<edited, raced>>
vars == <<disk, plan, pc, op, answer, foreign, bounds>>

JournalState == {"absent", "inactive", "active", "committed"}
PreparePc == {"prepare", "write"}
CommitPc == {"point", "activate", "check", "backup", "publish", "commit"}
RecoverPc == {"inspect", "unpublish", "restore", "mark", "unpoint", "unslot",
              "unjournal"}
Pc == {"closed", "opened", "failed"} \cup PreparePc \cup CommitPc \cup RecoverPc

TypeOK ==
  /\ dest \in [Op -> Value]
  /\ slot \in [Op -> BOOLEAN]
  /\ new \in [Op -> Value]
  /\ backup \in [Op -> Value]
  /\ journal \in JournalState
  /\ pointers \subseteq Scope
  /\ before \in [Op -> Value]
  /\ after \in [Op -> Value]
  /\ pc \in Pc
  /\ op \in Op
  /\ result \in {"open", "ok", "err"}
  /\ reply \in {"none", "ok", "err"}
  /\ fate \in {"none", "open", "committed", "aborted"}
  /\ edited \subseteq Op /\ raced \in BOOLEAN
  /\ txns \in Nat /\ crashes \in Nat /\ faults \in Nat /\ edits \in Nat

Init ==
  /\ dest \in [Op -> Value]
  /\ slot = [i \in Op |-> FALSE]
  /\ new = [i \in Op |-> None]
  /\ backup = [i \in Op |-> None]
  /\ journal = "absent" /\ pointers = {}
  /\ before = dest /\ after = dest
  /\ pc = "closed" /\ op = 1
  /\ result = "open" /\ reply = "none" /\ fate = "none"
  /\ edited = {} /\ raced = FALSE
  /\ txns = 0 /\ crashes = 0 /\ faults = 0 /\ edits = 0

-----------------------------------------------------------------------------
(* How a step ends.                                                        *)

\* A call that took effect: it returns, or the flush after it fails.
Outcome(next, onError) ==
  \/ pc' = next /\ UNCHANGED faults
  \/ faults < MaxFaults /\ faults' = faults + 1 /\ pc' = onError

\* recover is over, with an error or done: an open yields a session or an
\* error, a commit returns what it decided before it called recover.
Return(session) ==
  /\ pc' = IF session /\ result = "open" THEN "opened" ELSE "closed"
  /\ reply' = IF result = "open" THEN reply ELSE result

\* The slots are still TempDir guards before the journal is written, so an
\* early return removes them with what was staged in them.
DropSlots ==
  /\ slot' = [i \in Op |-> FALSE]
  /\ new' = [i \in Op |-> None]

-----------------------------------------------------------------------------
(* Where the control goes.  The variants named as mutants are the mistakes *)
(* each property is there to catch; no action uses them.                   *)

\* The loop of commit_inner moves on to the next operation.
MutantCommitEarly == "commit"
Advance == IF op = N THEN "commit" ELSE "check"
NextOp == IF op = N THEN op ELSE op + 1

\* A destination that exists is displaced into the slot first.
MutantNoBackup == "publish"
AfterCheck == IF before[op] # None THEN "backup" ELSE "publish"

\* What the error branch believes: the journal read back from disk.
MutantBelieveError == FALSE
PersistedCommit == journal = "committed"

\* recover rolls back only an active, uncommitted journal, and marks every
\* uncommitted one before it cleans up.
MutantRollbackIfActive(j) ==
  CASE j = "inactive" -> "mark" [] OTHER -> "inspect"
FirstStep(j) ==
  CASE j = "active" -> "inspect" [] j = "committed" -> "unpoint" [] OTHER -> "mark"

\* The loop of recover moves down to the previous operation.
MutantRollbackOne == "mark"
Retreat == IF op = 1 THEN "mark" ELSE "inspect"
PrevOp == IF op = 1 THEN op ELSE op - 1

\* The cleanup order of recover: pointers, slots, journal.
MutantJournalBeforePointers == "unjournal"
AfterMark == "unpoint"
MutantJournalBeforeSlots == "unjournal"
AfterPointers == "unslot"

\* The entries of operation i are not what the journal can account for.
MutantTrustAnything(i) == FALSE
MutantNoHalfMove(i) == dest[i] \notin {before[i], after[i]}
Conflicted(i) ==
  \/ backup[i] # None /\ backup[i] # before[i]
  \/ /\ dest[i] # None
     /\ backup[i] # None \/ before[i] = None
     /\ dest[i] # after[i] \/ new[i] # None
  \/ /\ backup[i] = None /\ before[i] # None
     /\ dest[i] # before[i]

-----------------------------------------------------------------------------
(* Opening and closing a session.                                          *)

\* open_under with the lock of every scope: the journal found is recovered
\* before the session is handed out.
Open ==
  /\ pc = "closed"
  /\ result' = "open"
  /\ pc' = IF journal = "absent" THEN "opened" ELSE FirstStep(journal)
  /\ op' = N
  /\ UNCHANGED <<disk, plan, reply, fate, foreign, bounds>>

Close ==
  /\ pc = "opened"
  /\ pc' = "closed"
  /\ UNCHANGED <<disk, plan, op, answer, foreign, bounds>>

-----------------------------------------------------------------------------
(* commit_inner.                                                           *)

Begin ==
  /\ pc = "opened" /\ txns < MaxTxns
  /\ txns' = txns + 1
  /\ after' \in Proposals
  /\ before' = dest /\ edited' = {} /\ UNCHANGED raced
  /\ pc' = "prepare" /\ op' = 1
  /\ reply' = "none" /\ fate' = "open"
  /\ UNCHANGED <<disk, result, crashes, faults, edits>>

\* The prepare closure: make the slot, record what the destination holds,
\* and move the staged entry into the slot.
Prepare ==
  /\ pc = "prepare"
  /\ slot' = [slot EXCEPT ![op] = TRUE]
  /\ before' = [before EXCEPT ![op] = dest[op]]
  /\ new' = [new EXCEPT ![op] = after[op]]
  /\ edited' = edited \ {op} /\ UNCHANGED raced
  /\ pc' = IF op = N THEN "write" ELSE "prepare"
  /\ op' = NextOp
  /\ UNCHANGED <<dest, backup, journal, pointers, after, answer, bounds>>

\* An ownership conflict, an unsafe name or an I/O error while preparing.
Refuse ==
  /\ pc \in PreparePc
  /\ DropSlots
  /\ pc' = "closed" /\ reply' = "err" /\ fate' = "aborted"
  /\ UNCHANGED <<dest, backup, journal, pointers, plan, op, result, foreign,
                 bounds>>

\* The journal is published inactive.  If its flush fails commit_inner
\* returns at once, dropping the slots of a journal that is on disk.
WriteJournal ==
  /\ pc = "write"
  /\ journal' = "inactive"
  /\ \/ /\ pc' = "point"
        /\ UNCHANGED <<slot, new, reply, fate, faults>>
     \/ /\ faults < MaxFaults /\ faults' = faults + 1
        /\ DropSlots
        /\ pc' = "closed" /\ reply' = "err" /\ fate' = "aborted"
  /\ UNCHANGED <<dest, backup, pointers, plan, op, result, foreign, txns,
                 crashes, edits>>

\* A recovery pointer in every locked directory, before the journal is active.
Point ==
  /\ pc = "point"
  /\ \E s \in Scope \ pointers :
       /\ pointers' = pointers \cup {s}
       /\ Outcome(IF pointers' = Scope THEN "activate" ELSE "point", "failed")
  /\ UNCHANGED <<dest, slot, new, backup, journal, plan, op, answer, foreign,
                 txns, crashes, edits>>

Activate ==
  /\ pc = "activate"
  /\ journal' = "active"
  /\ op' = 1
  /\ Outcome("check", "failed")
  /\ UNCHANGED <<dest, slot, new, backup, pointers, plan, answer, foreign, txns,
                 crashes, edits>>

\* "destination changed after preparation" fails the commit.
Check ==
  /\ pc = "check"
  /\ pc' = IF dest[op] # before[op] THEN "failed"
           ELSE AfterCheck
  /\ UNCHANGED <<disk, plan, op, answer, foreign, bounds>>

\* rename(destination, slot/backup), which fails if the entry has gone.
Backup ==
  /\ pc = "backup"
  /\ IF dest[op] = None
     THEN pc' = "failed" /\ UNCHANGED <<dest, backup, faults>>
     ELSE /\ backup' = [backup EXCEPT ![op] = dest[op]]
          /\ dest' = [dest EXCEPT ![op] = None]
          /\ Outcome("publish", "failed")
  /\ UNCHANGED <<slot, new, journal, pointers, plan, op, answer, foreign, txns,
                 crashes, edits>>

\* rename(slot/new, destination), nothing for an obsolete export.  An entry
\* that appeared meanwhile is replaced if it is a file, or fails the rename.
Publish ==
  /\ pc = "publish"
  /\ \/ /\ after[op] = None
        /\ pc' = Advance /\ op' = NextOp
        /\ UNCHANGED <<dest, new, faults>>
     \/ /\ after[op] # None
        /\ dest' = [dest EXCEPT ![op] = new[op]]
        /\ new' = [new EXCEPT ![op] = None]
        /\ Outcome(Advance, "failed")
        /\ op' = NextOp
     \/ /\ after[op] # None /\ dest[op] # None
        /\ pc' = "failed"
        /\ UNCHANGED <<dest, new, op, faults>>
  /\ UNCHANGED <<slot, backup, journal, pointers, plan, answer, foreign, txns,
                 crashes, edits>>

\* The commit point.
Commit ==
  /\ pc = "commit"
  /\ journal' = "committed" /\ fate' = "committed"
  /\ \/ pc' = AfterMark /\ result' = "ok" /\ UNCHANGED faults
     \/ /\ faults < MaxFaults /\ faults' = faults + 1
        /\ pc' = "failed" /\ UNCHANGED result
  /\ UNCHANGED <<dest, slot, new, backup, pointers, plan, op, reply, foreign,
                 txns, crashes, edits>>

\* Any step of the transaction failed: act on the journal really published.
Failed ==
  /\ pc = "failed"
  /\ fate' = IF journal = "committed" THEN fate ELSE "aborted"
  /\ result' = IF PersistedCommit THEN "ok" ELSE "err"
  /\ pc' = FirstStep(journal)
  /\ op' = N
  /\ UNCHANGED <<disk, plan, reply, foreign, bounds>>

\* A call of the transaction fails without effect.
CommitError ==
  /\ pc \in CommitPc
  /\ pc = "publish" => after[op] # None
  /\ faults < MaxFaults /\ faults' = faults + 1
  /\ pc' = "failed"
  /\ UNCHANGED <<disk, plan, op, answer, foreign, txns, crashes, edits>>

\* The journal cannot be read back: commit_inner returns that error at once.
ReadBackError ==
  /\ pc = "failed"
  /\ faults < MaxFaults /\ faults' = faults + 1
  /\ pc' = "closed" /\ reply' = "err"
  /\ fate' = IF journal = "committed" THEN fate ELSE "aborted"
  /\ UNCHANGED <<disk, plan, op, result, foreign, txns, crashes, edits>>

-----------------------------------------------------------------------------
(* recover.                                                                *)

\* Roll back one operation: look, then move what has to move.
Inspect ==
  /\ pc = "inspect"
  /\ \/ /\ Conflicted(op)
        /\ Return(FALSE)
        /\ UNCHANGED op
     \/ /\ ~Conflicted(op)
        /\ \/ /\ dest[op] # None
              /\ backup[op] # None \/ before[op] = None
              /\ pc' = "unpublish" /\ UNCHANGED op
           \/ /\ dest[op] = None /\ backup[op] # None
              /\ pc' = "restore" /\ UNCHANGED op
           \/ /\ backup[op] = None
              /\ before[op] # None \/ dest[op] = None
              /\ pc' = Retreat /\ op' = PrevOp
        /\ UNCHANGED reply
  /\ UNCHANGED <<disk, plan, result, fate, foreign, bounds>>

\* rename(destination, slot/new): the new entry goes back to its slot.
Unpublish ==
  /\ pc = "unpublish"
  /\ \/ /\ dest[op] = None
        /\ Return(FALSE)
        /\ UNCHANGED <<dest, new, op, faults>>
     \/ /\ dest[op] # None
        /\ new' = [new EXCEPT ![op] = dest[op]]
        /\ dest' = [dest EXCEPT ![op] = None]
        /\ \/ /\ IF backup[op] # None THEN pc' = "restore" /\ UNCHANGED op
                                      ELSE pc' = Retreat /\ op' = PrevOp
              /\ UNCHANGED <<reply, faults>>
           \/ /\ faults < MaxFaults /\ faults' = faults + 1
              /\ Return(FALSE) /\ UNCHANGED op
  /\ UNCHANGED <<slot, backup, journal, pointers, plan, result, fate, foreign,
                 txns, crashes, edits>>

\* rename(slot/backup, destination): the old entry is back.
Restore ==
  /\ pc = "restore"
  /\ \/ /\ dest' = [dest EXCEPT ![op] = backup[op]]
        /\ backup' = [backup EXCEPT ![op] = None]
        /\ \/ pc' = Retreat /\ op' = PrevOp /\ UNCHANGED <<reply, faults>>
           \/ /\ faults < MaxFaults /\ faults' = faults + 1
              /\ Return(FALSE) /\ UNCHANGED op
     \/ /\ dest[op] # None
        /\ Return(FALSE)
        /\ UNCHANGED <<dest, backup, op, faults>>
  /\ UNCHANGED <<slot, new, journal, pointers, plan, result, fate, foreign, txns,
                 crashes, edits>>

\* Rollback is finished (or was not needed): the journal says so before any
\* pointer is removed.
Mark ==
  /\ pc = "mark"
  /\ journal' = "committed"
  /\ \/ pc' = AfterMark /\ UNCHANGED <<reply, faults>>
     \/ faults < MaxFaults /\ faults' = faults + 1 /\ Return(FALSE)
  /\ UNCHANGED <<dest, slot, new, backup, pointers, plan, op, result, fate,
                 foreign, txns, crashes, edits>>

\* The pointers go first, then the slots, then the journal.
Unpoint ==
  /\ pc = "unpoint"
  /\ \/ /\ pointers = {}
        /\ pc' = AfterPointers /\ UNCHANGED <<pointers, reply, faults>>
     \/ /\ \E s \in pointers : pointers' = pointers \ {s}
        /\ \/ pc' = "unpoint" /\ UNCHANGED <<reply, faults>>
           \/ faults < MaxFaults /\ faults' = faults + 1 /\ Return(FALSE)
  /\ UNCHANGED <<dest, slot, new, backup, journal, plan, op, result, fate,
                 foreign, txns, crashes, edits>>

Unslot ==
  /\ pc = "unslot"
  /\ \/ /\ \A i \in Op : ~slot[i]
        /\ pc' = "unjournal" /\ UNCHANGED <<slot, new, backup, reply, faults>>
     \/ \E i \in Op :
          /\ slot[i]
          /\ new' = [new EXCEPT ![i] = None]
          /\ backup' = [backup EXCEPT ![i] = None]
          /\ \/ /\ slot' = [slot EXCEPT ![i] = FALSE]
                /\ pc' = "unslot" /\ UNCHANGED <<reply, faults>>
             \/ /\ faults < MaxFaults /\ faults' = faults + 1
                /\ slot' \in {slot, [slot EXCEPT ![i] = FALSE]}
                /\ Return(FALSE)
  /\ UNCHANGED <<dest, journal, pointers, plan, op, result, fate, foreign, txns,
                 crashes, edits>>

Unjournal ==
  /\ pc = "unjournal"
  /\ journal' = "absent"
  /\ \/ Return(TRUE) /\ UNCHANGED faults
     \/ faults < MaxFaults /\ faults' = faults + 1 /\ Return(FALSE)
  /\ UNCHANGED <<dest, slot, new, backup, pointers, plan, op, result, fate,
                 foreign, txns, crashes, edits>>

\* A call of recover fails without effect.
RecoverError ==
  /\ pc \in RecoverPc
  /\ faults < MaxFaults /\ faults' = faults + 1
  /\ Return(FALSE)
  /\ UNCHANGED <<disk, plan, op, result, fate, foreign, txns, crashes, edits>>

-----------------------------------------------------------------------------
(* The environment.                                                        *)

\* The process is killed: its locks and memory go, the disk stays.  Slots no
\* journal names yet are strays whose random names nothing looks up again.
Crash ==
  /\ pc \notin {"closed", "opened"}
  /\ crashes < MaxCrashes /\ crashes' = crashes + 1
  /\ pc' = "closed"
  /\ fate' = IF fate = "open" THEN "aborted" ELSE fate
  /\ IF pc \in PreparePc THEN DropSlots ELSE UNCHANGED <<slot, new>>
  /\ UNCHANGED <<dest, backup, journal, pointers, plan, op, result, reply,
                 foreign, txns, faults, edits>>

\* Another program that takes no packslip lock changes a destination.
Edit ==
  /\ edits < MaxEdits /\ edits' = edits + 1
  /\ raced' = (raced \/ pc \in {"backup", "publish", "unpublish", "restore"})
  /\ \E i \in Op, e \in Value :
       /\ e # dest[i]
       /\ dest' = [dest EXCEPT ![i] = e]
       /\ edited' = edited \cup {i}
  /\ UNCHANGED <<slot, new, backup, journal, pointers, plan, pc, op, answer,
                 txns, crashes, faults>>

-----------------------------------------------------------------------------
CommitStep == Prepare \/ WriteJournal \/ Point \/ Activate \/ Check \/ Backup
              \/ Publish \/ Commit \/ Failed
RecoverStep == Inspect \/ Unpublish \/ Restore \/ Mark \/ Unpoint \/ Unslot
               \/ Unjournal
Errors == Refuse \/ CommitError \/ ReadBackError \/ RecoverError
Program == Open \/ Close \/ Begin \/ CommitStep \/ RecoverStep

Next == Program \/ Errors \/ Crash \/ Edit

Spec == Init /\ [][Next]_vars

\* A command that is running runs on, and packslip is run again after it
\* stopped; nobody has to ask for another installation.
Fairness == WF_vars(Open \/ CommitStep \/ RecoverStep)
FairSpec == Spec /\ Fairness

-----------------------------------------------------------------------------
(* Properties.                                                             *)

AtRest == pc \in {"closed", "opened"} /\ journal = "absent"

\* commit_inner and recover together: once no journal is pending, every
\* destination the other program left alone holds what the transaction
\* installed, if its journal was committed, and otherwise what it held before.
AllOrNothing ==
  AtRest => \A i \in Op \ edited :
              dest[i] = IF fate = "committed" THEN after[i] ELSE before[i]

\* The point of the slots: while an active journal is uncommitted, no prior
\* entry is lost, it is at its destination or in its slot.
OldKept ==
  journal = "active" =>
    \A i \in Op \ edited : dest[i] = before[i] \/ backup[i] = before[i]

\* The error branch of commit_inner: Ok is returned only for a committed
\* journal, and an error is returned for one only when a second call fails
\* while the first failure is handled (the journal cannot be read back).
HonestReply ==
  /\ reply = "ok" => fate = "committed"
  /\ reply = "err" /\ fate = "committed" => faults >= 2

\* The cleanup order of recover: a recovery pointer never leads to a journal
\* that is already deleted (open_under refuses such a pointer for good).
PointersLead == pointers # {} => journal # "absent"

\* recover removes the journal last: no slot, with an entry of the old or the
\* new installation in it, outlives the journal that names it.
NoSlotOutlivesJournal ==
  AtRest => \A i \in Op : ~slot[i] /\ new[i] = None /\ backup[i] = None

\* Cleanup after the commit point, or after a finished rollback, never
\* revisits a destination, however often it is interrupted and repeated.
CommittedIsFinal ==
  [][journal = "committed" /\ edits' = edits => UNCHANGED dest]_vars

\* The identity checks of commit_inner and recover: as long as no other
\* program acts between a check and the rename it guards, no step displaces an
\* entry that is neither the one found when the transaction was prepared nor
\* the one it installed.
NothingForeignDisplaced ==
  [][\A i \in Op :
       dest[i] # None /\ dest'[i] # dest[i] /\ edits' = edits /\ ~raced
         => dest[i] \in {before[i], after[i]}]_vars

\* "A process interruption leaves the same journal for the next invocation":
\* running packslip again gets rid of it, unless another program changed one
\* of its destinations.
RecoveryCompletes ==
  journal # "absent" ~> (journal = "absent" \/ edited # {})

\* "Ordinary errors roll back" (module comment): when a commit that met no
\* I/O fault returns an error, what it replaced is back.
OrdinaryErrorsRollBack ==
  reply = "err" => \A i \in Op \ edited : dest[i] = before[i]

\* The abstract commit this module implements.  While an active journal is
\* uncommitted, the installation promised to the user is the prior one.
Promised == [i \in Op |-> IF journal = "active" THEN before[i] ELSE dest[i]]
Abstract == INSTANCE AtomicInstall WITH live <- Promised, target <- after

\* Every step of the journaled replacement is a step of the atomic one or
\* leaves it unchanged (without foreign edits and with one fault at most).
Implements == Abstract!Spec
=============================================================================
