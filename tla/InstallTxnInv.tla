----------------------------- MODULE InstallTxnInv -----------------------------
(***************************************************************************)
(* The inductive invariant of InstallTxn: which combinations of control    *)
(* point, journal, slots and destinations can occur.  InstallTxnProofs     *)
(* proves it for every N, with any number of crashes, failing calls and    *)
(* foreign edits.                                                          *)
(***************************************************************************)
EXTENDS InstallTxn

Transacting == PreparePc \cup CommitPc \cup {"failed"}
ForwardPc == {"check", "backup", "publish", "commit"}
RollbackPc == {"inspect", "unpublish", "restore"}
CleanupPc == {"unpoint", "unslot", "unjournal"}

\* The three situations a destination can be in while the journal is active.
Untouched(i) == dest[i] = before[i] /\ backup[i] = None /\ new[i] = after[i]
BackedUp(i) == /\ before[i] # None /\ dest[i] = None
               /\ backup[i] = before[i] /\ new[i] = after[i]
Published(i) == dest[i] = after[i] /\ backup[i] = before[i] /\ new[i] = None
Recoverable(i) == Untouched(i) \/ BackedUp(i) \/ Published(i)

\* Where the process is tells the flags of the journal on disk.
JournalInv ==
  /\ pc \in PreparePc \cup {"opened"} => journal = "absent"
  /\ pc \in {"point", "activate"} => journal = "inactive"
  /\ pc \in ForwardPc \cup RollbackPc => journal = "active"
  /\ pc = "mark" => journal \in {"inactive", "active"}
  /\ pc \in CleanupPc => journal = "committed"
  /\ pc = "failed" => journal # "absent"

\* What is decided, and when: only a committed journal decides for the
\* installation, and a journal left behind uncommitted will be rolled back.
FateInv ==
  /\ pc \in PreparePc \cup CommitPc => fate = "open"
  /\ fate = "open" => pc \in Transacting
  /\ pc = "failed" /\ journal = "committed" => fate = "committed"
  /\ pc = "failed" /\ journal # "committed" => fate = "open"
  /\ journal \in {"inactive", "active"} => fate \in {"open", "aborted"}
  /\ journal = "committed" => fate \in {"committed", "aborted"}

\* The slots exist as long as something may have to be moved back.
SlotInv ==
  /\ \A i \in Op : ~slot[i] => new[i] = None /\ backup[i] = None
  /\ journal = "absent" /\ pc \notin PreparePc => \A i \in Op : ~slot[i]
  /\ pc = "unjournal" => \A i \in Op : ~slot[i]
  /\ journal = "active" \/ pc \in {"write", "point", "activate"}
       => \A i \in Op : slot[i]
  /\ pc = "prepare" => \A i \in Op : i < op => slot[i]

PointerInv ==
  /\ journal = "absent" => pointers = {}
  /\ pc \in {"unslot", "unjournal"} => pointers = {}

\* Destinations no other program changed: outside an active journal they are
\* all old or all new; within one, each is in a situation recover can undo.
SettledInv ==
  \A i \in Op \ edited :
    /\ journal \in {"absent", "committed"} =>
         dest[i] = IF fate = "committed" THEN after[i] ELSE before[i]
    /\ journal = "inactive" => dest[i] = before[i]
    /\ journal = "active" => Recoverable(i)

\* What was staged is in the slots, and nothing was displaced yet.
PreparedInv ==
  \A i \in Op :
    /\ pc = "prepare" /\ i < op => new[i] = after[i]
    /\ pc \in {"write", "point", "activate"} => new[i] = after[i]
    /\ pc \in PreparePc \cup {"point", "activate"} => backup[i] = None

\* The loop of commit_inner has replaced what is below op and nothing above.
ForwardInv ==
  \A i \in Op \ edited :
    /\ pc \in {"check", "backup", "publish"} =>
         /\ i < op => Published(i)
         /\ i > op => Untouched(i)
    /\ pc \in {"check", "backup"} /\ i = op => Untouched(i)
    /\ pc = "backup" /\ i = op => before[i] # None
    /\ pc = "publish" /\ i = op => BackedUp(i) \/ (Untouched(i) /\ before[i] = None)
    /\ pc = "commit" => Published(i)

\* The loop of recover has put back what is above op.
RollbackInv ==
  \A i \in Op \ edited :
    /\ pc \in RollbackPc /\ i > op => dest[i] = before[i]
    /\ pc = "unpublish" /\ i = op => Published(i) /\ dest[i] # None
    /\ pc = "restore" /\ i = op => BackedUp(i)
    /\ pc = "mark" => dest[i] = before[i]

\* What is answered is what was decided.
ReplyInv ==
  /\ pc \in Transacting => reply = "none"
  /\ pc \in RecoverPc /\ result # "open" => reply = "none"
  /\ pc \in RecoverPc /\ result = "ok" => fate = "committed"
  /\ pc \in RecoverPc /\ result = "err" => fate = "aborted"
  /\ pc = "failed" /\ journal = "committed" => faults >= 1
  /\ HonestReply

\* Between a check and the rename it guards, as long as no other program came
\* between a check and a rename.
RaceInv ==
  ~raced =>
    /\ pc = "backup" => dest[op] = before[op]
    /\ pc \in {"publish", "restore"} => dest[op] = None
    /\ pc = "unpublish" => dest[op] = after[op]

IInv ==
  /\ TypeOK
  /\ JournalInv /\ FateInv /\ SlotInv /\ PointerInv
  /\ SettledInv /\ PreparedInv /\ ForwardInv /\ RollbackInv
  /\ ReplyInv /\ RaceInv
=============================================================================
