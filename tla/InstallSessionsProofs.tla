------------------------ MODULE InstallSessionsProofs ------------------------
(***************************************************************************)
(* Proofs about InstallSessions, for any processes, directories, projects  *)
(* and requests, and however often processes are killed.                   *)
(*                                                                         *)
(* A process relies on nothing but its own variables and what the disk has *)
(* in the directories it has locked (Local); no other process changes      *)
(* that (OthersKeep).  What holds of the disk alone (Pointed, Dirty,       *)
(* Journaled) then follows from what the one process that changes it knows *)
(* of the directories it holds.                                            *)
(***************************************************************************)
EXTENDS InstallSessions, TLAPS, NaturalsInduction, WellFoundedInduction

-----------------------------------------------------------------------------
(* The inductive invariant.                                                *)

Working == RecoverPc \cup CommitPc

\* A journal names the directories it changes and restores among its scopes.
Journaled ==
  \A s \in Dir : /\ journal[s].ops \subseteq journal[s].scopes
                 /\ journal[s].prior \subseteq journal[s].scopes

\* A directory in the middle of a transaction is one that its journal changes.
Dirty == \A d \in Dir : \A s \in dirty[d] : d \in journal[s].ops

\* The locks of p: none, some of its scopes, or all of them.
Locks(p) ==
  /\ pc[p] = "idle" => Held(p) = {}
  /\ pc[p] # "idle" =>
       /\ req[p] \in Requests
       /\ {req[p].state, req[p].parent, req[p].bin} \subseteq want[p]
       /\ Held(p) \subseteq want[p]
  /\ pc[p] = "lock" => want[p] \ Held(p) # {}
  /\ pc[p] \notin {"idle", "lock"} => want[p] \subseteq Held(p)

\* Nothing was read yet in the round.
Fresh(p) ==
  pc[p] \in {"idle", "lock", "own"} =>
    scanned[p] = {} /\ extra[p] = {} /\ todo[p] = {} /\ ~ending[p]

\* The receipt that counts is called for.
ReceiptIn(p, dirs) ==
  req[p].project # None => receipt[req[p].state][req[p].project] \subseteq dirs

\* While p reads the journals: the copy of one it has locked is the disk's, and
\* the others are called for, as are all their scopes.
Reading(p) ==
  pc[p] \in {"scan", "decide"} =>
    /\ \A s \in todo[p] :
         /\ s \in extra[p] \cup {req[p].state} /\ seen[p][s].scopes \subseteq extra[p]
         /\ seen[p][s].phase # "absent"
         /\ s \in want[p] => seen[p][s] = journal[s]
    /\ scanned[p] \subseteq want[p]
    /\ \A d \in scanned[p] : pointer[d] \in todo[p] \cup {None}
    /\ pc[p] = "scan" => scanned[p] # want[p]
    /\ pc[p] = "decide" => scanned[p] = want[p]
    /\ journal[req[p].state].phase # "absent" => req[p].state \in todo[p]
    /\ ReceiptIn(p, extra[p])
    /\ ~ending[p]

\* While p recovers or commits: it has all the scopes of the journals it works
\* on, and knows all the journals that reach into what it has.
Owning(p) ==
  pc[p] \in Working =>
    /\ todo[p] # {} /\ todo[p] \subseteq want[p]
    /\ \A s \in todo[p] : /\ seen[p][s] = journal[s] /\ journal[s].phase # "absent"
                          /\ journal[s].scopes \subseteq want[p]
    /\ \A d \in want[p] : pointer[d] \in todo[p] \cup {None}
    /\ journal[req[p].state].phase # "absent" => req[p].state \in todo[p]
    /\ ~ending[p] => ReceiptIn(p, want[p])

\* How far recover is with the first journal.
Recovery(p) ==
  /\ pc[p] = "undo" => Copy(p).phase = "active"
  /\ pc[p] = "mark" => \A d \in want[p] : Current(p) \notin dirty[d]
  /\ pc[p] \in {"unpoint", "delete"} => Copy(p).phase = "committed"
  /\ pc[p] = "delete" => \A d \in want[p] : pointer[d] # Current(p)

\* How far commit_inner is.
Committal(p) ==
  pc[p] \in CommitPc =>
    LET s == req[p].state
    IN  /\ todo[p] = {s} /\ ending[p]
        /\ journal[s].scopes = want[p]
        /\ journal[s].phase = (IF pc[p] \in {"point", "activate"} THEN "inactive" ELSE "active")
        /\ pc[p] # "point" => \A d \in want[p] : pointer[d] = s

\* What a session that is handed out may rely on.
Opened(p) ==
  pc[p] = "opened" =>
    /\ \A d \in want[p] : pointer[d] = None
    /\ journal[req[p].state].phase = "absent"
    /\ ReceiptIn(p, want[p])

Local(p) == /\ Locks(p) /\ Fresh(p) /\ Reading(p) /\ Owning(p)
            /\ Recovery(p) /\ Committal(p) /\ Opened(p)

IInv == /\ TypeOK /\ Journaled /\ Dirty /\ PointerLeads /\ DirtyIsFound
        /\ \A p \in Proc : Local(p)

-----------------------------------------------------------------------------
(* Operators.                                                              *)

\* The first of some directories in the order of their paths is one of them.
LEMMA MinIn ==
  ASSUME NEW S, S \subseteq Dir, S # {}
  PROVE  Min(S) \in S
<1> DEFINE R == OpToRel(<, Nat)
<1>1. S \subseteq Nat
  BY DAssumption DEF Dir
<1>2. PICK x \in S : \A y \in S : ~(<<y, x>> \in R)
  BY <1>1, NatLessThanWellFounded, WFMin, Zenon
<1>3. \A y \in S : x <= y
  <2>1. ASSUME NEW y \in S PROVE x <= y
    <3>1. ~(y < x)
      BY <1>1, <1>2 DEF OpToRel
    <3>2. QED
      BY <1>1, <3>1
  <2>2. QED
    BY <2>1
<1>4. QED
  BY <1>3 DEF Min

LEMMA RequestType ==
  ASSUME NEW r \in Requests
  PROVE  /\ r \in Request
         /\ r.state \in Dir /\ r.parent \in Dir /\ r.bin \in Dir
         /\ r.project \in Project \cup {None}
BY RequestsAssumption DEF Request

LEMMA FirstStepIs ==
  ASSUME NEW j
  PROVE  /\ FirstStep(j) \in RecoverPc \ {"delete"} /\ FirstStep(j) \in Pc
         /\ FirstStep(j) = "undo" <=> j.phase = "active"
         /\ FirstStep(j) = "unpoint" <=> j.phase = "committed"
         /\ FirstStep(j) = "mark" <=> j.phase \notin {"active", "committed"}
<1>1. CASE j.phase = "active"
  BY <1>1 DEF FirstStep, RecoverPc, Pc
<1>2. CASE j.phase = "committed"
  BY <1>2 DEF FirstStep, RecoverPc, Pc
<1>3. CASE j.phase \notin {"active", "committed"}
  BY <1>3 DEF FirstStep, RecoverPc, Pc
<1>4. QED
  BY <1>1, <1>2, <1>3

-----------------------------------------------------------------------------
(* What a step of one process leaves to the others.                        *)

\* The variables of the other processes, and their locks.
Apart(q) ==
  \A p \in Proc \ {q} :
    /\ pc'[p] = pc[p] /\ req'[p] = req[p] /\ want'[p] = want[p]
    /\ scanned'[p] = scanned[p] /\ extra'[p] = extra[p]
    /\ seen'[p] = seen[p] /\ todo'[p] = todo[p] /\ ending'[p] = ending[p]
    /\ \A d \in Dir : lock'[d] = p <=> lock[d] = p

\* What changes on the disk is in directories that q has locked.
Within(q) == \A d \in Dir : Changed(d) => lock[d] = q

\* What a process relies on is not disturbed by the others.
LEMMA OthersKeep ==
  ASSUME TypeOK, NEW q \in Proc, NEW p \in Proc, p # q, Local(p), Apart(q), Within(q)
  PROVE  Local(p)'
<1> DEFINE Mine == {d \in Dir : lock[d] = p}
<1>1. /\ pc'[p] = pc[p] /\ req'[p] = req[p] /\ want'[p] = want[p]
      /\ scanned'[p] = scanned[p] /\ extra'[p] = extra[p]
      /\ seen'[p] = seen[p] /\ todo'[p] = todo[p] /\ ending'[p] = ending[p]
  BY DEF Apart
<1>2. Held(p)' = Held(p)
  BY DEF Apart, Held
<1>3. \A d \in Held(p) : /\ dirty'[d] = dirty[d] /\ pointer'[d] = pointer[d]
                         /\ journal'[d] = journal[d] /\ receipt'[d] = receipt[d]
  BY DEF Within, Changed, Held
<1>4. Current(p)' = Current(p) /\ Copy(p)' = Copy(p)
  BY <1>1 DEF Current, Copy
<1>5. pc[p] \notin {"idle", "lock"} =>
        /\ want[p] \subseteq Held(p)
        /\ req[p].state \in want[p]
        /\ ReceiptIn(p, want[p])' <=> ReceiptIn(p, want[p])
        /\ ReceiptIn(p, extra[p])' <=> ReceiptIn(p, extra[p])
  BY <1>1, <1>3 DEF Local, Locks, ReceiptIn
<1>6. Locks(p)' /\ Fresh(p)'
  BY <1>1, <1>2 DEF Local, Locks, Fresh
<1>7. Reading(p)'
  BY <1>1, <1>3, <1>5 DEF Local, Reading
<1>8. Owning(p)'
  BY <1>1, <1>3, <1>5 DEF Local, Owning, Working, RecoverPc, CommitPc
<1>9. Recovery(p)'
  BY <1>1, <1>3, <1>4, <1>5 DEF Local, Recovery
<1>10. Committal(p)'
  BY <1>1, <1>3, <1>5 DEF Local, Committal, CommitPc
<1>11. Opened(p)'
  BY <1>1, <1>3, <1>5 DEF Local, Opened
<1>12. QED
  BY <1>6, <1>7, <1>8, <1>9, <1>10, <1>11 DEF Local

\* What holds of the disk.
Disk == Journaled /\ Dirty /\ PointerLeads /\ DirtyIsFound

\* So a step keeps the invariant if it keeps the types, what holds of the disk,
\* and what its own process relies on.
LEMMA StepKeeps ==
  ASSUME IInv, NEW q \in Proc, TypeOK', Disk', Local(q)', Apart(q), Within(q)
  PROVE  IInv'
<1>1. ASSUME NEW p \in Proc, p # q PROVE Local(p)'
  BY <1>1, OthersKeep DEF IInv
<1>2. QED
  BY <1>1 DEF IInv, Disk

\* A step that leaves the disk alone.
LEMMA DiskAlone ==
  ASSUME IInv, NEW q \in Proc, UNCHANGED disk
  PROVE  Disk' /\ Within(q)
<1>1. Within(q)
  BY DEF Within, Changed, disk
<1>2. Journaled' /\ Dirty'
  BY DEF IInv, Journaled, Dirty, disk
<1>3. PointerLeads' /\ DirtyIsFound'
  BY DEF IInv, PointerLeads, DirtyIsFound, disk
<1>4. QED
  BY <1>1, <1>2, <1>3 DEF Disk

-----------------------------------------------------------------------------
(* open_under.                                                             *)

LEMMA InitInv == Init => IInv
<1> SUFFICES ASSUME Init PROVE IInv
  OBVIOUS
<1>1. TypeOK
  BY DEF Init, TypeOK, Absent, Journal, Phase, Pc
<1>2. Journaled /\ Dirty /\ PointerLeads /\ DirtyIsFound
  BY DEF Init, Journaled, Dirty, PointerLeads, DirtyIsFound, Absent
<1>3. ASSUME NEW p \in Proc PROVE Local(p)
  <2>1. pc[p] = "idle" /\ Held(p) = {}
    BY NoneIsNew DEF Init, Held
  <2>2. Locks(p) /\ Fresh(p)
    BY <2>1 DEF Init, Locks, Fresh
  <2>3. Reading(p) /\ Owning(p) /\ Recovery(p) /\ Committal(p) /\ Opened(p)
    BY <2>1 DEF Reading, Owning, Recovery, Committal, Opened, Working, RecoverPc, CommitPc
  <2>4. QED
    BY <2>2, <2>3 DEF Local
<1>4. QED
  BY <1>1, <1>2, <1>3 DEF IInv

\* A process that leaves keeps nothing and relies on nothing.
LEMMA LeaveKeeps ==
  ASSUME IInv, NEW p \in Proc, Leave(p)
  PROVE  /\ Local(p)' /\ Apart(p)
         /\ lock' \in [Dir -> Proc \cup {None}] /\ pc' \in [Proc -> Pc]
         /\ req' \in [Proc -> Request \cup {None}] /\ want' \in [Proc -> SUBSET Dir]
         /\ scanned' \in [Proc -> SUBSET Dir] /\ extra' \in [Proc -> SUBSET Dir]
         /\ seen' \in [Proc -> [Dir -> Journal]] /\ todo' \in [Proc -> SUBSET Dir]
         /\ ending' \in [Proc -> BOOLEAN]
<1> USE DEF Leave, NewRound, Goto
<1>1. TypeOK
  BY DEF IInv
<1>2. Absent \in Journal
  BY DEF Absent, Journal, Phase
<1>3. /\ lock' \in [Dir -> Proc \cup {None}] /\ pc' \in [Proc -> Pc]
      /\ req' \in [Proc -> Request \cup {None}] /\ want' \in [Proc -> SUBSET Dir]
      /\ scanned' \in [Proc -> SUBSET Dir] /\ extra' \in [Proc -> SUBSET Dir]
      /\ todo' \in [Proc -> SUBSET Dir] /\ ending' \in [Proc -> BOOLEAN]
  BY <1>1 DEF TypeOK, Pc
<1>4. seen' \in [Proc -> [Dir -> Journal]]
  BY <1>1, <1>2 DEF TypeOK
<1>5. Apart(p)
  BY <1>1, NoneIsNew DEF Apart, TypeOK
<1>6. pc'[p] = "idle" /\ Held(p)' = {} /\ scanned'[p] = {} /\ extra'[p] = {} /\ todo'[p] = {}
      /\ ~ending'[p]
  BY <1>1, NoneIsNew DEF Held, TypeOK
<1>7. Locks(p)' /\ Fresh(p)'
  BY <1>6 DEF Locks, Fresh
<1>8. (Reading(p) /\ Owning(p) /\ Recovery(p) /\ Committal(p) /\ Opened(p))'
  BY <1>6 DEF Reading, Owning, Recovery, Committal, Opened, Working, RecoverPc, CommitPc
<1>9. QED
  BY <1>3, <1>4, <1>5, <1>7, <1>8 DEF Local

LEMMA StartKeeps ==
  ASSUME IInv, NEW p \in Proc, Start(p)
  PROVE  IInv' /\ Within(p)
<1>1. TypeOK /\ Local(p)
  BY DEF IInv
<1>2. PICK r \in Requests : /\ req' = [req EXCEPT ![p] = r]
                            /\ want' = [want EXCEPT ![p] = {r.state, r.parent, r.bin}]
  BY DEF Start
<1>3. /\ pc[p] = "idle" /\ pc' = [pc EXCEPT ![p] = "lock"] /\ sessions' = sessions + 1
      /\ UNCHANGED <<lock, disk, round, ending, crashes>>
  BY DEF Start, Goto
<1>4. TypeOK'
  BY <1>1, <1>2, <1>3, RequestType DEF TypeOK, disk, round, Pc
<1>5. Apart(p)
  BY <1>1, <1>2, <1>3 DEF Apart, TypeOK, round
<1>6. Locks(p)'
  <2>1. Held(p)' = {}
    BY <1>1, <1>3 DEF Local, Locks, Held
  <2>2. pc'[p] = "lock" /\ req'[p] = r /\ want'[p] = {r.state, r.parent, r.bin}
    BY <1>1, <1>2, <1>3 DEF TypeOK
  <2>3. QED
    BY <2>1, <2>2 DEF Locks
<1>7. (Fresh(p) /\ Reading(p) /\ Owning(p) /\ Recovery(p) /\ Committal(p) /\ Opened(p))'
  BY <1>1, <1>3 DEF Local, TypeOK, Fresh, Reading, Owning, Recovery, Committal, Opened,
                    Working, RecoverPc, CommitPc, round
<1>8. QED
  BY <1>3, <1>4, <1>5, <1>6, <1>7, DiskAlone, StepKeeps DEF Local

LEMMA TooManyKeeps ==
  ASSUME IInv, NEW p \in Proc, TooMany(p)
  PROVE  IInv' /\ Within(p)
<1>1. Leave(p) /\ UNCHANGED <<disk, bounds>>
  BY DEF TooMany
<1>2. TypeOK'
  BY <1>1, LeaveKeeps DEF IInv, TypeOK, disk, bounds
<1>3. QED
  BY <1>1, <1>2, LeaveKeeps, DiskAlone, StepKeeps DEF disk

LEMMA CloseKeeps ==
  ASSUME IInv, NEW p \in Proc, Close(p)
  PROVE  IInv' /\ Within(p)
<1>1. Leave(p) /\ UNCHANGED <<disk, bounds>>
  BY DEF Close
<1>2. TypeOK'
  BY <1>1, LeaveKeeps DEF IInv, TypeOK, disk, bounds
<1>3. QED
  BY <1>1, <1>2, LeaveKeeps, DiskAlone, StepKeeps DEF disk

LEMMA CrashKeeps ==
  ASSUME IInv, NEW p \in Proc, Crash(p)
  PROVE  IInv' /\ Within(p)
<1>1. Leave(p) /\ UNCHANGED <<disk, sessions>> /\ crashes' = crashes + 1
  BY DEF Crash
<1>2. TypeOK'
  BY <1>1, LeaveKeeps DEF IInv, TypeOK, disk
<1>3. QED
  BY <1>1, <1>2, LeaveKeeps, DiskAlone, StepKeeps DEF disk

LEMMA LockKeeps ==
  ASSUME IInv, NEW p \in Proc, Lock(p)
  PROVE  IInv' /\ Within(p)
<1> DEFINE d0 == NextLock(p)
<1>1. TypeOK /\ Local(p)
  BY DEF IInv
<1>2. /\ pc[p] = "lock" /\ lock[d0] = None /\ lock' = [lock EXCEPT ![d0] = p]
      /\ pc' = [pc EXCEPT ![p] = IF want[p] \ Held(p) = {d0} THEN "own" ELSE "lock"]
      /\ UNCHANGED <<disk, req, want, round, ending, bounds>>
  BY DEF Lock, Goto
<1>3. d0 \in want[p] /\ d0 \notin Held(p) /\ d0 \in Dir
  <2>1. want[p] \ Held(p) # {} /\ want[p] \subseteq Dir
    BY <1>1, <1>2 DEF Local, Locks, TypeOK
  <2>2. QED
    BY <2>1, MinIn DEF NextLock
<1> HIDE DEF d0
<1>4. TypeOK'
  BY <1>1, <1>2 DEF TypeOK, disk, round, bounds, Pc
<1>5. Apart(p)
  BY <1>1, <1>2, <1>3, NoneIsNew DEF Apart, TypeOK, round
<1>6. Held(p)' = Held(p) \cup {d0}
  BY <1>1, <1>2, <1>3 DEF Held, TypeOK
<1>7. Locks(p)'
  BY <1>1, <1>2, <1>3, <1>6 DEF Local, Locks, TypeOK
<1>8. (Fresh(p) /\ Reading(p) /\ Owning(p) /\ Recovery(p) /\ Committal(p) /\ Opened(p))'
  BY <1>1, <1>2 DEF Local, TypeOK, Fresh, Reading, Owning, Recovery, Committal, Opened,
                    Working, RecoverPc, CommitPc, round
<1>9. QED
  BY <1>2, <1>4, <1>5, <1>7, <1>8, DiskAlone, StepKeeps DEF Local

LEMMA ReadOwnKeeps ==
  ASSUME IInv, NEW p \in Proc, ReadOwn(p)
  PROVE  IInv' /\ Within(p)
<1> DEFINE s == req[p].state
<1>1. TypeOK /\ Local(p)
  BY DEF IInv
<1>2. /\ pc[p] = "own"
      /\ extra' = [extra EXCEPT ![p] = OwnCalls(p)]
      /\ seen' = [seen EXCEPT ![p][s] = journal[s]]
      /\ todo' = [todo EXCEPT ![p] = IF journal[s].phase = "absent" THEN @ ELSE @ \cup {s}]
      /\ pc' = [pc EXCEPT ![p] = "scan"]
      /\ UNCHANGED <<lock, disk, req, want, scanned, ending, bounds>>
  BY DEF ReadOwn, Goto
<1>3. /\ req[p] \in Requests /\ s \in want[p] /\ want[p] \subseteq Held(p) /\ s \in Dir
      /\ scanned[p] = {} /\ extra[p] = {} /\ todo[p] = {} /\ ~ending[p]
  BY <1>1, <1>2, RequestType DEF Local, Locks, Fresh
<1>4. OwnCalls(p) \subseteq Dir /\ journal[s].scopes \subseteq OwnCalls(p)
      /\ ReceiptIn(p, OwnCalls(p))
  BY <1>1, <1>3, RequestType DEF OwnCalls, TypeOK, Journal, ReceiptIn
<1> HIDE DEF s
<1>5. TypeOK'
  BY <1>1, <1>2, <1>3, <1>4 DEF TypeOK, disk, bounds, Pc
<1>6. Apart(p)
  BY <1>1, <1>2 DEF Apart, TypeOK
<1>7. /\ pc'[p] = "scan" /\ extra'[p] = OwnCalls(p) /\ seen'[p][s] = journal[s]
      /\ todo'[p] = (IF journal[s].phase = "absent" THEN {} ELSE {s})
      /\ UNCHANGED <<lock, journal, pointer, receipt, req, want, scanned, ending>>
  BY <1>1, <1>2, <1>3 DEF TypeOK, disk
<1>8. Locks(p)' /\ Fresh(p)'
  BY <1>1, <1>2, <1>7 DEF Local, Locks, Fresh, Held
<1>9. Reading(p)'
  BY <1>3, <1>4, <1>7 DEF Reading, ReceiptIn, s
<1>10. (Owning(p) /\ Recovery(p) /\ Committal(p) /\ Opened(p))'
  BY <1>7 DEF Owning, Recovery, Committal, Opened, Working, RecoverPc, CommitPc
<1>11. QED
  BY <1>2, <1>5, <1>6, <1>8, <1>9, <1>10, DiskAlone, StepKeeps DEF Local

LEMMA ScanKeeps ==
  ASSUME IInv, NEW p \in Proc, Scan(p)
  PROVE  IInv' /\ Within(p)
<1> DEFINE d == Min(want[p] \ scanned[p])
           s == pointer[d]
           next == IF want[p] \ scanned[p] = {d} THEN "decide" ELSE "scan"
<1>1. TypeOK /\ Local(p)
  BY DEF IInv
<1>2. pc[p] = "scan" /\ UNCHANGED <<disk, bounds>>
  BY DEF Scan
<1>3. /\ req[p] \in Requests /\ req[p].state \in want[p] /\ want[p] \subseteq Held(p)
      /\ scanned[p] \subseteq want[p] /\ scanned[p] # want[p]
  BY <1>1, <1>2 DEF Local, Locks, Reading
<1>4. d \in want[p] /\ d \notin scanned[p] /\ d \in Dir
  <2>1. want[p] \ scanned[p] # {} /\ want[p] \ scanned[p] \subseteq Dir
    BY <1>1, <1>3 DEF TypeOK
  <2>2. QED
    BY <2>1, MinIn
<1>5. s \in Dir \cup {None}
  BY <1>1, <1>4 DEF TypeOK
<1>6. \/ /\ s = None
         /\ scanned' = [scanned EXCEPT ![p] = @ \cup {d}]
         /\ pc' = [pc EXCEPT ![p] = next]
         /\ UNCHANGED <<lock, req, want, extra, seen, todo, ending>>
      \/ /\ s # None
         /\ journal[s].phase # "absent" /\ d \in journal[s].scopes
         /\ scanned' = [scanned EXCEPT ![p] = @ \cup {d}]
         /\ extra' = [extra EXCEPT ![p] = @ \cup CalledFor(s, journal[s])]
         /\ seen' = [seen EXCEPT ![p][s] = journal[s]]
         /\ todo' = [todo EXCEPT ![p] = Found(p, s)]
         /\ pc' = [pc EXCEPT ![p] = next]
         /\ UNCHANGED <<lock, req, want, ending>>
      \/ Leave(p)
  BY DEF Scan, Goto
<1> HIDE DEF d, s
<1>7. CASE /\ s = None
           /\ scanned' = [scanned EXCEPT ![p] = @ \cup {d}]
           /\ pc' = [pc EXCEPT ![p] = next]
           /\ UNCHANGED <<lock, req, want, extra, seen, todo, ending>>
  <2>1. TypeOK'
    <3>1. scanned' \in [Proc -> SUBSET Dir] /\ pc' \in [Proc -> Pc]
      BY <1>1, <1>4, <1>7 DEF TypeOK, Pc
    <3>2. UNCHANGED <<journal, pointer, receipt, dirty, sessions, crashes>>
      BY <1>2 DEF disk, bounds
    <3>3. QED
      BY <1>1, <1>7, <3>1, <3>2 DEF TypeOK
  <2>2. Apart(p)
    <3> HIDE DEF next
    <3>1. QED
      BY <1>1, <1>7 DEF Apart, TypeOK
  <2>3. /\ pc'[p] = next /\ scanned'[p] = scanned[p] \cup {d}
        /\ UNCHANGED <<lock, journal, pointer, receipt, req, want, extra, seen, todo, ending>>
    BY <1>1, <1>2, <1>7 DEF TypeOK, disk
  <2>4. Locks(p)' /\ Fresh(p)'
    BY <1>1, <1>2, <2>3 DEF Local, Locks, Fresh, Held
  <2>5. Reading(p)'
    <3>1. /\ \A j \in todo[p] :
               /\ j \in extra[p] \cup {req[p].state} /\ seen[p][j].scopes \subseteq extra[p]
               /\ seen[p][j].phase # "absent"
               /\ j \in want[p] => seen[p][j] = journal[j]
          /\ \A x \in scanned[p] : pointer[x] \in todo[p] \cup {None}
          /\ journal[req[p].state].phase # "absent" => req[p].state \in todo[p]
          /\ ReceiptIn(p, extra[p]) /\ ~ending[p]
      BY <1>1, <1>2 DEF Local, Reading
    <3>2. /\ scanned'[p] \subseteq want[p]
          /\ \A x \in scanned'[p] : pointer[x] \in todo[p] \cup {None}
      BY <1>3, <1>4, <1>7, <2>3, <3>1 DEF s
    <3>3. /\ pc'[p] = "scan" => scanned'[p] # want[p]
          /\ pc'[p] = "decide" => scanned'[p] = want[p]
      BY <1>3, <1>4, <2>3
    <3>4. QED
      BY <2>3, <3>1, <3>2, <3>3 DEF Reading, ReceiptIn
  <2>6. (Owning(p) /\ Recovery(p) /\ Committal(p) /\ Opened(p))'
    BY <2>3 DEF Owning, Recovery, Committal, Opened, Working, RecoverPc, CommitPc
  <2>7. QED
    BY <1>2, <2>1, <2>2, <2>4, <2>5, <2>6, DiskAlone, StepKeeps DEF Local
<1>8. CASE /\ s # None
           /\ journal[s].phase # "absent" /\ d \in journal[s].scopes
           /\ scanned' = [scanned EXCEPT ![p] = @ \cup {d}]
           /\ extra' = [extra EXCEPT ![p] = @ \cup CalledFor(s, journal[s])]
           /\ seen' = [seen EXCEPT ![p][s] = journal[s]]
           /\ todo' = [todo EXCEPT ![p] = Found(p, s)]
           /\ pc' = [pc EXCEPT ![p] = next]
           /\ UNCHANGED <<lock, req, want, ending>>
  <2>1. s \in Dir /\ journal[s] \in Journal /\ CalledFor(s, journal[s]) \subseteq Dir
        /\ Found(p, s) \subseteq Dir
    BY <1>1, <1>5, <1>8 DEF TypeOK, CalledFor, Found, Journal
  <2>2. TypeOK'
    BY <1>1, <1>2, <1>4, <1>8, <2>1 DEF TypeOK, disk, bounds, Pc
  <2>3. Apart(p)
    BY <1>1, <1>8 DEF Apart, TypeOK
  <2>4. /\ pc'[p] = next /\ scanned'[p] = scanned[p] \cup {d}
        /\ extra'[p] = extra[p] \cup journal[s].scopes \cup {s}
        /\ todo'[p] = todo[p] \cup {s}
        /\ seen'[p] = [seen[p] EXCEPT ![s] = journal[s]] /\ seen[p] \in [Dir -> Journal]
        /\ UNCHANGED <<lock, journal, pointer, receipt, req, want, ending>>
    BY <1>1, <1>2, <1>8 DEF TypeOK, disk, CalledFor, Found
  <2>5. Locks(p)' /\ Fresh(p)'
    BY <1>1, <1>2, <2>4 DEF Local, Locks, Fresh, Held
  <2>6. \A t \in todo'[p] :
           /\ t \in (extra[p] \cup {req[p].state})' /\ seen'[p][t].scopes \subseteq extra'[p]
           /\ seen'[p][t].phase # "absent"
           /\ t \in want'[p] => seen'[p][t] = journal'[t]
    <3>1. TAKE t \in todo'[p]
    <3>2. CASE t = s
      BY <1>8, <2>1, <2>4, <3>2
    <3>3. CASE t # s
      <4>1. t \in todo[p] /\ t \in Dir /\ seen'[p][t] = seen[p][t]
        BY <1>1, <2>4, <3>1, <3>3 DEF TypeOK
      <4>2. QED
        BY <1>1, <1>2, <2>4, <4>1 DEF Local, Reading
    <3>4. QED
      BY <3>2, <3>3
  <2>7. Reading(p)'
    BY <1>1, <1>2, <1>3, <1>4, <2>4, <2>6 DEF Local, Reading, ReceiptIn, s
  <2>8. (Owning(p) /\ Recovery(p) /\ Committal(p) /\ Opened(p))'
    BY <2>4 DEF Owning, Recovery, Committal, Opened, Working, RecoverPc, CommitPc
  <2>9. QED
    BY <1>2, <2>2, <2>3, <2>5, <2>7, <2>8, DiskAlone, StepKeeps DEF Local
<1>9. CASE Leave(p)
  <2>1. TypeOK'
    BY <1>2, <1>9, LeaveKeeps DEF IInv, TypeOK, disk, bounds
  <2>2. QED
    BY <1>2, <1>9, <2>1, LeaveKeeps, DiskAlone, StepKeeps DEF disk
<1>10. QED
  BY <1>6, <1>7, <1>8, <1>9

LEMMA GrowKeeps ==
  ASSUME IInv, NEW p \in Proc, Grow(p)
  PROVE  IInv' /\ Within(p)
<1>1. TypeOK /\ Local(p)
  BY DEF IInv
<1>2. /\ pc[p] = "decide" /\ ~(extra[p] \subseteq want[p])
      /\ want' = [want EXCEPT ![p] = @ \cup extra[p]]
      /\ lock' = [d \in Dir |-> IF lock[d] = p THEN None ELSE lock[d]]
      /\ scanned' = [scanned EXCEPT ![p] = {}]
      /\ extra' = [extra EXCEPT ![p] = {}]
      /\ seen' = [seen EXCEPT ![p] = [d \in Dir |-> Absent]]
      /\ todo' = [todo EXCEPT ![p] = {}]
      /\ pc' = [pc EXCEPT ![p] = "lock"]
      /\ UNCHANGED <<disk, req, ending, bounds>>
  BY DEF Grow, Goto, NewRound, KeptLocks
<1>3. TypeOK'
  <2>1. Absent \in Journal
    BY DEF Absent, Journal, Phase
  <2>2. QED
    BY <1>1, <1>2, <2>1 DEF TypeOK, disk, bounds, Pc
<1>4. Apart(p)
  BY <1>1, <1>2, NoneIsNew DEF Apart, TypeOK
<1>5. /\ pc'[p] = "lock" /\ Held(p)' = {} /\ want'[p] = want[p] \cup extra[p]
      /\ scanned'[p] = {} /\ extra'[p] = {} /\ todo'[p] = {}
      /\ UNCHANGED <<req, ending>>
  BY <1>1, <1>2, NoneIsNew DEF Held, TypeOK
<1>6. Locks(p)' /\ Fresh(p)'
  BY <1>1, <1>2, <1>5 DEF Local, Locks, Fresh, Reading
<1>7. (Reading(p) /\ Owning(p) /\ Recovery(p) /\ Committal(p) /\ Opened(p))'
  BY <1>5 DEF Reading, Owning, Recovery, Committal, Opened, Working, RecoverPc, CommitPc
<1>8. QED
  BY <1>2, <1>3, <1>4, <1>6, <1>7, DiskAlone, StepKeeps DEF Local

\* When p takes up the first of some journals, no directory that it holds is in
\* the middle of a transaction unless the journal says so.
LEMMA TakesUp ==
  ASSUME IInv, NEW p \in Proc, NEW s \in Dir, journal[s].phase # "active"
  PROVE  \A d \in Dir : s \notin dirty[d]
BY DEF IInv, DirtyIsFound

LEMMA SettleKeeps ==
  ASSUME IInv, NEW p \in Proc, Settle(p)
  PROVE  IInv' /\ Within(p)
<1>1. TypeOK /\ Local(p)
  BY DEF IInv
<1>2. /\ pc[p] = "decide" /\ extra[p] \subseteq want[p]
      /\ pc' = [pc EXCEPT ![p] = IF todo[p] = {} THEN "opened" ELSE FirstStep(Copy(p))]
      /\ UNCHANGED <<lock, disk, req, want, round, ending, bounds>>
  BY DEF Settle, Goto
<1>3. TypeOK'
  BY <1>1, <1>2, FirstStepIs DEF TypeOK, disk, round, bounds, Pc
<1>4. Apart(p)
  BY <1>1, <1>2 DEF Apart, TypeOK, round
<1>5. /\ pc'[p] = (IF todo[p] = {} THEN "opened" ELSE FirstStep(Copy(p)))
      /\ UNCHANGED <<lock, journal, pointer, receipt, dirty, req, want,
                     scanned, extra, seen, todo, ending>>
  BY <1>1, <1>2 DEF TypeOK, disk, round
<1>6. /\ \A s \in todo[p] : /\ s \in want[p] /\ seen[p][s] = journal[s]
                            /\ journal[s].phase # "absent" /\ journal[s].scopes \subseteq want[p]
      /\ \A d \in want[p] : pointer[d] \in todo[p] \cup {None}
      /\ journal[req[p].state].phase # "absent" => req[p].state \in todo[p]
      /\ ReceiptIn(p, want[p])
      /\ req[p].state \in want[p] /\ want[p] \subseteq Held(p)
  BY <1>1, <1>2 DEF Local, Locks, Reading, ReceiptIn
<1>7. Locks(p)' /\ Fresh(p)' /\ Reading(p)' /\ Committal(p)'
  BY <1>1, <1>2, <1>5, FirstStepIs
     DEF Local, Locks, Fresh, Held, Reading, Committal, RecoverPc, CommitPc
<1>8. Owning(p)' /\ Opened(p)'
  BY <1>5, <1>6, FirstStepIs DEF Owning, Opened, ReceiptIn, RecoverPc, CommitPc, Working
<1>9. Recovery(p)'
  <2>1. CASE todo[p] = {}
    BY <1>5, <2>1 DEF Recovery
  <2>2. CASE todo[p] # {}
    <3>1. Current(p) \in todo[p] /\ Current(p) \in Dir
      BY <1>1, <2>2, MinIn DEF TypeOK, Current
    <3>2. Copy(p) = journal[Current(p)]
      BY <1>6, <3>1 DEF Copy
    <3>3. Current(p)' = Current(p) /\ Copy(p)' = Copy(p)
      BY <1>5 DEF Current, Copy
    <3>4. pc'[p] = "mark" => \A d \in Dir : Current(p) \notin dirty[d]
      BY <1>5, <2>2, <3>1, <3>2, FirstStepIs, TakesUp
    <3>5. want[p] \subseteq Dir
      BY <1>1 DEF TypeOK
    <3>6. QED
      BY <1>5, <2>2, <3>3, <3>4, <3>5, FirstStepIs DEF Recovery, RecoverPc
  <2>3. QED
    BY <2>1, <2>2
<1>10. QED
  BY <1>2, <1>3, <1>4, <1>7, <1>8, <1>9, DiskAlone, StepKeeps DEF Local

-----------------------------------------------------------------------------
(* recover.                                                                *)

\* The journal that p works on: p has its directory and all its scopes.
LEMMA AtWork ==
  ASSUME IInv, NEW p \in Proc, pc[p] \in Working
  PROVE  /\ Current(p) \in todo[p] /\ Current(p) \in want[p] /\ Current(p) \in Dir
         /\ Copy(p) = journal[Current(p)] /\ Copy(p) \in Journal
         /\ Copy(p).phase # "absent" /\ Copy(p).scopes \subseteq want[p]
         /\ Copy(p).ops \subseteq Copy(p).scopes /\ Copy(p).prior \subseteq Copy(p).scopes
         /\ want[p] \subseteq Dir /\ req[p] \in Requests
         /\ req[p].state \in want[p]
         /\ \A d \in want[p] : lock[d] = p
<1>1. TypeOK /\ Local(p) /\ Journaled
  BY DEF IInv
<1>2. todo[p] # {} /\ todo[p] \subseteq want[p] /\ want[p] \subseteq Dir
  BY <1>1 DEF Local, Owning, TypeOK
<1>3. Current(p) \in todo[p] /\ Current(p) \in want[p] /\ Current(p) \in Dir
  BY <1>2, MinIn DEF Current
<1>4. /\ Copy(p) = journal[Current(p)] /\ Copy(p).phase # "absent"
      /\ Copy(p).scopes \subseteq want[p]
  BY <1>1, <1>3 DEF Local, Owning, Copy
<1>5. /\ Copy(p) \in Journal
      /\ Copy(p).ops \subseteq Copy(p).scopes /\ Copy(p).prior \subseteq Copy(p).scopes
  BY <1>1, <1>3, <1>4 DEF TypeOK, Journaled
<1>6. req[p] \in Requests /\ req[p].state \in want[p] /\ \A d \in want[p] : lock[d] = p
  BY <1>1 DEF Local, Locks, Held, Working, RecoverPc, CommitPc
<1>7. QED
  BY <1>2, <1>3, <1>4, <1>5, <1>6

\* A directory in the middle of the transaction is one of p's.
LEMMA DirtyIsMine ==
  ASSUME IInv, NEW p \in Proc, pc[p] \in Working
  PROVE  \A d \in Dir : /\ Current(p) \in dirty[d] => d \in Copy(p).ops /\ d \in want[p]
                        /\ pointer[d] = Current(p) => d \in Copy(p).scopes /\ d \in want[p]
BY AtWork, NoneIsNew DEF IInv, Dirty, PointerLeads

LEMMA UndoKeeps ==
  ASSUME IInv, NEW p \in Proc, Undo(p)
  PROVE  IInv' /\ Within(p)
<1> DEFINE s == Current(p)
           j == Copy(p)
           left == {d \in j.ops : s \in dirty[d]}
<1>1. TypeOK /\ Local(p) /\ Journaled /\ Dirty /\ PointerLeads /\ DirtyIsFound
  BY DEF IInv
<1>2. /\ pc[p] = "undo" /\ pc[p] \in Working
      /\ UNCHANGED <<lock, journal, pointer, req, want, round, ending, bounds>>
  BY DEF Undo, Working, RecoverPc
<1>3. /\ s \in want[p] /\ s \in Dir /\ want[p] \subseteq Dir
      /\ j = journal[s] /\ j \in Journal /\ j.phase = "active"
      /\ j.ops \subseteq want[p] /\ j.prior \subseteq want[p]
      /\ \A d \in want[p] : lock[d] = p
  BY <1>1, <1>2, AtWork DEF Local, Recovery
<1>4. \A d \in Dir : s \in dirty[d] => d \in left
  BY <1>2, DirtyIsMine
<1>5. \/ \E d \in left :
           /\ dirty' = [dirty EXCEPT ![d] = @ \ {s}]
           /\ receipt' = IF d = s THEN [receipt EXCEPT ![s][j.project] = j.prior] ELSE receipt
           /\ UNCHANGED pc
      \/ left = {} /\ pc' = [pc EXCEPT ![p] = "mark"] /\ UNCHANGED <<dirty, receipt>>
  BY DEF Undo, Goto
<1>6. Current(p)' = s /\ Copy(p)' = j
  BY <1>2 DEF Current, Copy, round
<1> HIDE DEF s, j
<1>7. CASE \E d \in left :
             /\ dirty' = [dirty EXCEPT ![d] = @ \ {s}]
             /\ receipt' = IF d = s THEN [receipt EXCEPT ![s][j.project] = j.prior] ELSE receipt
             /\ UNCHANGED pc
  <2>1. PICK d \in left :
          /\ dirty' = [dirty EXCEPT ![d] = @ \ {s}]
          /\ receipt' = IF d = s THEN [receipt EXCEPT ![s][j.project] = j.prior] ELSE receipt
          /\ UNCHANGED pc
    BY <1>7
  <2>2. d \in want[p] /\ d \in Dir /\ s \in dirty[d]
    BY <1>3
  <2>3. receipt' \in [Dir -> [Project -> SUBSET Dir]]
    BY <1>1, <1>3, <2>1 DEF TypeOK
  <2>4. TypeOK'
    BY <1>1, <1>2, <2>1, <2>2, <2>3 DEF TypeOK, round, bounds
  <2>5. Apart(p)
    BY <1>2, <2>1 DEF Apart, round
  <2>6. Within(p)
    BY <1>1, <1>2, <1>3, <2>1, <2>2 DEF Within, Changed, TypeOK
  <2>7. \A e \in Dir : dirty'[e] \subseteq dirty[e] /\ (e # d => dirty'[e] = dirty[e])
    BY <1>1, <2>1 DEF TypeOK
  <2>8. Disk'
    <3>1. Journaled' /\ PointerLeads' /\ Dirty'
      BY <1>1, <1>2, <2>7 DEF Journaled, PointerLeads, Dirty
    <3>2. dirty'[d] = {}
      BY <1>1, <2>1, <2>2 DEF DirtyIsFound, TypeOK
    <3>3. DirtyIsFound'
      BY <1>1, <1>2, <2>7, <3>2 DEF DirtyIsFound
    <3>4. QED
      BY <3>1, <3>3 DEF Disk
  <2>9. ReceiptIn(p, want[p]) => ReceiptIn(p, want[p])'
    <3>1. CASE receipt' = receipt
      BY <1>2, <3>1 DEF ReceiptIn
    <3>2. CASE receipt' = [receipt EXCEPT ![s][j.project] = j.prior]
      <4>1. req[p] \in Requests
        BY <1>2, AtWork
      <4>2. SUFFICES ASSUME ReceiptIn(p, want[p]), req[p].project # None
                     PROVE  receipt'[req[p].state][req[p].project] \subseteq want[p]
        BY <1>2 DEF ReceiptIn
      <4>3. req[p].state \in Dir /\ req[p].project \in Project
        BY <4>1, <4>2, RequestType
      <4>4. CASE req[p].state = s /\ req[p].project = j.project
        BY <1>1, <1>3, <3>2, <4>3, <4>4 DEF TypeOK
      <4>5. CASE ~(req[p].state = s /\ req[p].project = j.project)
        BY <1>1, <1>3, <3>2, <4>2, <4>3, <4>5 DEF TypeOK, ReceiptIn
      <4>6. QED
        BY <4>4, <4>5
    <3>3. QED
      BY <2>1, <3>1, <3>2
  <2>10. Local(p)'
    <3>1. Locks(p)' /\ Fresh(p)' /\ Reading(p)' /\ Committal(p)' /\ Opened(p)'
      BY <1>1, <1>2, <2>1
         DEF Local, Locks, Held, Fresh, Reading, Committal, CommitPc, Opened, round
    <3>2. Owning(p)'
      BY <1>1, <1>2, <2>1, <2>9 DEF Local, Owning, round
    <3>3. Recovery(p)'
      BY <1>2, <1>3, <1>6, <2>1 DEF Recovery
    <3>4. QED
      BY <3>1, <3>2, <3>3 DEF Local
  <2>11. QED
    BY <2>4, <2>5, <2>6, <2>8, <2>10, StepKeeps
<1>8. CASE left = {} /\ pc' = [pc EXCEPT ![p] = "mark"] /\ UNCHANGED <<dirty, receipt>>
  <2>1. TypeOK'
    BY <1>1, <1>2, <1>8 DEF TypeOK, round, bounds, Pc, RecoverPc
  <2>2. Apart(p)
    BY <1>1, <1>2, <1>8 DEF Apart, round, TypeOK
  <2>3. pc'[p] = "mark"
    BY <1>1, <1>8 DEF TypeOK
  <2>4. Locks(p)' /\ Fresh(p)' /\ Reading(p)' /\ Committal(p)' /\ Opened(p)'
    BY <1>1, <1>2, <2>3
       DEF Local, Locks, Held, Fresh, Reading, Committal, CommitPc, Opened, round
  <2>5. Owning(p)'
    BY <1>1, <1>2, <1>8, <2>3 DEF Local, Owning, round, ReceiptIn, Working, RecoverPc
  <2>6. Recovery(p)'
    BY <1>2, <1>3, <1>4, <1>6, <1>8, <2>3 DEF Recovery
  <2>7. UNCHANGED disk
    BY <1>2, <1>8 DEF disk
  <2>8. QED
    BY <2>1, <2>2, <2>4, <2>5, <2>6, <2>7, DiskAlone, StepKeeps DEF Local
<1>9. QED
  BY <1>5, <1>7, <1>8

LEMMA MarkKeeps ==
  ASSUME IInv, NEW p \in Proc, Mark(p)
  PROVE  IInv' /\ Within(p)
<1> DEFINE s == Current(p)
           j == [Copy(p) EXCEPT !.phase = "committed"]
<1>1. TypeOK /\ Local(p) /\ Journaled /\ Dirty /\ PointerLeads /\ DirtyIsFound
  BY DEF IInv
<1>2. /\ pc[p] = "mark" /\ pc[p] \in Working
      /\ journal' = [journal EXCEPT ![s] = j]
      /\ seen' = [seen EXCEPT ![p][s].phase = "committed"]
      /\ pc' = [pc EXCEPT ![p] = "unpoint"]
      /\ UNCHANGED <<lock, pointer, receipt, dirty, req, want, scanned, extra, todo,
                     ending, bounds>>
  BY DEF Mark, Goto, AfterMark, Working, RecoverPc
<1>3. /\ s \in todo[p] /\ s \in want[p] /\ s \in Dir /\ want[p] \subseteq Dir
      /\ Copy(p) = journal[s] /\ Copy(p) \in Journal /\ Copy(p) = seen[p][s]
      /\ \A d \in want[p] : lock[d] = p /\ s \notin dirty[d]
  BY <1>1, <1>2, AtWork DEF Local, Recovery, Copy
<1>4. \A d \in Dir : s \notin dirty[d]
  BY <1>2, <1>3, DirtyIsMine
<1>5. /\ j \in Journal /\ j.phase = "committed" /\ j.scopes = journal[s].scopes
      /\ j.ops = journal[s].ops /\ j.prior = journal[s].prior
  BY <1>3 DEF Journal, Phase
<1>6. /\ seen' \in [Proc -> [Dir -> Journal]] /\ seen'[p][s] = j
      /\ \A t \in Dir \ {s} : seen'[p][t] = seen[p][t]
      /\ \A q \in Proc \ {p} : seen'[q] = seen[q]
  BY <1>1, <1>2, <1>3, <1>5 DEF TypeOK
<1> HIDE DEF s, j
<1>7. /\ journal'[s] = j /\ \A t \in Dir \ {s} : journal'[t] = journal[t]
      /\ pc'[p] = "unpoint"
  BY <1>1, <1>2, <1>3 DEF TypeOK
<1>8. TypeOK'
  BY <1>1, <1>2, <1>3, <1>5, <1>6 DEF TypeOK, bounds, Pc, RecoverPc
<1>9. Apart(p)
  BY <1>1, <1>2, <1>6 DEF Apart, TypeOK
<1>10. Within(p)
  BY <1>2, <1>3, <1>7 DEF Within, Changed
<1>11. Disk'
  <2>1. Journaled' /\ Dirty'
    BY <1>1, <1>2, <1>5, <1>7 DEF Journaled, Dirty, TypeOK
  <2>2. PointerLeads'
    BY <1>1, <1>2, <1>5, <1>7 DEF PointerLeads, TypeOK
  <2>3. DirtyIsFound'
    BY <1>1, <1>2, <1>4, <1>7 DEF DirtyIsFound, TypeOK
  <2>4. QED
    BY <2>1, <2>2, <2>3 DEF Disk
<1>12. Locks(p)' /\ Fresh(p)' /\ Reading(p)' /\ Committal(p)' /\ Opened(p)'
  BY <1>1, <1>2, <1>7
     DEF Local, Locks, Held, Fresh, Reading, Committal, CommitPc, Opened
<1>13. Owning(p)'
  <2>1. req[p] \in Requests /\ req[p].state \in Dir /\ todo[p] \subseteq Dir
    BY <1>1, <1>2, AtWork, RequestType DEF TypeOK
  <2>2. \A t \in todo[p] : /\ seen'[p][t] = journal'[t] /\ journal'[t].phase # "absent"
                           /\ journal'[t].scopes \subseteq want[p]
    BY <1>1, <1>2, <1>3, <1>5, <1>6, <1>7, <2>1 DEF Local, Owning
  <2>3. journal'[req[p].state].phase # "absent" => req[p].state \in todo[p]
    BY <1>1, <1>2, <1>3, <1>7, <2>1 DEF Local, Owning
  <2>4. QED
    BY <1>1, <1>2, <2>2, <2>3 DEF Local, Owning, ReceiptIn
<1>14. Recovery(p)'
  <2>1. Copy(p)' = j
    BY <1>2, <1>6 DEF Copy, Current, s
  <2>2. QED
    BY <1>5, <1>7, <2>1 DEF Recovery
<1>15. QED
  BY <1>8, <1>9, <1>10, <1>11, <1>12, <1>13, <1>14, StepKeeps DEF Local

LEMMA UnpointKeeps ==
  ASSUME IInv, NEW p \in Proc, Unpoint(p)
  PROVE  IInv' /\ Within(p)
<1> DEFINE s == Current(p)
           left == {d \in Copy(p).scopes : pointer[d] = s}
<1>1. TypeOK /\ Local(p) /\ Journaled /\ Dirty /\ PointerLeads /\ DirtyIsFound
  BY DEF IInv
<1>2. /\ pc[p] = "unpoint" /\ pc[p] \in Working
      /\ UNCHANGED <<lock, journal, receipt, dirty, req, want, round, ending, bounds>>
  BY DEF Unpoint, Working, RecoverPc
<1>3. /\ s \in want[p] /\ s \in Dir /\ want[p] \subseteq Dir
      /\ Copy(p).scopes \subseteq want[p] /\ journal[s].phase = "committed"
      /\ \A d \in want[p] : lock[d] = p
  BY <1>1, <1>2, AtWork DEF Local, Recovery
<1>4. \/ \E d \in left : pointer' = [pointer EXCEPT ![d] = None] /\ UNCHANGED pc
      \/ left = {} /\ pc' = [pc EXCEPT ![p] = "delete"] /\ UNCHANGED pointer
  BY DEF Unpoint, Goto
<1>5. Current(p)' = s /\ Copy(p)' = Copy(p)
  BY <1>2 DEF Current, Copy, round
<1>6. CASE \E d \in left : pointer' = [pointer EXCEPT ![d] = None] /\ UNCHANGED pc
  <2>1. PICK d \in left : pointer' = [pointer EXCEPT ![d] = None] /\ UNCHANGED pc
    BY <1>6
  <2>2. d \in want[p] /\ d \in Dir /\ pointer[d] = s
    BY <1>3
  <2> HIDE DEF s
  <2>3. pointer'[d] = None /\ \A e \in Dir \ {d} : pointer'[e] = pointer[e]
    BY <1>1, <2>1, <2>2 DEF TypeOK
  <2>4. TypeOK'
    BY <1>1, <1>2, <2>1 DEF TypeOK, round, bounds
  <2>5. Apart(p)
    BY <1>2, <2>1 DEF Apart, round
  <2>6. Within(p)
    BY <1>2, <1>3, <2>2, <2>3 DEF Within, Changed
  <2>7. dirty[d] = {}
    BY <1>1, <1>3, <2>2 DEF DirtyIsFound
  <2>8. Journaled' /\ Dirty' /\ PointerLeads' /\ DirtyIsFound'
    BY <1>1, <1>2, <2>3, <2>7 DEF Journaled, Dirty, PointerLeads, DirtyIsFound
  <2>9. Locks(p)' /\ Fresh(p)' /\ Reading(p)' /\ Committal(p)' /\ Opened(p)'
    BY <1>1, <1>2, <2>1
       DEF Local, Locks, Held, Fresh, Reading, Committal, CommitPc, Opened, round
  <2>10. Owning(p)'
    BY <1>1, <1>2, <1>3, <2>1, <2>3 DEF Local, Owning, round, ReceiptIn
  <2>11. Recovery(p)'
    BY <1>1, <1>2, <1>5, <2>1 DEF Local, Recovery
  <2>12. QED
    BY <2>4, <2>5, <2>6, <2>8, <2>9, <2>10, <2>11, StepKeeps DEF Local, Disk
<1>7. CASE left = {} /\ pc' = [pc EXCEPT ![p] = "delete"] /\ UNCHANGED pointer
  <2>1. TypeOK'
    BY <1>1, <1>2, <1>7 DEF TypeOK, round, bounds, Pc, RecoverPc
  <2>2. Apart(p)
    BY <1>1, <1>2, <1>7 DEF Apart, round, TypeOK
  <2>3. pc'[p] = "delete"
    BY <1>1, <1>7 DEF TypeOK
  <2>4. Locks(p)' /\ Fresh(p)' /\ Reading(p)' /\ Committal(p)' /\ Opened(p)'
    BY <1>1, <1>2, <2>3
       DEF Local, Locks, Held, Fresh, Reading, Committal, CommitPc, Opened, round
  <2>5. Owning(p)'
    BY <1>1, <1>2, <1>7, <2>3 DEF Local, Owning, round, ReceiptIn, Working, RecoverPc
  <2>6. Recovery(p)'
    <3>1. \A d \in want[p] : pointer[d] # s
      BY <1>2, <1>3, <1>7, DirtyIsMine
    <3>2. Copy(p).phase = "committed"
      BY <1>1, <1>2 DEF Local, Recovery
    <3>3. want'[p] = want[p]
      BY <1>2
    <3>4. QED
      BY <1>5, <1>7, <2>3, <3>1, <3>2, <3>3 DEF Recovery
  <2>7. UNCHANGED disk
    BY <1>2, <1>7 DEF disk
  <2>8. QED
    BY <2>1, <2>2, <2>4, <2>5, <2>6, <2>7, DiskAlone, StepKeeps DEF Local
<1>8. QED
  BY <1>4, <1>6, <1>7

LEMMA DeleteKeeps ==
  ASSUME IInv, NEW p \in Proc, Delete(p)
  PROVE  IInv' /\ Within(p)
<1> DEFINE s == Current(p)
           rest == todo[p] \ {s}
           next == IF rest = {} THEN "opened" ELSE FirstStep(seen[p][Min(rest)])
<1>1. TypeOK /\ Local(p) /\ Journaled /\ Dirty /\ PointerLeads /\ DirtyIsFound
  BY DEF IInv
<1>2. /\ pc[p] = "delete" /\ pc[p] \in Working
      /\ journal' = [journal EXCEPT ![s] = Absent]
      /\ UNCHANGED <<pointer, receipt, dirty, bounds>>
  BY DEF Delete, Working, RecoverPc
<1>3. \/ Leave(p)
      \/ /\ rest # {} \/ ~ending[p]
         /\ todo' = [todo EXCEPT ![p] = rest]
         /\ pc' = [pc EXCEPT ![p] = next]
         /\ UNCHANGED <<lock, req, want, scanned, extra, seen, ending>>
  BY DEF Delete, Goto
<1>4. /\ s \in todo[p] /\ s \in want[p] /\ s \in Dir /\ want[p] \subseteq Dir
      /\ journal[s].phase = "committed" /\ req[p] \in Requests /\ req[p].state \in want[p]
      /\ \A d \in want[p] : lock[d] = p
  BY <1>1, <1>2, AtWork DEF Local, Recovery
<1>5. \A d \in Dir : pointer[d] # s /\ s \notin dirty[d]
  <2>1. \A d \in want[p] : pointer[d] # s
    BY <1>1, <1>2 DEF Local, Recovery
  <2>2. QED
    BY <1>2, <1>4, <2>1, DirtyIsMine, TakesUp
<1>6. Absent \in Journal /\ Absent.phase = "absent" /\ Absent.scopes = {} /\ Absent.ops = {}
      /\ Absent.prior = {}
  BY DEF Absent, Journal, Phase
<1> HIDE DEF s
<1>7. journal'[s] = Absent /\ \A t \in Dir \ {s} : journal'[t] = journal[t]
  BY <1>1, <1>2, <1>4 DEF TypeOK
<1>8. journal' \in [Dir -> Journal]
  BY <1>1, <1>2, <1>6 DEF TypeOK
<1>9. Within(p)
  BY <1>2, <1>4, <1>7 DEF Within, Changed
<1>10. Disk'
  <2>1. Journaled' /\ Dirty' /\ DirtyIsFound'
    BY <1>1, <1>2, <1>5, <1>6, <1>7 DEF Journaled, Dirty, DirtyIsFound, TypeOK
  <2>2. PointerLeads'
    BY <1>1, <1>2, <1>5, <1>7 DEF PointerLeads, TypeOK
  <2>3. QED
    BY <2>1, <2>2 DEF Disk
<1>11. CASE Leave(p)
  <2>1. TypeOK'
    BY <1>1, <1>2, <1>8, <1>11, LeaveKeeps DEF TypeOK, bounds
  <2>2. QED
    BY <1>9, <1>10, <1>11, <2>1, LeaveKeeps, StepKeeps
<1>12. CASE /\ rest # {} \/ ~ending[p]
            /\ todo' = [todo EXCEPT ![p] = rest]
            /\ pc' = [pc EXCEPT ![p] = next]
            /\ UNCHANGED <<lock, req, want, scanned, extra, seen, ending>>
  <2>1. next \in Pc /\ (rest # {} => next \in {"undo", "mark", "unpoint"})
    BY FirstStepIs DEF Pc, RecoverPc
  <2>2. TypeOK'
    BY <1>1, <1>2, <1>8, <1>12, <2>1 DEF TypeOK, bounds
  <2>3. Apart(p)
    BY <1>1, <1>12 DEF Apart, TypeOK
  <2>4. pc'[p] = next /\ todo'[p] = rest
    BY <1>1, <1>12 DEF TypeOK
  <2>5. Locks(p)' /\ Fresh(p)' /\ Reading(p)' /\ Committal(p)'
    BY <1>1, <1>2, <1>12, <2>1, <2>4
       DEF Local, Locks, Held, Fresh, Reading, Committal, CommitPc
  <2>6. /\ \A t \in rest : /\ t \in Dir /\ seen'[p][t] = journal'[t]
                           /\ journal'[t].phase # "absent"
                           /\ journal'[t].scopes \subseteq want[p]
        /\ rest \subseteq want[p]
        /\ \A d \in want[p] : pointer[d] \in rest \cup {None}
        /\ journal'[req[p].state].phase # "absent" => req[p].state \in rest
        /\ ~ending[p] => ReceiptIn(p, want[p])
    BY <1>1, <1>2, <1>4, <1>5, <1>6, <1>7, <1>12 DEF Local, Owning
  <2>7. Owning(p)'
    BY <1>2, <1>12, <2>1, <2>4, <2>6 DEF Owning, ReceiptIn, Working, RecoverPc, CommitPc
  <2>8. Opened(p)'
    BY <1>2, <1>12, <2>1, <2>4, <2>6 DEF Opened, ReceiptIn
  <2>9. Recovery(p)'
    <3>1. CASE rest = {}
      BY <2>4, <3>1 DEF Recovery
    <3>2. CASE rest # {}
      <4>1. Min(rest) \in rest
        BY <1>4, <2>6, <3>2, MinIn
      <4>2. Current(p)' = Min(rest) /\ Copy(p)' = seen[p][Min(rest)]
        BY <1>12, <2>4 DEF Current, Copy
      <4>3. seen[p][Min(rest)] = journal[Min(rest)]
        BY <1>7, <1>12, <2>6, <4>1
      <4>4. pc'[p] = "mark" => \A d \in Dir : Min(rest) \notin dirty[d]
        BY <2>4, <2>6, <3>2, <4>1, <4>3, FirstStepIs, TakesUp
      <4>5. QED
        BY <1>2, <1>4, <1>12, <2>1, <2>4, <3>2, <4>2, <4>4, FirstStepIs DEF Recovery
    <3>3. QED
      BY <3>1, <3>2
  <2>10. QED
    BY <1>9, <1>10, <2>2, <2>3, <2>5, <2>7, <2>8, <2>9, StepKeeps DEF Local
<1>13. QED
  BY <1>3, <1>11, <1>12

-----------------------------------------------------------------------------
(* A commit.                                                               *)

LEMMA WriteKeeps ==
  ASSUME IInv, NEW p \in Proc, Write(p)
  PROVE  IInv' /\ Within(p)
<1> DEFINE s == req[p].state
           j == [phase |-> "inactive", scopes |-> want[p], ops |-> Touched(p),
                 project |-> req[p].project, prior |-> receipt[s][req[p].project]]
<1>1. TypeOK /\ Local(p) /\ Journaled /\ Dirty /\ PointerLeads /\ DirtyIsFound
  BY DEF IInv
<1>2. /\ pc[p] = "opened" /\ req[p].project # None /\ Touched(p) \subseteq want[p]
      /\ journal' = [journal EXCEPT ![s] = j]
      /\ seen' = [seen EXCEPT ![p][s] = j]
      /\ todo' = [todo EXCEPT ![p] = {s}]
      /\ ending' = [ending EXCEPT ![p] = TRUE]
      /\ pc' = [pc EXCEPT ![p] = "point"]
      /\ UNCHANGED <<lock, pointer, receipt, dirty, req, want, scanned, extra, bounds>>
  BY DEF Write, Goto, AfterWrite
<1>3. /\ req[p] \in Requests /\ s \in want[p] /\ s \in Dir /\ want[p] \subseteq Dir
      /\ req[p].project \in Project
      /\ \A d \in want[p] : lock[d] = p /\ pointer[d] = None
      /\ journal[s].phase = "absent"
  BY <1>1, <1>2, RequestType DEF Local, Locks, Opened, Held, TypeOK
<1>4. j \in Journal /\ j.ops \subseteq j.scopes /\ j.prior \subseteq j.scopes
  BY <1>1, <1>2, <1>3 DEF Journal, Phase, TypeOK, Touched
<1>5. \A d \in Dir : pointer[d] # s /\ s \notin dirty[d]
  BY <1>1, <1>3, NoneIsNew DEF PointerLeads, DirtyIsFound
<1>6. /\ j.phase = "inactive" /\ j.scopes = want[p]
  OBVIOUS
<1> HIDE DEF j, s
<1>7. /\ journal'[s] = j /\ \A t \in Dir \ {s} : journal'[t] = journal[t]
      /\ seen'[p][s] = j /\ pc'[p] = "point" /\ todo'[p] = {s} /\ ending'[p] = TRUE
  BY <1>1, <1>2, <1>3 DEF TypeOK
<1>8. TypeOK'
  BY <1>1, <1>2, <1>3, <1>4 DEF TypeOK, bounds, Pc, CommitPc
<1>9. Apart(p)
  BY <1>1, <1>2 DEF Apart, TypeOK
<1>10. Within(p)
  BY <1>2, <1>3, <1>7 DEF Within, Changed
<1>11. Disk'
  <2>1. Journaled' /\ Dirty' /\ DirtyIsFound'
    BY <1>1, <1>2, <1>4, <1>5, <1>7 DEF Journaled, Dirty, DirtyIsFound, TypeOK
  <2>2. PointerLeads'
    BY <1>1, <1>2, <1>5, <1>7 DEF PointerLeads, TypeOK
  <2>3. QED
    BY <2>1, <2>2 DEF Disk
<1>12. Locks(p)' /\ Fresh(p)' /\ Reading(p)' /\ Recovery(p)' /\ Opened(p)'
  BY <1>1, <1>2, <1>7 DEF Local, Locks, Held, Fresh, Reading, Recovery, Opened
<1>13. Owning(p)' /\ Committal(p)'
  <2>1. req'[p].state = s /\ want'[p] = want[p] /\ \A d \in want[p] : pointer'[d] = None
    BY <1>2, <1>3 DEF s
  <2>2. Owning(p)'
    BY <1>3, <1>6, <1>7, <2>1 DEF Owning
  <2>3. Committal(p)'
    BY <1>6, <1>7, <2>1 DEF Committal
  <2>4. QED
    BY <2>2, <2>3
<1>14. QED
  BY <1>8, <1>9, <1>10, <1>11, <1>12, <1>13, StepKeeps DEF Local

\* The one journal of a transaction under way.
LEMMA InCommit ==
  ASSUME IInv, NEW p \in Proc, pc[p] \in CommitPc
  PROVE  /\ Current(p) = req[p].state /\ todo[p] = {req[p].state} /\ ending[p] = TRUE
         /\ req[p].state \in Dir /\ req[p].bin \in Dir /\ req[p].state \in want[p]
         /\ seen[p][req[p].state] = journal[req[p].state]
         /\ journal[req[p].state] \in Journal
         /\ journal[req[p].state].scopes = want[p]
         /\ journal[req[p].state].ops \subseteq want[p]
         /\ journal[req[p].state].phase # "committed"
         /\ pc[p] \in Working /\ want[p] \subseteq Dir
         /\ \A d \in want[p] : lock[d] = p
<1>1. TypeOK /\ Local(p) /\ Journaled
  BY DEF IInv
<1>2. pc[p] \in Working
  BY DEF Working
<1>3. /\ todo[p] = {req[p].state} /\ ending[p] = TRUE
      /\ journal[req[p].state].scopes = want[p]
      /\ journal[req[p].state].phase # "committed"
  BY <1>1 DEF Local, Committal, TypeOK
<1>4. QED
  BY <1>1, <1>2, <1>3, AtWork, RequestType DEF Copy, Journaled

LEMMA PointKeeps ==
  ASSUME IInv, NEW p \in Proc, Point(p)
  PROVE  IInv' /\ Within(p)
<1> DEFINE s == req[p].state
           left == {d \in want[p] : pointer[d] # s}
<1>1. TypeOK /\ Local(p) /\ Journaled /\ Dirty /\ PointerLeads /\ DirtyIsFound
  BY DEF IInv
<1>2. /\ pc[p] = "point" /\ pc[p] \in CommitPc
      /\ UNCHANGED <<lock, journal, receipt, dirty, req, want, round, ending, bounds>>
  BY DEF Point, CommitPc
<1>3. \/ \E d \in left : pointer' = [pointer EXCEPT ![d] = s] /\ UNCHANGED pc
      \/ left = {} /\ pc' = [pc EXCEPT ![p] = "activate"] /\ UNCHANGED pointer
  BY DEF Point, Goto
<1>4. /\ s \in Dir /\ s \in want[p] /\ want[p] \subseteq Dir /\ todo[p] = {s}
      /\ journal[s].scopes = want[p] /\ journal[s].phase = "inactive"
      /\ \A d \in want[p] : lock[d] = p /\ pointer[d] \in {s, None}
  BY <1>1, <1>2, InCommit DEF Local, Committal, Owning
<1>5. CASE \E d \in left : pointer' = [pointer EXCEPT ![d] = s] /\ UNCHANGED pc
  <2>1. PICK d \in left : pointer' = [pointer EXCEPT ![d] = s] /\ UNCHANGED pc
    BY <1>5
  <2>2. d \in want[p] /\ d \in Dir /\ pointer[d] = None
    BY <1>4
  <2>3. pointer'[d] = s /\ \A e \in Dir \ {d} : pointer'[e] = pointer[e]
    BY <1>1, <2>1, <2>2 DEF TypeOK
  <2>4. TypeOK'
    BY <1>1, <1>2, <1>4, <2>1 DEF TypeOK, round, bounds
  <2>5. Apart(p)
    BY <1>2, <2>1 DEF Apart, round
  <2>6. Within(p)
    BY <1>2, <1>4, <2>2, <2>3 DEF Within, Changed
  <2>7. dirty[d] = {}
    BY <1>1, <2>2, NoneIsNew DEF DirtyIsFound, TypeOK
  <2>8. Journaled' /\ Dirty' /\ DirtyIsFound'
    BY <1>1, <1>2, <2>3, <2>7 DEF Journaled, Dirty, DirtyIsFound
  <2>9. PointerLeads'
    BY <1>1, <1>2, <1>4, <2>2, <2>3 DEF PointerLeads
  <2>10. Locks(p)' /\ Fresh(p)' /\ Reading(p)' /\ Recovery(p)' /\ Opened(p)'
    BY <1>1, <1>2, <2>1 DEF Local, Locks, Held, Fresh, Reading, Recovery, Opened, round
  <2>11. Owning(p)' /\ Committal(p)'
    BY <1>1, <1>2, <1>4, <2>1, <2>3 DEF Local, Owning, Committal, round, ReceiptIn
  <2>12. QED
    BY <2>4, <2>5, <2>6, <2>8, <2>9, <2>10, <2>11, StepKeeps DEF Local, Disk
<1>6. CASE left = {} /\ pc' = [pc EXCEPT ![p] = "activate"] /\ UNCHANGED pointer
  <2>1. TypeOK'
    BY <1>1, <1>2, <1>6 DEF TypeOK, round, bounds, Pc, CommitPc
  <2>2. Apart(p)
    BY <1>1, <1>2, <1>6 DEF Apart, round, TypeOK
  <2>3. pc'[p] = "activate"
    BY <1>1, <1>6 DEF TypeOK
  <2>4. Locks(p)' /\ Fresh(p)' /\ Reading(p)' /\ Recovery(p)' /\ Opened(p)'
    BY <1>1, <1>2, <2>3 DEF Local, Locks, Held, Fresh, Reading, Recovery, Opened, round
  <2>5. Owning(p)'
    BY <1>1, <1>2, <1>6, <2>3 DEF Local, Owning, round, ReceiptIn, Working, CommitPc
  <2>6. Committal(p)'
    <3>1. \A d \in want[p] : pointer[d] = s
      BY <1>6
    <3>2. QED
      BY <1>1, <1>2, <1>6, <2>3, <3>1 DEF Local, Committal, round
  <2>7. UNCHANGED disk
    BY <1>2, <1>6 DEF disk
  <2>8. QED
    BY <2>1, <2>2, <2>4, <2>5, <2>6, <2>7, DiskAlone, StepKeeps DEF Local
<1>7. QED
  BY <1>3, <1>5, <1>6

\* The journal gets another phase that is not "absent" when no directory is in
\* the middle of its transaction, or all of them may be from now on.
LEMMA PhaseKeeps ==
  ASSUME IInv, NEW p \in Proc, pc[p] \in CommitPc, NEW phase \in {"active", "committed"},
         phase = "committed" => \A d \in Dir : dirty'[d] = dirty[d] \ {req[p].state},
         phase = "active" => dirty' = dirty /\ journal[req[p].state].phase = "inactive",
         dirty' \in [Dir -> SUBSET Dir],
         journal' = [journal EXCEPT ![req[p].state].phase = phase],
         seen' = [seen EXCEPT ![p][req[p].state].phase = phase],
         UNCHANGED <<lock, pointer, receipt, req, want, scanned, extra, todo, ending>>
  PROVE  /\ Disk' /\ Within(p)
         /\ journal' \in [Dir -> Journal] /\ seen' \in [Proc -> [Dir -> Journal]]
         /\ \A q \in Proc \ {p} : seen'[q] = seen[q]
         /\ journal'[req[p].state] = [journal[req[p].state] EXCEPT !.phase = phase]
         /\ seen'[p][req[p].state] = journal'[req[p].state]
<1> DEFINE s == req[p].state
           j == [journal[s] EXCEPT !.phase = phase]
<1>1. TypeOK /\ Local(p) /\ Journaled /\ Dirty /\ PointerLeads /\ DirtyIsFound
  BY DEF IInv
<1>2. /\ s \in Dir /\ s \in want[p] /\ seen[p][s] = journal[s] /\ journal[s] \in Journal
      /\ journal[s].scopes = want[p] /\ \A d \in want[p] : lock[d] = p
  BY InCommit
<1>3. /\ j \in Journal /\ j.phase = phase /\ j.scopes = journal[s].scopes
      /\ j.ops = journal[s].ops /\ j.prior = journal[s].prior
  BY <1>2 DEF Journal, Phase
<1>4. journal' \in [Dir -> Journal] /\ seen' \in [Proc -> [Dir -> Journal]]
  BY <1>1, <1>2, <1>3 DEF TypeOK
<1>5. /\ journal'[s] = j /\ \A t \in Dir \ {s} : journal'[t] = journal[t]
      /\ seen'[p][s] = j /\ \A q \in Proc \ {p} : seen'[q] = seen[q]
  BY <1>1, <1>2 DEF TypeOK
<1>6. \A d \in Dir : dirty'[d] \subseteq dirty[d] /\ (d \notin want[p] => dirty'[d] = dirty[d])
  <2>1. \A d \in Dir : s \in dirty[d] => d \in want[p]
    BY <1>1, <1>2 DEF DirtyIsFound
  <2>2. CASE phase = "committed"
    <3>1. TAKE d \in Dir
    <3>2. dirty'[d] = dirty[d] \ {s}
      BY <2>2
    <3>3. d \notin want[p] => s \notin dirty[d]
      BY <2>1
    <3>4. s \notin dirty[d] => dirty'[d] = dirty[d]
      BY <3>2, Zenon
    <3>5. QED
      BY <3>2, <3>3, <3>4
  <2>3. CASE phase = "active"
    BY <2>3
  <2>4. QED
    BY <2>2, <2>3
<1>7. phase = "committed" => \A d \in Dir : s \notin dirty'[d]
  OBVIOUS
<1>8. phase = "active" => \A d \in Dir : s \notin dirty[d]
  BY <1>1, <1>2 DEF DirtyIsFound
<1> HIDE DEF s, j
<1>9. Within(p)
  BY <1>2, <1>5, <1>6 DEF Within, Changed
<1>10. Journaled' /\ Dirty'
  BY <1>1, <1>3, <1>5, <1>6 DEF Journaled, Dirty, TypeOK
<1>11. PointerLeads'
  BY <1>1, <1>3, <1>5 DEF PointerLeads, TypeOK
<1>12. DirtyIsFound'
  <2>1. \A d \in Dir : s \notin dirty'[d]
    BY <1>6, <1>7, <1>8
  <2>2. \A d \in Dir : \A t \in dirty'[d] : t \in Dir /\ journal'[t] = journal[t]
    BY <1>5, <2>1
  <2>3. \A d \in Dir : \A t \in dirty'[d] : dirty'[d] = {t}
    <3>1. TAKE d \in Dir
    <3>2. TAKE t \in dirty'[d]
    <3>3. t \in dirty[d] /\ dirty'[d] \subseteq dirty[d]
      BY <1>6
    <3>4. dirty[d] = {t}
      BY <1>1, <3>3 DEF DirtyIsFound
    <3>5. QED
      BY <3>3, <3>4
  <2>4. QED
    BY <1>1, <1>6, <2>2, <2>3 DEF DirtyIsFound
<1>13. QED
  BY <1>4, <1>5, <1>9, <1>10, <1>11, <1>12 DEF Disk, s, j

LEMMA ActivateKeeps ==
  ASSUME IInv, NEW p \in Proc, Activate(p)
  PROVE  IInv' /\ Within(p)
<1> DEFINE s == req[p].state
<1>1. TypeOK /\ Local(p)
  BY DEF IInv
<1>2. /\ pc[p] = "activate" /\ pc[p] \in CommitPc
      /\ journal' = [journal EXCEPT ![s].phase = "active"]
      /\ seen' = [seen EXCEPT ![p][s].phase = "active"]
      /\ pc' = [pc EXCEPT ![p] = "replace"]
      /\ UNCHANGED <<lock, pointer, receipt, dirty, req, want, scanned, extra, todo,
                     ending, bounds>>
  BY DEF Activate, Goto, CommitPc
<1>3. /\ s \in Dir /\ todo[p] = {s} /\ ending[p] = TRUE /\ s \in want[p]
      /\ journal[s].scopes = want[p] /\ journal[s].phase = "inactive"
      /\ journal[s] \in Journal
      /\ \A d \in want[p] : pointer[d] = s
  BY <1>1, <1>2, InCommit DEF Local, Committal
<1>4. /\ Disk' /\ Within(p)
      /\ journal' \in [Dir -> Journal] /\ seen' \in [Proc -> [Dir -> Journal]]
      /\ \A q \in Proc \ {p} : seen'[q] = seen[q]
      /\ journal'[s] = [journal[s] EXCEPT !.phase = "active"]
      /\ seen'[p][s] = journal'[s]
  BY <1>1, <1>2, <1>3, PhaseKeeps DEF TypeOK
<1>5. TypeOK'
  BY <1>1, <1>2, <1>4 DEF TypeOK, bounds, Pc, CommitPc
<1>6. Apart(p)
  BY <1>1, <1>2, <1>4 DEF Apart, TypeOK
<1>7. pc'[p] = "replace" /\ journal'[s].phase = "active" /\ journal'[s].scopes = want[p]
  BY <1>1, <1>2, <1>3, <1>4 DEF TypeOK, Journal
<1> HIDE DEF s
<1>8. Locks(p)' /\ Fresh(p)' /\ Reading(p)' /\ Recovery(p)' /\ Opened(p)'
  BY <1>1, <1>2, <1>7 DEF Local, Locks, Held, Fresh, Reading, Recovery, Opened
<1>9. Owning(p)' /\ Committal(p)'
  <2>1. req'[p].state = s /\ want'[p] = want[p] /\ todo'[p] = {s} /\ ending'[p] = TRUE
        /\ \A d \in want[p] : pointer'[d] = s
    BY <1>2, <1>3 DEF s
  <2>2. Owning(p)'
    BY <1>3, <1>4, <1>7, <2>1 DEF Owning
  <2>3. Committal(p)'
    BY <1>7, <2>1 DEF Committal
  <2>4. QED
    BY <2>2, <2>3
<1>10. QED
  BY <1>4, <1>5, <1>6, <1>8, <1>9, StepKeeps DEF Local

LEMMA CommitKeeps ==
  ASSUME IInv, NEW p \in Proc, Commit(p)
  PROVE  IInv' /\ Within(p)
<1> DEFINE s == req[p].state
<1>1. TypeOK /\ Local(p)
  BY DEF IInv
<1>2. /\ pc[p] = "commit" /\ pc[p] \in CommitPc
      /\ journal' = [journal EXCEPT ![s].phase = "committed"]
      /\ seen' = [seen EXCEPT ![p][s].phase = "committed"]
      /\ dirty' = [d \in Dir |-> dirty[d] \ {s}]
      /\ pc' = [pc EXCEPT ![p] = "unpoint"]
      /\ UNCHANGED <<lock, pointer, receipt, req, want, scanned, extra, todo, ending, bounds>>
  BY DEF Commit, Goto, CommitPc
<1>3. /\ s \in Dir /\ todo[p] = {s} /\ ending[p] = TRUE /\ s \in want[p]
      /\ journal[s].scopes = want[p] /\ journal[s] \in Journal /\ Current(p) = s
      /\ \A d \in want[p] : pointer[d] = s
  BY <1>1, <1>2, InCommit DEF Local, Committal
<1>4. dirty' \in [Dir -> SUBSET Dir] /\ \A d \in Dir : dirty'[d] = dirty[d] \ {s}
  BY <1>1, <1>2 DEF TypeOK
<1>5. /\ Disk' /\ Within(p)
      /\ journal' \in [Dir -> Journal] /\ seen' \in [Proc -> [Dir -> Journal]]
      /\ \A q \in Proc \ {p} : seen'[q] = seen[q]
      /\ journal'[s] = [journal[s] EXCEPT !.phase = "committed"]
      /\ seen'[p][s] = journal'[s]
  BY <1>1, <1>2, <1>3, <1>4, PhaseKeeps
<1>6. TypeOK'
  BY <1>1, <1>2, <1>4, <1>5 DEF TypeOK, bounds, Pc, RecoverPc
<1>7. Apart(p)
  BY <1>1, <1>2, <1>5 DEF Apart, TypeOK
<1>8. pc'[p] = "unpoint" /\ journal'[s].phase = "committed" /\ journal'[s].scopes = want[p]
  BY <1>1, <1>2, <1>3, <1>5 DEF TypeOK, Journal
<1>9. Current(p)' = s /\ Copy(p)' = journal'[s]
  BY <1>2, <1>3, <1>5 DEF Current, Copy
<1> HIDE DEF s
<1>10. Locks(p)' /\ Fresh(p)' /\ Reading(p)' /\ Committal(p)' /\ Opened(p)'
  BY <1>1, <1>2, <1>8 DEF Local, Locks, Held, Fresh, Reading, Committal, CommitPc, Opened
<1>11. Owning(p)'
  <2>1. req'[p].state = s /\ want'[p] = want[p] /\ todo'[p] = {s} /\ ending'[p] = TRUE
        /\ \A d \in want[p] : pointer'[d] = s
    BY <1>2, <1>3 DEF s
  <2>2. QED
    BY <1>3, <1>5, <1>8, <2>1 DEF Owning
<1>12. Recovery(p)'
  BY <1>8, <1>9 DEF Recovery
<1>13. QED
  BY <1>5, <1>6, <1>7, <1>10, <1>11, <1>12, StepKeeps DEF Local

LEMMA ReplaceKeeps ==
  ASSUME IInv, NEW p \in Proc, Replace(p)
  PROVE  IInv' /\ Within(p)
<1> DEFINE s == req[p].state
           left == {d \in Copy(p).ops : s \notin dirty[d]}
<1>1. TypeOK /\ Local(p) /\ Journaled /\ Dirty /\ PointerLeads /\ DirtyIsFound
  BY DEF IInv
<1>2. /\ pc[p] = "replace" /\ pc[p] \in CommitPc
      /\ UNCHANGED <<lock, journal, pointer, req, want, round, ending, bounds>>
  BY DEF Replace, CommitPc
<1>3. \/ \E d \in left :
           /\ dirty' = [dirty EXCEPT ![d] = @ \cup {s}]
           /\ receipt' = IF d = s THEN [receipt EXCEPT ![s][req[p].project] = {req[p].bin}]
                         ELSE receipt
           /\ UNCHANGED pc
      \/ left = {} /\ pc' = [pc EXCEPT ![p] = "commit"] /\ UNCHANGED <<dirty, receipt>>
  BY DEF Replace, Goto
<1>4. /\ s \in Dir /\ todo[p] = {s} /\ ending[p] = TRUE /\ s \in want[p]
      /\ Copy(p) = journal[s] /\ journal[s].ops \subseteq want[p] /\ req[p].bin \in Dir
      /\ journal[s].scopes = want[p] /\ journal[s].phase = "active" /\ want[p] \subseteq Dir
      /\ \A d \in want[p] : pointer[d] = s /\ lock[d] = p
  BY <1>1, <1>2, InCommit DEF Local, Committal, Copy
<1>5. CASE \E d \in left :
             /\ dirty' = [dirty EXCEPT ![d] = @ \cup {s}]
             /\ receipt' = IF d = s THEN [receipt EXCEPT ![s][req[p].project] = {req[p].bin}]
                           ELSE receipt
             /\ UNCHANGED pc
  <2>1. PICK d \in left :
          /\ dirty' = [dirty EXCEPT ![d] = @ \cup {s}]
          /\ receipt' = IF d = s THEN [receipt EXCEPT ![s][req[p].project] = {req[p].bin}]
                        ELSE receipt
          /\ UNCHANGED pc
    BY <1>5
  <2>2. d \in want[p] /\ d \in Dir /\ d \in journal[s].ops
    BY <1>4
  <2>3. receipt' \in [Dir -> [Project -> SUBSET Dir]]
    BY <1>1, <1>4, <2>1 DEF TypeOK
  <2>4. \A e \in Dir \ {s} : receipt'[e] = receipt[e]
    BY <1>1, <1>4, <2>1 DEF TypeOK
  <2>5. receipt'[s] # receipt[s] => d = s
    BY <2>1
  <2> HIDE DEF s
  <2>6. dirty'[d] = {s} /\ \A e \in Dir \ {d} : dirty'[e] = dirty[e]
    <3>1. dirty[d] \subseteq {s}
      BY <1>1, <1>4, <2>2 DEF DirtyIsFound
    <3>2. QED
      BY <1>1, <2>1, <2>2, <3>1 DEF TypeOK
  <2>7. TypeOK'
    BY <1>1, <1>2, <1>4, <2>1, <2>3 DEF TypeOK, round, bounds
  <2>8. Apart(p)
    BY <1>2, <2>1 DEF Apart, round
  <2>9. Within(p)
    BY <1>2, <1>4, <2>2, <2>4, <2>5, <2>6 DEF Within, Changed
  <2>10. Journaled' /\ Dirty' /\ PointerLeads' /\ DirtyIsFound'
    BY <1>1, <1>2, <1>4, <2>2, <2>6 DEF Journaled, Dirty, PointerLeads, DirtyIsFound
  <2>11. Locks(p)' /\ Fresh(p)' /\ Reading(p)' /\ Recovery(p)' /\ Opened(p)'
    BY <1>1, <1>2, <2>1 DEF Local, Locks, Held, Fresh, Reading, Recovery, Opened, round
  <2>12. Owning(p)' /\ Committal(p)'
    BY <1>1, <1>2, <1>4, <2>1 DEF Local, Owning, Committal, round
  <2>13. QED
    BY <2>7, <2>8, <2>9, <2>10, <2>11, <2>12, StepKeeps DEF Local, Disk
<1>6. CASE left = {} /\ pc' = [pc EXCEPT ![p] = "commit"] /\ UNCHANGED <<dirty, receipt>>
  <2>1. TypeOK'
    BY <1>1, <1>2, <1>6 DEF TypeOK, round, bounds, Pc, CommitPc
  <2>2. Apart(p)
    BY <1>1, <1>2, <1>6 DEF Apart, round, TypeOK
  <2>3. pc'[p] = "commit"
    BY <1>1, <1>6 DEF TypeOK
  <2>4. Locks(p)' /\ Fresh(p)' /\ Reading(p)' /\ Recovery(p)' /\ Opened(p)'
    BY <1>1, <1>2, <2>3 DEF Local, Locks, Held, Fresh, Reading, Recovery, Opened, round
  <2>5. Owning(p)'
    BY <1>1, <1>2, <1>6, <2>3 DEF Local, Owning, round, ReceiptIn, Working, CommitPc
  <2>6. Committal(p)'
    BY <1>1, <1>2, <2>3 DEF Local, Committal, round
  <2>7. UNCHANGED disk
    BY <1>2, <1>6 DEF disk
  <2>8. QED
    BY <2>1, <2>2, <2>4, <2>5, <2>6, <2>7, DiskAlone, StepKeeps DEF Local
<1>7. QED
  BY <1>3, <1>5, <1>6

LEMMA FailKeeps ==
  ASSUME IInv, NEW p \in Proc, Fail(p)
  PROVE  IInv' /\ Within(p)
<1> DEFINE s == req[p].state
<1>1. TypeOK /\ Local(p)
  BY DEF IInv
<1>2. /\ pc[p] \in CommitPc
      /\ seen' = [seen EXCEPT ![p][s] = journal[s]]
      /\ pc' = [pc EXCEPT ![p] = FirstStep(journal[s])]
      /\ UNCHANGED <<lock, disk, req, want, scanned, extra, todo, ending, bounds>>
  BY DEF Fail, Goto
<1>3. /\ s \in Dir /\ todo[p] = {s} /\ ending[p] = TRUE /\ Current(p) = s
      /\ seen[p][s] = journal[s] /\ journal[s].phase # "committed" /\ want[p] \subseteq Dir
  BY <1>2, InCommit
<1>4. seen' = seen
  BY <1>1, <1>2, <1>3 DEF TypeOK
<1>5. pc'[p] = FirstStep(journal[s])
  BY <1>1, <1>2 DEF TypeOK
<1>6. TypeOK'
  BY <1>1, <1>2, <1>4, FirstStepIs DEF TypeOK, disk, bounds
<1>7. Apart(p)
  BY <1>1, <1>2, <1>4 DEF Apart, TypeOK
<1>8. Current(p)' = s /\ Copy(p)' = journal[s]
  BY <1>2, <1>3, <1>4 DEF Current, Copy
<1>9. Locks(p)' /\ Fresh(p)' /\ Reading(p)' /\ Committal(p)' /\ Opened(p)'
  BY <1>1, <1>2, <1>5, FirstStepIs
     DEF Local, Locks, Held, Fresh, Reading, Committal, CommitPc, RecoverPc, Opened
<1>10. Owning(p)'
  BY <1>1, <1>2, <1>3, <1>4 DEF Local, Owning, disk, Working
<1>11. Recovery(p)'
  <2>1. pc'[p] = "mark" => \A d \in Dir : s \notin dirty[d]
    BY <1>3, <1>5, FirstStepIs, TakesUp
  <2>2. dirty' = dirty /\ want'[p] = want[p] /\ pc'[p] # "delete" /\ pc'[p] # "unpoint"
    BY <1>2, <1>3, <1>5, FirstStepIs DEF disk
  <2>3. pc'[p] = "undo" => journal[s].phase = "active"
    BY <1>5, FirstStepIs
  <2>4. QED
    BY <1>3, <1>8, <2>1, <2>2, <2>3 DEF Recovery
<1>12. QED
  BY <1>2, <1>6, <1>7, <1>9, <1>10, <1>11, DiskAlone, StepKeeps DEF Local

-----------------------------------------------------------------------------
(* The theorems.                                                           *)

LEMMA NextKeeps ==
  ASSUME IInv, [Next]_vars
  PROVE  /\ IInv'
         /\ \A d \in Dir : Changed(d) => \E p \in Proc : lock[d] = p /\ Step(p)
<1>1. CASE UNCHANGED vars
  <2>1. TypeOK' /\ Journaled' /\ Dirty' /\ PointerLeads' /\ DirtyIsFound'
    BY <1>1 DEF IInv, TypeOK, Journaled, Dirty, PointerLeads, DirtyIsFound, vars, disk, round,
                bounds
  <2>2. ASSUME NEW p \in Proc PROVE Local(p)'
    <3>1. Local(p)
      BY DEF IInv
    <3>2. Locks(p)' /\ Fresh(p)' /\ Reading(p)' /\ Owning(p)'
      BY <1>1, <3>1 DEF Local, Locks, Held, Fresh, Reading, Owning, ReceiptIn, vars, disk, round
    <3>3. Recovery(p)' /\ Committal(p)' /\ Opened(p)'
      BY <1>1, <3>1 DEF Local, Recovery, Copy, Current, Committal, Opened, ReceiptIn,
                        vars, disk, round
    <3>4. QED
      BY <3>2, <3>3 DEF Local
  <2>3. ~ \E d \in Dir : Changed(d)
    BY <1>1 DEF Changed, vars, disk
  <2>4. QED
    BY <2>1, <2>2, <2>3 DEF IInv
<1>2. ASSUME NEW p \in Proc, Step(p) PROVE IInv' /\ Within(p)
  <2>1. CASE Opening(p)
    BY <2>1, TooManyKeeps, LockKeeps, ReadOwnKeeps, ScanKeeps, GrowKeeps, SettleKeeps
       DEF Opening
  <2>2. CASE Recovering(p)
    BY <2>2, UndoKeeps, MarkKeeps, UnpointKeeps, DeleteKeeps DEF Recovering
  <2>3. CASE Committing(p)
    BY <2>3, PointKeeps, ActivateKeeps, ReplaceKeeps, CommitKeeps DEF Committing
  <2>4. QED
    BY <1>2, <2>1, <2>2, <2>3, CloseKeeps, WriteKeeps DEF Step
<1>3. ASSUME NEW p \in Proc, Start(p) \/ Fail(p) \/ Crash(p) PROVE IInv' /\ UNCHANGED disk
  BY <1>3, StartKeeps, FailKeeps, CrashKeeps DEF Start, Fail, Crash, disk
<1>4. CASE Next
  <2>1. PICK p \in Proc : Start(p) \/ Step(p) \/ Fail(p) \/ Crash(p)
    BY <1>4 DEF Next
  <2>2. CASE Step(p)
    BY <1>2, <2>2 DEF Within
  <2>3. CASE Start(p) \/ Fail(p) \/ Crash(p)
    BY <1>3, <2>3 DEF Changed, disk
  <2>4. QED
    BY <2>1, <2>2, <2>3
<1>5. QED
  BY <1>1, <1>4

\* However the sessions of the processes, their kills and their failures
\* interleave, every process relies only on what is so.
THEOREM Invariance == Spec => []IInv
<1>1. IInv /\ [Next]_vars => IInv'
  BY NextKeeps
<1>2. QED
  BY InitInv, <1>1, PTL DEF Spec

THEOREM Types == Spec => []TypeOK
<1>1. IInv => TypeOK
  BY DEF IInv
<1>2. QED
  BY <1>1, Invariance, PTL

\* A directory in the middle of a transaction leads to the active journal of
\* the only transaction that changes it.
THEOREM InterruptedIsFound == Spec => []DirtyIsFound
<1>1. IInv => DirtyIsFound
  BY DEF IInv
<1>2. QED
  BY <1>1, Invariance, PTL

\* No recovery pointer leads to a journal that is gone or of other scopes.
THEOREM NeverRefused == Spec => []PointerLeads
<1>1. IInv => PointerLeads
  BY DEF IInv
<1>2. QED
  BY <1>1, Invariance, PTL

\* recover works on what the disk holds, though it read the journals before it
\* had locked all their directories.
THEOREM CopiesAreCurrent == Spec => []CopyIsCurrent
<1>1. IInv => CopyIsCurrent
  <2>1. SUFFICES ASSUME IInv, NEW p \in Proc, pc[p] \in RecoverPc
                 PROVE  Copy(p) = journal[Current(p)]
    BY DEF CopyIsCurrent
  <2>2. pc[p] \in Working
    BY <2>1 DEF Working
  <2>3. QED
    BY <2>1, <2>2, AtWork
<1>2. QED
  BY <1>1, Invariance, PTL

\* A session is handed out over directories that no transaction has left in
\* the middle, of whatever state directory.
THEOREM SessionsAreClean == Spec => []OpenedClean
<1>1. IInv => OpenedClean
  <2>1. SUFFICES ASSUME IInv, NEW p \in Proc, pc[p] = "opened"
                 PROVE  /\ \A d \in want[p] : dirty[d] = {} /\ pointer[d] = None
                        /\ journal[req[p].state].phase = "absent"
    BY DEF OpenedClean
  <2>2. /\ \A d \in want[p] : pointer[d] = None
        /\ journal[req[p].state].phase = "absent"
    BY <2>1 DEF IInv, Local, Opened
  <2>3. \A d \in want[p] : dirty[d] = {}
    BY <2>1, <2>2, NoneIsNew DEF IInv, DirtyIsFound, TypeOK
  <2>4. QED
    BY <2>2, <2>3
<1>2. QED
  BY <1>1, Invariance, PTL

\* A project's session holds the directories of all its exports.
THEOREM PriorExportsAreLocked == Spec => []PriorExportsLocked
<1>1. IInv => PriorExportsLocked
  BY DEF IInv, Local, Opened, ReceiptIn, PriorExportsLocked
<1>2. QED
  BY <1>1, Invariance, PTL

\* Nothing on the disk changes but under the lock of its directory.
THEOREM WritesAreLocked == Spec => OnlyHolderWrites
<1>1. IInv /\ [Next]_vars =>
        [\A d \in Dir : Changed(d) => \E p \in Proc : lock[d] = p /\ Step(p)]_vars
  BY NextKeeps
<1>2. QED
  BY <1>1, Invariance, PTL DEF Spec, OnlyHolderWrites
=============================================================================
