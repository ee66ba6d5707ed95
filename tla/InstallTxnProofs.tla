--------------------------- MODULE InstallTxnProofs ---------------------------
(***************************************************************************)
(* Proofs about InstallTxn for every number of destinations, every set of  *)
(* entries and scopes, and any number of transactions, crashes, failing    *)
(* calls and foreign edits.                                                *)
(*                                                                         *)
(* IInv (InstallTxnInv) is inductive: one lemma for each conjunct, with    *)
(* one step per action.  The safety properties follow from it.             *)
(***************************************************************************)
EXTENDS InstallTxnInv, TLAPS

\* What an early return before the journal is written leaves in the slots.
LEMMA DropFacts ==
  DropSlots => /\ slot' \in [Op -> BOOLEAN] /\ new' \in [Op -> Value]
               /\ \A i \in Op : ~slot'[i] /\ new'[i] = None
  BY DEF DropSlots, Value

\* The initial states satisfy the invariant.
LEMMA InitInv == Init => IInv
<1> SUFFICES ASSUME Init PROVE IInv
  OBVIOUS
<1> USE NAssumption DEF Init, Op, Value
<1>1. TypeOK
  <2>1. /\ slot \in [Op -> BOOLEAN]
        /\ new \in [Op -> Value] /\ backup \in [Op -> Value]
    OBVIOUS
  <2>2. /\ dest \in [Op -> Value]
        /\ before \in [Op -> Value] /\ after \in [Op -> Value]
    OBVIOUS
  <2>3. 1 \in Op
    OBVIOUS
  <2> QED BY <2>1, <2>2, <2>3 DEF TypeOK, JournalState, Pc
<1>2. JournalInv /\ FateInv /\ PointerInv
  BY DEF JournalInv, FateInv, PointerInv, Transacting, PreparePc, CommitPc,
         ForwardPc, RollbackPc, CleanupPc
<1>3. SlotInv /\ PreparedInv /\ SettledInv
  BY DEF SlotInv, PreparedInv, SettledInv, PreparePc
<1>4. ForwardInv /\ RollbackInv /\ ReplyInv /\ RaceInv
  BY DEF ForwardInv, RollbackInv, ReplyInv, RaceInv, HonestReply, Transacting,
         PreparePc, CommitPc, RecoverPc, RollbackPc
<1> QED BY <1>1, <1>2, <1>3, <1>4 DEF IInv

\* Every action keeps the types.
LEMMA TypeStep == TypeOK /\ [Next]_vars => TypeOK'
<1> SUFFICES ASSUME TypeOK, [Next]_vars PROVE TypeOK'
  OBVIOUS
<1> USE NAssumption, DropFacts, ProposalsAssumption DEF TypeOK, Op, Value,
   JournalState, Pc, PreparePc, CommitPc, RecoverPc, vars, disk, plan, answer,
   bounds, foreign
<1>1. CASE Open BY <1>1 DEF Open, FirstStep
<1>2. CASE Close BY <1>2 DEF Close
<1>3. CASE Begin
  <2> USE <1>3 DEF Begin
  <2>1. (dest \in [Op -> Value] /\ backup \in [Op -> Value])' OBVIOUS
  <2>2. (slot \in [Op -> BOOLEAN] /\ new \in [Op -> Value])' OBVIOUS
  <2>3. (before \in [Op -> Value] /\ after \in [Op -> Value])' OBVIOUS
  <2>4. (pc \in Pc /\ op \in Op /\ journal \in JournalState /\ pointers \subseteq Scope)' OBVIOUS
  <2> QED BY <2>1, <2>2, <2>3, <2>4
<1>4. CASE Prepare BY <1>4 DEF Prepare, NextOp
<1>5. CASE WriteJournal
  <2> USE <1>5 DEF WriteJournal
  <2>1. (dest \in [Op -> Value] /\ backup \in [Op -> Value])' OBVIOUS
  <2>2. (slot \in [Op -> BOOLEAN] /\ new \in [Op -> Value])' OBVIOUS
  <2>3. (before \in [Op -> Value] /\ after \in [Op -> Value])' OBVIOUS
  <2>4. (pc \in Pc /\ op \in Op /\ journal \in JournalState /\ pointers \subseteq Scope)' OBVIOUS
  <2> QED BY <2>1, <2>2, <2>3, <2>4
<1>6. CASE Point BY <1>6 DEF Point, Outcome
<1>7. CASE Activate BY <1>7 DEF Activate, Outcome
<1>8. CASE Check BY <1>8 DEF Check, AfterCheck
<1>9. CASE Backup
  <2> USE <1>9 DEF Backup, Outcome
  <2>1. (dest \in [Op -> Value] /\ backup \in [Op -> Value])' OBVIOUS
  <2>2. (slot \in [Op -> BOOLEAN] /\ new \in [Op -> Value])' OBVIOUS
  <2>3. (before \in [Op -> Value] /\ after \in [Op -> Value])' OBVIOUS
  <2>4. (pc \in Pc /\ op \in Op /\ journal \in JournalState /\ pointers \subseteq Scope)' OBVIOUS
  <2> QED BY <2>1, <2>2, <2>3, <2>4
<1>10. CASE Publish
  <2> USE <1>10 DEF Publish, Outcome, Advance, NextOp
  <2>1. (dest \in [Op -> Value] /\ backup \in [Op -> Value])' OBVIOUS
  <2>2. (slot \in [Op -> BOOLEAN] /\ new \in [Op -> Value])' OBVIOUS
  <2>3. (before \in [Op -> Value] /\ after \in [Op -> Value])' OBVIOUS
  <2>4. (pc \in Pc /\ op \in Op /\ journal \in JournalState /\ pointers \subseteq Scope)' OBVIOUS
  <2> QED BY <2>1, <2>2, <2>3, <2>4
<1>11. CASE Commit BY <1>11 DEF Commit, AfterMark
<1>12. CASE Failed BY <1>12 DEF Failed, FirstStep, PersistedCommit
<1>13. CASE Inspect BY <1>13 DEF Inspect, Conflicted, Return, Retreat, PrevOp
<1>14. CASE Unpublish
  <2> USE <1>14 DEF Unpublish, Return, Retreat, PrevOp
  <2>1. (dest \in [Op -> Value] /\ backup \in [Op -> Value])' OBVIOUS
  <2>2. (slot \in [Op -> BOOLEAN] /\ new \in [Op -> Value])' OBVIOUS
  <2>3. (before \in [Op -> Value] /\ after \in [Op -> Value])' OBVIOUS
  <2>4. (pc \in Pc /\ op \in Op /\ journal \in JournalState /\ pointers \subseteq Scope)' OBVIOUS
  <2> QED BY <2>1, <2>2, <2>3, <2>4
<1>15. CASE Restore
  <2> USE <1>15 DEF Restore, Return, Retreat, PrevOp
  <2>1. (dest \in [Op -> Value] /\ backup \in [Op -> Value])' OBVIOUS
  <2>2. (slot \in [Op -> BOOLEAN] /\ new \in [Op -> Value])' OBVIOUS
  <2>3. (before \in [Op -> Value] /\ after \in [Op -> Value])' OBVIOUS
  <2>4. (pc \in Pc /\ op \in Op /\ journal \in JournalState /\ pointers \subseteq Scope)' OBVIOUS
  <2> QED BY <2>1, <2>2, <2>3, <2>4
<1>16. CASE Mark BY <1>16 DEF Mark, AfterMark, Return
<1>17. CASE Unpoint BY <1>17 DEF Unpoint, AfterPointers, Return
<1>18. CASE Unslot
  <2> USE <1>18 DEF Unslot, Return
  <2>1. (dest \in [Op -> Value] /\ backup \in [Op -> Value])' OBVIOUS
  <2>2. (slot \in [Op -> BOOLEAN] /\ new \in [Op -> Value])' OBVIOUS
  <2>3. (before \in [Op -> Value] /\ after \in [Op -> Value])' OBVIOUS
  <2>4. (pc \in Pc /\ op \in Op /\ journal \in JournalState /\ pointers \subseteq Scope)' OBVIOUS
  <2> QED BY <2>1, <2>2, <2>3, <2>4
<1>19. CASE Unjournal BY <1>19 DEF Unjournal, Return
<1>20. CASE Refuse BY <1>20 DEF Refuse
<1>21. CASE CommitError BY <1>21 DEF CommitError
<1>22. CASE ReadBackError BY <1>22 DEF ReadBackError
<1>23. CASE RecoverError BY <1>23 DEF RecoverError, Return
<1>24. CASE Crash
  <2> USE <1>24 DEF Crash
  <2>1. (dest \in [Op -> Value] /\ backup \in [Op -> Value])' OBVIOUS
  <2>2. (slot \in [Op -> BOOLEAN] /\ new \in [Op -> Value])' OBVIOUS
  <2>3. (before \in [Op -> Value] /\ after \in [Op -> Value])' OBVIOUS
  <2>4. (pc \in Pc /\ op \in Op /\ journal \in JournalState /\ pointers \subseteq Scope)' OBVIOUS
  <2> QED BY <2>1, <2>2, <2>3, <2>4
<1>25. CASE Edit BY <1>25 DEF Edit
<1>26. CASE UNCHANGED vars BY <1>26
<1> QED BY <1>1, <1>2, <1>3, <1>4, <1>5, <1>6, <1>7, <1>8, <1>9, <1>10, <1>11,
   <1>12, <1>13, <1>14, <1>15, <1>16, <1>17, <1>18, <1>19, <1>20, <1>21,
   <1>22, <1>23, <1>24, <1>25, <1>26 DEF Next, Program, CommitStep,
   RecoverStep, Errors

\* The control point always tells the journal's flags.
LEMMA JournalStep == TypeOK /\ JournalInv /\ [Next]_vars => JournalInv'
<1> SUFFICES ASSUME TypeOK, JournalInv, [Next]_vars PROVE JournalInv'
  OBVIOUS
<1> USE DEF TypeOK, JournalInv, JournalState, ForwardPc, RollbackPc,
   CleanupPc, Pc, PreparePc, CommitPc, RecoverPc, vars, disk, plan, answer,
   bounds, foreign
<1>1. CASE Open BY <1>1 DEF Open, FirstStep
<1>2. CASE Close BY <1>2 DEF Close
<1>3. CASE Begin BY <1>3 DEF Begin
<1>4. CASE Prepare BY <1>4 DEF Prepare, NextOp
<1>5. CASE WriteJournal BY <1>5 DEF WriteJournal
<1>6. CASE Point BY <1>6 DEF Point, Outcome
<1>7. CASE Activate BY <1>7 DEF Activate, Outcome
<1>8. CASE Check BY <1>8 DEF Check, AfterCheck
<1>9. CASE Backup BY <1>9 DEF Backup, Outcome
<1>10. CASE Publish BY <1>10 DEF Publish, Outcome, Advance, NextOp
<1>11. CASE Commit BY <1>11 DEF Commit, AfterMark
<1>12. CASE Failed BY <1>12 DEF Failed, FirstStep, PersistedCommit
<1>13. CASE Inspect BY <1>13 DEF Inspect, Conflicted, Return, Retreat, PrevOp
<1>14. CASE Unpublish BY <1>14 DEF Unpublish, Return, Retreat, PrevOp
<1>15. CASE Restore BY <1>15 DEF Restore, Return, Retreat, PrevOp
<1>16. CASE Mark BY <1>16 DEF Mark, AfterMark, Return
<1>17. CASE Unpoint BY <1>17 DEF Unpoint, AfterPointers, Return
<1>18. CASE Unslot BY <1>18 DEF Unslot, Return
<1>19. CASE Unjournal BY <1>19 DEF Unjournal, Return
<1>20. CASE Refuse BY <1>20 DEF Refuse
<1>21. CASE CommitError BY <1>21 DEF CommitError
<1>22. CASE ReadBackError BY <1>22 DEF ReadBackError
<1>23. CASE RecoverError BY <1>23 DEF RecoverError, Return
<1>24. CASE Crash BY <1>24 DEF Crash
<1>25. CASE Edit BY <1>25 DEF Edit
<1>26. CASE UNCHANGED vars BY <1>26
<1> QED BY <1>1, <1>2, <1>3, <1>4, <1>5, <1>6, <1>7, <1>8, <1>9, <1>10, <1>11,
   <1>12, <1>13, <1>14, <1>15, <1>16, <1>17, <1>18, <1>19, <1>20, <1>21,
   <1>22, <1>23, <1>24, <1>25, <1>26 DEF Next, Program, CommitStep,
   RecoverStep, Errors

\* What is decided is decided by the journal on disk, and once.
LEMMA FateStep == TypeOK /\ JournalInv /\ FateInv /\ [Next]_vars => FateInv'
<1> SUFFICES ASSUME TypeOK, JournalInv, FateInv, [Next]_vars PROVE FateInv'
  OBVIOUS
<1> USE DEF TypeOK, FateInv, Transacting, JournalInv, JournalState, ForwardPc,
   RollbackPc, CleanupPc, Pc, PreparePc, CommitPc, RecoverPc, vars, disk,
   plan, answer, bounds, foreign
<1>1. CASE Open BY <1>1 DEF Open, FirstStep
<1>2. CASE Close BY <1>2 DEF Close
<1>3. CASE Begin BY <1>3 DEF Begin
<1>4. CASE Prepare BY <1>4 DEF Prepare, NextOp
<1>5. CASE WriteJournal BY <1>5 DEF WriteJournal
<1>6. CASE Point BY <1>6 DEF Point, Outcome
<1>7. CASE Activate BY <1>7 DEF Activate, Outcome
<1>8. CASE Check BY <1>8 DEF Check, AfterCheck
<1>9. CASE Backup BY <1>9 DEF Backup, Outcome
<1>10. CASE Publish BY <1>10 DEF Publish, Outcome, Advance, NextOp
<1>11. CASE Commit BY <1>11 DEF Commit, AfterMark
<1>12. CASE Failed BY <1>12 DEF Failed, FirstStep, PersistedCommit
<1>13. CASE Inspect BY <1>13 DEF Inspect, Conflicted, Return, Retreat, PrevOp
<1>14. CASE Unpublish BY <1>14 DEF Unpublish, Return, Retreat, PrevOp
<1>15. CASE Restore BY <1>15 DEF Restore, Return, Retreat, PrevOp
<1>16. CASE Mark BY <1>16 DEF Mark, AfterMark, Return
<1>17. CASE Unpoint BY <1>17 DEF Unpoint, AfterPointers, Return
<1>18. CASE Unslot BY <1>18 DEF Unslot, Return
<1>19. CASE Unjournal BY <1>19 DEF Unjournal, Return
<1>20. CASE Refuse BY <1>20 DEF Refuse
<1>21. CASE CommitError BY <1>21 DEF CommitError
<1>22. CASE ReadBackError BY <1>22 DEF ReadBackError
<1>23. CASE RecoverError BY <1>23 DEF RecoverError, Return
<1>24. CASE Crash BY <1>24 DEF Crash
<1>25. CASE Edit BY <1>25 DEF Edit
<1>26. CASE UNCHANGED vars BY <1>26
<1> QED BY <1>1, <1>2, <1>3, <1>4, <1>5, <1>6, <1>7, <1>8, <1>9, <1>10, <1>11,
   <1>12, <1>13, <1>14, <1>15, <1>16, <1>17, <1>18, <1>19, <1>20, <1>21,
   <1>22, <1>23, <1>24, <1>25, <1>26 DEF Next, Program, CommitStep,
   RecoverStep, Errors

\* A slot is there as long as something may have to be moved back.
LEMMA SlotStep == TypeOK /\ JournalInv /\ SlotInv /\ PreparedInv /\
   [Next]_vars => SlotInv'
<1> SUFFICES ASSUME TypeOK, JournalInv, SlotInv, PreparedInv, [Next]_vars
   PROVE SlotInv'
  OBVIOUS
<1> USE NAssumption, DropFacts DEF TypeOK, SlotInv, PreparedInv, Op, Value,
   JournalInv, JournalState, ForwardPc, RollbackPc, CleanupPc, Pc, PreparePc,
   CommitPc, RecoverPc, vars, disk, plan, answer, bounds, foreign
<1>1. CASE Open BY <1>1 DEF Open, FirstStep
<1>2. CASE Close BY <1>2 DEF Close
<1>3. CASE Begin BY <1>3 DEF Begin
<1>4. CASE Prepare BY <1>4 DEF Prepare, NextOp
<1>5. CASE WriteJournal BY <1>5 DEF WriteJournal
<1>6. CASE Point BY <1>6 DEF Point, Outcome
<1>7. CASE Activate BY <1>7 DEF Activate, Outcome
<1>8. CASE Check BY <1>8 DEF Check, AfterCheck
<1>9. CASE Backup BY <1>9 DEF Backup, Outcome
<1>10. CASE Publish BY <1>10 DEF Publish, Outcome, Advance, NextOp
<1>11. CASE Commit BY <1>11 DEF Commit, AfterMark
<1>12. CASE Failed BY <1>12 DEF Failed, FirstStep, PersistedCommit
<1>13. CASE Inspect BY <1>13 DEF Inspect, Conflicted, Return, Retreat, PrevOp
<1>14. CASE Unpublish BY <1>14 DEF Unpublish, Return, Retreat, PrevOp
<1>15. CASE Restore BY <1>15 DEF Restore, Return, Retreat, PrevOp
<1>16. CASE Mark BY <1>16 DEF Mark, AfterMark, Return
<1>17. CASE Unpoint BY <1>17 DEF Unpoint, AfterPointers, Return
<1>18. CASE Unslot BY <1>18 DEF Unslot, Return
<1>19. CASE Unjournal BY <1>19 DEF Unjournal, Return
<1>20. CASE Refuse BY <1>20 DEF Refuse
<1>21. CASE CommitError BY <1>21 DEF CommitError
<1>22. CASE ReadBackError BY <1>22 DEF ReadBackError
<1>23. CASE RecoverError BY <1>23 DEF RecoverError, Return
<1>24. CASE Crash BY <1>24 DEF Crash
<1>25. CASE Edit BY <1>25 DEF Edit
<1>26. CASE UNCHANGED vars BY <1>26
<1> QED BY <1>1, <1>2, <1>3, <1>4, <1>5, <1>6, <1>7, <1>8, <1>9, <1>10, <1>11,
   <1>12, <1>13, <1>14, <1>15, <1>16, <1>17, <1>18, <1>19, <1>20, <1>21,
   <1>22, <1>23, <1>24, <1>25, <1>26 DEF Next, Program, CommitStep,
   RecoverStep, Errors

\* Nothing is displaced before the journal is active.
LEMMA PreparedStep == TypeOK /\ JournalInv /\ SlotInv /\ PreparedInv /\
   [Next]_vars => PreparedInv'
<1> SUFFICES ASSUME TypeOK, JournalInv, SlotInv, PreparedInv, [Next]_vars
   PROVE PreparedInv'
  OBVIOUS
<1> USE NAssumption, DropFacts DEF TypeOK, SlotInv, PreparedInv, Op, Value,
   JournalInv, JournalState, ForwardPc, RollbackPc, CleanupPc, Pc, PreparePc,
   CommitPc, RecoverPc, vars, disk, plan, answer, bounds, foreign
<1>1. CASE Open BY <1>1 DEF Open, FirstStep
<1>2. CASE Close BY <1>2 DEF Close
<1>3. CASE Begin BY <1>3 DEF Begin
<1>4. CASE Prepare BY <1>4 DEF Prepare, NextOp
<1>5. CASE WriteJournal BY <1>5 DEF WriteJournal
<1>6. CASE Point BY <1>6 DEF Point, Outcome
<1>7. CASE Activate BY <1>7 DEF Activate, Outcome
<1>8. CASE Check BY <1>8 DEF Check, AfterCheck
<1>9. CASE Backup BY <1>9 DEF Backup, Outcome
<1>10. CASE Publish BY <1>10 DEF Publish, Outcome, Advance, NextOp
<1>11. CASE Commit BY <1>11 DEF Commit, AfterMark
<1>12. CASE Failed BY <1>12 DEF Failed, FirstStep, PersistedCommit
<1>13. CASE Inspect BY <1>13 DEF Inspect, Conflicted, Return, Retreat, PrevOp
<1>14. CASE Unpublish BY <1>14 DEF Unpublish, Return, Retreat, PrevOp
<1>15. CASE Restore BY <1>15 DEF Restore, Return, Retreat, PrevOp
<1>16. CASE Mark BY <1>16 DEF Mark, AfterMark, Return
<1>17. CASE Unpoint BY <1>17 DEF Unpoint, AfterPointers, Return
<1>18. CASE Unslot BY <1>18 DEF Unslot, Return
<1>19. CASE Unjournal BY <1>19 DEF Unjournal, Return
<1>20. CASE Refuse BY <1>20 DEF Refuse
<1>21. CASE CommitError BY <1>21 DEF CommitError
<1>22. CASE ReadBackError BY <1>22 DEF ReadBackError
<1>23. CASE RecoverError BY <1>23 DEF RecoverError, Return
<1>24. CASE Crash BY <1>24 DEF Crash
<1>25. CASE Edit BY <1>25 DEF Edit
<1>26. CASE UNCHANGED vars BY <1>26
<1> QED BY <1>1, <1>2, <1>3, <1>4, <1>5, <1>6, <1>7, <1>8, <1>9, <1>10, <1>11,
   <1>12, <1>13, <1>14, <1>15, <1>16, <1>17, <1>18, <1>19, <1>20, <1>21,
   <1>22, <1>23, <1>24, <1>25, <1>26 DEF Next, Program, CommitStep,
   RecoverStep, Errors

\* The last pointer goes before the journal.
LEMMA PointerStep == TypeOK /\ JournalInv /\ PointerInv /\ [Next]_vars =>
   PointerInv'
<1> SUFFICES ASSUME TypeOK, JournalInv, PointerInv, [Next]_vars PROVE
   PointerInv'
  OBVIOUS
<1> USE DEF TypeOK, PointerInv, JournalInv, JournalState, ForwardPc,
   RollbackPc, CleanupPc, Pc, PreparePc, CommitPc, RecoverPc, vars, disk,
   plan, answer, bounds, foreign
<1>1. CASE Open BY <1>1 DEF Open, FirstStep
<1>2. CASE Close BY <1>2 DEF Close
<1>3. CASE Begin BY <1>3 DEF Begin
<1>4. CASE Prepare BY <1>4 DEF Prepare, NextOp
<1>5. CASE WriteJournal BY <1>5 DEF WriteJournal
<1>6. CASE Point BY <1>6 DEF Point, Outcome
<1>7. CASE Activate BY <1>7 DEF Activate, Outcome
<1>8. CASE Check BY <1>8 DEF Check, AfterCheck
<1>9. CASE Backup BY <1>9 DEF Backup, Outcome
<1>10. CASE Publish BY <1>10 DEF Publish, Outcome, Advance, NextOp
<1>11. CASE Commit BY <1>11 DEF Commit, AfterMark
<1>12. CASE Failed BY <1>12 DEF Failed, FirstStep, PersistedCommit
<1>13. CASE Inspect BY <1>13 DEF Inspect, Conflicted, Return, Retreat, PrevOp
<1>14. CASE Unpublish BY <1>14 DEF Unpublish, Return, Retreat, PrevOp
<1>15. CASE Restore BY <1>15 DEF Restore, Return, Retreat, PrevOp
<1>16. CASE Mark BY <1>16 DEF Mark, AfterMark, Return
<1>17. CASE Unpoint BY <1>17 DEF Unpoint, AfterPointers, Return
<1>18. CASE Unslot BY <1>18 DEF Unslot, Return
<1>19. CASE Unjournal BY <1>19 DEF Unjournal, Return
<1>20. CASE Refuse BY <1>20 DEF Refuse
<1>21. CASE CommitError BY <1>21 DEF CommitError
<1>22. CASE ReadBackError BY <1>22 DEF ReadBackError
<1>23. CASE RecoverError BY <1>23 DEF RecoverError, Return
<1>24. CASE Crash BY <1>24 DEF Crash
<1>25. CASE Edit BY <1>25 DEF Edit
<1>26. CASE UNCHANGED vars BY <1>26
<1> QED BY <1>1, <1>2, <1>3, <1>4, <1>5, <1>6, <1>7, <1>8, <1>9, <1>10, <1>11,
   <1>12, <1>13, <1>14, <1>15, <1>16, <1>17, <1>18, <1>19, <1>20, <1>21,
   <1>22, <1>23, <1>24, <1>25, <1>26 DEF Next, Program, CommitStep,
   RecoverStep, Errors

\* The answer is the decision.
LEMMA ReplyStep == TypeOK /\ JournalInv /\ FateInv /\ ReplyInv /\ [Next]_vars
   => ReplyInv'
<1> SUFFICES ASSUME TypeOK, JournalInv, FateInv, ReplyInv, [Next]_vars PROVE
   ReplyInv'
  OBVIOUS
<1> USE DEF TypeOK, ReplyInv, HonestReply, FateInv, Transacting, JournalInv,
   JournalState, ForwardPc, RollbackPc, CleanupPc, Pc, PreparePc, CommitPc,
   RecoverPc, vars, disk, plan, answer, bounds, foreign
<1>1. CASE Open BY <1>1 DEF Open, FirstStep
<1>2. CASE Close BY <1>2 DEF Close
<1>3. CASE Begin BY <1>3 DEF Begin
<1>4. CASE Prepare BY <1>4 DEF Prepare, NextOp
<1>5. CASE WriteJournal BY <1>5 DEF WriteJournal
<1>6. CASE Point BY <1>6 DEF Point, Outcome
<1>7. CASE Activate BY <1>7 DEF Activate, Outcome
<1>8. CASE Check BY <1>8 DEF Check, AfterCheck
<1>9. CASE Backup BY <1>9 DEF Backup, Outcome
<1>10. CASE Publish BY <1>10 DEF Publish, Outcome, Advance, NextOp
<1>11. CASE Commit BY <1>11 DEF Commit, AfterMark
<1>12. CASE Failed BY <1>12 DEF Failed, FirstStep, PersistedCommit
<1>13. CASE Inspect BY <1>13 DEF Inspect, Conflicted, Return, Retreat, PrevOp
<1>14. CASE Unpublish BY <1>14 DEF Unpublish, Return, Retreat, PrevOp
<1>15. CASE Restore BY <1>15 DEF Restore, Return, Retreat, PrevOp
<1>16. CASE Mark BY <1>16 DEF Mark, AfterMark, Return
<1>17. CASE Unpoint BY <1>17 DEF Unpoint, AfterPointers, Return
<1>18. CASE Unslot BY <1>18 DEF Unslot, Return
<1>19. CASE Unjournal BY <1>19 DEF Unjournal, Return
<1>20. CASE Refuse BY <1>20 DEF Refuse
<1>21. CASE CommitError BY <1>21 DEF CommitError
<1>22. CASE ReadBackError BY <1>22 DEF ReadBackError
<1>23. CASE RecoverError BY <1>23 DEF RecoverError, Return
<1>24. CASE Crash BY <1>24 DEF Crash
<1>25. CASE Edit BY <1>25 DEF Edit
<1>26. CASE UNCHANGED vars BY <1>26
<1> QED BY <1>1, <1>2, <1>3, <1>4, <1>5, <1>6, <1>7, <1>8, <1>9, <1>10, <1>11,
   <1>12, <1>13, <1>14, <1>15, <1>16, <1>17, <1>18, <1>19, <1>20, <1>21,
   <1>22, <1>23, <1>24, <1>25, <1>26 DEF Next, Program, CommitStep,
   RecoverStep, Errors

\* Every destination can be put back until all are in place.
LEMMA SettledStep == IInv /\ [Next]_vars => SettledInv'
<1> SUFFICES ASSUME IInv, [Next]_vars PROVE SettledInv'
  OBVIOUS
<1> USE NAssumption DEF IInv, TypeOK, SettledInv, PreparedInv, ForwardInv,
   RollbackInv, Recoverable, Untouched, BackedUp, Published, FateInv,
   Transacting, Op, Value, JournalInv, JournalState, ForwardPc, RollbackPc,
   CleanupPc, Pc, PreparePc, CommitPc, RecoverPc, vars, disk, plan, answer,
   bounds, foreign
<1>1. CASE Open BY <1>1 DEF Open, FirstStep
<1>2. CASE Close BY <1>2 DEF Close
<1>3. CASE Begin BY <1>3 DEF Begin
<1>4. CASE Prepare BY <1>4 DEF Prepare, NextOp
<1>5. CASE WriteJournal BY <1>5 DEF WriteJournal
<1>6. CASE Point BY <1>6 DEF Point, Outcome
<1>7. CASE Activate BY <1>7 DEF Activate, Outcome
<1>8. CASE Check BY <1>8 DEF Check, AfterCheck
<1>9. CASE Backup BY <1>9 DEF Backup, Outcome
<1>10. CASE Publish BY <1>10 DEF Publish, Outcome, Advance, NextOp
<1>11. CASE Commit BY <1>11 DEF Commit, AfterMark
<1>12. CASE Failed BY <1>12 DEF Failed, FirstStep, PersistedCommit
<1>13. CASE Inspect BY <1>13 DEF Inspect, Conflicted, Return, Retreat, PrevOp
<1>14. CASE Unpublish BY <1>14 DEF Unpublish, Return, Retreat, PrevOp
<1>15. CASE Restore BY <1>15 DEF Restore, Return, Retreat, PrevOp
<1>16. CASE Mark BY <1>16 DEF Mark, AfterMark, Return
<1>17. CASE Unpoint BY <1>17 DEF Unpoint, AfterPointers, Return
<1>18. CASE Unslot BY <1>18 DEF Unslot, Return
<1>19. CASE Unjournal BY <1>19 DEF Unjournal, Return
<1>20. CASE Refuse BY <1>20 DEF Refuse
<1>21. CASE CommitError BY <1>21 DEF CommitError
<1>22. CASE ReadBackError BY <1>22 DEF ReadBackError
<1>23. CASE RecoverError BY <1>23 DEF RecoverError, Return
<1>24. CASE Crash BY <1>24 DEF Crash
<1>25. CASE Edit BY <1>25 DEF Edit
<1>26. CASE UNCHANGED vars BY <1>26
<1> QED BY <1>1, <1>2, <1>3, <1>4, <1>5, <1>6, <1>7, <1>8, <1>9, <1>10, <1>11,
   <1>12, <1>13, <1>14, <1>15, <1>16, <1>17, <1>18, <1>19, <1>20, <1>21,
   <1>22, <1>23, <1>24, <1>25, <1>26 DEF Next, Program, CommitStep,
   RecoverStep, Errors

\* The loop of commit_inner: below op replaced, above op untouched.
LEMMA ForwardStep == IInv /\ [Next]_vars => ForwardInv'
<1> SUFFICES ASSUME IInv, [Next]_vars PROVE ForwardInv'
  OBVIOUS
<1> USE NAssumption DEF IInv, TypeOK, SettledInv, PreparedInv, ForwardInv,
   RollbackInv, Recoverable, Untouched, BackedUp, Published, FateInv,
   Transacting, Op, Value, JournalInv, JournalState, ForwardPc, RollbackPc,
   CleanupPc, Pc, PreparePc, CommitPc, RecoverPc, vars, disk, plan, answer,
   bounds, foreign
<1>1. CASE Open BY <1>1 DEF Open, FirstStep
<1>2. CASE Close BY <1>2 DEF Close
<1>3. CASE Begin BY <1>3 DEF Begin
<1>4. CASE Prepare BY <1>4 DEF Prepare, NextOp
<1>5. CASE WriteJournal BY <1>5 DEF WriteJournal
<1>6. CASE Point BY <1>6 DEF Point, Outcome
<1>7. CASE Activate BY <1>7 DEF Activate, Outcome
<1>8. CASE Check BY <1>8 DEF Check, AfterCheck
<1>9. CASE Backup BY <1>9 DEF Backup, Outcome
<1>10. CASE Publish BY <1>10 DEF Publish, Outcome, Advance, NextOp
<1>11. CASE Commit BY <1>11 DEF Commit, AfterMark
<1>12. CASE Failed BY <1>12 DEF Failed, FirstStep, PersistedCommit
<1>13. CASE Inspect BY <1>13 DEF Inspect, Conflicted, Return, Retreat, PrevOp
<1>14. CASE Unpublish BY <1>14 DEF Unpublish, Return, Retreat, PrevOp
<1>15. CASE Restore BY <1>15 DEF Restore, Return, Retreat, PrevOp
<1>16. CASE Mark BY <1>16 DEF Mark, AfterMark, Return
<1>17. CASE Unpoint BY <1>17 DEF Unpoint, AfterPointers, Return
<1>18. CASE Unslot BY <1>18 DEF Unslot, Return
<1>19. CASE Unjournal BY <1>19 DEF Unjournal, Return
<1>20. CASE Refuse BY <1>20 DEF Refuse
<1>21. CASE CommitError BY <1>21 DEF CommitError
<1>22. CASE ReadBackError BY <1>22 DEF ReadBackError
<1>23. CASE RecoverError BY <1>23 DEF RecoverError, Return
<1>24. CASE Crash BY <1>24 DEF Crash
<1>25. CASE Edit BY <1>25 DEF Edit
<1>26. CASE UNCHANGED vars BY <1>26
<1> QED BY <1>1, <1>2, <1>3, <1>4, <1>5, <1>6, <1>7, <1>8, <1>9, <1>10, <1>11,
   <1>12, <1>13, <1>14, <1>15, <1>16, <1>17, <1>18, <1>19, <1>20, <1>21,
   <1>22, <1>23, <1>24, <1>25, <1>26 DEF Next, Program, CommitStep,
   RecoverStep, Errors

\* The loop of recover: above op restored.
LEMMA RollbackStep == IInv /\ [Next]_vars => RollbackInv'
<1> SUFFICES ASSUME IInv, [Next]_vars PROVE RollbackInv'
  OBVIOUS
<1> USE NAssumption DEF IInv, TypeOK, SettledInv, PreparedInv, ForwardInv,
   RollbackInv, Recoverable, Untouched, BackedUp, Published, FateInv,
   Transacting, Op, Value, JournalInv, JournalState, ForwardPc, RollbackPc,
   CleanupPc, Pc, PreparePc, CommitPc, RecoverPc, vars, disk, plan, answer,
   bounds, foreign
<1>1. CASE Open BY <1>1 DEF Open, FirstStep
<1>2. CASE Close BY <1>2 DEF Close
<1>3. CASE Begin BY <1>3 DEF Begin
<1>4. CASE Prepare BY <1>4 DEF Prepare, NextOp
<1>5. CASE WriteJournal BY <1>5 DEF WriteJournal
<1>6. CASE Point BY <1>6 DEF Point, Outcome
<1>7. CASE Activate BY <1>7 DEF Activate, Outcome
<1>8. CASE Check BY <1>8 DEF Check, AfterCheck
<1>9. CASE Backup BY <1>9 DEF Backup, Outcome
<1>10. CASE Publish BY <1>10 DEF Publish, Outcome, Advance, NextOp
<1>11. CASE Commit BY <1>11 DEF Commit, AfterMark
<1>12. CASE Failed BY <1>12 DEF Failed, FirstStep, PersistedCommit
<1>13. CASE Inspect BY <1>13 DEF Inspect, Conflicted, Return, Retreat, PrevOp
<1>14. CASE Unpublish BY <1>14 DEF Unpublish, Return, Retreat, PrevOp
<1>15. CASE Restore BY <1>15 DEF Restore, Return, Retreat, PrevOp
<1>16. CASE Mark BY <1>16 DEF Mark, AfterMark, Return
<1>17. CASE Unpoint BY <1>17 DEF Unpoint, AfterPointers, Return
<1>18. CASE Unslot BY <1>18 DEF Unslot, Return
<1>19. CASE Unjournal BY <1>19 DEF Unjournal, Return
<1>20. CASE Refuse BY <1>20 DEF Refuse
<1>21. CASE CommitError BY <1>21 DEF CommitError
<1>22. CASE ReadBackError BY <1>22 DEF ReadBackError
<1>23. CASE RecoverError BY <1>23 DEF RecoverError, Return
<1>24. CASE Crash BY <1>24 DEF Crash
<1>25. CASE Edit BY <1>25 DEF Edit
<1>26. CASE UNCHANGED vars BY <1>26
<1> QED BY <1>1, <1>2, <1>3, <1>4, <1>5, <1>6, <1>7, <1>8, <1>9, <1>10, <1>11,
   <1>12, <1>13, <1>14, <1>15, <1>16, <1>17, <1>18, <1>19, <1>20, <1>21,
   <1>22, <1>23, <1>24, <1>25, <1>26 DEF Next, Program, CommitStep,
   RecoverStep, Errors

\* A rename meets what the check before it saw.
LEMMA RaceStep == TypeOK /\ RaceInv /\ [Next]_vars => RaceInv'
<1> SUFFICES ASSUME TypeOK, RaceInv, [Next]_vars PROVE RaceInv'
  OBVIOUS
<1> USE NAssumption DEF TypeOK, RaceInv, Op, Value, Pc, PreparePc, CommitPc,
   RecoverPc, vars, disk, plan, answer, bounds, foreign
<1>1. CASE Open BY <1>1 DEF Open, FirstStep
<1>2. CASE Close BY <1>2 DEF Close
<1>3. CASE Begin BY <1>3 DEF Begin
<1>4. CASE Prepare BY <1>4 DEF Prepare, NextOp
<1>5. CASE WriteJournal BY <1>5 DEF WriteJournal
<1>6. CASE Point BY <1>6 DEF Point, Outcome
<1>7. CASE Activate BY <1>7 DEF Activate, Outcome
<1>8. CASE Check BY <1>8 DEF Check, AfterCheck
<1>9. CASE Backup BY <1>9 DEF Backup, Outcome
<1>10. CASE Publish BY <1>10 DEF Publish, Outcome, Advance, NextOp
<1>11. CASE Commit BY <1>11 DEF Commit, AfterMark
<1>12. CASE Failed BY <1>12 DEF Failed, FirstStep, PersistedCommit
<1>13. CASE Inspect BY <1>13 DEF Inspect, Conflicted, Return, Retreat, PrevOp
<1>14. CASE Unpublish BY <1>14 DEF Unpublish, Return, Retreat, PrevOp
<1>15. CASE Restore BY <1>15 DEF Restore, Return, Retreat, PrevOp
<1>16. CASE Mark BY <1>16 DEF Mark, AfterMark, Return
<1>17. CASE Unpoint BY <1>17 DEF Unpoint, AfterPointers, Return
<1>18. CASE Unslot BY <1>18 DEF Unslot, Return
<1>19. CASE Unjournal BY <1>19 DEF Unjournal, Return
<1>20. CASE Refuse BY <1>20 DEF Refuse
<1>21. CASE CommitError BY <1>21 DEF CommitError
<1>22. CASE ReadBackError BY <1>22 DEF ReadBackError
<1>23. CASE RecoverError BY <1>23 DEF RecoverError, Return
<1>24. CASE Crash BY <1>24 DEF Crash
<1>25. CASE Edit BY <1>25 DEF Edit
<1>26. CASE UNCHANGED vars BY <1>26
<1> QED BY <1>1, <1>2, <1>3, <1>4, <1>5, <1>6, <1>7, <1>8, <1>9, <1>10, <1>11,
   <1>12, <1>13, <1>14, <1>15, <1>16, <1>17, <1>18, <1>19, <1>20, <1>21,
   <1>22, <1>23, <1>24, <1>25, <1>26 DEF Next, Program, CommitStep,
   RecoverStep, Errors

-----------------------------------------------------------------------------
\* Type correctness of the journaled replacement.
THEOREM TypeCorrect == Spec => []TypeOK
<1>1. Init => TypeOK
  BY InitInv DEF IInv
<1> QED BY <1>1, TypeStep, PTL DEF Spec

\* The inductive invariant holds in every reachable state.
THEOREM Invariance == Spec => []IInv
<1>1. IInv /\ [Next]_vars => IInv'
  <2> SUFFICES ASSUME IInv, [Next]_vars PROVE IInv'
    OBVIOUS
  <2>1. TypeOK' /\ JournalInv' /\ FateInv'
    BY TypeStep, JournalStep, FateStep DEF IInv
  <2>2. SlotInv' /\ PreparedInv' /\ PointerInv'
    BY SlotStep, PreparedStep, PointerStep DEF IInv
  <2>3. SettledInv' /\ ForwardInv' /\ RollbackInv'
    BY SettledStep, ForwardStep, RollbackStep
  <2>4. ReplyInv' /\ RaceInv'
    BY ReplyStep, RaceStep DEF IInv
  <2> QED BY <2>1, <2>2, <2>3, <2>4 DEF IInv
<1> QED BY InitInv, <1>1, PTL DEF Spec

\* commit_inner and recover install everything or nothing, whatever was
\* interrupted or failed.
THEOREM AllOrNothingHolds == Spec => []AllOrNothing
<1>1. IInv => AllOrNothing
  BY DEF IInv, AllOrNothing, AtRest, SettledInv
<1> QED BY <1>1, Invariance, PTL

\* No prior entry is lost before the commit point.
THEOREM OldKeptHolds == Spec => []OldKept
<1>1. IInv => OldKept
  BY DEF IInv, OldKept, SettledInv, Recoverable, Untouched, BackedUp, Published
<1> QED BY <1>1, Invariance, PTL

\* The result of Session::commit is what the journal on disk decided.
THEOREM HonestReplyHolds == Spec => []HonestReply
<1>1. IInv => HonestReply
  BY DEF IInv, ReplyInv
<1> QED BY <1>1, Invariance, PTL

\* A recovery pointer never leads to a deleted journal.
THEOREM PointersLeadHolds == Spec => []PointersLead
<1>1. IInv => PointersLead
  BY DEF IInv, PointerInv, PointersLead
<1> QED BY <1>1, Invariance, PTL

\* No slot outlives the journal that names it.
THEOREM NoStraySlots == Spec => []NoSlotOutlivesJournal
<1>1. IInv => NoSlotOutlivesJournal
  BY DEF IInv, SlotInv, NoSlotOutlivesJournal, AtRest, PreparePc
<1> QED BY <1>1, Invariance, PTL

\* Cleanup never revisits a destination.
THEOREM CommittedIsFinalHolds == Spec => CommittedIsFinal
<1>1. IInv /\ [Next]_vars
        => (journal = "committed" /\ edits' = edits => UNCHANGED dest)
  <2> SUFFICES ASSUME IInv, [Next]_vars, journal = "committed", edits' = edits
               PROVE  dest' = dest
    OBVIOUS
  <2>1. pc \notin ForwardPc \cup RollbackPc
    BY DEF IInv, JournalInv
  <2>2. ~Edit
    BY DEF IInv, TypeOK, Edit
  <2> QED BY <2>1, <2>2 DEF Next, Program, CommitStep, RecoverStep, Errors, Open,
       Close, Begin, Prepare, WriteJournal, Point, Activate, Check, Backup,
       Publish, Commit, Failed, Inspect, Unpublish, Restore, Mark, Unpoint,
       Unslot, Unjournal, Refuse, CommitError, ReadBackError, RecoverError,
       Crash, ForwardPc, RollbackPc, vars, disk
<1> QED BY <1>1, Invariance, PTL DEF Spec, CommittedIsFinal

\* As long as no foreign edit falls between a check and its rename, no foreign
\* entry is displaced by a commit or by a rollback.
THEOREM NothingForeignHolds == Spec => NothingForeignDisplaced
<1>1. IInv /\ [Next]_vars
        => \A i \in Op :
             dest[i] # None /\ dest'[i] # dest[i] /\ edits' = edits /\ ~raced
               => dest[i] \in {before[i], after[i]}
  <2> SUFFICES ASSUME IInv, [Next]_vars, NEW i \in Op, dest[i] # None,
                      dest'[i] # dest[i], edits' = edits, ~raced
               PROVE  dest[i] \in {before[i], after[i]}
    OBVIOUS
  <2>1. ~Edit
    BY DEF IInv, TypeOK, Edit
  <2>2. Backup \/ Publish \/ Unpublish \/ Restore
    BY <2>1 DEF Next, Program, CommitStep, RecoverStep, Errors, Open, Close,
       Begin, Prepare, WriteJournal, Point, Activate, Check, Commit, Failed,
       Inspect, Mark, Unpoint, Unslot, Unjournal, Refuse, CommitError,
       ReadBackError, RecoverError, Crash, vars, disk
  <2>3. i = op
    BY <2>2 DEF IInv, TypeOK, Backup, Publish, Unpublish, Restore
  <2> QED BY <2>2, <2>3 DEF IInv, RaceInv, Backup, Publish, Unpublish, Restore
<1> QED BY <1>1, Invariance, PTL DEF Spec, NothingForeignDisplaced

-----------------------------------------------------------------------------
\* No foreign edits and at most one failing call.
Undisturbed == edits = 0 /\ edited = {} /\ faults <= 1

\* What the installation promises, told by the journal.
LEMMA PromisedIs ==
  ASSUME TypeOK
  PROVE  Promised = IF journal = "active" THEN before ELSE dest
  BY DEF Promised, TypeOK

\* The bounds on the environment are kept.
LEMMA UndisturbedStep ==
  ASSUME MaxEdits = 0, MaxFaults <= 1, TypeOK, Undisturbed, [Next]_vars
  PROVE  Undisturbed'
<1> USE BoundAssumption DEF TypeOK, Undisturbed, vars, bounds, foreign
<1>1. CASE Open \/ Close \/ Begin BY <1>1 DEF Open, Close, Begin
<1>2. CASE CommitStep
  <2>1. CASE Prepare BY <2>1 DEF Prepare
  <2>2. CASE WriteJournal BY <2>2 DEF WriteJournal
  <2>3. CASE Point \/ Activate \/ Backup
    BY <2>3 DEF Point, Activate, Backup, Outcome
  <2>4. CASE Check BY <2>4 DEF Check
  <2>5. CASE Publish BY <2>5 DEF Publish, Outcome
  <2>6. CASE Commit \/ Failed BY <2>6 DEF Commit, Failed
  <2> QED BY <1>2, <2>1, <2>2, <2>3, <2>4, <2>5, <2>6 DEF CommitStep
<1>3. CASE RecoverStep
  <2>1. CASE Inspect BY <2>1 DEF Inspect, Return
  <2>2. CASE Unpublish BY <2>2 DEF Unpublish, Return
  <2>3. CASE Restore BY <2>3 DEF Restore, Return
  <2>4. CASE Mark \/ Unpoint BY <2>4 DEF Mark, Unpoint, Return
  <2>5. CASE Unslot \/ Unjournal BY <2>5 DEF Unslot, Unjournal, Return
  <2> QED BY <1>3, <2>1, <2>2, <2>3, <2>4, <2>5 DEF RecoverStep
<1>4. CASE Errors
  BY <1>4 DEF Errors, Refuse, CommitError, ReadBackError, RecoverError,
     Return, DropSlots
<1>5. CASE Crash BY <1>5 DEF Crash
<1>6. CASE Edit BY <1>6 DEF Edit
<1>7. CASE UNCHANGED vars BY <1>7
<1> QED BY <1>1, <1>2, <1>3, <1>4, <1>5, <1>6, <1>7 DEF Next, Program

\* Every step of the journaled replacement is a step of the atomic one, or
\* changes nothing of what it promises.
LEMMA StepSimulation ==
  ASSUME MaxEdits = 0, MaxFaults <= 1, IInv, IInv', Undisturbed, [Next]_vars
  PROVE  [Abstract!Next]_(Abstract!vars)
<1> DEFINE P == IF journal = "active" THEN before ELSE dest
<1>0. Promised = P /\ Promised' = P'
  <2>1. TypeOK' => Promised' = P'
    BY DEF Promised, TypeOK
  <2> QED BY <2>1, PromisedIs DEF IInv
<1> SUFFICES ASSUME ~(P' = P /\ after' = after /\ fate' = fate /\ reply' = reply)
             PROVE  \/ /\ fate # "open" /\ after' \in Proposals /\ fate' = "open"
                       /\ reply' = "none" /\ P' = P
                    \/ /\ fate = "open" /\ P' = after /\ fate' = "committed"
                       /\ after' = after /\ reply' = reply
                    \/ /\ fate = "open" /\ fate' = "aborted"
                       /\ P' = P /\ after' = after /\ reply' = reply
                    \/ /\ reply = "none"
                       /\ \/ fate = "committed" /\ reply' = "ok"
                          \/ fate = "aborted" /\ reply' = "err"
                       /\ P' = P /\ after' = after /\ fate' = fate
                    \/ /\ fate = "open" /\ fate' = "aborted" /\ reply' = "err"
                       /\ P' = P /\ after' = after
  BY <1>0 DEF Abstract!Next, Abstract!vars, Abstract!Begin, Abstract!Publish,
     Abstract!Abandon, Abstract!Answer, Abstract!Refuse
<1> USE BoundAssumption, NAssumption DEF IInv, TypeOK, JournalInv, FateInv, ReplyInv, Transacting,
    ForwardPc, RollbackPc, CleanupPc, PreparePc, CommitPc, RecoverPc, Undisturbed,
    vars, disk, plan, answer, foreign, bounds
<1>1. CASE Open BY <1>1 DEF Open
<1>2. CASE Close BY <1>2 DEF Close
<1>3. CASE Begin BY <1>3 DEF Begin
<1>4. CASE Prepare BY <1>4 DEF Prepare
<1>5. CASE WriteJournal BY <1>5 DEF WriteJournal
<1>6. CASE Point BY <1>6 DEF Point
<1>7. CASE Activate
  <2>1. \A i \in Op : dest[i] = before[i]
    BY <1>7 DEF Activate, SettledInv
  <2>2. before = dest
    BY <2>1
  <2> QED BY <1>7, <2>2 DEF Activate
<1>8. CASE Check BY <1>8 DEF Check
<1>9. CASE Backup BY <1>9 DEF Backup
<1>10. CASE Publish BY <1>10 DEF Publish
<1>11. CASE Commit
  <2>1. dest = after
    BY <1>11 DEF Commit, ForwardInv, Published
  <2> QED BY <1>11, <2>1 DEF Commit
<1>12. CASE Failed BY <1>12 DEF Failed
<1>13. CASE Inspect BY <1>13 DEF Inspect, Return
<1>14. CASE Unpublish BY <1>14 DEF Unpublish, Return
<1>15. CASE Restore BY <1>15 DEF Restore, Return
<1>16. CASE Mark
  <2>1. before = dest
    BY <1>16 DEF Mark, RollbackInv
  <2> QED BY <1>16, <2>1 DEF Mark, Return
<1>17. CASE Unpoint BY <1>17 DEF Unpoint, Return
<1>18. CASE Unslot BY <1>18 DEF Unslot, Return
<1>19. CASE Unjournal BY <1>19 DEF Unjournal, Return
<1>20. CASE Refuse BY <1>20 DEF Refuse
<1>21. CASE CommitError BY <1>21 DEF CommitError
<1>22. CASE ReadBackError BY <1>22 DEF ReadBackError
<1>23. CASE RecoverError BY <1>23 DEF RecoverError, Return
<1>24. CASE Crash BY <1>24 DEF Crash
<1>25. CASE Edit BY <1>25 DEF Edit
<1>26. CASE UNCHANGED vars BY <1>26
<1> QED BY <1>1, <1>2, <1>3, <1>4, <1>5, <1>6, <1>7, <1>8, <1>9, <1>10, <1>11,
     <1>12, <1>13, <1>14, <1>15, <1>16, <1>17, <1>18, <1>19, <1>20, <1>21,
     <1>22, <1>23, <1>24, <1>25, <1>26 DEF Next, Program, CommitStep,
     RecoverStep, Errors

\* commit_inner and recover implement the atomic commit, with any number of
\* crashes, one failing call at most and no foreign edits.
THEOREM ImplementsAtomicInstall ==
  ASSUME MaxEdits = 0, MaxFaults <= 1
  PROVE  Spec => Implements
<1>1. Init => Undisturbed
  BY DEF Init, Undisturbed
<1>2. Init => Abstract!Init
  BY DEF Init, Abstract!Init, Promised
<1>3. IInv /\ Undisturbed /\ [Next]_vars => Undisturbed'
  BY UndisturbedStep DEF IInv
<1>4. IInv /\ IInv' /\ Undisturbed /\ [Next]_vars => [Abstract!Next]_(Abstract!vars)
  BY StepSimulation
<1> QED BY Invariance, <1>1, <1>2, <1>3, <1>4, PTL DEF Spec, Implements, Abstract!Spec
=============================================================================
