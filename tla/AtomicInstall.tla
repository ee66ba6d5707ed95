---------------------------- MODULE AtomicInstall ----------------------------
(***************************************************************************)
(* What an installation commit promises its caller: the installation tree, *)
(* the exported commands, the receipt and the trust history change         *)
(* together or not at all, and the answer says which.  No journal, slot,   *)
(* pointer, crash or retry is visible at this level.                       *)
(***************************************************************************)
CONSTANTS Op,        \* the destinations one commit replaces
          Value,     \* what a destination can hold, "nothing" included
          Proposals  \* the contents a commit may be asked to install

VARIABLES live,      \* what a user of the installation is promised to find
          target,    \* what the running commit is asked to install
          fate,      \* what became of the last commit
          reply      \* what its caller was told

vars == <<live, target, fate, reply>>

Init == /\ live \in [Op -> Value]
        /\ target = live
        /\ fate = "none"
        /\ reply = "none"

\* A new commit may begin only when the last one is decided.
Begin == /\ fate # "open"
         /\ target' \in Proposals
         /\ fate' = "open"
         /\ reply' = "none"
         /\ UNCHANGED live

\* The commit point: every destination changes in one step.
Publish == /\ fate = "open"
           /\ live' = target
           /\ fate' = "committed"
           /\ UNCHANGED <<target, reply>>

\* An error or an interruption: nothing changes.
Abandon == /\ fate = "open"
           /\ fate' = "aborted"
           /\ UNCHANGED <<live, target, reply>>

\* The caller is told the truth, or (after an interruption) nothing.
Answer == /\ reply = "none"
          /\ \/ fate = "committed" /\ reply' = "ok"
             \/ fate = "aborted" /\ reply' = "err"
          /\ UNCHANGED <<live, target, fate>>

\* A commit that fails before it has a journal aborts and answers at once.
Refuse == /\ fate = "open"
          /\ fate' = "aborted"
          /\ reply' = "err"
          /\ UNCHANGED <<live, target>>

Next == Begin \/ Publish \/ Abandon \/ Answer \/ Refuse

Spec == Init /\ [][Next]_vars
=============================================================================
