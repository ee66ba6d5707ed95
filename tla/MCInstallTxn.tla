---------------------------- MODULE MCInstallTxn ----------------------------
(* Small instances of InstallTxn for TLC. *)
EXTENDS InstallTxnInv

CONSTANTS old, fresh, alien

\* What the installation held, what the release holds, what neither does.
MCEntry == {old, fresh, alien}

\* A command may be new, kept or retired; a tree is always put in place.
MCProposals == { p \in [Op -> {fresh, None}] : p[1] = fresh }

\* First installs, upgrades and partly owned destinations.
MCInit == Init /\ \A i \in Op : dest[i] \in {old, None}
MCSpec == MCInit /\ [][Next]_vars
MCFairSpec == MCSpec /\ Fairness
=============================================================================
