----------------------------- MODULE MCOwnership -----------------------------
(* Two projects, one of them with two state directories, for TLC. *)
EXTENDS Ownership, TLC

MCOwner == {<<"s1", "a">>, <<"s1", "b">>, <<"s2", "a">>}
CONSTANTS t1, t2
MCTree == {t1, t2}

\* Trees differ in nothing but what is installed there.
MCTrees == Permutations(MCTree)

MCBin == {"plain", "folding"}
MCFolding == {"folding"}
MCName == {"x", "X", "y", "CON"}
MCLower == [n \in MCName |-> IF n = "X" THEN "x" ELSE n]
MCUnsafe == {"CON"}
MCFile == {"f", "g"}

\* A release that keeps, renames, recases, adds or drops a command, and two
\* that cannot be exported.
MCRelease == {"x" :> "f", "y" :> "f", "X" :> "f", "X" :> "g", ("x" :> "g") @@ ("y" :> "f"),
              ("x" :> "f") @@ ("X" :> "g"), "CON" :> "f"}
=============================================================================
