------------------------------- MODULE Lookups -------------------------------
(***************************************************************************)
(* What a run gets from the network or, without one, from earlier runs, in *)
(* the order of install_in (src/install.rs): the lock of the state         *)
(* directory, the keys, then documents and artifacts. A run may be killed  *)
(* anywhere and the next one finds what it left.                           *)
(***************************************************************************)
EXTENDS TrustRoot, DownloadCache

vars == <<repository, tufVars, cacheVars>>

Init == TufInit /\ CacheInit

\* install_in under its session, one at a time.
Run ==
    \/ /\ \E how \in {"online", "offline"} : Refresh(how)
       /\ UNCHANGED cacheVars
    \/ TufStep /\ UNCHANGED cacheVars
    \/ /\ mode = "online" /\ keys # None
       /\ CacheStep
       /\ UNCHANGED <<repository, tufVars>>

Leave == TufLeave /\ CacheLeave

Environment == (Publish \/ Tick) /\ UNCHANGED cacheVars

Next == Run \/ Leave \/ Environment

Spec == Init /\ [][Next]_vars
=============================================================================
