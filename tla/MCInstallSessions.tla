-------------------------- MODULE MCInstallSessions --------------------------
(* Small instances of InstallSessions for TLC. *)
EXTENDS InstallSessions

CONSTANT app

Ask(s, t, b, k) == [state |-> s, parent |-> t, bin |-> b, project |-> k]

\* Directories 2 and 5 are two state directories that share the bin directory
\* 4.  The project of the first moves its commands between 1 and 4, so that its
\* set of scopes can grow downwards, sideways and into the other one.
MCShared ==
    {Ask(2, 3, 1, app), Ask(2, 3, 4, app), Ask(5, 6, 4, app), Ask(2, 6, 4, None)}

=============================================================================
