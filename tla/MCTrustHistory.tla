---------------------------- MODULE MCTrustHistory ----------------------------
(* Small instances of TrustHistory for TLC. *)
EXTENDS TrustHistory, TLC

CONSTANTS tool, Tool, site, one, two, build, other

\* One repository typed in two cases, and one project named after a host.
MCAlias == [n \in Spelling |-> IF n = site THEN site ELSE tool]

Signed(k, i, w, p) == [subject |-> k, source |-> i, workflow |-> w, pinned |-> p]

\* Either repository signs with its pinned workflow; the first one may move to
\* a workflow it does not pin.  The site's certificate may name no repository.
MCDocs == {Signed(one, one, build, TRUE), Signed(one, one, other, FALSE),
           Signed(two, two, build, TRUE),
           Signed(site, None, build, FALSE), Signed(site, two, build, FALSE)}

Of(n, d) == [project |-> n, source |-> d.source, workflow |-> d.workflow,
             pinned |-> d.pinned]

\* A user may have approved the move of a release to the other workflow.
MCApprovals ==
  {[role |-> "release", prior |-> Of(tool, Signed(one, one, build, TRUE)),
    next |-> Of(tool, Signed(one, one, other, FALSE))]}

\* The processes of a scope are alike.
MCSymmetry == Permutations(Proc)
=============================================================================
