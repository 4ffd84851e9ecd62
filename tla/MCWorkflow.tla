----------------------------- MODULE MCWorkflow -----------------------------
\* Workflow for TLC: an rpc node, then a second rpc node or the end; the
\* second node is followed by the end.
EXTENDS Workflow, TLC

CONSTANTS fetch, merge

MCGraphNodes == {fetch, merge}
MCSuccessors == (fetch :> {merge, EndNode}) @@ (merge :> {EndNode})
=============================================================================
