---------------------------- MODULE MCDurianServer ----------------------------
(***************************************************************************)
(* Bounded instances of DurianServer: two deployments of the same contract *)
(* and two calls of it; one call writes two slots.                         *)
(***************************************************************************)
EXTENDS DurianServer

CONSTANTS deploy1, deploy2, call1, call2, k1, k2

MCRequest == {deploy1, deploy2, call1, call2}

MCDeployments == {deploy1, deploy2}

MCDirty == [r \in MCRequest |-> CASE r = call1            -> {k1, k2}
                                  [] r \in {deploy1, call2} -> {k2}
                                  [] OTHER                 -> {}]
=============================================================================
