--------------------------- MODULE MCInboundServer ---------------------------
(***************************************************************************)
(* The node itself, a whitelisted peer and three others, one of them       *)
(* passive, with the default protection ratios.                            *)
(***************************************************************************)
EXTENDS InboundServer

CONSTANTS node, trusty, ann, bob, pat

MCIds      == {node, trusty, ann, bob, pat}
MCForms    == {"node", "trusty", "ann", "bob", "pat"}
MCAddrOf   == [i \in MCIds |-> CASE i = node -> "node" [] i = trusty -> "trusty" [] i = ann -> "ann"
                                 [] i = bob -> "bob" [] i = pat -> "pat"]
MCIdOf     == [x \in MCForms |-> CHOOSE i \in MCIds : MCAddrOf[i] = x]
MCBucketOf == [x \in MCForms |-> 0]
MCBuckets  == {0}
=============================================================================
