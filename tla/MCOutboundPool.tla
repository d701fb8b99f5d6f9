---------------------------- MODULE MCOutboundPool ----------------------------
(***************************************************************************)
(* A fixed peer f, a whitelisted peer w and an ordinary peer a on three    *)
(* hosts, all competing for one bucket in each list.                       *)
(***************************************************************************)
EXTENDS OutboundPool

CONSTANTS f, w, a

MCIds      == {f, w, a}
MCForms    == {"f", "w", "a"}
MCIdOf     == [x \in MCForms |-> CASE x = "f" -> f [] x = "w" -> w [] x = "a" -> a]
MCAddrOf   == [i \in MCIds |-> CASE i = f -> "f" [] i = w -> "w" [] i = a -> "a"]
MCBucketOf == [x \in MCForms |-> 0]
MCBuckets  == {0}
=============================================================================
