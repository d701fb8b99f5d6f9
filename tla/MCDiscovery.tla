----------------------------- MODULE MCDiscovery -----------------------------
(***************************************************************************)
(* Three nodes in a line of seeds.  The one in the middle, of whom the     *)
(* others must hear, also has a seed where nobody answers, and writes      *)
(* addresses in lists as it likes.  The first node has saved that peer     *)
(* when it was up, and whitelists it; the last blacklists it.              *)
(***************************************************************************)
EXTENDS Discovery

CONSTANTS na, nb, nc, gone

Nobody == [n \in {na, nb, nc} |-> {}]
Line   == [Nobody EXCEPT ![na] = {nb, gone}, ![nb] = {nc, gone}]
Saved  == [Nobody EXCEPT ![na] = {gone}]

\* Apart from that nobody is barred, the first node by the last, or the last by the
\* first, who may have written its address in another way.
Gone == [Nobody EXCEPT ![nc] = {gone} \X Spelling]
Bars == {Gone, [Gone EXCEPT ![nc] = @ \cup {<<na, "normal">>}],
         [Gone EXCEPT ![na] = {<<nc, "normal">>}], [Gone EXCEPT ![na] = {<<nc, "other">>}]}
=============================================================================
