------------------------------ MODULE MCPeerBook ------------------------------
(***************************************************************************)
(* Two instances of the peer book, for a public IPv4 peer, a public IPv6   *)
(* peer and a private one.  In the normalized one every peer has one       *)
(* address form, and peers compete for buckets in both lists with          *)
(* different neighbours.  In the raw one another node's list also names    *)
(* the first peer by the nested form, which hashes to another new bucket.  *)
(***************************************************************************)
EXTENDS PeerBook, Addresses

CONSTANTS p1, p2, p3

MCV4Hosts   == {p1, p3}
MCV6Hosts   == {p2}
MCFirstByte == [h \in MCV4Hosts |-> IF h = p1 THEN 1 ELSE 10]

MCNewBuckets   == {0, 1}
MCTriedBuckets == {0, 1}

\* The hash of what getBucketId reads, for the two lists' secrets.
NewHash(key)   == IF key = <<"ipv6", <<"nested", 1>>>> THEN 1 ELSE 0
TriedHash(key) == IF key = <<"private">> THEN 1 ELSE 0

RawForms == {[host |-> p1, written |-> "ipv4"], [host |-> p2, written |-> "full"],
             [host |-> p3, written |-> "ipv4"], [host |-> p1, written |-> "nested"]}
MCForms  == {f \in RawForms : NormalizeAddress(f) = f}

MCIdOf          == [f \in MCForms |-> GetPeerId(f, 5000)]
MCNewBucketOf   == [f \in MCForms |-> NewHash(BucketKey(f))]
MCTriedBucketOf == [f \in MCForms |-> TriedHash(BucketKey(f))]
MCIds           == {MCIdOf[f] : f \in MCForms}

RawIdOf          == [f \in RawForms |-> GetPeerId(f, 5000)]
RawNewBucketOf   == [f \in RawForms |-> NewHash(BucketKey(f))]
RawTriedBucketOf == [f \in RawForms |-> TriedHash(BucketKey(f))]
=============================================================================
