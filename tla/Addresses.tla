------------------------------ MODULE Addresses ------------------------------
(***************************************************************************)
(* How lp2p reads the ways a peer's address may be written                 *)
(* (src/src/utils.js): the id under which a peer is kept, and what of the  *)
(* address is hashed to choose its bucket.  Ids are made of the normalized *)
(* address; the hash is made of the address as it is given.                *)
(***************************************************************************)
EXTENDS Naturals

CONSTANTS
    V4Hosts, V6Hosts,   \* IPv4 and IPv6 addresses, whatever way they are written
    LocalHosts,         \* loopback addresses of either kind
    PrivateHosts,       \* 10/8, 172.16/12 and whatever starts with fc or fd
    FirstByte,          \* first byte of an IPv4 address
    Names               \* what is not an IP address

ASSUME HostKinds ==
    V4Hosts \cap V6Hosts = {} /\ V4Hosts \cap Names = {} /\ V6Hosts \cap Names = {}

\* An IPv4 address as such or nested in an IPv6 one ("::ffff:1.2.3.4"); an IPv6
\* address written out in lower case, shortened, or in capitals; a name.
Address ==
    [host : V4Hosts, written : {"ipv4", "nested"}]
        \cup [host : V6Hosts, written : {"full", "short", "capitals"}]
        \cup [host : Names, written : {"name"}]

NormalizeAddress(a) ==
    CASE a.written = "nested"               -> [a EXCEPT !.written = "ipv4"]
      [] a.host \in V6Hosts                 -> [a EXCEPT !.written = "full"]
      [] a.written \in {"ipv4", "name"}     -> a

GetPeerId(a, wsPort) == <<NormalizeAddress(a), wsPort>>

\* Loopback is recognised in every way of writing IPv6, but not when nested.
IsLocal(a) == a.host \in LocalHosts /\ a.written # "nested"

\* The prefix of an IPv6 address is compared as it is written, in lower case.
IsPrivate(a) == a.host \in PrivateHosts /\ a.written \in {"ipv4", "full", "short", "name"}

GetNetwork(a) ==
    CASE IsLocal(a)                                                 -> "local"
      [] ~IsLocal(a) /\ IsPrivate(a)                                -> "private"
      [] ~IsLocal(a) /\ ~IsPrivate(a) /\ a.written = "ipv4"         -> "ipv4"
      [] ~IsLocal(a) /\ ~IsPrivate(a) /\ a.written = "name"         -> "other"
      [] OTHER                                                      -> "ipv6"

\* getIPV6Bytes of a nested address reads "1.2.3.4" as a number: it sees the first.
IPV6Bytes(a) == IF a.written = "nested" THEN <<"nested", FirstByte[a.host]>> ELSE a.host

\* What getBucketId hashes.  All local peers share a bucket, and all private ones;
\* a name has none (the code throws).
BucketKey(a) ==
    LET network == GetNetwork(a)
    IN  CASE network \in {"local", "private"} -> <<network>>
          [] network = "ipv4"                 -> <<network, a.host>>
          [] network = "ipv6"                 -> <<network, IPV6Bytes(a)>>
=============================================================================
