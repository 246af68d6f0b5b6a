--------------------------- MODULE PeerAddresses ---------------------------
(***************************************************************************)
(* How a server of server/server.go works out the client addresses of the  *)
(* others, and the address it sends along with "not leader": the          *)
(* configuration kv-server gives it, normalizeConfig,                      *)
(* deriveClientPeerAddresses, addressesByID and leaderAddress.             *)
(*                                                                         *)
(* An address is a host and a port; one that may be empty, a set with at   *)
(* most one of them; what may fail with an error, a set that is then       *)
(* empty.  Lists are functions of which the first n places count, since a  *)
(* node is known by its place in -peers.  Text that does not parse and the *)
(* defaults of the store are left out.                                     *)
(***************************************************************************)
EXTENDS Integers

CONSTANTS
    Host,
    localhost   \* the host kv-server gives itself

Address == [host : Host, port : Nat \ {0}]
The(address) == CHOOSE a \in address : TRUE
Places(n) == 0..(n - 1)

(* The peer's port moved by the distance between the node's own two ports. *)
Moved(peer, raft, client) ==
    [host |-> peer.host, port |-> peer.port + (client.port - raft.port)]

deriveClientPeerAddresses(n, peers, raft, client) ==
    IF \A i \in Places(n) : Moved(peers[i], raft, client).port > 0
    THEN {[i \in Nat |-> {Moved(peers[i], raft, client)}]}
    ELSE {}

(* In a configuration, n and m count Peers and ClientPeers.                *)
Rejected(cfg) ==
    \/ cfg.id < 0
    \/ cfg.raft = {}
    \/ cfg.m > 0 /\ cfg.m # cfg.n

(* ClientAddress is looked up in ClientPeers when it is not given.         *)
OwnAddress(cfg) ==
    IF cfg.client = {} /\ cfg.id < cfg.m THEN cfg.clientPeers[cfg.id] ELSE cfg.client

normalizeConfig(cfg) ==
    LET own == OwnAddress(cfg)
    IN IF Rejected(cfg) THEN {}
       ELSE IF cfg.m = 0 /\ cfg.n > 0 /\ own # {}
       THEN {[cfg EXCEPT !.client = own, !.m = cfg.n, !.clientPeers = derived] :
                derived \in deriveClientPeerAddresses(cfg.n, cfg.peers, The(cfg.raft), The(own))}
       ELSE {[cfg EXCEPT !.client = own]}

(* clientPeers of a server: addressesByID leaves out empty addresses, and  *)
(* NewRaftKVServer puts in the server's own.                               *)
addressesByID(cfg) == [i \in Nat |-> IF i < cfg.m THEN cfg.clientPeers[i] ELSE {}]
clientPeers(cfg) ==
    [addressesByID(cfg) EXCEPT ![cfg.id] = IF cfg.client # {} THEN cfg.client ELSE @]

(* The hint for a leader that the node takes to be leaderID; -1 is nobody. *)
leaderAddress(cfg, leaderID) ==
    IF leaderID < 0 THEN {}
    ELSE IF clientPeers(cfg)[leaderID] # {} THEN clientPeers(cfg)[leaderID]
    ELSE IF leaderID = cfg.id THEN cfg.client
    ELSE {}

-----------------------------------------------------------------------------
(* A cluster of n nodes: others reach node i at R[i], and clients at C[i]. *)
(* kv-server builds the configuration of node i from its own two ports,    *)
(* with all of R as -peers, and with C as -client-peers or without them.   *)
Local(address) == [host |-> localhost, port |-> address.port]

WithClientPeers(i, n, R, C) ==
    [id |-> i, raft |-> {Local(R[i])}, client |-> {Local(C[i])}, n |-> n, peers |-> R,
     m |-> n, clientPeers |-> [k \in Nat |-> {C[k]}]]

WithoutClientPeers(i, n, R, C) ==
    [id |-> i, raft |-> {Local(R[i])}, client |-> {Local(C[i])}, n |-> n, peers |-> R,
     m |-> 0, clientPeers |-> [k \in Nat |-> {}]]

(* A node so configured names the address where another node, which it     *)
(* takes for the leader, serves clients.                                   *)
NamesLeader(cfg, n, C) ==
    \A conf \in normalizeConfig(cfg), leaderID \in Places(n) \ {cfg.id} :
        leaderAddress(conf, leaderID) = {C[leaderID]}

(* As seen from any other, a node serves clients on the host of its Raft   *)
(* port, and its two ports are as far apart as the other's.                *)
SameOffset(n, R, C) ==
    \A i, k \in Places(n) : i # k =>
        C[k].host = R[k].host /\ C[k].port - R[k].port = C[i].port - R[i].port
=============================================================================
