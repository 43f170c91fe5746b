------------------------------ MODULE Registry ------------------------------
(***************************************************************************)
(* The coordinator's peer registry (internal/coord/store.go, the part of   *)
(* MemStore under mu) and the requests that reach it (server.go: register, *)
(* endpoints and the long poll GET /v1/peers).                             *)
(*                                                                         *)
(* This is the registry as its callers are meant to see it: a response to  *)
(* a poll is the registry's content at one etag.  RegistryMem refines it   *)
(* to the slices that the code really hands out.                           *)
(*                                                                         *)
(* Tunnel addresses are offsets into the pool's prefix.  An etag is the    *)
(* hash of the time of the change; changes are numbered here, which takes  *)
(* every change to read a new time.                                        *)
(***************************************************************************)
EXTENDS Integers, FiniteSets

CONSTANTS
  Node,         \* node public keys
  Key,          \* disco public keys
  EpLists,      \* endpoint lists a node may post
  NoEps,        \* the endpoint list of a node that has posted none
  Poller,       \* clients of GET /v1/peers
  PoolSize,     \* addresses in the pool's prefix
  Base,         \* offset of pool.Addr() in the prefix
  NoIp,         \* no address
  MaxBumps,     \* bound: changes of the registry
  MaxRestarts   \* bound: restarts of the coordinator

ASSUME RegistryAssumption ==
  /\ NoEps \in EpLists
  /\ PoolSize \in Nat /\ Base \in Nat
  /\ NoIp \notin Nat
  /\ MaxBumps \in Nat /\ MaxRestarts \in Nat

VARIABLES
  peers,        \* s.peers
  byTunnel,     \* s.byTunnel
  etag,         \* s.peersEtag
  broad,        \* s.peersBroad, an open channel
  closed,       \* the broadcast channels that have been closed
  pc,           \* each poller's place in handlePeers
  since,        \* etag of the poller's last response, 0 before the first
  ch,           \* the channel a waiting poller selects on
  resp,         \* the response being written
  restarts      \* restarts so far

storeVars == <<peers, byTunnel, etag, broad, closed>>
pollVars  == <<pc, since, ch, resp>>
vars == <<storeVars, pollVars, restarts>>

-----------------------------------------------------------------------------
\* A Peer, or the lack of one.
NoPeer == [known |-> FALSE]
Peer   == [known : {TRUE}, key : Key, ip : Nat, eps : EpLists]
Entry(k, ip, eps) == [known |-> TRUE, key |-> k, ip |-> ip, eps |-> eps]

Known == {n \in Node : peers[n].known}

Nobody   == [n \in Node |-> NoPeer]
NoResp   == [etag |-> 0, peers |-> Nobody]

Init ==
  /\ peers    = Nobody
  /\ byTunnel = [ip \in {} |-> NoIp]
  /\ etag     = 1
  /\ broad    = 1
  /\ closed   = {}
  /\ pc       = [c \in Poller |-> "idle"]
  /\ since    = [c \in Poller |-> 0]
  /\ ch       = [c \in Poller |-> 0]
  /\ resp     = [c \in Poller |-> NoResp]
  /\ restarts = 0

-----------------------------------------------------------------------------
(* Writers, each under the write lock                                      *)

\* bumpEtagLocked: a new etag, a new channel, and the old one closed.  (The
\* faulty variant forgets to close it.)
BumpSilently ==
  /\ etag < MaxBumps
  /\ etag'   = etag + 1
  /\ broad'  = broad + 1
  /\ UNCHANGED closed

bumpEtagLocked ==
  /\ etag < MaxBumps
  /\ etag'   = etag + 1
  /\ broad'  = broad + 1
  /\ closed' = closed \cup {broad}

\* allocateIPLocked: the first address after pool.Addr() that is not taken,
\* unless that is the last one of the prefix.  (The faulty variant stops one
\* address early.)
Free == {ip \in (Base + 1)..(PoolSize - 1) : ip \notin DOMAIN byTunnel}
FirstFree(ip) == ip \in Free /\ \A other \in Free : ip <= other
AllocatesOneLess(ip) == FirstFree(ip) /\ ip + 2 < PoolSize
Allocates(ip) == FirstFree(ip) /\ ip + 1 < PoolSize

\* Register of a node that the store knows: the address is kept.  (The faulty
\* variant allocates again.)
RegisterAgainAllocating(n, k) ==
  /\ n \in Known
  /\ \E ip \in Free :
       /\ Allocates(ip)
       /\ peers'    = [peers EXCEPT ![n] = Entry(k, ip, NoEps)]
       /\ byTunnel' = [a \in (DOMAIN byTunnel \ {peers[n].ip}) \cup {ip} |->
                         IF a = ip THEN n ELSE byTunnel[a]]
  /\ bumpEtagLocked
  /\ UNCHANGED <<pollVars, restarts>>

RegisterAgain(n, k) ==
  /\ n \in Known
  /\ peers' = [peers EXCEPT ![n].key = k]
  /\ bumpEtagLocked
  /\ UNCHANGED <<byTunnel, pollVars, restarts>>

\* Register of a node that the store does not know: an address is allocated
\* and both maps are filled, or the request fails and nothing changes.  (The
\* faulty variant forgets byTunnel.)
RegisterNewUnrecorded(n, k) ==
  /\ n \notin Known
  /\ \E ip \in Free :
       /\ Allocates(ip)
       /\ peers' = [peers EXCEPT ![n] = Entry(k, ip, NoEps)]
  /\ bumpEtagLocked
  /\ UNCHANGED <<byTunnel, pollVars, restarts>>

RegisterNew(n, k) ==
  /\ n \notin Known
  /\ \E ip \in Free :
       /\ Allocates(ip)
       /\ peers'    = [peers EXCEPT ![n] = Entry(k, ip, NoEps)]
       /\ byTunnel' = [a \in DOMAIN byTunnel \cup {ip} |-> IF a = ip THEN n ELSE byTunnel[a]]
  /\ bumpEtagLocked
  /\ UNCHANGED <<pollVars, restarts>>

Register(n, k) == RegisterAgain(n, k) \/ RegisterNew(n, k)

\* SetEndpoints: an unknown node is refused.  (The faulty variant announces
\* nothing.)
SetEndpointsQuietly(n, eps) ==
  /\ n \in Known
  /\ peers' = [peers EXCEPT ![n].eps = eps]
  /\ UNCHANGED <<byTunnel, etag, broad, closed, pollVars, restarts>>

SetEndpoints(n, eps) ==
  /\ n \in Known
  /\ peers' = [peers EXCEPT ![n].eps = eps]
  /\ bumpEtagLocked
  /\ UNCHANGED <<byTunnel, pollVars, restarts>>

-----------------------------------------------------------------------------
(* Pollers: handlePeers                                                    *)

\* The request arrives.  WaitForPeersChange returns at once if the etag has
\* moved on, and otherwise leaves with the current channel, both under the
\* read lock; a first request does not wait.  (The faulty variant waits
\* without comparing etags.)
PollAlwaysWaits(c) ==
  /\ pc[c] = "idle"
  /\ IF since[c] = 0
     THEN pc' = [pc EXCEPT ![c] = "read"] /\ UNCHANGED ch
     ELSE pc' = [pc EXCEPT ![c] = "wait"] /\ ch' = [ch EXCEPT ![c] = broad]
  /\ UNCHANGED <<storeVars, restarts, since, resp>>

Poll(c) ==
  /\ pc[c] = "idle"
  /\ IF since[c] = 0 \/ etag # since[c]
     THEN pc' = [pc EXCEPT ![c] = "read"] /\ UNCHANGED ch
     ELSE pc' = [pc EXCEPT ![c] = "wait"] /\ ch' = [ch EXCEPT ![c] = broad]
  /\ UNCHANGED <<storeVars, restarts, since, resp>>

\* The channel is closed, or longPollTimeout has passed: the caller reads the
\* registry in either case.
Wake(c) ==
  /\ pc[c] = "wait"
  /\ ch[c] \in closed
  /\ pc' = [pc EXCEPT ![c] = "read"]
  /\ UNCHANGED <<storeVars, restarts, since, ch, resp>>

Timeout(c) ==
  /\ pc[c] = "wait"
  /\ pc' = [pc EXCEPT ![c] = "read"]
  /\ UNCHANGED <<storeVars, restarts, since, ch, resp>>

\* Peers: content and etag under one read lock.
Peers(c) ==
  /\ pc[c] = "read"
  /\ resp' = [resp EXCEPT ![c] = [etag |-> etag, peers |-> peers]]
  /\ pc'   = [pc EXCEPT ![c] = "write"]
  /\ UNCHANGED <<storeVars, restarts, since, ch>>

\* writeJSON: the client has the response and will poll from its etag.
Respond(c) ==
  /\ pc[c] = "write"
  /\ since' = [since EXCEPT ![c] = resp[c].etag]
  /\ pc'    = [pc EXCEPT ![c] = "idle"]
  /\ UNCHANGED <<storeVars, restarts, ch, resp>>

\* The request's context is cancelled or its response lost; the client polls
\* again from the etag it has.
Abort(c) ==
  /\ pc[c] # "idle"
  /\ pc' = [pc EXCEPT ![c] = "idle"]
  /\ UNCHANGED <<storeVars, restarts, since, ch, resp>>

\* The coordinator stops and starts again with a new, empty MemStore.
Restart ==
  /\ restarts < MaxRestarts
  /\ restarts' = restarts + 1
  /\ peers'    = Nobody
  /\ byTunnel' = [ip \in {} |-> NoIp]
  /\ bumpEtagLocked
  /\ pc'       = [c \in Poller |-> "idle"]
  /\ UNCHANGED <<since, ch, resp>>

PollerStep(c) == Poll(c) \/ Wake(c) \/ Timeout(c) \/ Peers(c) \/ Respond(c) \/ Abort(c)

Next ==
  \/ \E n \in Node, k \in Key : Register(n, k)
  \/ \E n \in Node, eps \in EpLists : SetEndpoints(n, eps)
  \/ \E c \in Poller : PollerStep(c)
  \/ Restart

Spec == Init /\ [][Next]_vars

-----------------------------------------------------------------------------
(* Properties                                                              *)

\* The store's maps and the pollers' local variables have their types.
TypeOK ==
  /\ peers \in [Node -> Peer \cup {NoPeer}]
  /\ DOMAIN byTunnel \subseteq Nat /\ \A ip \in DOMAIN byTunnel : byTunnel[ip] \in Node
  /\ etag \in Nat /\ broad \in Nat /\ closed \subseteq Nat
  /\ pc \in [Poller -> {"idle", "wait", "read", "write"}]
  /\ since \in [Poller -> Nat] /\ ch \in [Poller -> Nat]
  /\ resp \in [Poller -> [etag : Nat, peers : [Node -> Peer \cup {NoPeer}]]]
  /\ restarts \in Nat

\* Tunnel addresses are never shared: the two maps that Register fills stay
\* inverse to one another, through any interleaving of first and repeated
\* registrations, and hold neither the pool's first nor its last address.
AddressesDistinct ==
  /\ \A n \in Known : peers[n].ip \in DOMAIN byTunnel /\ byTunnel[peers[n].ip] = n
  /\ \A ip \in DOMAIN byTunnel : byTunnel[ip] \in Known /\ peers[byTunnel[ip]].ip = ip
  /\ \A ip \in DOMAIN byTunnel : Base < ip /\ ip < PoolSize - 1

\* Registration fails for lack of addresses only when every address between
\* the first and the last one of the pool is taken.
RefusedOnlyWhenFull ==
  (\A ip \in Free : ~Allocates(ip))
    => \A ip \in (Base + 1)..(PoolSize - 2) : ip \in DOMAIN byTunnel

\* No change is slept through: a poller that still waits on an open channel
\* has the current etag, however changes fall between its check and its wait.
NoMissedChange ==
  \A c \in Poller : pc[c] = "wait" /\ ch[c] \notin closed => since[c] = etag

\* A client that holds the current etag holds the current content, so that
\* it may wait: no writer changes the registry without a new etag.
EtagNamesContent ==
  \A c \in Poller : since[c] = etag => resp[c].peers = peers

\* A node that the store knows is neither forgotten nor given another address
\* while the coordinator runs.
AddressKept ==
  [][\A n \in Known : \/ restarts' # restarts
                      \/ n \in Known' /\ peers'[n].ip = peers[n].ip]_vars

\* Every change reaches every poller, without the help of the timeout.
ChangesArrive ==
  \A c \in Poller : \A v \in 1..MaxBumps : etag = v ~> since[c] >= v

=============================================================================
