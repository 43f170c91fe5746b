--------------------------- MODULE RegistryProofs ---------------------------
(***************************************************************************)
(* Theorems about Registry and about RegistryMem, which implements it, for *)
(* any nodes and pollers, any pool, any endpoint lists and any number of   *)
(* changes and restarts.                                                   *)
(***************************************************************************)
EXTENDS RegistryMem, TLAPS, WellFoundedInduction

-----------------------------------------------------------------------------
(* Type correctness                                                        *)

\* An entry that is known has all its fields.
LEMMA KnownIsPeer ==
  ASSUME TypeOK, NEW n \in Known
  PROVE  n \in Node /\ peers[n] \in Peer
<1>1. n \in Node /\ peers[n].known
  BY DEF Known
<1>2. peers[n] \in Peer \cup {NoPeer}
  BY <1>1 DEF TypeOK
<1>3. NoPeer.known = FALSE
  BY DEF NoPeer
<1>4. peers[n] # NoPeer
  BY <1>1, <1>3, Zenon
<1> QED
  BY <1>1, <1>2, <1>4

LEMMA EntryType ==
  ASSUME NEW k \in Key, NEW ip \in Nat, NEW eps \in EpLists
  PROVE  Entry(k, ip, eps) \in Peer
BY DEF Entry, Peer

LEMMA BumpType ==
  ASSUME TypeOK, bumpEtagLocked
  PROVE  etag' \in Nat /\ broad' \in Nat /\ closed' \subseteq Nat
BY DEF TypeOK, bumpEtagLocked

LEMMA TypeInit == Init => TypeOK
BY RegistryAssumption DEF Init, TypeOK, Nobody, NoResp, NoPeer

LEMMA RegisterType ==
  ASSUME TypeOK, NEW n \in Node, NEW k \in Key, Register(n, k)
  PROVE  TypeOK'
<1>1. CASE RegisterAgain(n, k)
  <2>1. peers[n] \in Peer
    BY <1>1, KnownIsPeer DEF RegisterAgain
  <2>2. [peers[n] EXCEPT !.key = k] \in Peer /\ peers[n].ip \in Nat
    BY <2>1, Zenon DEF Peer
  <2>3. peers' = [peers EXCEPT ![n] = [peers[n] EXCEPT !.key = k]]
    BY <1>1 DEF RegisterAgain
  <2>4. peers' \in [Node -> Peer \cup {NoPeer}]
    BY <2>2, <2>3 DEF TypeOK
  <2> QED
    BY <1>1, <2>2, <2>4, BumpType DEF RegisterAgain, TypeOK, pollVars
<1>2. CASE RegisterNew(n, k)
  <2>1. PICK ip \in Free :
          /\ peers'    = [peers EXCEPT ![n] = Entry(k, ip, NoEps)]
          /\ byTunnel' = [a \in DOMAIN byTunnel \cup {ip} |-> IF a = ip THEN n ELSE byTunnel[a]]
    BY <1>2, Zenon DEF RegisterNew
  <2>2. ip \in Nat
    BY RegistryAssumption DEF Free
  <2>3. peers' \in [Node -> Peer \cup {NoPeer}]
    BY <2>1, <2>2, EntryType, RegistryAssumption DEF TypeOK
  <2>4. DOMAIN byTunnel' \subseteq Nat /\ \A a \in DOMAIN byTunnel' : byTunnel'[a] \in Node
    BY <2>1, <2>2 DEF TypeOK
  <2>5. etag' \in Nat /\ broad' \in Nat /\ closed' \subseteq Nat
    BY <1>2, BumpType DEF RegisterNew
  <2>6. UNCHANGED <<pollVars, restarts>>
    BY <1>2 DEF RegisterNew
  <2> QED
    BY <2>3, <2>4, <2>5, <2>6 DEF TypeOK, pollVars
<1> QED
  BY <1>1, <1>2 DEF Register

LEMMA SetEndpointsType ==
  ASSUME TypeOK, NEW n \in Node, NEW eps \in EpLists, SetEndpoints(n, eps)
  PROVE  TypeOK'
<1>1. peers[n] \in Peer
  BY KnownIsPeer DEF SetEndpoints
<1>2. [peers[n] EXCEPT !.eps = eps] \in Peer
  BY <1>1, Zenon DEF Peer
<1>3. peers' = [peers EXCEPT ![n] = [peers[n] EXCEPT !.eps = eps]]
  BY DEF SetEndpoints
<1>4. peers' \in [Node -> Peer \cup {NoPeer}]
  BY <1>2, <1>3 DEF TypeOK
<1> QED
  BY <1>4, BumpType DEF SetEndpoints, TypeOK, pollVars

LEMMA TypeStep == TypeOK /\ [Next]_vars => TypeOK'
<1> SUFFICES ASSUME TypeOK, [Next]_vars
             PROVE  TypeOK'
  OBVIOUS
<1>1. ASSUME NEW n \in Node, NEW k \in Key, Register(n, k)
      PROVE  TypeOK'
  BY <1>1, RegisterType
<1>2. ASSUME NEW n \in Node, NEW eps \in EpLists, SetEndpoints(n, eps)
      PROVE  TypeOK'
  BY <1>2, SetEndpointsType
<1>3. ASSUME NEW c \in Poller, PollerStep(c)
      PROVE  TypeOK'
  <2>1. CASE Poll(c)
    BY <2>1, Zenon DEF Poll, TypeOK, storeVars
  <2>2. CASE Wake(c) \/ Timeout(c) \/ Abort(c)
    BY <2>2, Zenon DEF Wake, Timeout, Abort, TypeOK, storeVars
  <2>3. CASE Peers(c)
    BY <2>3 DEF Peers, TypeOK, storeVars
  <2>4. CASE Respond(c)
    BY <2>4 DEF Respond, TypeOK, storeVars
  <2> QED
    BY <1>3, <2>1, <2>2, <2>3, <2>4 DEF PollerStep
<1>4. CASE Restart
  <2>1. Nobody \in [Node -> Peer \cup {NoPeer}]
    BY DEF Nobody
  <2> QED
    BY <1>4, <2>1, BumpType DEF Restart, TypeOK
<1>5. CASE UNCHANGED vars
  BY <1>5 DEF vars, storeVars, pollVars, TypeOK
<1> QED
  BY <1>1, <1>2, <1>3, <1>4, <1>5 DEF Next

\* The store and its pollers keep their types, for every pool, set of nodes
\* and bound.
THEOREM TypeCorrect == Spec => []TypeOK
BY TypeInit, TypeStep, PTL DEF Spec

-----------------------------------------------------------------------------
(* Tunnel addresses                                                        *)

\* Whether a node is known, and its address, change only for the node that
\* registers.
LEMMA AddressesStep == TypeOK /\ AddressesDistinct /\ [Next]_vars => AddressesDistinct'
<1> SUFFICES ASSUME TypeOK, AddressesDistinct, [Next]_vars
             PROVE  AddressesDistinct'
  OBVIOUS
<1>1. ASSUME Known' = Known, UNCHANGED byTunnel, \A m \in Known : peers'[m].ip = peers[m].ip
      PROVE  AddressesDistinct'
  BY <1>1 DEF AddressesDistinct
<1>2. ASSUME NEW n \in Node, NEW k \in Key, RegisterAgain(n, k)
      PROVE  AddressesDistinct'
  <2>1. n \in Known /\ peers[n] \in Peer
    BY <1>2, KnownIsPeer DEF RegisterAgain
  <2>2. peers' = [peers EXCEPT ![n] = [peers[n] EXCEPT !.key = k]]
    BY <1>2 DEF RegisterAgain
  <2>3. \A m \in Node : peers'[m].known = peers[m].known /\ peers'[m].ip = peers[m].ip
    BY <2>1, <2>2 DEF TypeOK, Peer
  <2>4. Known' = Known
    BY <2>3, Zenon DEF Known
  <2> QED
    BY <1>1, <1>2, <2>3, <2>4 DEF RegisterAgain, Known
<1>3. ASSUME NEW n \in Node, NEW k \in Key, RegisterNew(n, k)
      PROVE  AddressesDistinct'
  <2>1. PICK ip \in Free :
          /\ Allocates(ip)
          /\ peers'    = [peers EXCEPT ![n] = Entry(k, ip, NoEps)]
          /\ byTunnel' = [a \in DOMAIN byTunnel \cup {ip} |-> IF a = ip THEN n ELSE byTunnel[a]]
    BY <1>3, Zenon DEF RegisterNew
  <2>2. n \notin Known
    BY <1>3 DEF RegisterNew
  <2>3. /\ ip \notin DOMAIN byTunnel
        /\ Base < ip /\ ip < PoolSize - 1
    BY <2>1, RegistryAssumption DEF Free, Allocates, FirstFree
  <2>4. /\ peers'[n].known /\ peers'[n].ip = ip
        /\ \A m \in Node \ {n} : peers'[m] = peers[m]
    BY <2>1 DEF TypeOK, Entry
  <2>5. Known' = Known \cup {n}
    BY <2>4, Zenon DEF Known
  <2>6. /\ DOMAIN byTunnel' = DOMAIN byTunnel \cup {ip}
        /\ byTunnel'[ip] = n
        /\ \A a \in DOMAIN byTunnel : byTunnel'[a] = byTunnel[a]
    BY <2>1, <2>3
  <2>7. \A m \in Known : m \in Node \ {n} /\ peers'[m].ip = peers[m].ip
    BY <2>2, <2>4 DEF Known
  <2> QED
    BY <2>3, <2>4, <2>5, <2>6, <2>7 DEF AddressesDistinct
<1>4. ASSUME NEW n \in Node, NEW eps \in EpLists, SetEndpoints(n, eps)
      PROVE  AddressesDistinct'
  <2>1. n \in Known /\ peers[n] \in Peer
    BY <1>4, KnownIsPeer DEF SetEndpoints
  <2>2. peers' = [peers EXCEPT ![n] = [peers[n] EXCEPT !.eps = eps]]
    BY <1>4 DEF SetEndpoints
  <2>3. \A m \in Node : peers'[m].known = peers[m].known /\ peers'[m].ip = peers[m].ip
    BY <2>1, <2>2 DEF TypeOK, Peer
  <2>4. Known' = Known
    BY <2>3, Zenon DEF Known
  <2> QED
    BY <1>1, <1>4, <2>3, <2>4 DEF SetEndpoints, Known
<1>5. ASSUME NEW c \in Poller, PollerStep(c)
      PROVE  AddressesDistinct'
  BY <1>5 DEF PollerStep, Poll, Wake, Timeout, Peers, Respond, Abort, storeVars,
              AddressesDistinct, Known
<1>6. CASE Restart
  BY <1>6 DEF Restart, Nobody, NoPeer, AddressesDistinct, Known
<1>7. CASE UNCHANGED vars
  BY <1>7 DEF vars, storeVars, AddressesDistinct, Known
<1> QED
  BY <1>2, <1>3, <1>4, <1>5, <1>6, <1>7 DEF Next, Register

LEMMA AddressesInit == Init => AddressesDistinct
BY DEF Init, Nobody, NoPeer, AddressesDistinct, Known

\* No two nodes are ever given the same tunnel address, and the maps peers
\* and byTunnel never disagree, for any pool and any number of nodes.
THEOREM AddressesAreDistinct == Spec => []AddressesDistinct
BY TypeInit, TypeStep, AddressesInit, AddressesStep, PTL DEF Spec

\* A pool with a free address has a first one.
LEMMA FirstFreeExists ==
  ASSUME Free # {}
  PROVE  \E ip \in Free : FirstFree(ip)
<1>1. Free \subseteq Nat
  BY RegistryAssumption DEF Free
<1>2. PICK ip \in Free : \A other \in Free : ~(<<other, ip>> \in OpToRel(<, Nat))
  BY <1>1, NatLessThanWellFounded, WFMin, Zenon
<1>3. ASSUME NEW other \in Free
      PROVE  ip <= other
  <2>1. other \in Nat /\ ip \in Nat
    BY <1>1
  <2>2. other < ip => <<other, ip>> \in {ss \in Nat \X Nat : ss[1] < ss[2]}
    BY <2>1
  <2>3. ~(<<other, ip>> \in {ss \in Nat \X Nat : ss[1] < ss[2]})
    BY <1>2, Zenon DEF OpToRel
  <2> QED
    BY <2>1, <2>2, <2>3
<1> QED
  BY <1>2, <1>3, Zenon DEF FirstFree

\* The search of allocateIPLocked gives up only on a full pool.
THEOREM RefusalMeansFull == Spec => []RefusedOnlyWhenFull
<1>1. RefusedOnlyWhenFull
  <2> SUFFICES ASSUME NEW ip \in (Base + 1)..(PoolSize - 2), ip \notin DOMAIN byTunnel
               PROVE  \E other \in Free : Allocates(other)
    BY DEF RefusedOnlyWhenFull
  <2>1. ip \in Free
    BY RegistryAssumption DEF Free
  <2>2. PICK first \in Free : FirstFree(first)
    BY <2>1, FirstFreeExists
  <2>3. first \in Int /\ first <= ip
    BY <2>1, <2>2, RegistryAssumption DEF FirstFree, Free
  <2>4. first + 1 < PoolSize
    BY <2>3, RegistryAssumption
  <2> QED
    BY <2>2, <2>4 DEF Allocates
<1> QED
  BY <1>1, PTL

\* Every step keeps the nodes that are known and their addresses, unless the
\* coordinator restarts.
LEMMA KeptStep ==
  ASSUME TypeOK, [Next]_vars, NEW n \in Known
  PROVE  \/ restarts' # restarts
         \/ n \in Known' /\ peers'[n].ip = peers[n].ip
<1>0. n \in Node /\ peers[n] \in Peer /\ peers[n].known
  BY KnownIsPeer DEF Known
<1>1. ASSUME NEW m \in Node, NEW k \in Key, RegisterAgain(m, k)
      PROVE  n \in Known' /\ peers'[n].ip = peers[n].ip
  <2>1. m \in Known /\ peers[m] \in Peer
    BY <1>1, KnownIsPeer DEF RegisterAgain
  <2>2. peers'[n].known = peers[n].known /\ peers'[n].ip = peers[n].ip
    BY <1>0, <1>1, <2>1, Zenon DEF RegisterAgain, TypeOK, Peer
  <2> QED
    BY <1>0, <2>2, Zenon DEF Known
<1>2. ASSUME NEW m \in Node, NEW k \in Key, RegisterNew(m, k)
      PROVE  n \in Known' /\ peers'[n].ip = peers[n].ip
  <2>1. m # n
    BY <1>2 DEF RegisterNew
  <2>2. peers'[n] = peers[n]
    BY <1>0, <1>2, <2>1 DEF RegisterNew, TypeOK
  <2> QED
    BY <1>0, <2>2 DEF Known
<1>3. ASSUME NEW m \in Node, NEW eps \in EpLists, SetEndpoints(m, eps)
      PROVE  n \in Known' /\ peers'[n].ip = peers[n].ip
  <2>1. m \in Known /\ peers[m] \in Peer
    BY <1>3, KnownIsPeer DEF SetEndpoints
  <2>2. peers'[n].known = peers[n].known /\ peers'[n].ip = peers[n].ip
    BY <1>0, <1>3, <2>1, Zenon DEF SetEndpoints, TypeOK, Peer
  <2> QED
    BY <1>0, <2>2, Zenon DEF Known
<1>4. CASE UNCHANGED peers
  BY <1>0, <1>4 DEF Known
<1>5. ASSUME NEW c \in Poller, PollerStep(c)
      PROVE  UNCHANGED peers
  BY <1>5 DEF PollerStep, Poll, Wake, Timeout, Peers, Respond, Abort, storeVars
<1>6. CASE Restart
  BY <1>6 DEF Restart, TypeOK
<1> QED
  BY <1>1, <1>2, <1>3, <1>4, <1>5, <1>6 DEF Next, Register, vars, storeVars

\* Within one run of the coordinator, a registered node stays registered and
\* keeps its address.
THEOREM AddressesAreKept == Spec => AddressKept
<1>1. TypeOK /\ [Next]_vars =>
        [\A n \in Known : \/ restarts' # restarts
                          \/ n \in Known' /\ peers'[n].ip = peers[n].ip]_vars
  BY KeptStep
<1> QED
  BY <1>1, TypeCorrect, PTL DEF Spec, AddressKept

-----------------------------------------------------------------------------
(* The long poll                                                           *)

\* Channels are numbered like etags; every channel before the current one is
\* closed.  A poller waits on the current channel only with the current etag.
ChannelsOK ==
  /\ \A x \in closed : x < broad
  /\ \A c \in Poller : pc[c] = "wait" =>
       \/ ch[c] \in closed
       \/ ch[c] = broad /\ since[c] = etag

\* A response is never newer than the registry, nor a client newer than the
\* last response; a response under the current etag has its content.
ResponsesOK ==
  \A c \in Poller :
    /\ since[c] <= resp[c].etag
    /\ resp[c].etag <= etag
    /\ resp[c].etag = etag => resp[c].peers = peers

PollInv == TypeOK /\ ChannelsOK /\ ResponsesOK

LEMMA PollInvInit == Init => PollInv
<1> SUFFICES ASSUME Init PROVE PollInv
  OBVIOUS
<1>1. TypeOK
  BY TypeInit
<1>2. ChannelsOK
  BY DEF Init, ChannelsOK
<1>3. ResponsesOK
  BY DEF Init, ResponsesOK, NoResp
<1> QED
  BY <1>1, <1>2, <1>3 DEF PollInv

\* A change wakes every waiting poller and makes every response old.
LEMMA BumpStep ==
  ASSUME PollInv, bumpEtagLocked, UNCHANGED <<since, ch, resp>>,
         \A c \in Poller : pc'[c] = "wait" => pc[c] = "wait"
  PROVE  ChannelsOK' /\ ResponsesOK'
<1>1. etag \in Nat /\ broad \in Nat /\ closed \subseteq Nat
  BY DEF PollInv, TypeOK
<1>2. ChannelsOK'
  BY <1>1 DEF PollInv, ChannelsOK, bumpEtagLocked
<1>3. \A c \in Poller : resp[c].etag \in Nat
  BY DEF PollInv, TypeOK
<1>4. ResponsesOK'
  BY <1>1, <1>3 DEF PollInv, ResponsesOK, bumpEtagLocked
<1> QED
  BY <1>2, <1>4

LEMMA PollInvStep == PollInv /\ [Next]_vars => PollInv'
<1> SUFFICES ASSUME PollInv, [Next]_vars
             PROVE  PollInv'
  OBVIOUS
<1>0. TypeOK /\ TypeOK'
  BY TypeStep DEF PollInv
<1>1. ASSUME NEW n \in Node, NEW k \in Key, Register(n, k)
      PROVE  PollInv'
  BY <1>0, <1>1, BumpStep DEF Register, RegisterAgain, RegisterNew, pollVars, PollInv
<1>2. ASSUME NEW n \in Node, NEW eps \in EpLists, SetEndpoints(n, eps)
      PROVE  PollInv'
  BY <1>0, <1>2, BumpStep DEF SetEndpoints, pollVars, PollInv
<1>3. CASE Restart
  BY <1>0, <1>3, BumpStep DEF Restart, PollInv
<1>4. ASSUME NEW c \in Poller, PollerStep(c)
      PROVE  PollInv'
  <2>0. UNCHANGED storeVars
    BY <1>4 DEF PollerStep, Poll, Wake, Timeout, Peers, Respond, Abort
  <2>1. CASE Poll(c)
    <3>1. ChannelsOK'
      BY <2>0, <2>1, <1>0 DEF Poll, PollInv, ChannelsOK, ResponsesOK, TypeOK, storeVars
    <3>2. ResponsesOK'
      BY <2>0, <2>1 DEF Poll, PollInv, ResponsesOK, storeVars
    <3> QED
      BY <1>0, <3>1, <3>2 DEF PollInv
  <2>2. CASE Wake(c) \/ Timeout(c) \/ Abort(c)
    <3>1. ChannelsOK'
      BY <2>0, <2>2, <1>0 DEF Wake, Timeout, Abort, PollInv, ChannelsOK, TypeOK, storeVars
    <3>2. ResponsesOK'
      BY <2>0, <2>2 DEF Wake, Timeout, Abort, PollInv, ResponsesOK, storeVars
    <3> QED
      BY <1>0, <3>1, <3>2 DEF PollInv
  <2>3. CASE Peers(c)
    <3>1. ChannelsOK'
      BY <2>0, <2>3, <1>0 DEF Peers, PollInv, ChannelsOK, TypeOK, storeVars
    <3>2. resp' = [resp EXCEPT ![c] = [etag |-> etag, peers |-> peers]] /\ UNCHANGED since
      BY <2>3 DEF Peers
    <3>3. etag \in Nat /\ since \in [Poller -> Nat] /\ resp[c].etag \in Nat
      BY <1>0 DEF TypeOK
    <3>4. since[c] <= etag
      BY <3>3 DEF PollInv, ResponsesOK
    <3>5. resp'[c].etag = etag /\ resp'[c].peers = peers
      BY <3>2, <1>0 DEF TypeOK
    <3>6. \A d \in Poller \ {c} : resp'[d] = resp[d]
      BY <3>2, <1>0 DEF TypeOK
    <3>7. ResponsesOK'
      BY <2>0, <3>2, <3>3, <3>4, <3>5, <3>6 DEF PollInv, ResponsesOK, storeVars
    <3> QED
      BY <1>0, <3>1, <3>7 DEF PollInv
  <2>4. CASE Respond(c)
    <3>1. ChannelsOK'
      BY <2>0, <2>4, <1>0 DEF Respond, PollInv, ChannelsOK, TypeOK, storeVars
    <3>2. ResponsesOK'
      BY <2>0, <2>4, <1>0 DEF Respond, PollInv, ResponsesOK, TypeOK, storeVars
    <3> QED
      BY <1>0, <3>1, <3>2 DEF PollInv
  <2> QED
    BY <1>4, <2>1, <2>2, <2>3, <2>4 DEF PollerStep
<1>5. CASE UNCHANGED vars
  BY <1>0, <1>5 DEF vars, storeVars, pollVars, PollInv, ChannelsOK, ResponsesOK
<1> QED
  BY <1>1, <1>2, <1>3, <1>4, <1>5 DEF Next

LEMMA PollInvariance == Spec => []PollInv
BY PollInvInit, PollInvStep, PTL DEF Spec

\* No poller sleeps through a change: the check of the etag and the choice of
\* the channel are one step, and every change closes the channel it replaces.
THEOREM ChangesAreNotMissed == Spec => []NoMissedChange
<1>1. PollInv => NoMissedChange
  BY DEF PollInv, ChannelsOK, NoMissedChange
<1> QED
  BY <1>1, PollInvariance, PTL

\* A client that waits for a change of an etag has that etag's content.
THEOREM EtagsNameContent == Spec => []EtagNamesContent
<1>1. PollInv => EtagNamesContent
  <2> SUFFICES ASSUME PollInv, NEW c \in Poller, since[c] = etag
               PROVE  resp[c].peers = peers
    BY DEF EtagNamesContent
  <2>1. etag \in Nat /\ resp[c].etag \in Nat
    BY DEF PollInv, TypeOK
  <2> QED
    BY <2>1 DEF PollInv, ResponsesOK
<1> QED
  BY <1>1, PollInvariance, PTL

-----------------------------------------------------------------------------
(* The memory behind the endpoint lists                                    *)

\* A step of RegistryMem is a step of Registry, whatever the arrays do.
LEMMA MemStep == [MemNext]_allVars => [Next]_vars
BY DEF MemNext, MemSetEndpoints, MemPeers, MemRespond, MemAbort, MemRestart, allVars,
       Next, PollerStep

\* The memory behind the lists changes nothing of what Registry promises.
THEOREM MemRefinesRegistry == MemSpec => Spec
BY MemStep, PTL DEF MemSpec, MemInit, Spec

\* The pollers' copies are functions of the poller and of the node.
CopiesTotal ==
  /\ shared = [c \in Poller |-> shared[c]]
  /\ words  = [c \in Poller |-> [n \in Node |-> words[c][n]]]
  /\ view   = [c \in Poller |-> view[c]]

\* Until the registry changes, no word of the arrays behind a response does.
CopiesIntact ==
  \A c \in Poller : pc[c] = "write" /\ resp[c].etag = etag =>
    \A n \in Node : words[c][n] = OneValue(EpsOf(peers[n]))

MemInv == CopiesTotal /\ CopiesIntact /\ CurrentViewIntact

LEMMA MemInvInit == MemInit => MemInv
BY DEF MemInit, Init, MemInv, CopiesTotal, CopiesIntact, CurrentViewIntact

\* An array that nobody has written to is read as it is.
LEMMA ReadOfOneValue ==
  ASSUME NEW eps \in EpLists, NEW got \in ReadOf(OneValue(eps))
  PROVE  got = eps
<1>1. DOMAIN OneValue(eps) = DOMAIN eps /\ \A i \in DOMAIN eps : OneValue(eps)[i] = {eps[i]}
  BY DEF OneValue
<1>2. got = [i \in DOMAIN eps |-> got[i]]
  BY <1>1 DEF ReadOf
<1>3. ASSUME NEW i \in DOMAIN eps
      PROVE  got[i] = [addr |-> eps[i].addr, port |-> eps[i].port]
  <2>1. \E x, y \in OneValue(eps)[i] : got[i] = [addr |-> x.addr, port |-> y.port]
    BY <1>1 DEF ReadOf
  <2> QED
    BY <1>1, <2>1
<1> QED
  BY <1>2, <1>3, EndpointsAssumption

\* A write makes every copy and every view old.
LEMMA WriteStep ==
  ASSUME PollInv, CopiesTotal', bumpEtagLocked, UNCHANGED <<since, resp>>
  PROVE  MemInv'
<1>1. ASSUME NEW c \in Poller PROVE since'[c] # etag' /\ resp'[c].etag # etag'
  <2>1. etag \in Nat /\ since[c] \in Nat /\ resp[c].etag \in Nat
    BY DEF PollInv, TypeOK
  <2> QED
    BY <2>1 DEF PollInv, ResponsesOK, bumpEtagLocked
<1> QED
  BY <1>1 DEF MemInv, CopiesIntact, CurrentViewIntact

\* A step of a poller that neither takes a copy nor delivers one.
LEMMA WaitingStep ==
  ASSUME MemInv, UNCHANGED <<storeVars, since, resp, view>>, CopiesTotal',
         \A c \in Poller : pc'[c] = "write" => pc[c] = "write" /\ words'[c] = words[c]
  PROVE  MemInv'
BY DEF MemInv, CopiesIntact, CurrentViewIntact, storeVars

\* What a client decodes from a response that is still current.
LEMMA CurrentResponse ==
  ASSUME PollInv, CopiesIntact, NEW c \in Poller, pc[c] = "write", resp[c].etag = etag,
         NEW lists, \A n \in Node : lists[n] \in ReadOf(words[c][n])
  PROVE  Decoded(c, lists) = peers
<1>1. resp[c].peers = peers
  BY DEF PollInv, ResponsesOK
<1>2. peers = [n \in Node |-> peers[n]]
  BY DEF PollInv, TypeOK
<1>3. ASSUME NEW n \in Node, peers[n].known
      PROVE  [peers[n] EXCEPT !.eps = lists[n]] = peers[n]
  <2>1. peers[n] \in Peer
    BY <1>3, KnownIsPeer DEF PollInv, Known
  <2>2. lists[n] = peers[n].eps
    BY <1>3, <2>1, ReadOfOneValue, Zenon DEF CopiesIntact, EpsOf, Peer
  <2> QED
    BY <2>1, <2>2, Zenon DEF Peer
<1>4. ASSUME NEW n \in Node, ~peers[n].known
      PROVE  peers[n] = NoPeer
  BY <1>4, Zenon DEF PollInv, TypeOK, Peer
<1> QED
  BY <1>1, <1>2, <1>3, <1>4 DEF Decoded

LEMMA MemInvStep == PollInv /\ MemInv /\ [MemNext]_allVars => MemInv'
<1> SUFFICES ASSUME PollInv, MemInv, [MemNext]_allVars
             PROVE  MemInv'
  OBVIOUS
<1>1. ASSUME NEW n \in Node, NEW k \in Key, Register(n, k), UNCHANGED memVars
      PROVE  MemInv'
  <2>1. CopiesTotal'
    BY <1>1 DEF memVars, MemInv, CopiesTotal
  <2> QED
    BY <1>1, <2>1, WriteStep DEF Register, RegisterAgain, RegisterNew, pollVars
<1>2. ASSUME NEW n \in Node, NEW eps \in EpLists, MemSetEndpoints(n, eps)
      PROVE  MemInv'
  <2>1. CASE InPlace(n, eps)
    <3>1. CopiesTotal'
      BY <1>2, <2>1 DEF MemSetEndpoints, InPlace, MemInv, CopiesTotal
    <3> QED
      BY <1>2, <3>1, WriteStep DEF MemSetEndpoints, SetEndpoints, pollVars
  <2>2. CASE Reallocated(n, eps)
    <3>1. CopiesTotal'
      BY <1>2, <2>2 DEF MemSetEndpoints, Reallocated, MemInv, CopiesTotal
    <3> QED
      BY <1>2, <3>1, WriteStep DEF MemSetEndpoints, SetEndpoints, pollVars
  <2> QED
    BY <1>2, <2>1, <2>2 DEF MemSetEndpoints
<1>3. CASE MemRestart
  <2>1. CopiesTotal'
    BY <1>3 DEF MemRestart, MemInv, CopiesTotal
  <2> QED
    BY <1>3, <2>1, WriteStep DEF MemRestart, Restart
<1>4. ASSUME NEW c \in Poller, Poll(c) \/ Wake(c) \/ Timeout(c), UNCHANGED memVars
      PROVE  MemInv'
  <2>1. CopiesTotal' /\ UNCHANGED <<view, words>>
    BY <1>4 DEF memVars, MemInv, CopiesTotal
  <2>2. UNCHANGED <<storeVars, since, resp>>
    BY <1>4 DEF Poll, Wake, Timeout
  <2>3. \A d \in Poller : pc'[d] = "write" => pc[d] = "write"
    BY <1>4 DEF Poll, Wake, Timeout, PollInv, TypeOK
  <2> QED
    BY <2>1, <2>2, <2>3, WaitingStep
<1>5. ASSUME NEW c \in Poller, MemAbort(c) PROVE MemInv'
  <2>1. CopiesTotal' /\ UNCHANGED view
    BY <1>5, Zenon DEF MemAbort, MemInv, CopiesTotal
  <2>2. UNCHANGED <<storeVars, since, resp>>
    BY <1>5 DEF MemAbort, Abort
  <2>3. \A d \in Poller : pc'[d] = "write" => pc[d] = "write" /\ d # c
    BY <1>5 DEF MemAbort, Abort, PollInv, TypeOK
  <2>4. \A d \in Poller \ {c} : words'[d] = words[d]
    BY <1>5 DEF MemAbort, MemInv, CopiesTotal
  <2> QED
    BY <2>1, <2>2, <2>3, <2>4, WaitingStep
<1>6. ASSUME NEW c \in Poller, MemPeers(c) PROVE MemInv'
  <2>1. CopiesTotal'
    BY <1>6, Zenon DEF MemPeers, MemInv, CopiesTotal
  <2>2. /\ UNCHANGED <<storeVars, since, view>>
        /\ \A d \in Poller \ {c} : /\ pc'[d] = pc[d] /\ resp'[d] = resp[d]
                                   /\ words'[d] = words[d]
        /\ \A n \in Node : words'[c][n] = OneValue(EpsOf(peers[n]))
    BY <1>6 DEF MemPeers, Peers, PollInv, TypeOK, MemInv, CopiesTotal
  <2>3. CopiesIntact'
    BY <2>2 DEF MemInv, CopiesIntact, storeVars
  <2>4. CurrentViewIntact'
    BY <2>2 DEF MemInv, CurrentViewIntact, storeVars
  <2> QED
    BY <2>1, <2>3, <2>4 DEF MemInv
<1>7. ASSUME NEW c \in Poller, MemRespond(c) PROVE MemInv'
  <2>1. PICK lists : /\ \A n \in Node : lists[n] \in ReadOf(words[c][n])
                     /\ view' = [view EXCEPT ![c] = Decoded(c, lists)]
    BY <1>7, Zenon DEF MemRespond
  <2>2. CopiesTotal'
    BY <1>7, <2>1, Zenon DEF MemRespond, MemInv, CopiesTotal
  <2>3. /\ UNCHANGED <<storeVars, resp>> /\ pc[c] = "write" /\ pc'[c] # "write"
        /\ since'[c] = resp[c].etag /\ view'[c] = Decoded(c, lists)
        /\ \A d \in Poller \ {c} : /\ pc'[d] = pc[d] /\ since'[d] = since[d]
                                   /\ words'[d] = words[d] /\ view'[d] = view[d]
    BY <1>7, <2>1 DEF MemRespond, Respond, PollInv, TypeOK, MemInv, CopiesTotal
  <2>4. CopiesIntact'
    BY <2>3 DEF MemInv, CopiesIntact, storeVars
  <2>5. resp[c].etag = etag => Decoded(c, lists) = peers
    BY <2>1, <2>3, CurrentResponse DEF MemInv
  <2>6. CurrentViewIntact'
    BY <2>3, <2>5 DEF MemInv, CurrentViewIntact, storeVars
  <2> QED
    BY <2>2, <2>4, <2>6 DEF MemInv
<1>8. CASE UNCHANGED allVars
  BY <1>8 DEF allVars, vars, storeVars, pollVars, memVars, MemInv, CopiesTotal, CopiesIntact,
              CurrentViewIntact
<1> QED
  BY <1>1, <1>2, <1>3, <1>4, <1>5, <1>6, <1>7, <1>8 DEF MemNext

\* A response may mix two endpoint lists, but never under the current etag:
\* however its reads race with SetEndpoints, a client whose etag is current
\* has decoded the registry's content.
THEOREM CurrentViewsAreIntact == MemSpec => []CurrentViewIntact
<1>1. MemInv => CurrentViewIntact
  BY DEF MemInv
<1> QED
  BY <1>1, MemRefinesRegistry, PollInvariance, MemInvInit, MemInvStep, PTL DEF MemSpec

=============================================================================
