----------------------------- MODULE RegistryMem -----------------------------
(***************************************************************************)
(* The registry together with the memory behind its endpoint lists.        *)
(*                                                                         *)
(* Peers copies Peer structs under the read lock, but the copies share     *)
(* their Endpoints arrays with the store.  SetEndpoints writes the new     *)
(* list into the same array when it fits, and writeJSON reads the array    *)
(* after the lock is gone.  Those reads race with the write: a word that   *)
(* is overwritten between Peers and the end of writeJSON may be seen with  *)
(* any of the values it had in between.                                    *)
(*                                                                         *)
(* An endpoint has two words here, its address and its port.               *)
(***************************************************************************)
EXTENDS Registry, Sequences

\* An endpoint list is a sequence of endpoints.
ASSUME EndpointsAssumption ==
  \A eps \in EpLists :
    /\ DOMAIN eps = 1 .. Len(eps)
    /\ eps = [i \in DOMAIN eps |-> [addr |-> eps[i].addr, port |-> eps[i].port]]

VARIABLES
  cap,      \* capacity of each node's Endpoints array
  shared,   \* shared[c]: nodes whose array the response of c still shares
  words,    \* words[c][n][i]: values that endpoint i of n's list has had
            \* since c took its copy
  view      \* what the client has decoded from its last response

memVars == <<cap, shared, words, view>>
allVars == <<vars, memVars>>

-----------------------------------------------------------------------------
OneValue(eps) == [i \in DOMAIN eps |-> {eps[i]}]
EpsOf(entry)  == IF entry.known THEN entry.eps ELSE NoEps

MemInit ==
  /\ Init
  /\ cap    = [n \in Node |-> 0]
  /\ shared = [c \in Poller |-> {}]
  /\ words  = [c \in Poller |-> [n \in Node |-> <<>>]]
  /\ view   = [c \in Poller |-> Nobody]

\* append(s[:0], eps...): in place when it fits, else a new array of at least
\* twice the capacity.
Grown(old, needed) == IF needed > 2 * old THEN needed ELSE 2 * old

Overwritten(seen, eps) ==
  [i \in DOMAIN seen |-> IF i \in DOMAIN eps THEN seen[i] \cup {eps[i]} ELSE seen[i]]

InPlace(n, eps) ==
  /\ Len(eps) <= cap[n]
  /\ words' = [c \in Poller |->
                 IF n \in shared[c]
                 THEN [words[c] EXCEPT ![n] = Overwritten(@, eps)]
                 ELSE words[c]]
  /\ UNCHANGED <<cap, shared>>

Reallocated(n, eps) ==
  /\ Len(eps) > cap[n]
  /\ cap'    = [cap EXCEPT ![n] = Grown(@, Len(eps))]
  /\ shared' = [c \in Poller |-> shared[c] \ {n}]
  /\ UNCHANGED words

MemSetEndpoints(n, eps) ==
  /\ SetEndpoints(n, eps)
  /\ InPlace(n, eps) \/ Reallocated(n, eps)
  /\ UNCHANGED view

\* Peers: struct copies, arrays shared.
MemPeers(c) ==
  /\ Peers(c)
  /\ shared' = [shared EXCEPT ![c] = Known]
  /\ words'  = [words EXCEPT ![c] = [n \in Node |-> OneValue(EpsOf(peers[n]))]]
  /\ UNCHANGED <<cap, view>>

\* What json.Marshal may read of a list: each word of each endpoint with one
\* of the values it has had.
ReadOf(seen) ==
  {eps \in [DOMAIN seen -> UNION {{[addr |-> x.addr, port |-> y.port] : x, y \in seen[i]}
                                   : i \in DOMAIN seen}] :
     \A i \in DOMAIN seen : \E x, y \in seen[i] : eps[i] = [addr |-> x.addr, port |-> y.port]}

Decoded(c, lists) ==
  [n \in Node |-> IF resp[c].peers[n].known
                  THEN [resp[c].peers[n] EXCEPT !.eps = lists[n]]
                  ELSE NoPeer]

MemRespond(c) ==
  /\ Respond(c)
  /\ \E lists \in [Node -> UNION {ReadOf(words[c][n]) : n \in Node}] :
       /\ \A n \in Node : lists[n] \in ReadOf(words[c][n])
       /\ view' = [view EXCEPT ![c] = Decoded(c, lists)]
  /\ shared' = [shared EXCEPT ![c] = {}]
  /\ words'  = [words EXCEPT ![c] = [n \in Node |-> <<>>]]
  /\ UNCHANGED cap

MemAbort(c) ==
  /\ Abort(c)
  /\ shared' = [shared EXCEPT ![c] = {}]
  /\ words'  = [words EXCEPT ![c] = [n \in Node |-> <<>>]]
  /\ UNCHANGED <<cap, view>>

MemRestart ==
  /\ Restart
  /\ cap'    = [n \in Node |-> 0]
  /\ shared' = [c \in Poller |-> {}]
  /\ words'  = [c \in Poller |-> [n \in Node |-> <<>>]]
  /\ UNCHANGED view

MemNext ==
  \/ \E n \in Node, k \in Key : Register(n, k) /\ UNCHANGED memVars
  \/ \E n \in Node, eps \in EpLists : MemSetEndpoints(n, eps)
  \/ \E c \in Poller : \/ (Poll(c) \/ Wake(c) \/ Timeout(c)) /\ UNCHANGED memVars
                       \/ MemPeers(c)
                       \/ MemRespond(c)
                       \/ MemAbort(c)
  \/ MemRestart

MemSpec == MemInit /\ [][MemNext]_allVars

\* A client polls without end and its handler's steps are not delayed for
\* ever; a client whose requests keep failing is answered at last.  The
\* long-poll timeout is left out: what follows does not wait for it.
MemFairness ==
  \A c \in Poller : /\ WF_allVars(Poll(c) /\ UNCHANGED memVars)
                    /\ WF_allVars(Wake(c) /\ UNCHANGED memVars)
                    /\ SF_allVars(MemPeers(c))
                    /\ SF_allVars(MemRespond(c))

MemFairSpec == MemSpec /\ MemFairness

-----------------------------------------------------------------------------
(* Properties                                                              *)

\* A response may mix two endpoint lists, but never under the current etag:
\* a client whose etag is current has decoded the current content, word for
\* word, so that a poll that waits is never one that should repair a torn
\* list.
CurrentViewIntact ==
  \A c \in Poller : since[c] = etag => view[c] = peers

\* Once the registry is left alone, every client comes to hold its content:
\* torn responses are repaired by the polls that follow, without the
\* long-poll timeout.
ViewsSettle ==
  \A c \in Poller : <>[](view[c] = peers)

=============================================================================
