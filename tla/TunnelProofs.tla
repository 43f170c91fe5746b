---------------------------- MODULE TunnelProofs ----------------------------
(***************************************************************************)
(* Proofs about Tunnel, for any number of callers, names and ports: a      *)
(* Create that fails is clean, one that succeeds lasts, and links of other *)
(* types are never deleted.                                                *)
(***************************************************************************)
EXTENDS Tunnel, TLAPS

\* The places of a call that has added its link and not returned.
Holding == {"mtu", "up", "cleanup", "assign", "addr"}

Succeeded(o) == result[o] \in {"ok", "partial"}

\* What the place of a call says of it.
PlaceInv ==
  \A o \in Op :
    /\ pc[o] = "idle" => call[o].kind = "none"
    /\ pc[o] = "done" <=> result[o] # "none"
    /\ pc[o] \in Holding \cup {"add"} => Creates(o)
    /\ pc[o] = "del" => call[o].kind = "delete"
    /\ pc[o] = "serving" => ~Creates(o)
    /\ pc[o] \in {"fou", "serving", "rollback"} \/ created[o] => call[o].port \in Port

\* A link belongs to a call for its name that has still to deal with it, has
\* succeeded, or has logged its failure.
LinkInv ==
  \A n \in Name :
    /\ links[n].gre <=> links[n].by \in Op
    /\ \A o \in Op : links[n].by = o =>
         /\ call[o].name = n /\ Creates(o)
         /\ pc[o] \in Holding \/ Succeeded(o) \/ warned[o]

\* So does a port that a Create has opened.
PortInv ==
  \A p \in Port, o \in Op : fou[p] = o =>
    /\ created[o]
    /\ Creates(o) => /\ call[o].port = p
                     /\ pc[o] \in Holding \cup {"add", "rollback"} \/ Succeeded(o) \/ warned[o]

\* A Create that is through has its link, unless a Delete has taken it.
Through(o) == Creates(o) /\ (pc[o] \in {"assign", "addr"} \/ Succeeded(o))

UpInv ==
  \A o \in Op : Through(o) =>
    \/ /\ Mine(o) /\ links[call[o].name].up
       /\ call[o].kind = "create" /\ call[o].cidr # NoCidr /\ result[o] = "ok"
            => links[call[o].name].addr
    \/ Deleted(o)

\* A Delete that has passed the type check holds the index of a GRE link.
ForeignInv == \A o \in Op : pc[o] = "del" => index[o] # Foreign

IInv == TypeOK /\ PlaceInv /\ LinkInv /\ PortInv /\ UpInv /\ ForeignInv

Link == [by : Op \cup {Foreign, NoOp}, gre : BOOLEAN, up : BOOLEAN,
         port : Port \cup {NoPort}, addr : BOOLEAN]

\* Links as TypeOK has them.
LinksOK == links \in [Name -> Link] /\ \A n \in Name : ~Exists(n) => links[n] = NoLink

\* The other variables as TypeOK has them.
RestOK ==
  /\ fou \in [Port -> Op \cup {NoOp}]
  /\ pc \in [Op -> {"idle", "lookup", "fou", "add", "mtu", "up", "cleanup", "rollback",
                    "serving", "del", "assign", "addr", "done"}]
  /\ call \in [Op -> Calls \cup [kind : {"none", "create", "fsm"}, name : {Idle.name},
                            port : {NoPort}, mtu : {FALSE}, cidr : {NoCidr}]]
  /\ created \in [Op -> BOOLEAN] /\ warned \in [Op -> BOOLEAN]
  /\ index \in [Op -> Op \cup {Foreign, NoOp}]
  /\ result \in [Op -> {"none", "ok", "err", "partial"}]

LEMMA TypeParts == TypeOK <=> LinksOK /\ RestOK
BY DEF TypeOK, LinksOK, RestOK, Link

\* A write to one link keeps the links well-formed.
LEMMA SetLink ==
  ASSUME LinksOK, NEW n \in Name, NEW L \in Link, L.by # NoOp \/ L = NoLink,
         links' = [links EXCEPT ![n] = L]
  PROVE  LinksOK' /\ links'[n] = L /\ \A m \in Name : m # n => links'[m] = links[m]
BY DEF LinksOK, Exists

LEMMA IdleName == Idle.name \in Name
<1>1. (CHOOSE n \in Name : TRUE) \in Name
  BY TunnelAssumption
<1> QED
  BY <1>1 DEF Idle

\* What the types say of a call's arguments.
LEMMA CallTypes ==
  ASSUME TypeOK, NEW o \in Op
  PROVE  call[o].name \in Name /\ call[o].port \in Port \cup {NoPort}
<1>1. call[o] \in Calls \cup [kind : {"none", "create", "fsm"}, name : {Idle.name},
                             port : {NoPort}, mtu : {FALSE}, cidr : {NoCidr}]
  BY Zenon DEF TypeOK
<1>2. CASE call[o] \in Calls
  <2>1. call[o].name \in Name
    BY <1>2, IdleName, Zenon DEF Calls
  <2>2. call[o].port \in Port \cup {NoPort}
    BY <1>2, Zenon DEF Calls
  <2> QED
    BY <2>1, <2>2
<1>3. CASE call[o] \notin Calls
  BY <1>1, <1>3, IdleName, Zenon
<1> QED
  BY <1>2, <1>3

\* Of the others, a write to the link of o must leave what UpInv says.
LEMMA UpKept ==
  ASSUME IInv, NEW o \in Op, call' = call,
         \A x \in Op : x # o => pc'[x] = pc[x] /\ result'[x] = result[x],
         \A x \in Op : Deleted(x) => Deleted(x)',
         \A n \in Name : n # call[o].name => links'[n] = links[n],
         \A x \in Op : x # o /\ links[call[o].name].by = x =>
           \/ Deleted(x)'
           \/ /\ links'[call[o].name].by = x
              /\ links[call[o].name].up => links'[call[o].name].up
              /\ links[call[o].name].addr => links'[call[o].name].addr,
         Through(o)' => \/ /\ Mine(o)' /\ links'[call[o].name].up
                           /\ call[o].kind = "create" /\ call[o].cidr # NoCidr /\ result'[o] = "ok"
                                => links'[call[o].name].addr
                        \/ Deleted(o)'
  PROVE  UpInv'
<1> SUFFICES ASSUME NEW x \in Op, x # o, Through(x)', ~Deleted(x)'
             PROVE  /\ Mine(x)' /\ links'[call[x].name].up
                    /\ call[x].kind = "create" /\ call[x].cidr # NoCidr /\ result'[x] = "ok"
                         => links'[call[x].name].addr
  BY DEF UpInv
<1>1. call[x].name \in Name
  BY CallTypes DEF IInv
<1>2. /\ Mine(x) /\ links[call[x].name].up
      /\ call[x].kind = "create" /\ call[x].cidr # NoCidr /\ result[x] = "ok"
           => links[call[x].name].addr
  BY DEF IInv, UpInv, Through, Creates, Succeeded
<1>3. CASE call[x].name = call[o].name
  BY <1>2, <1>3, TunnelAssumption DEF Mine, Exists
<1>4. CASE call[x].name # call[o].name
  BY <1>1, <1>2, <1>4 DEF Mine, Exists
<1> QED
  BY <1>3, <1>4

\* The lookups.
LEMMA LookupStep ==
  ASSUME IInv, NEW o \in Op, CreateLookup(o) \/ DeleteLookup(o) \/ AssignLookup(o)
  PROVE  IInv'
<1> USE TunnelAssumption DEF IInv, CreateLookup, DeleteLookup, AssignLookup, Goto, Return, AssignFails, Exists, kernel, locals
<1>a. /\ call' = call
      /\ \A x \in Op : call[x].name \in Name /\ call[x].port \in Port \cup {NoPort}
  BY CallTypes
<1>b. \A x \in Op : Deleted(x) => Deleted(x)'
  BY <1>a DEF TypeOK, PlaceInv, Deleted
<1>1. TypeOK'
  <2>1. links[call[o].name].by \in Op \cup {Foreign, NoOp} /\ LinksOK /\ RestOK
    BY <1>a, TypeParts DEF LinksOK, Link
  <2>2. RestOK'
    BY <2>1, Zenon DEF RestOK
  <2> QED
    BY <2>1, <2>2, Zenon DEF TypeOK, LinksOK, RestOK, Link, Exists
<1>2. PlaceInv'
  BY <1>a DEF TypeOK, PlaceInv, Holding, Creates
<1>3. LinkInv'
  BY <1>a DEF TypeOK, PlaceInv, LinkInv, Holding, Creates, Succeeded
<1>4. PortInv'
  BY <1>a DEF TypeOK, PlaceInv, PortInv, Holding, Creates, Succeeded
<1>5. UpInv'
  BY <1>a, <1>b, SMTT(40) DEF TypeOK, PlaceInv, UpInv, Through, Creates, Succeeded, Mine, Exists
<1>6. ForeignInv'
  BY <1>a, SMTT(40) DEF TypeOK, PlaceInv, LinkInv, ForeignInv, Holding
<1> QED
  BY <1>1, <1>2, <1>3, <1>4, <1>5, <1>6

\* The steps that change nothing but the place of their call.
LEMMA PlainStep ==
  ASSUME IInv, NEW o \in Op, LinkSetMTU(o) \/ StopServing(o)
  PROVE  IInv'
<1> USE TunnelAssumption DEF IInv, LinkSetMTU, StopServing, Goto, Return, kernel, locals
<1>a. /\ call' = call
      /\ \A x \in Op : call[x].name \in Name /\ call[x].port \in Port \cup {NoPort}
  BY CallTypes
<1>b. \A x \in Op : Deleted(x) => Deleted(x)'
  BY <1>a DEF TypeOK, PlaceInv, Deleted
<1>1. TypeOK'
  <2>1. links[call[o].name].by \in Op \cup {Foreign, NoOp} /\ LinksOK /\ RestOK
    BY <1>a, TypeParts DEF LinksOK, Link
  <2>2. RestOK'
    BY <2>1, Zenon DEF RestOK
  <2> QED
    BY <2>1, <2>2, Zenon DEF TypeOK, LinksOK, RestOK, Link, Exists
<1>2. PlaceInv'
  BY <1>a DEF TypeOK, PlaceInv, Holding, Creates
<1>3. LinkInv'
  BY <1>a DEF TypeOK, PlaceInv, LinkInv, Holding, Creates, Succeeded
<1>4. PortInv'
  BY <1>a DEF TypeOK, PlaceInv, PortInv, Holding, Creates, Succeeded
<1>5. UpInv'
  BY <1>a, <1>b, SMTT(40) DEF TypeOK, PlaceInv, UpInv, Through, Creates, Succeeded, Mine, Exists
<1>6. ForeignInv'
  BY <1>a DEF TypeOK, PlaceInv, LinkInv, ForeignInv, Holding
<1> QED
  BY <1>1, <1>2, <1>3, <1>4, <1>5, <1>6

LEMMA EnsureFOUStep ==
  ASSUME IInv, NEW o \in Op, EnsureFOU(o)
  PROVE  IInv'
<1> USE TunnelAssumption DEF IInv, EnsureFOU, Goto, Return, Open
<1>a. /\ call' = call
      /\ \A x \in Op : call[x].name \in Name /\ call[x].port \in Port \cup {NoPort}
  BY CallTypes
<1>b. \A x \in Op : Deleted(x) => Deleted(x)'
  BY <1>a DEF TypeOK, PlaceInv, Deleted
<1>1. TypeOK'
  <2>1. LinksOK'
    BY TypeParts DEF LinksOK, Exists
  <2>2. links[call[o].name].by \in Op \cup {Foreign, NoOp} /\ (pc[o] = "fou" => call[o].port \in Port)
    BY <1>a, TypeParts DEF LinksOK, Link, PlaceInv
  <2>3. RestOK
    BY TypeParts
  <2>4. fou' \in [Port -> Op \cup {NoOp}]
    BY <2>2, <2>3 DEF RestOK
  <2>7. created' \in [Op -> BOOLEAN]
    BY <2>3, Zenon DEF RestOK
  <2>8. result' \in [Op -> {"none", "ok", "err", "partial"}]
    BY <2>3 DEF RestOK
  <2>5. pc' \in [Op -> {"idle", "lookup", "fou", "add", "mtu", "up", "cleanup", "rollback",
                        "serving", "del", "assign", "addr", "done"}]
    BY <2>2, <2>3 DEF RestOK
  <2>6. RestOK'
    BY <2>3, <2>4, <2>5, <2>7, <2>8, Zenon DEF RestOK
  <2> QED
    BY <2>1, <2>6, Zenon DEF TypeOK, LinksOK, RestOK, Link
<1>2. PlaceInv'
  BY <1>a DEF TypeOK, PlaceInv, Holding, Creates
<1>3. LinkInv'
  BY <1>a DEF TypeOK, PlaceInv, LinkInv, Holding, Creates, Succeeded
<1>4. PortInv'
  BY <1>a DEF TypeOK, PlaceInv, PortInv, Holding, Creates, Succeeded
<1>5. UpInv'
  BY <1>a, <1>b DEF TypeOK, PlaceInv, UpInv, Through, Creates, Succeeded, Mine, Exists
<1>6. ForeignInv'
  BY <1>a DEF TypeOK, PlaceInv, LinkInv, ForeignInv, Holding
<1> QED
  BY <1>1, <1>2, <1>3, <1>4, <1>5, <1>6

LEMMA RollbackFOUStep ==
  ASSUME IInv, NEW o \in Op, RollbackFOU(o)
  PROVE  IInv'
<1> USE TunnelAssumption DEF IInv, RollbackFOU, Return, Open
<1>a. /\ call' = call
      /\ \A x \in Op : call[x].name \in Name /\ call[x].port \in Port \cup {NoPort}
  BY CallTypes
<1>b. \A x \in Op : Deleted(x) => Deleted(x)'
  BY <1>a DEF TypeOK, PlaceInv, Deleted
<1>1. TypeOK'
  <2>1. links[call[o].name].by \in Op \cup {Foreign, NoOp} /\ LinksOK /\ RestOK
    BY <1>a, TypeParts DEF LinksOK, Link
  <2>2. RestOK'
    BY <2>1, Zenon DEF RestOK
  <2> QED
    BY <2>1, <2>2, Zenon DEF TypeOK, LinksOK, RestOK, Link, Exists
<1>2. PlaceInv'
  BY <1>a DEF TypeOK, PlaceInv, Holding, Creates
<1>3. LinkInv'
  BY <1>a DEF TypeOK, PlaceInv, LinkInv, Holding, Creates, Succeeded
<1>4. PortInv'
  BY <1>a DEF TypeOK, PlaceInv, PortInv, Holding, Creates, Succeeded
<1>5. UpInv'
  BY <1>a, <1>b DEF TypeOK, PlaceInv, UpInv, Through, Creates, Succeeded, Mine, Exists
<1>6. ForeignInv'
  BY <1>a DEF TypeOK, PlaceInv, LinkInv, ForeignInv, Holding
<1> QED
  BY <1>1, <1>2, <1>3, <1>4, <1>5, <1>6

\* The steps that write a link: L is what they write.
LEMMA LinkAddStep ==
  ASSUME IInv, NEW o \in Op, LinkAdd(o)
  PROVE  IInv'
<1> USE TunnelAssumption DEF IInv, LinkAdd, Goto, Return, Fail, Exists, locals
<1> DEFINE nm == call[o].name
           L  == [by |-> o, gre |-> TRUE, up |-> FALSE, port |-> call[o].port, addr |-> FALSE]
<1>a. /\ nm \in Name /\ links[nm] \in Link /\ LinksOK /\ RestOK
      /\ \A x \in Op : call[x].name \in Name /\ call[x].port \in Port \cup {NoPort}
  BY CallTypes, TypeParts DEF LinksOK
<1>b. call' = call /\ \A x \in Op : Deleted(x) => Deleted(x)'
  BY DEF TypeOK, PlaceInv, Deleted
<1>c. ASSUME links' # links
      PROVE  /\ links[nm].by = NoOp /\ L.by = o /\ L.gre
             /\ links'[nm] = L /\ \A m \in Name : m # nm => links'[m] = links[m]
             /\ LinksOK'
  <2>1. links[nm].by = NoOp /\ links' = [links EXCEPT ![nm] = L]
    BY <1>a, <1>c DEF Exists
  <2>2. /\ links[nm].by = NoOp /\ L.by = o /\ L.gre
        /\ L \in Link /\ (L.by # NoOp \/ L = NoLink)
    BY <1>a, <2>1 DEF Link, LinkInv, Mine, Looked, Exists, NoLink
  <2> HIDE DEF LinkAdd, L
  <2> QED
    BY <1>a, <2>1, <2>2, SetLink, Zenon
<1>d. \A x \in Op : x # o => pc'[x] = pc[x] /\ result'[x] = result[x]
  BY <1>a DEF RestOK
<1> HIDE DEF L
<1>1. TypeOK'
  <2>1. RestOK'
    BY <1>a, ZenonT(60) DEF RestOK
  <2> HIDE DEF LinkAdd
  <2>2. LinksOK'
    BY <1>a, <1>c DEF LinksOK, Exists
  <2> QED
    BY <2>1, <2>2, Zenon DEF TypeOK, LinksOK, RestOK, Link
<1>2. PlaceInv'
  BY <1>a, <1>b DEF TypeOK, PlaceInv, Holding, Creates
<1>3. LinkInv'
  <2>1. CASE links' = links
    BY <1>a, <1>b, <2>1, SMTT(40) DEF TypeOK, PlaceInv, LinkInv, Holding, Creates, Succeeded
  <2>2. CASE links' # links
    BY <1>a, <1>b, <1>c, <2>2, SMTT(40) DEF TypeOK, PlaceInv, LinkInv, Holding, Creates, Succeeded
  <2> QED
    BY <2>1, <2>2
<1>4. PortInv'
  BY <1>a, <1>b, SMTT(40) DEF TypeOK, PlaceInv, PortInv, Holding, Creates, Succeeded
<1>5. UpInv'
  <2>1. CASE links' = links
    BY <1>a, <1>b, <2>1, SMTT(90) DEF TypeOK, PlaceInv, UpInv, Through, Creates, Succeeded, Mine, Exists
  <2>2. CASE links' # links
    <3>1. Through(o)' => \/ /\ Mine(o)' /\ links'[nm].up
                            /\ call[o].kind = "create" /\ call[o].cidr # NoCidr /\ result'[o] = "ok"
                                 => links'[nm].addr
                         \/ Deleted(o)'
      BY <1>a, <1>b, <1>c, <2>2, SMTT(90) DEF TypeOK, PlaceInv, UpInv, Through, Creates, Succeeded, Mine, Exists
    <3>2. \A x \in Op : x # o /\ links[nm].by = x =>
            \/ Deleted(x)'
            \/ /\ links'[nm].by = x
               /\ links[nm].up => links'[nm].up
               /\ links[nm].addr => links'[nm].addr
      BY <1>c, <2>2
    <3>3. \A n \in Name : n # nm => links'[n] = links[n]
      BY <1>c, <2>2
    <3> HIDE DEF LinkAdd, Return
    <3> QED
      BY <1>b, <1>d, <3>1, <3>2, <3>3, UpKept
  <2> QED
    BY <2>1, <2>2
<1>6. ForeignInv'
  <2>1. CASE links' = links
    BY <1>a, <1>b, <2>1, SMTT(40) DEF TypeOK, PlaceInv, ForeignInv, Holding
  <2>2. CASE links' # links
    BY <1>a, <1>b, <1>c, <2>2, SMTT(40) DEF TypeOK, PlaceInv, LinkInv, ForeignInv, Holding
  <2> QED
    BY <2>1, <2>2
<1> QED
  BY <1>1, <1>2, <1>3, <1>4, <1>5, <1>6

LEMMA LinkSetUpStep ==
  ASSUME IInv, NEW o \in Op, LinkSetUp(o)
  PROVE  IInv'
<1> USE TunnelAssumption DEF IInv, LinkSetUp, Goto, Return, Created, locals
<1> DEFINE nm == call[o].name
           L  == [links[nm] EXCEPT !.up = TRUE]
<1>a. /\ nm \in Name /\ links[nm] \in Link /\ LinksOK /\ RestOK
      /\ \A x \in Op : call[x].name \in Name /\ call[x].port \in Port \cup {NoPort}
  BY CallTypes, TypeParts DEF LinksOK
<1>b. call' = call /\ \A x \in Op : Deleted(x) => Deleted(x)'
  BY DEF TypeOK, PlaceInv, Deleted
<1>c. ASSUME links' # links
      PROVE  /\ links[nm].by = o /\ L.by = o /\ L.gre /\ L.up
             /\ links'[nm] = L /\ \A m \in Name : m # nm => links'[m] = links[m]
             /\ LinksOK'
  <2>1. Mine(o) /\ links' = [links EXCEPT ![nm] = L]
    BY <1>a, <1>c DEF Exists
  <2>2. /\ links[nm].by = o /\ L.by = o /\ L.gre /\ L.up
        /\ L \in Link /\ (L.by # NoOp \/ L = NoLink)
    BY <1>a, <2>1, Zenon DEF Link, LinkInv, Mine, Looked, Exists, NoLink
  <2> HIDE DEF LinkSetUp, L
  <2> QED
    BY <1>a, <2>1, <2>2, SetLink, Zenon
<1>d. \A x \in Op : x # o => pc'[x] = pc[x] /\ result'[x] = result[x]
  BY <1>a DEF RestOK
<1> HIDE DEF L
<1>1. TypeOK'
  <2>1. RestOK'
    BY <1>a, Zenon DEF RestOK
  <2> HIDE DEF LinkSetUp
  <2>2. LinksOK'
    BY <1>a, <1>c DEF LinksOK, Exists
  <2> QED
    BY <2>1, <2>2, Zenon DEF TypeOK, LinksOK, RestOK, Link
<1>2. PlaceInv'
  BY <1>a, <1>b DEF TypeOK, PlaceInv, Holding, Creates
<1>3. LinkInv'
  <2>1. CASE links' = links
    BY <1>a, <1>b, <2>1 DEF TypeOK, PlaceInv, LinkInv, Holding, Creates, Succeeded
  <2>2. CASE links' # links
    BY <1>a, <1>b, <1>c, <2>2 DEF TypeOK, PlaceInv, LinkInv, Holding, Creates, Succeeded
  <2> QED
    BY <2>1, <2>2
<1>4. PortInv'
  BY <1>a, <1>b DEF TypeOK, PlaceInv, PortInv, Holding, Creates, Succeeded
<1>5. UpInv'
  <2>1. CASE links' = links
    BY <1>a, <1>b, <2>1 DEF TypeOK, PlaceInv, UpInv, Through, Creates, Succeeded, Mine, Exists
  <2>2. CASE links' # links
    <3>1. Through(o)' => \/ /\ Mine(o)' /\ links'[nm].up
                            /\ call[o].kind = "create" /\ call[o].cidr # NoCidr /\ result'[o] = "ok"
                                 => links'[nm].addr
                         \/ Deleted(o)'
      BY <1>a, <1>b, <1>c, <2>2 DEF TypeOK, PlaceInv, UpInv, Through, Creates, Succeeded, Mine, Exists
    <3>2. \A x \in Op : x # o /\ links[nm].by = x =>
            \/ Deleted(x)'
            \/ /\ links'[nm].by = x
               /\ links[nm].up => links'[nm].up
               /\ links[nm].addr => links'[nm].addr
      BY <1>c, <2>2
    <3>3. \A n \in Name : n # nm => links'[n] = links[n]
      BY <1>c, <2>2
    <3> HIDE DEF LinkSetUp, Return
    <3> QED
      BY <1>b, <1>d, <3>1, <3>2, <3>3, UpKept
  <2> QED
    BY <2>1, <2>2
<1>6. ForeignInv'
  <2>1. CASE links' = links
    BY <1>a, <1>b, <2>1 DEF TypeOK, PlaceInv, ForeignInv, Holding
  <2>2. CASE links' # links
    BY <1>a, <1>b, <1>c, <2>2 DEF TypeOK, PlaceInv, LinkInv, ForeignInv, Holding
  <2> QED
    BY <2>1, <2>2
<1> QED
  BY <1>1, <1>2, <1>3, <1>4, <1>5, <1>6

LEMMA CleanupStep ==
  ASSUME IInv, NEW o \in Op, Cleanup(o)
  PROVE  IInv'
<1> USE TunnelAssumption DEF IInv, Cleanup, Goto, Return, Fail
<1> DEFINE nm == call[o].name
           L  == NoLink
<1>a. /\ nm \in Name /\ links[nm] \in Link /\ LinksOK /\ RestOK
      /\ \A x \in Op : call[x].name \in Name /\ call[x].port \in Port \cup {NoPort}
  BY CallTypes, TypeParts DEF LinksOK
<1>b. call' = call /\ \A x \in Op : Deleted(x) => Deleted(x)'
  BY DEF TypeOK, PlaceInv, Deleted
<1>c. ASSUME links' # links
      PROVE  /\ links[nm].by = o /\ L.by = NoOp /\ ~L.gre
             /\ links'[nm] = L /\ \A m \in Name : m # nm => links'[m] = links[m]
             /\ LinksOK'
  <2>1. Mine(o) /\ links' = [links EXCEPT ![nm] = L]
    BY <1>a, <1>c DEF Exists
  <2>2. /\ links[nm].by = o /\ L.by = NoOp /\ ~L.gre
        /\ L \in Link /\ (L.by # NoOp \/ L = NoLink)
    BY <1>a, <2>1 DEF Link, LinkInv, Mine, Looked, Exists, NoLink
  <2> HIDE DEF Cleanup, L
  <2> QED
    BY <1>a, <2>1, <2>2, SetLink, Zenon
<1>d. \A x \in Op : x # o => pc'[x] = pc[x] /\ result'[x] = result[x]
  BY <1>a DEF RestOK
<1> HIDE DEF L
<1>1. TypeOK'
  <2>1. RestOK'
    BY <1>a, Zenon DEF RestOK
  <2> HIDE DEF Cleanup
  <2>2. LinksOK'
    BY <1>a, <1>c DEF LinksOK, Exists
  <2> QED
    BY <2>1, <2>2, Zenon DEF TypeOK, LinksOK, RestOK, Link
<1>2. PlaceInv'
  BY <1>a, <1>b DEF TypeOK, PlaceInv, Holding, Creates
<1>3. LinkInv'
  <2>1. CASE links' = links
    BY <1>a, <1>b, <2>1 DEF TypeOK, PlaceInv, LinkInv, Holding, Creates, Succeeded, Mine, Exists, NoLink
  <2>2. CASE links' # links
    BY <1>a, <1>b, <1>c, <2>2 DEF TypeOK, PlaceInv, LinkInv, Holding, Creates, Succeeded
  <2> QED
    BY <2>1, <2>2
<1>4. PortInv'
  BY <1>a, <1>b DEF TypeOK, PlaceInv, PortInv, Holding, Creates, Succeeded
<1>5. UpInv'
  <2>1. CASE links' = links
    BY <1>a, <1>b, <2>1, SMTT(90) DEF TypeOK, PlaceInv, UpInv, Through, Creates, Succeeded, Mine, Exists
  <2>2. CASE links' # links
    <3>1. Through(o)' => \/ /\ Mine(o)' /\ links'[nm].up
                            /\ call[o].kind = "create" /\ call[o].cidr # NoCidr /\ result'[o] = "ok"
                                 => links'[nm].addr
                         \/ Deleted(o)'
      <4>1. pc[o] = "cleanup" /\ pc'[o] \in {"rollback", "done"} /\ result'[o] \in {result[o], "err"}
        BY <1>a DEF RestOK
      <4> HIDE DEF Cleanup, Return, Fail, Goto
      <4>2. result[o] = "none"
        BY <4>1 DEF PlaceInv
      <4> QED
        BY <4>1, <4>2 DEF Through, Succeeded
    <3>2. \A x \in Op : x # o /\ links[nm].by = x =>
            \/ Deleted(x)'
            \/ /\ links'[nm].by = x
               /\ links[nm].up => links'[nm].up
               /\ links[nm].addr => links'[nm].addr
      BY <1>c, <2>2
    <3>3. \A n \in Name : n # nm => links'[n] = links[n]
      BY <1>c, <2>2
    <3> HIDE DEF Cleanup, Return
    <3> QED
      BY <1>b, <1>d, <3>1, <3>2, <3>3, UpKept
  <2> QED
    BY <2>1, <2>2
<1>6. ForeignInv'
  <2>1. CASE links' = links
    BY <1>a, <1>b, <2>1 DEF TypeOK, PlaceInv, ForeignInv, Holding
  <2>2. CASE links' # links
    BY <1>a, <1>b, <1>c, <2>2 DEF TypeOK, PlaceInv, LinkInv, ForeignInv, Holding
  <2> QED
    BY <2>1, <2>2
<1> QED
  BY <1>1, <1>2, <1>3, <1>4, <1>5, <1>6

LEMMA LinkDelStep ==
  ASSUME IInv, NEW o \in Op, LinkDel(o)
  PROVE  IInv'
<1> USE TunnelAssumption DEF IInv, LinkDel, Return, locals
<1> DEFINE nm == call[o].name
           L  == NoLink
<1>a. /\ nm \in Name /\ links[nm] \in Link /\ LinksOK /\ RestOK
      /\ \A x \in Op : call[x].name \in Name /\ call[x].port \in Port \cup {NoPort}
  BY CallTypes, TypeParts DEF LinksOK
<1>b. call' = call /\ \A x \in Op : Deleted(x) => Deleted(x)'
  BY DEF TypeOK, PlaceInv, Deleted
<1>c. ASSUME links' # links
      PROVE  /\ links[nm].by = index[o] /\ L.by = NoOp /\ ~L.gre
             /\ links'[nm] = L /\ \A m \in Name : m # nm => links'[m] = links[m]
             /\ LinksOK'
  <2>1. Looked(o) /\ links' = [links EXCEPT ![nm] = L]
    BY <1>a, <1>c DEF Exists
  <2>2. /\ links[nm].by = index[o] /\ L.by = NoOp /\ ~L.gre
        /\ L \in Link /\ (L.by # NoOp \/ L = NoLink)
    BY <1>a, <2>1 DEF Link, LinkInv, Mine, Looked, Exists, NoLink
  <2> HIDE DEF LinkDel, L
  <2> QED
    BY <1>a, <2>1, <2>2, SetLink, Zenon
<1>d. \A x \in Op : x # o => pc'[x] = pc[x] /\ result'[x] = result[x]
  BY <1>a DEF RestOK
<1>e. \A x \in Op : links' # links /\ x = index[o] => Deleted(x)'
  BY <1>b DEF LinkDel, Return, Looked, locals, TypeOK, PlaceInv, Deleted
<1> HIDE DEF L
<1>1. TypeOK'
  <2>1. RestOK'
    BY <1>a, Zenon DEF RestOK
  <2> HIDE DEF LinkDel
  <2>2. LinksOK'
    BY <1>a, <1>c DEF LinksOK, Exists
  <2> QED
    BY <2>1, <2>2, Zenon DEF TypeOK, LinksOK, RestOK, Link
<1>2. PlaceInv'
  BY <1>a, <1>b DEF TypeOK, PlaceInv, Holding, Creates
<1>3. LinkInv'
  <2>1. CASE links' = links
    BY <1>a, <1>b, <2>1, SMTT(40) DEF TypeOK, PlaceInv, LinkInv, Holding, Creates, Succeeded
  <2>2. CASE links' # links
    BY <1>a, <1>b, <1>c, <2>2, SMTT(40) DEF TypeOK, PlaceInv, LinkInv, Holding, Creates, Succeeded
  <2> QED
    BY <2>1, <2>2
<1>4. PortInv'
  BY <1>a, <1>b DEF TypeOK, PlaceInv, PortInv, Holding, Creates, Succeeded
<1>5. UpInv'
  <2>1. CASE links' = links
    BY <1>a, <1>b, <2>1, SMTT(90) DEF TypeOK, PlaceInv, UpInv, Through, Creates, Succeeded, Mine, Exists
  <2>2. CASE links' # links
    <3>1. Through(o)' => \/ /\ Mine(o)' /\ links'[nm].up
                            /\ call[o].kind = "create" /\ call[o].cidr # NoCidr /\ result'[o] = "ok"
                                 => links'[nm].addr
                         \/ Deleted(o)'
      BY <1>a, <1>b, <1>c, <2>2 DEF TypeOK, PlaceInv, UpInv, Through, Creates, Succeeded, Mine, Exists
    <3>2. \A x \in Op : x # o /\ links[nm].by = x =>
            \/ Deleted(x)'
            \/ /\ links'[nm].by = x
               /\ links[nm].up => links'[nm].up
               /\ links[nm].addr => links'[nm].addr
      BY <1>c, <2>2, <1>e
    <3>3. \A n \in Name : n # nm => links'[n] = links[n]
      BY <1>c, <2>2
    <3> HIDE DEF LinkDel, Return
    <3> QED
      BY <1>b, <1>d, <3>1, <3>2, <3>3, UpKept
  <2> QED
    BY <2>1, <2>2
<1>6. ForeignInv'
  <2>1. CASE links' = links
    BY <1>a, <1>b, <2>1 DEF TypeOK, PlaceInv, ForeignInv, Holding
  <2>2. CASE links' # links
    BY <1>a, <1>b, <1>c, <2>2, SMTT(40) DEF TypeOK, PlaceInv, LinkInv, ForeignInv, Holding
  <2> QED
    BY <2>1, <2>2
<1> QED
  BY <1>1, <1>2, <1>3, <1>4, <1>5, <1>6

LEMMA AddrAddStep ==
  ASSUME IInv, NEW o \in Op, AddrAdd(o)
  PROVE  IInv'
<1> USE TunnelAssumption DEF IInv, AddrAdd, Return, AssignFails, locals
<1> DEFINE nm == call[o].name
           L  == [links[nm] EXCEPT !.addr = TRUE]
<1>a. /\ nm \in Name /\ links[nm] \in Link /\ LinksOK /\ RestOK
      /\ \A x \in Op : call[x].name \in Name /\ call[x].port \in Port \cup {NoPort}
  BY CallTypes, TypeParts DEF LinksOK
<1>b. call' = call /\ \A x \in Op : Deleted(x) => Deleted(x)'
  BY DEF TypeOK, PlaceInv, Deleted
<1>c. ASSUME links' # links
      PROVE  /\ links[nm].by = index[o] /\ L.by = index[o] /\ L.gre = links[nm].gre /\ L.up = links[nm].up /\ L.addr
             /\ links'[nm] = L /\ \A m \in Name : m # nm => links'[m] = links[m]
             /\ LinksOK'
  <2>1. Looked(o) /\ links' = [links EXCEPT ![nm] = L]
    BY <1>a, <1>c DEF Exists
  <2>2. /\ links[nm].by = index[o] /\ L.by = index[o] /\ L.gre = links[nm].gre /\ L.up = links[nm].up /\ L.addr
        /\ L \in Link /\ (L.by # NoOp \/ L = NoLink)
    BY <1>a, <2>1, Zenon DEF Link, LinkInv, Mine, Looked, Exists, NoLink
  <2> HIDE DEF AddrAdd, L
  <2> QED
    BY <1>a, <2>1, <2>2, SetLink, Zenon
<1>d. \A x \in Op : x # o => pc'[x] = pc[x] /\ result'[x] = result[x]
  BY <1>a DEF RestOK
<1> HIDE DEF L
<1>1. TypeOK'
  <2>1. RestOK'
    BY <1>a, Zenon DEF RestOK
  <2> HIDE DEF AddrAdd
  <2>2. LinksOK'
    BY <1>a, <1>c DEF LinksOK, Exists
  <2> QED
    BY <2>1, <2>2, Zenon DEF TypeOK, LinksOK, RestOK, Link
<1>2. PlaceInv'
  BY <1>a, <1>b DEF TypeOK, PlaceInv, Holding, Creates
<1>3. LinkInv'
  <2>1. CASE links' = links
    BY <1>a, <1>b, <2>1 DEF TypeOK, PlaceInv, LinkInv, Holding, Creates, Succeeded
  <2>2. CASE links' # links
    BY <1>a, <1>b, <1>c, <2>2 DEF TypeOK, PlaceInv, LinkInv, Holding, Creates, Succeeded
  <2> QED
    BY <2>1, <2>2
<1>4. PortInv'
  BY <1>a, <1>b DEF TypeOK, PlaceInv, PortInv, Holding, Creates, Succeeded
<1>5. UpInv'
  <2>1. CASE links' = links
    BY <1>a, <1>b, <2>1 DEF TypeOK, PlaceInv, UpInv, Through, Creates, Succeeded, Mine, Exists
  <2>2. CASE links' # links
    <3>1. Through(o)' => \/ /\ Mine(o)' /\ links'[nm].up
                            /\ call[o].kind = "create" /\ call[o].cidr # NoCidr /\ result'[o] = "ok"
                                 => links'[nm].addr
                         \/ Deleted(o)'
      BY <1>a, <1>b, <1>c, <2>2 DEF TypeOK, PlaceInv, UpInv, Through, Creates, Succeeded, Mine, Exists
    <3>2. \A x \in Op : x # o /\ links[nm].by = x =>
            \/ Deleted(x)'
            \/ /\ links'[nm].by = x
               /\ links[nm].up => links'[nm].up
               /\ links[nm].addr => links'[nm].addr
      BY <1>c, <2>2
    <3>3. \A n \in Name : n # nm => links'[n] = links[n]
      BY <1>c, <2>2
    <3> HIDE DEF AddrAdd, Return
    <3> QED
      BY <1>b, <1>d, <3>1, <3>2, <3>3, UpKept
  <2> QED
    BY <2>1, <2>2
<1>6. ForeignInv'
  <2>1. CASE links' = links
    BY <1>a, <1>b, <2>1 DEF TypeOK, PlaceInv, ForeignInv, Holding
  <2>2. CASE links' # links
    BY <1>a, <1>b, <1>c, <2>2 DEF TypeOK, PlaceInv, LinkInv, ForeignInv, Holding
  <2> QED
    BY <2>1, <2>2
<1> QED
  BY <1>1, <1>2, <1>3, <1>4, <1>5, <1>6

\* A new call, or one that is rejected at once, owns nothing yet.
LEMMA StartStep ==
  ASSUME IInv, NEW o \in Op, Start(o)
  PROVE  IInv'
<1> USE TunnelAssumption DEF IInv, Goto, Return, kernel
<1> DEFINE Blank == [kind : {"none", "create", "fsm"}, name : {Idle.name},
                     port : {NoPort}, mtu : {FALSE}, cidr : {NoCidr}]
<1>a. /\ pc[o] = "idle" /\ call[o].kind = "none"
      /\ UNCHANGED <<links, fou, created, index, warned>>
  BY DEF Start, PlaceInv
<1>b. PICK c \in Calls :
        \/ /\ c.kind \in {"create", "fsm"} /\ call' = [call EXCEPT ![o].kind = c.kind]
           /\ Return(o, "err")
        \/ /\ call' = [call EXCEPT ![o] = c]
           /\ Goto(o, IF c.kind = "serve" THEN "fou" ELSE "lookup")
  BY DEF Start
<1>c. call[o] \in Blank /\ c.kind \in {"create", "fsm", "delete", "serve"}
      /\ (c.kind = "serve" => c.port \in Port)
  BY <1>a, Zenon DEF TypeOK, Calls
<1>d. \A x \in Op : x # o => call'[x] = call[x] /\ pc'[x] = pc[x] /\ result'[x] = result[x]
  BY <1>b DEF TypeOK
<1>e. \/ call'[o].kind \in {"create", "fsm"} /\ pc'[o] = "done" /\ result'[o] = "err"
      \/ /\ call'[o] = c /\ result'[o] = result[o]
         /\ pc'[o] = IF c.kind = "serve" THEN "fou" ELSE "lookup"
  BY <1>b, <1>c DEF TypeOK
<1>f. \A n \in Name : links[n].by # o
  BY <1>a DEF LinkInv, Creates
<1>g. result[o] = "none" /\ ~created[o]
  BY <1>a, <1>c DEF TypeOK, PlaceInv
<1>1. TypeOK'
  <2>1. call' \in [Op -> Calls \cup Blank]
    <3>1. CASE call' = [call EXCEPT ![o] = c]
      BY <3>1, Zenon DEF TypeOK
    <3>2. CASE c.kind \in {"create", "fsm"} /\ call' = [call EXCEPT ![o].kind = c.kind]
      <4>1. [call[o] EXCEPT !.kind = c.kind] \in Blank
        BY <1>c, <3>2, Zenon
      <4> QED
        BY <3>2, <4>1, Zenon DEF TypeOK
    <3> QED
      BY <1>b, <3>1, <3>2, Zenon
  <2>2. pc' \in [Op -> {"idle", "lookup", "fou", "add", "mtu", "up", "cleanup", "rollback",
                        "serving", "del", "assign", "addr", "done"}]
        /\ result' \in [Op -> {"none", "ok", "err", "partial"}]
    BY <1>b DEF TypeOK
  <2> QED
    BY <1>a, <2>1, <2>2, Zenon DEF TypeOK, Exists
<1>2. PlaceInv'
  BY <1>a, <1>c, <1>d, <1>e, <1>g, SMTT(90) DEF PlaceInv, Holding, Creates
<1>3. LinkInv'
  BY <1>a, <1>d, <1>f, SMTT(90) DEF LinkInv, Creates, Succeeded
<1>4. PortInv'
  BY <1>a, <1>d, <1>e, <1>g DEF PortInv, Creates, Succeeded
<1>5. UpInv'
  <2>1. \A x \in Op : Deleted(x) => Deleted(x)'
    BY <1>a, <1>d, <1>g DEF Deleted
  <2> QED
    BY <1>a, <1>d, <1>e, <1>g, <2>1 DEF UpInv, Through, Creates, Succeeded, Mine, Exists
<1>6. ForeignInv'
  BY <1>a, <1>d, <1>e DEF ForeignInv, Holding
<1> QED
  BY <1>1, <1>2, <1>3, <1>4, <1>5, <1>6

\* A link of another type takes the place of none.
LEMMA OthersStep ==
  ASSUME IInv, NEW n \in Name, OthersAdd(n)
  PROVE  IInv'
<1> USE TunnelAssumption DEF IInv
<1>a. UNCHANGED <<fou, pc, call, created, index, warned, result>>
  BY DEF OthersAdd, locals
<1>b. ForeignLink \in Link /\ ForeignLink.by = Foreign /\ ~ForeignLink.gre
  BY Zenon DEF Link, NoLink, ForeignLink
<1>c. /\ links[n].by = NoOp
      /\ LinksOK' /\ links'[n] = ForeignLink /\ \A m \in Name : m # n => links'[m] = links[m]
  <2>1. LinksOK /\ links' = [links EXCEPT ![n] = ForeignLink]
    BY TypeParts DEF OthersAdd
  <2> QED
    BY <1>b, <2>1, SetLink DEF OthersAdd, Exists
<1>1. TypeOK'
  BY <1>a, <1>c, Zenon DEF TypeOK, LinksOK, Link
<1>2. PlaceInv' /\ ForeignInv' /\ PortInv'
  BY <1>a, Zenon DEF PlaceInv, PortInv, ForeignInv, Creates, Succeeded
<1>3. LinkInv'
  <2>1. \A m \in Name : links[m].gre <=> links[m].by \in Op
    BY Zenon DEF LinkInv
  <2>2. \A m \in Name : links'[m].gre <=> links'[m].by \in Op
    BY <1>b, <1>c, <2>1
  <2>3. \A m \in Name, o \in Op : links'[m].by = o => links[m].by = o
    BY <1>b, <1>c
  <2>4. ASSUME NEW m \in Name, NEW o \in Op, links'[m].by = o
        PROVE  /\ call'[o].name = m /\ Creates(o)'
               /\ pc'[o] \in Holding \/ Succeeded(o)' \/ warned'[o]
    <3>1. links[m].by = o
      BY <2>3, <2>4
    <3>2. /\ call[o].name = m /\ Creates(o)
          /\ pc[o] \in Holding \/ Succeeded(o) \/ warned[o]
      BY <3>1, Zenon DEF LinkInv
    <3> QED
      BY <1>a, <3>2 DEF Creates, Succeeded
  <2> QED
    BY <2>2, <2>4, Zenon DEF LinkInv
<1>4. UpInv'
  <2> SUFFICES ASSUME NEW o \in Op, Through(o), ~Deleted(o)
               PROVE  /\ Mine(o)' /\ links'[call[o].name].up
                      /\ call[o].kind = "create" /\ call[o].cidr # NoCidr /\ result[o] = "ok"
                           => links'[call[o].name].addr
    BY <1>a, Zenon DEF UpInv, Through, Creates, Succeeded, Deleted
  <2>1. /\ Mine(o) /\ links[call[o].name].up
        /\ call[o].kind = "create" /\ call[o].cidr # NoCidr /\ result[o] = "ok"
             => links[call[o].name].addr
    BY Zenon DEF UpInv
  <2>2. call[o].name \in Name /\ call[o].name # n
    BY <1>c, <2>1, CallTypes DEF Mine, Exists
  <2> QED
    BY <1>a, <1>c, <2>1, <2>2 DEF Mine, Exists
<1> QED
  BY <1>1, <1>2, <1>3, <1>4

LEMMA IInvInit == Init => IInv
<1> SUFFICES ASSUME Init PROVE IInv
  OBVIOUS
<1> USE TunnelAssumption DEF Init
<1>1. TypeOK
  <2>1. LinksOK
    <3>1. NoLink \in Link /\ ForeignLink \in Link /\ ForeignLink.by = Foreign
      BY Zenon DEF Link, NoLink, ForeignLink
    <3> QED
      BY <3>1 DEF LinksOK, Exists
  <2>2. Idle \in [kind : {"none", "create", "fsm"}, name : {Idle.name},
                 port : {NoPort}, mtu : {FALSE}, cidr : {NoCidr}]
    BY DEF Idle
  <2>3. RestOK
    BY <2>2, Zenon DEF RestOK
  <2> QED
    BY <2>1, <2>3, TypeParts
<1>2. PlaceInv /\ PortInv /\ ForeignInv
  BY DEF PlaceInv, PortInv, ForeignInv, Holding, Idle, Creates
<1>3. LinkInv
  BY DEF LinkInv, NoLink, ForeignLink
<1>4. UpInv
  BY DEF UpInv, Through, Idle, Creates
<1> QED
  BY <1>1, <1>2, <1>3, <1>4 DEF IInv

LEMMA IInvNext == IInv /\ [Next]_vars => IInv'
<1> SUFFICES ASSUME IInv, [Next]_vars PROVE IInv'
  OBVIOUS
<1>1. CASE UNCHANGED vars
  <2> USE <1>1 DEF vars, kernel, locals, IInv
  <2>1. TypeOK'
    BY Zenon DEF TypeOK, Exists
  <2>2. PlaceInv' /\ LinkInv' /\ PortInv' /\ ForeignInv'
    BY SMTT(90) DEF PlaceInv, LinkInv, PortInv, ForeignInv, Creates, Succeeded
  <2>3. UpInv'
    BY Zenon DEF UpInv, Through, Creates, Succeeded, Mine, Exists, Deleted
  <2> QED
    BY <2>1, <2>2, <2>3
<1>2. ASSUME NEW o \in Op, Step(o) PROVE IInv'
  BY <1>2, StartStep, LookupStep, PlainStep, EnsureFOUStep, RollbackFOUStep, LinkAddStep,
     LinkSetUpStep, CleanupStep, LinkDelStep, AddrAddStep DEF Step
<1>3. ASSUME NEW n \in Name, OthersAdd(n) PROVE IInv'
  BY <1>3, OthersStep
<1> QED
  BY <1>1, <1>2, <1>3 DEF Next

\* The strengthened invariant holds in every reachable state.
THEOREM Invariance == Spec => []IInv
BY IInvInit, IInvNext, PTL DEF Spec

\* Links, ports and callers keep their types, and a link that does not exist
\* has no attributes.
THEOREM TypeCorrect == Spec => []TypeOK
BY Invariance, PTL DEF IInv

\* A Create that fails, at any of its netlink calls and among any others,
\* leaves no link and no port of its own, or has logged why.
THEOREM FailuresAreClean == Spec => []FailureIsClean
<1>1. IInv => FailureIsClean
  <2> SUFFICES ASSUME IInv, NEW o \in Op, Creates(o), result[o] = "err", ~warned[o]
               PROVE  (\A n \in Name : links[n].by # o) /\ (\A p \in Port : fou[p] # o)
    BY DEF FailureIsClean
  <2>1. pc[o] = "done"
    BY DEF IInv, PlaceInv
  <2> QED
    BY <2>1 DEF IInv, LinkInv, PortInv, Holding, Succeeded
<1> QED
  BY <1>1, Invariance, PTL

\* A Create that succeeds has its link, up and with its address, until a Delete
\* takes that very link.
THEOREM SuccessesLast == Spec => []SuccessLasts
<1>1. IInv => SuccessLasts
  BY DEF IInv, UpInv, Through, SuccessLasts, Succeeded, Deleted
<1> QED
  BY <1>1, Invariance, PTL

\* No step of any call does more to a link of another type than give it an
\* address, and that only after a Delete has taken the tunnel it was meant for.
THEOREM ForeignLinksAreLeft == Spec => ForeignLinksStay
<1> DEFINE Addressed(n) == /\ links'[n] = [links[n] EXCEPT !.addr = TRUE]
                           /\ \E o \in Op : pc[o] = "addr" /\ call[o].name = n /\ Deleted(o)
<1>1. ASSUME IInv, NEW o \in Op, Step(o), NEW n \in Name, links[n].by = Foreign
      PROVE  links'[n] = links[n] \/ Addressed(n)
  <2> USE TunnelAssumption, <1>1 DEF IInv, TypeOK
  <2> HIDE DEF Addressed
  <2>1. CASE links' = links
    BY <2>1
  <2>2. CASE LinkAdd(o)
    BY <2>2 DEF LinkAdd, Exists
  <2>3. CASE LinkSetUp(o) \/ Cleanup(o)
    BY <2>3 DEF LinkSetUp, Cleanup, Mine
  <2>4. CASE LinkDel(o)
    BY <2>4 DEF LinkDel, Looked, ForeignInv
  <2>5. CASE AddrAdd(o) /\ links' # links
    <3>1. pc[o] = "addr" /\ links' = [links EXCEPT ![call[o].name].addr = TRUE]
      BY <2>5 DEF AddrAdd
    <3>2. CASE n = call[o].name
      <4>1. Through(o) /\ ~Mine(o)
        BY <3>1, <3>2 DEF PlaceInv, Holding, Through, Mine
      <4>2. Deleted(o)
        BY <4>1, Zenon DEF UpInv
      <4>3. links'[n] = [links[n] EXCEPT !.addr = TRUE]
        BY <3>1, <3>2
      <4> QED
        BY <3>1, <3>2, <4>2, <4>3, Zenon DEF Addressed
    <3> QED
      BY <3>1, <3>2
  <2> QED
    BY <2>1, <2>2, <2>3, <2>4, <2>5 DEF Step, Start, CreateLookup, EnsureFOU, LinkSetMTU, RollbackFOU,
       StopServing, DeleteLookup, AssignLookup, kernel
<1>2. ASSUME IInv, NEW m \in Name, OthersAdd(m), NEW n \in Name, links[n].by = Foreign
      PROVE  links'[n] = links[n]
  BY <1>2, TunnelAssumption DEF OthersAdd, Exists, IInv, TypeOK
<1>3. IInv /\ [Next]_vars =>
        [\A n \in Name : links[n].by = Foreign =>
           \/ links'[n] = links[n]
           \/ /\ links'[n] = [links[n] EXCEPT !.addr = TRUE]
              /\ \E o \in Op : pc[o] = "addr" /\ call[o].name = n /\ Deleted(o)]_vars
  BY <1>1, <1>2, Zenon DEF Next
<1> QED
  BY <1>3, Invariance, PTL DEF Spec, ForeignLinksStay

=============================================================================
