------------------------------- MODULE Tunnel -------------------------------
(***************************************************************************)
(* The tunnel library (internal/tunnel: gre.go, validate.go) and its       *)
(* callers, as sequences of netlink calls on a kernel that they share:     *)
(* `gretun create' and `gretun delete', the FSMs of a daemon               *)
(* (bringUpTunnel) and the daemon itself, which holds a FOU receive port.  *)
(* Every netlink call is one step and may fail.                            *)
(*                                                                         *)
(* No caller's context is ever cancelled.  A link that was looked up or    *)
(* created is named by its index afterwards, so that a new link of the     *)
(* same name is not mistaken for it.  Others on the host make links of     *)
(* other types at any time; they delete none.                              *)
(***************************************************************************)
EXTENDS Integers, FiniteSets

CONSTANTS
  Op,        \* callers; each makes one call
  Foreign,   \* who made the links of other types
  Name,      \* interface names that ValidateTunnelName accepts
  Reserved,  \* those with a reserved prefix
  Addr,      \* addresses of tunnel ends
  Usable,    \* those that ValidateIP accepts
  Port,      \* UDP ports
  NoPort,    \* EncapNone
  Cidr,      \* tunnel addresses: ip, and the number of host bits
  NoCidr     \* no tunnel address

NoOp == "no op"

ASSUME TunnelAssumption ==
  /\ Foreign \notin Op /\ NoOp \notin Op /\ Foreign # NoOp /\ Name # {}
  /\ NoPort \notin Port /\ NoCidr \notin Cidr
  /\ Cidr \subseteq [ip : Nat, host : Nat]

VARIABLES
  links,     \* the kernel's links by name
  fou,       \* fou[port]: the call that opened the FOU receive port, if any
  pc,        \* place of a call
  call,      \* what it was called with
  created,   \* createdFou, fouOwned: it opened the port
  index,     \* whose link it looked up
  result,    \* "none" until it returns, then "ok", "err" or "partial"
  warned     \* it has logged a clean-up that failed

kernel == <<links, fou>>
locals == <<call, created, index, warned>>
vars == <<kernel, pc, locals, result>>

-----------------------------------------------------------------------------
NoLink == [by |-> NoOp, gre |-> FALSE, up |-> FALSE, port |-> NoPort, addr |-> FALSE]
ForeignLink == [NoLink EXCEPT !.by = Foreign]

Exists(n)     == links[n].by # NoOp
Open(port)    == fou[port] # NoOp
Mine(o)       == Exists(call[o].name) /\ links[call[o].name].by = o
Looked(o)     == Exists(call[o].name) /\ links[call[o].name].by = index[o]

Idle == [kind |-> "none", name |-> CHOOSE n \in Name : TRUE, port |-> NoPort,
         mtu |-> FALSE, cidr |-> NoCidr]

\* `gretun create'; bringUpTunnel, which always asks for FOU; `gretun delete';
\* a daemon's Run.  With encapsulation there is always an MTU (mtuOrDefault).
Calls ==
  [kind : {"create", "fsm"}, name : Name, port : Port, mtu : {TRUE}, cidr : Cidr \cup {NoCidr}]
    \cup [kind : {"create"}, name : Name, port : {NoPort}, mtu : BOOLEAN, cidr : Cidr \cup {NoCidr}]
    \cup [kind : {"delete"}, name : Name, port : {NoPort}, mtu : {FALSE}, cidr : {NoCidr}]
    \cup [kind : {"serve"}, name : {Idle.name}, port : Port, mtu : {FALSE}, cidr : {NoCidr}]

Creates(o) == call[o].kind \in {"create", "fsm"}

\* Neither the first nor the last address of its subnet, unless it is alone
\* there.
ValidateCIDR(c) ==
  LET size == 2 ^ c.host
      net  == c.ip - (c.ip % size)
  IN c.host = 0 \/ (c.ip # net /\ c.ip # net + size - 1)

\* Names, ports and MTUs are well formed here, and every TTL is accepted.
ValidateConfig(c, local, remote) ==
  /\ c.name \notin Reserved
  /\ {local, remote} \subseteq Usable
  /\ local # remote

Init ==
  /\ links \in [Name -> {NoLink, ForeignLink}]
  /\ fou     = [p \in Port |-> NoOp]
  /\ pc      = [o \in Op |-> "idle"]
  /\ call    = [o \in Op |-> Idle]
  /\ created = [o \in Op |-> FALSE]
  /\ index   = [o \in Op |-> NoOp]
  /\ result  = [o \in Op |-> "none"]
  /\ warned  = [o \in Op |-> FALSE]

Goto(o, l)   == pc' = [pc EXCEPT ![o] = l] /\ UNCHANGED result
Return(o, r) == pc' = [pc EXCEPT ![o] = "done"] /\ result' = [result EXCEPT ![o] = r]

\* Somebody else makes a link, of a type that is not GRE.
OthersAdd(n) ==
  /\ ~Exists(n)
  /\ links' = [links EXCEPT ![n] = ForeignLink]
  /\ UNCHANGED <<fou, pc, locals, result>>

\* The call is made.  A Create with a configuration that is not valid returns
\* before it touches the kernel; of its arguments nothing is kept.
Start(o) ==
  /\ pc[o] = "idle"
  /\ \E c \in Calls, local, remote \in Addr :
       IF c.kind \in {"create", "fsm"} /\ ~ValidateConfig(c, local, remote)
       THEN /\ call' = [call EXCEPT ![o].kind = c.kind]
            /\ Return(o, "err")
       ELSE /\ call' = [call EXCEPT ![o] = c]
            /\ Goto(o, IF c.kind = "serve" THEN "fou" ELSE "lookup")
  /\ UNCHANGED <<kernel, created, index, warned>>

-----------------------------------------------------------------------------
(* Create                                                                  *)

\* LinkByName: any error counts as the link's absence.
CreateLookup(o) ==
  /\ pc[o] = "lookup" /\ Creates(o)
  /\ \/ Exists(call[o].name) /\ Return(o, "err")
     \/ Goto(o, IF call[o].port = NoPort THEN "add" ELSE "fou")
  /\ UNCHANGED <<kernel, locals>>

\* EnsureFOU, for Create and for the daemon: a port that is open already is as
\* good as one that this call has opened.
EnsureFOU(o) ==
  LET port == call[o].port
      next == IF Creates(o) THEN "add" ELSE "serving"
  IN
  /\ pc[o] = "fou"
  /\ \/ /\ ~Open(port)
        /\ fou'     = [fou EXCEPT ![port] = o]
        /\ created' = [created EXCEPT ![o] = TRUE]
        /\ Goto(o, next)
     \/ Open(port) /\ Goto(o, next) /\ UNCHANGED <<fou, created>>
     \/ Return(o, "err") /\ UNCHANGED <<fou, created>>
  /\ UNCHANGED <<links, call, index, warned>>

\* What a Create that fails has still to do about the port.
Fail(o) == IF created[o] THEN Goto(o, "rollback") ELSE Return(o, "err")

\* (The faulty variant lets a new link take the place of a GRE link that has
\* come up since the lookup.)
LinkAddOver(o) ==
  /\ pc[o] = "add"
  /\ \/ /\ ~Exists(call[o].name) \/ links[call[o].name].gre
        /\ links' = [links EXCEPT ![call[o].name] =
                       [by |-> o, gre |-> TRUE, up |-> FALSE, port |-> call[o].port, addr |-> FALSE]]
        /\ Goto(o, IF call[o].mtu THEN "mtu" ELSE "up")
     \/ Fail(o) /\ UNCHANGED links
  /\ UNCHANGED <<fou, locals>>

LinkAdd(o) ==
  /\ pc[o] = "add"
  /\ \/ /\ ~Exists(call[o].name)
        /\ links' = [links EXCEPT ![call[o].name] =
                       [by |-> o, gre |-> TRUE, up |-> FALSE, port |-> call[o].port, addr |-> FALSE]]
        /\ Goto(o, IF call[o].mtu THEN "mtu" ELSE "up")
     \/ Fail(o) /\ UNCHANGED links
  /\ UNCHANGED <<fou, locals>>

LinkSetMTU(o) ==
  /\ pc[o] = "mtu"
  /\ \/ Mine(o) /\ Goto(o, "up")
     \/ Goto(o, "cleanup")
  /\ UNCHANGED <<kernel, locals>>

\* Create returns nil; its caller goes on to AssignIP if there is an address.
Created(o) == IF call[o].cidr = NoCidr THEN Return(o, "ok") ELSE Goto(o, "assign")

\* (The faulty variant returns without deleting the link.)
LinkSetUpOrReturn(o) ==
  /\ pc[o] = "up"
  /\ \/ /\ Mine(o)
        /\ links' = [links EXCEPT ![call[o].name].up = TRUE]
        /\ Created(o)
     \/ Fail(o) /\ UNCHANGED links
  /\ UNCHANGED <<fou, locals>>

LinkSetUp(o) ==
  /\ pc[o] = "up"
  /\ \/ /\ Mine(o)
        /\ links' = [links EXCEPT ![call[o].name].up = TRUE]
        /\ Created(o)
     \/ Goto(o, "cleanup") /\ UNCHANGED links
  /\ UNCHANGED <<fou, locals>>

\* LinkDel after LinkSetMTU or LinkSetUp has failed.
Cleanup(o) ==
  /\ pc[o] = "cleanup"
  /\ \/ /\ Mine(o)
        /\ links' = [links EXCEPT ![call[o].name] = NoLink]
        /\ UNCHANGED warned
     \/ warned' = [warned EXCEPT ![o] = TRUE] /\ UNCHANGED links
  /\ Fail(o)
  /\ UNCHANGED <<fou, call, created, index>>

\* rollbackFOU: FouDel names the port, whoever opened it.
RollbackFOU(o) ==
  /\ pc[o] = "rollback"
  /\ \/ /\ Open(call[o].port)
        /\ fou' = [fou EXCEPT ![call[o].port] = NoOp]
        /\ UNCHANGED warned
     \/ warned' = [warned EXCEPT ![o] = TRUE] /\ UNCHANGED fou
  /\ Return(o, IF Creates(o) THEN "err" ELSE "ok")
  /\ UNCHANGED <<links, call, created, index>>

\* The daemon's Run returns: RemoveFOU if it owns the port.
StopServing(o) ==
  /\ pc[o] = "serving"
  /\ IF created[o] THEN Goto(o, "rollback") ELSE Return(o, "ok")
  /\ UNCHANGED <<kernel, locals>>

-----------------------------------------------------------------------------
(* Delete and AssignIP                                                     *)

\* (The faulty variant does not look at the link's type.)
DeleteLookupAnyType(o) ==
  /\ pc[o] = "lookup" /\ call[o].kind = "delete"
  /\ \/ /\ Exists(call[o].name)
        /\ index' = [index EXCEPT ![o] = links[call[o].name].by]
        /\ Goto(o, "del")
     \/ Return(o, "err") /\ UNCHANGED index
  /\ UNCHANGED <<kernel, call, created, warned>>

DeleteLookup(o) ==
  /\ pc[o] = "lookup" /\ call[o].kind = "delete"
  /\ \/ /\ Exists(call[o].name) /\ links[call[o].name].gre
        /\ index' = [index EXCEPT ![o] = links[call[o].name].by]
        /\ Goto(o, "del")
     \/ Return(o, "err") /\ UNCHANGED index
  /\ UNCHANGED <<kernel, call, created, warned>>

LinkDel(o) ==
  /\ pc[o] = "del"
  /\ \/ /\ Looked(o)
        /\ links' = [links EXCEPT ![call[o].name] = NoLink]
        /\ Return(o, "ok")
     \/ Return(o, "err") /\ UNCHANGED links
  /\ UNCHANGED <<fou, locals>>

\* AssignIP has failed: the command says so, bringUpTunnel ignores it.
AssignFails(o) == Return(o, IF call[o].kind = "create" THEN "partial" ELSE "ok")

\* AssignIP looks the name up again and takes a link of any type.
AssignLookup(o) ==
  /\ pc[o] = "assign"
  /\ \/ /\ ValidateCIDR(call[o].cidr) /\ Exists(call[o].name)
        /\ index' = [index EXCEPT ![o] = links[call[o].name].by]
        /\ Goto(o, "addr")
     \/ AssignFails(o) /\ UNCHANGED index
  /\ UNCHANGED <<kernel, call, created, warned>>

AddrAdd(o) ==
  /\ pc[o] = "addr"
  /\ \/ /\ Looked(o) /\ ~links[call[o].name].addr
        /\ links' = [links EXCEPT ![call[o].name].addr = TRUE]
        /\ Return(o, "ok")
     \/ AssignFails(o) /\ UNCHANGED links
  /\ UNCHANGED <<fou, locals>>

-----------------------------------------------------------------------------
Step(o) ==
  \/ Start(o)
  \/ CreateLookup(o) \/ EnsureFOU(o) \/ LinkAdd(o) \/ LinkSetMTU(o) \/ LinkSetUp(o)
  \/ Cleanup(o) \/ RollbackFOU(o) \/ StopServing(o)
  \/ DeleteLookup(o) \/ LinkDel(o)
  \/ AssignLookup(o) \/ AddrAdd(o)

Next == (\E o \in Op : Step(o)) \/ (\E n \in Name : OthersAdd(n))

Spec == Init /\ [][Next]_vars

-----------------------------------------------------------------------------
(* Properties                                                              *)

\* Kernel objects and calls have their types, and what does not exist has no
\* attributes.
TypeOK ==
  /\ links \in [Name -> [by : Op \cup {Foreign, NoOp}, gre : BOOLEAN, up : BOOLEAN,
                         port : Port \cup {NoPort}, addr : BOOLEAN]]
  /\ \A n \in Name : ~Exists(n) => links[n] = NoLink
  /\ fou \in [Port -> Op \cup {NoOp}]
  /\ pc \in [Op -> {"idle", "lookup", "fou", "add", "mtu", "up", "cleanup", "rollback",
                    "serving", "del", "assign", "addr", "done"}]
  /\ call \in [Op -> Calls \cup [kind : {"none", "create", "fsm"}, name : {Idle.name},
                            port : {NoPort}, mtu : {FALSE}, cidr : {NoCidr}]]
  /\ created \in [Op -> BOOLEAN] /\ warned \in [Op -> BOOLEAN]
  /\ index \in [Op -> Op \cup {Foreign, NoOp}]
  /\ result \in [Op -> {"none", "ok", "err", "partial"}]

\* A Create that fails leaves neither link nor port behind, at whichever of
\* its calls it fails, unless it has logged that a clean-up failed.
FailureIsClean ==
  \A o \in Op : Creates(o) /\ result[o] = "err" /\ ~warned[o] =>
    /\ \A n \in Name : links[n].by # o
    /\ \A p \in Port : fou[p] # o

\* A Delete has taken the very link that o added.
Deleted(o) == \E d \in Op : call[d].kind = "delete" /\ index[d] = o /\ result[d] = "ok"

\* A Create that succeeds has its link in the kernel, up, until a Delete that
\* looked up this very link: concurrent calls for the same name neither
\* replace nor half-undo it.  When `gretun create' succeeds the link has the
\* address that was asked for; when it reports that only the address failed,
\* the link is there.
SuccessLasts ==
  \A o \in Op : Creates(o) /\ result[o] \in {"ok", "partial"} =>
    \/ /\ Mine(o) /\ links[call[o].name].up
       /\ call[o].kind = "create" /\ call[o].cidr # NoCidr /\ result[o] = "ok"
            => links[call[o].name].addr
    \/ Deleted(o)

\* No link of another type is deleted, replaced or set up, whenever it has
\* come to be, although a lookup that fails counts as absence and Delete works
\* on what an earlier call has looked up.  AssignIP looks at no type: such a
\* link gets the tunnel's address, but only under the name of a tunnel that a
\* Delete has taken between its creation and AssignIP's lookup.
ForeignLinksStay ==
  [][\A n \in Name : links[n].by = Foreign =>
       \/ links'[n] = links[n]
       \/ /\ links'[n] = [links[n] EXCEPT !.addr = TRUE]
          /\ \E o \in Op : pc[o] = "addr" /\ call[o].name = n /\ Deleted(o)]_vars

=============================================================================
