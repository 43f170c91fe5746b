------------------------------- MODULE KeyFile -------------------------------
(***************************************************************************)
(* LoadOrCreateKeys (internal/disco/keys.go): a node's identity is read    *)
(* from keys.json, or generated and written there.  Processes may crash    *)
(* between any two system calls, and several may start with the same state *)
(* directory.                                                              *)
(*                                                                         *)
(* os.WriteFile creates or truncates the file and then writes it, in two   *)
(* system calls.  A write that fails may have replaced the first bytes of  *)
(* the file.  Every identity is encoded in the same number of bytes, so    *)
(* what is left of a whole file may decode: as a mixture of two identities.*)
(***************************************************************************)
EXTENDS Integers

CONSTANTS
  Proc,       \* processes on the same state directory
  MaxKeys     \* bound: identities generated

ASSUME KeysAssumption == MaxKeys \in Nat

VARIABLES
  file,       \* Absent, Truncated (does not decode), or the identity it holds
  pc,         \* "down", "read", "create", "write", "up", "failed"
  keys,       \* the identity a process has, 0 for none
  made,       \* identities generated so far
  saved       \* identities the file has held whole

keyVars == <<file, pc, keys, made, saved>>

Absent    == -1
Truncated == 0
Mixed     == MaxKeys + 1      \* the start of one identity, the end of another
Identity  == 1 .. MaxKeys + 1

KeyInit ==
  /\ file = Absent /\ made = 0 /\ saved = {}
  /\ pc   = [p \in Proc |-> "down"]
  /\ keys = [p \in Proc |-> 0]

Start(p) ==
  /\ pc[p] \in {"down", "failed"}
  /\ pc' = [pc EXCEPT ![p] = "read"]
  /\ UNCHANGED <<file, keys, made, saved>>

-----------------------------------------------------------------------------
\* ReadFile and the decoding: an identity, a file that does not decode, or an
\* error that is not the file's absence.
Load(p) ==
  /\ pc[p] = "read"
  /\ \/ /\ file \in Identity
        /\ keys' = [keys EXCEPT ![p] = file]
        /\ pc'   = [pc EXCEPT ![p] = "up"]
     \/ /\ pc' = [pc EXCEPT ![p] = "failed"]
        /\ UNCHANGED keys
  /\ UNCHANGED <<file, made, saved>>

\* (The faulty variant takes every read error for the file's absence.)
GenerateOnError(p) ==
  /\ pc[p] = "read"
  /\ made < MaxKeys
  /\ made' = made + 1
  /\ keys' = [keys EXCEPT ![p] = made + 1]
  /\ pc'   = [pc EXCEPT ![p] = "create"]
  /\ UNCHANGED <<file, saved>>

Generate(p) ==
  /\ pc[p] = "read" /\ file = Absent
  /\ made < MaxKeys
  /\ made' = made + 1
  /\ keys' = [keys EXCEPT ![p] = made + 1]
  /\ pc'   = [pc EXCEPT ![p] = "create"]
  /\ UNCHANGED <<file, saved>>

\* WriteFile: open with O_CREATE and O_TRUNC, then write; either may fail.
Create(p) ==
  /\ pc[p] = "create"
  /\ \/ file' = Truncated /\ pc' = [pc EXCEPT ![p] = "write"] /\ UNCHANGED keys
     \/ /\ pc' = [pc EXCEPT ![p] = "failed"] /\ keys' = [keys EXCEPT ![p] = 0]
        /\ UNCHANGED file
  /\ UNCHANGED <<made, saved>>

\* (The faulty variant ignores a write that fails.)
WriteRegardless(p) ==
  /\ pc[p] = "write"
  /\ \/ file' = keys[p] /\ saved' = saved \cup {keys[p]}
     \/ UNCHANGED <<file, saved>>
  /\ pc' = [pc EXCEPT ![p] = "up"]
  /\ UNCHANGED <<keys, made>>

Write(p) ==
  /\ pc[p] = "write"
  /\ \/ /\ file' = keys[p] /\ saved' = saved \cup {keys[p]}
        /\ pc' = [pc EXCEPT ![p] = "up"]
        /\ UNCHANGED keys
     \/ /\ pc' = [pc EXCEPT ![p] = "failed"] /\ keys' = [keys EXCEPT ![p] = 0]
        /\ \/ UNCHANGED <<file, saved>>
           \/ file' = Truncated /\ UNCHANGED saved
           \/ file \in Identity /\ file' = Mixed /\ saved' = saved \cup {Mixed}
  /\ UNCHANGED made

Crash(p) ==
  /\ pc[p] # "down"
  /\ pc'   = [pc EXCEPT ![p] = "down"]
  /\ keys' = [keys EXCEPT ![p] = 0]
  /\ UNCHANGED <<file, made, saved>>

KeyNext ==
  \E p \in Proc : Start(p) \/ Load(p) \/ Generate(p) \/ Create(p) \/ Write(p) \/ Crash(p)

KeySpec == KeyInit /\ [][KeyNext]_keyVars

-----------------------------------------------------------------------------
(* Properties                                                              *)

\* The variables have their types, and a call that fails returns no keys.
KeyTypeOK ==
  /\ file \in {Absent, Truncated} \cup Identity
  /\ pc \in [Proc -> {"down", "read", "create", "write", "up", "failed"}]
  /\ keys \in [Proc -> {0} \cup Identity]
  /\ \A p \in Proc : keys[p] # 0 <=> pc[p] \in {"create", "write", "up"}
  /\ made \in 0 .. MaxKeys /\ saved \subseteq Identity

\* No process runs under an identity that the file has never held whole: one
\* that it could announce to the coordinator and then lose at once.
IdentityWasSaved == \A p \in Proc : pc[p] = "up" => keys[p] \in saved

Creating(p) == pc[p] \in {"create", "write"}

Settled == (file \in Identity) /\ \A p \in Proc : ~Creating(p)

\* Once an identity is saved and no process is creating one, that identity is
\* the node's for ever: neither failed reads nor crashes nor later starts
\* replace it.
IdentitySettles == [][Settled => Settled' /\ file' = file]_keyVars

=============================================================================
