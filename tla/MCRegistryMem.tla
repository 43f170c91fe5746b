---------------------------- MODULE MCRegistryMem ----------------------------
(* Instances of RegistryMem for TLC: endpoint lists of at most two entries. *)
EXTENDS RegistryMem

MCEp(a, p) == [addr |-> a, port |-> p]
MCNoEps    == <<>>
MCEpLists  == {<<>>, <<MCEp("a1", 1)>>, <<MCEp("a2", 2), MCEp("a1", 1)>>}

=============================================================================
