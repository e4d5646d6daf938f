--------------------------- MODULE MCControlPlane ---------------------------
(***************************************************************************)
(* Capabilities on two resources, one for reading and one for more, and    *)
(* versions made of none or one of the others, or of one twice.            *)
(***************************************************************************)
EXTENDS ControlPlane, TLC

CONSTANTS r1, r2, read, write

SomeGrants == {[resource |-> r1, actions |-> {read}], [resource |-> r2, actions |-> {read, write}]}

SomeAttempts == {[resource |-> r1, action |-> read], [resource |-> r2, action |-> write],
                 [resource |-> r1, action |-> write]}

SomeInputs == {<<>>} \cup {<<v>> : v \in VerIds} \cup {<<v, v>> : v \in VerIds}

Symmetric == Permutations(Keys) \cup Permutations(ArtIds) \cup Permutations(VerIds)
==============================================================================
