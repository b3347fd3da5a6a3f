--------------------------- MODULE MCLocalMemory ---------------------------
(* Instances of LocalMemory for TLC.                                       *)
EXTENDS LocalMemory, TLC

CONSTANTS c1, c2, r1, r2, r3

OneC == {c1}
TwoC == {c1, c2}

(* An object is created, read and replaced by an empty one.                *)
ThreeR == {r1, r2, r3}
TypeThree == (r1 :> "CREATE") @@ (r2 :> "GET") @@ (r3 :> "PUT")
KeyThree == [r \in ThreeR |-> "/obj1"]
PayloadThree == (r1 :> 1) @@ (r2 :> 0) @@ (r3 :> 0)

(* An object is created and read.                                          *)
TwoR == {r1, r2}
TypeTwo == (r1 :> "CREATE") @@ (r2 :> "GET")
KeyTwo == [r \in TwoR |-> "/obj1"]
PayloadTwo == (r1 :> 1) @@ (r2 :> 0)
=============================================================================
