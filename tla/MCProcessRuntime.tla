------------------------- MODULE MCProcessRuntime -------------------------
(* Instances of ProcessRuntime for TLC.                                    *)
EXTENDS ProcessRuntime, TLC

CONSTANTS a, b, c, k1, k2, k3

TwoS == {a, b}
ThreeS == {a, b, c}
TwoC == {k1, k2}
ThreeC == {k1, k2, k3}

NoFaults == {}
StartFaults == {"shm_open", "ftruncate", "get", "vfork"}

(* Ids are only compared: any two of a kind may be exchanged.              *)
Symmetry == Permutations(Sid) \cup Permutations(ChildPid)
=============================================================================
