-------------------------- MODULE MCControlPlane --------------------------
(* Instances of ControlPlane for TLC.                                      *)
EXTENDS ControlPlane, TLC

CONSTANTS s1, s2, s3, p1, p2, g1, f1, w1, w2

TwoS == {s1, s2}
ThreeS == {s1, s2, s3}
OneP == {p1}
TwoP == {p1, p2}
OneG == {g1}
NoF == {}
OneF == {f1}
OneW == {w1}
TwoW == {w1, w2}

(* Ids are only compared: any two of a kind may be exchanged.              *)
Symmetry == Permutations(Sid) \cup Permutations(Pid)
              \cup Permutations(Worker) \cup Permutations(Gid)
=============================================================================
