------------------------------ MODULE MCReplay ------------------------------
(* A session with one reference, recorded and replayed.                     *)
EXTENDS Replay, TLC

MCTcpOnly == [r \in SrcRefs |-> "tcp"]
NeverMoves == {}
ObjSymmetry == Permutations(Obj)
=============================================================================
