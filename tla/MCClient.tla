------------------------------ MODULE MCClient ------------------------------
(* Small instances of the client and the kernel it is connected to.        *)
EXTENDS Client, TLC

\* The first half of the references are TCP connections.
MCProviderOf == [r \in SrcRefs |-> IF r % 2 = 1 THEN "tcp" ELSE "udp"]
MCTcpOnly == [r \in SrcRefs |-> "tcp"]

\* A bound UDP socket may be connected; a source keeps its ports otherwise.
BoundIsConnected == {<<"listen", "conn">>}
\* A TCP socket is reported when it is created, before it is bound.
CreatedIsConnected == {<<"none", "conn">>}
NeverMoves == {}

ObjSymmetry == Permutations(Obj)
=============================================================================
