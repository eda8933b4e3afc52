-------------------------- MODULE MCStructHandlers --------------------------
(* Every kernel version with a handler, and sources of both families.      *)
EXTENDS StructHandlers

Host(head, tail) == [head |-> head, tail |-> tail]
Peer(isV6) == Host(1, isV6)
Owners == {<<0, FALSE>>, <<1, TRUE>>, <<1, FALSE>>}

\* A remote port and a local address that order two keys differently.
Ends == {<<0, 2>>, <<1, 1>>}

\* IPv4 addresses have no tail to tell.
MCDescriptions ==
    {[isV6 |-> f, lport |-> 1, rport |-> end[1], ifindex |-> 1,
      local |-> Host(end[2], IF f = 1 THEN 2 ELSE 0), remote |-> Peer(f),
      pid |-> who[1], named |-> who[2], states |-> end[2]] :
        f \in 0..1, end \in Ends, who \in Owners}

MCCounters == {[packets |-> 1, wired |-> 1], [packets |-> 2, wired |-> 0]}
=============================================================================
