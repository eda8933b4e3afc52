----------------------------- MODULE StreamKey -----------------------------
(***************************************************************************)
(* NTStatStreamKey and its operator<, which lets applications keep streams *)
(* in a std::map.                                                          *)
(***************************************************************************)
EXTENDS Integers

\* addr_t, a union: an IPv4 address is its first four bytes, which leaves the
\* other twelve as they were.
Addr == [head : Nat, tail : Nat]

StreamKey ==
    [isV6 : 0..1, ipproto : Nat, lport : Nat, rport : Nat, ifindex : Nat,
     local : Addr, remote : Addr]

\* What operator< looks at, in its order.  Integers stand for the bytes: the
\* comparison of four or sixteen of them is some total order.
Words(k) ==
    <<k.isV6, k.ipproto, k.lport, k.rport, k.ifindex,
      k.local.head, IF k.isV6 = 1 THEN k.local.tail ELSE 0,
      k.remote.head, IF k.isV6 = 1 THEN k.remote.tail ELSE 0>>

\* Mutant: a word decides although an earlier one was greater.
LexLessAny(v, w) == \E i \in 1..9 : v[i] < w[i]

LexLess(v, w) ==
    \E i \in 1..9 : v[i] < w[i] /\ \A j \in 1..(i - 1) : v[j] = w[j]

Less(a, b) == LexLess(Words(a), Words(b))

\* The equivalence a std::map derives from it.
Equivalent(a, b) == ~Less(a, b) /\ ~Less(b, a)

\* What the application takes two keys of one stream to agree on.
SameStream(a, b) ==
    /\ a.isV6 = b.isV6 /\ a.ipproto = b.ipproto /\ a.ifindex = b.ifindex
    /\ a.lport = b.lport /\ a.local.head = b.local.head
    /\ a.rport = b.rport /\ a.remote.head = b.remote.head
    /\ a.isV6 = 1 => a.local.tail = b.local.tail /\ a.remote.tail = b.remote.tail
=============================================================================
