--------------------------- MODULE StructHandlers ---------------------------
(***************************************************************************)
(* The struct handlers, which write requests and read messages in the      *)
(* layout of one kernel version, and _loadStructHandler, which picks one   *)
(* by the version number.  A kernel of any version with a header in the    *)
(* repository is at the other end; one NTStatStream is filled in from its  *)
(* messages, and the application keeps keys in a std::map.                 *)
(***************************************************************************)
EXTENDS StreamKey, FiniteSets

CONSTANTS
    Versions,    \* XNU versions the program may meet
    Refs,        \* source references
    NarrowRefs,  \* how many a 32-bit reference can tell apart: 2^32, or a bound
    Descriptions,  \* what a kernel may have to say of a source ...
    Counters,      \* ... and to count
    NoSource, Untold,  \* none yet
    MaxKeys      \* bound on the keys the application keeps

\* A description in the kernel: of an IPv4 address the tail is padding.
Description ==
    [isV6 : 0..1, lport : Nat, rport : Nat, ifindex : Nat, local : Addr, remote : Addr,
     pid : Nat, named : BOOLEAN, states : Nat]

\* The versions there is both a header and a handler of.
KnownVersions == {2422, 2782, 3248, 3789, 4570}

ASSUME HandlersAssumption ==
    /\ Versions \subseteq KnownVersions
    /\ Refs \subseteq Nat
    /\ Descriptions \subseteq Description
    /\ Untold \notin Descriptions
    /\ Counters \subseteq [packets : Nat, wired : Nat]
    /\ NarrowRefs \in Nat \ {0}
    /\ MaxKeys \in Nat

VARIABLES
    xnu,     \* the version of the kernel
    source,  \* the source at hand, as the kernel knows it
    srcRef,  \* the reference the client knows it by
    stream,  \* the NTStatStream the handler fills in
    keys,    \* the keys the application has put in its map
    told,    \* history: the last description of the source, or Untold
    counted  \* history: the last counts of the source

vars == <<xnu, source, srcRef, stream, keys, told, counted>>

-----------------------------------------------------------------------------
(* The structs of each kernel header: for every kind of message the library *)
(* exchanges, the version whose header last moved a field the library uses, *)
(* and whether the counts have wired counters.  2782 moved the pid and the  *)
(* name of a TCP source, 3248 extended ADD_ALL_SRCS, 3789 widened           *)
(* references and put the events before what it counts and describes, and   *)
(* 4570 reordered all but GET_SRC_DESC and QUERY_SRC ("request").           *)
Header2422 == [addAll |-> 2422, request |-> 2422, added |-> 2422,
               tcp |-> 2422, udp |-> 2422, counts |-> 2422, wired |-> FALSE]
Header2782 == [Header2422 EXCEPT !.tcp = 2782, !.wired = TRUE]
Header3248 == [Header2782 EXCEPT !.addAll = 3248]
Header3789 == [addAll |-> 3789, request |-> 3789, added |-> 3789,
               tcp |-> 3789, udp |-> 3789, counts |-> 3789, wired |-> TRUE]
Header4570 == [Header3789 EXCEPT !.addAll = 4570, !.added = 4570,
                                 !.tcp = 4570, !.udp = 4570, !.counts = 4570]

(* One record per handler class: the providers it reads and subscribes to,  *)
(* the header it was compiled with, and whether it casts references to 32   *)
(* bits.                                                                    *)
Old(header) == [tcp |-> {2}, udp |-> {3}, addTcp |-> 2, addUdp |-> 3,
                header |-> header, narrow |-> TRUE]
New(header) == [tcp |-> {2, 3}, udp |-> {4, 5}, addTcp |-> 2, addUdp |-> 4,
                header |-> header, narrow |-> FALSE]

Handler2422 == Old(Header2422)
Handler2782 == Old(Header2782)
Handler3248 == Old(Header3248)
Handler3789 == New(Header3789)
Handler4570 == New(Header4570)

\* Mutant: the thresholds are the headers' own versions.
LoadStructHandlerLate(version) ==
    IF version > 4570 THEN Handler4570
    ELSE IF version > 3789 THEN Handler3789
    ELSE IF version > 3248 THEN Handler3248
    ELSE IF version > 2782 THEN Handler2782
    ELSE Handler2422

LoadStructHandler(version) ==
    IF version > 3800 THEN Handler4570
    ELSE IF version > 3300 THEN Handler3789
    ELSE IF version > 3200 THEN Handler3248
    ELSE IF version > 2700 THEN Handler2782
    ELSE Handler2422

handler == LoadStructHandler(xnu)

(* The kernel's side: structs, providers and references of its own header.  *)
KernelHeader(version) ==
    CASE version = 2422 -> Header2422
      [] version = 2782 -> Header2782
      [] version = 3248 -> Header3248
      [] version = 3789 -> Header3789
      [] version = 4570 -> Header4570

ours == handler.header
theirs == KernelHeader(xnu)

KernelProviders(version, proto) ==
    IF version < 3789 THEN (IF proto = "tcp" THEN {2} ELSE {3})
    ELSE IF proto = "tcp" THEN {2, 3} ELSE {4, 5}

KernelRefs(version) == IF version < 3789 THEN {r \in Refs : r < NarrowRefs} ELSE Refs

IpProto(proto) == IF proto = "tcp" THEN 6 ELSE 17

-----------------------------------------------------------------------------
NoAddr == [head |-> 0, tail |-> 0]
NewStream ==
    [key |-> [isV6 |-> 0, ipproto |-> 0, lport |-> 0, rport |-> 0, ifindex |-> 0,
              local |-> NoAddr, remote |-> NoAddr],
     pid |-> 0, name |-> "", states |-> 0, packets |-> 0, wired |-> 0]

\* Mutant: an IPv6 address is read as an IPv4 one.
ReadAddrHead(isV6, from, into) == [into EXCEPT !.head = from.head]

ReadAddr(isV6, from, into) ==
    IF isV6 = 1 THEN from ELSE [into EXCEPT !.head = from.head]

\* readTcpSrcDesc, readUdpSrcDesc.
ReadKey(d, ipproto, key) ==
    [isV6 |-> d.isV6, ipproto |-> ipproto, lport |-> d.lport, rport |-> d.rport,
     ifindex |-> d.ifindex,
     local |-> ReadAddr(d.isV6, d.local, key.local),
     remote |-> ReadAddr(d.isV6, d.remote, key.remote)]

\* ... and the name _handleResponseMessage gives the kernel's own streams.
ReadName(d) ==
    IF d.pid = 0 THEN "kernel_task" ELSE IF d.named THEN "pname" ELSE ""

(* readSrcDesc; the windows and the state are those of a TCP connection.    *)
(* Nothing is read for another provider; no kernel sends one, as only TCP   *)
(* and UDP are subscribed, and what is returned then (false, but true by    *)
(* the 4570 handler) makes no difference.                                   *)
ReadSrcDesc(h, provider, d, s) ==
    LET read(ipproto) == [s EXCEPT !.key = ReadKey(d, ipproto, s.key),
                                   !.pid = d.pid, !.name = ReadName(d)]
    IN  IF provider \in h.tcp THEN [read(IpProto("tcp")) EXCEPT !.states = d.states]
        ELSE IF provider \in h.udp THEN read(IpProto("udp"))
        ELSE s

\* readCounts.
ReadCounts(h, c, s) ==
    [s EXCEPT !.packets = c.packets, !.wired = IF h.header.wired THEN c.wired ELSE @]

\* What a handler takes a message to say: what it says, if the structs agree,
\* and otherwise anything.
AsRead(agree, said, anything) == IF agree THEN {said} ELSE anything

SameDescriptor(proto) ==
    IF proto = "tcp" THEN ours.tcp = theirs.tcp ELSE ours.udp = theirs.udp

SameCounts == ours.counts = theirs.counts /\ (ours.wired => theirs.wired)

\* getSrcRef of a notification.
GetSrcRef(ref) == AsRead(ours.added = theirs.added, ref, Refs \cup {0})

\* writeSrcDesc, writeQuerySrc.
Wire(h, ref) == IF h.narrow THEN ref % NarrowRefs ELSE ref

-----------------------------------------------------------------------------
NoCounts == [packets |-> 0, wired |-> 0]

Init ==
    /\ xnu \in Versions
    /\ source = NoSource
    /\ srcRef = 0
    /\ stream = NewStream
    /\ keys = {}
    /\ told = Untold
    /\ counted = NoCounts

\* A new source is reported: the client knows it by what it reads.  (The
\* report of one it knows leaves that source's stream alone.)
SrcAdded ==
    /\ \E ref \in KernelRefs(xnu), proto \in {"tcp", "udp"} :
          /\ \E provider \in KernelProviders(xnu, proto) :
                source' = [ref |-> ref, proto |-> proto, provider |-> provider]
          /\ srcRef' \in GetSrcRef(ref)
    /\ stream' = NewStream
    /\ told' = Untold
    /\ counted' = NoCounts
    /\ UNCHANGED <<xnu, keys>>

\* The answer to GET_SRC_DESC, or the last one: each fills in the same stream.
SrcDesc ==
    /\ source # NoSource
    /\ \E d \in Descriptions :
          /\ \E seen \in AsRead(SameDescriptor(source.proto), d, Descriptions) :
                stream' = ReadSrcDesc(handler, source.provider, seen, stream)
          /\ told' = d
    /\ UNCHANGED <<xnu, source, srcRef, keys, counted>>

SrcCounts ==
    /\ source # NoSource
    /\ \E c \in Counters :
          /\ \E seen \in AsRead(SameCounts, c, Counters) :
                stream' = ReadCounts(handler, seen, stream)
          /\ counted' = c
    /\ UNCHANGED <<xnu, source, srcRef, keys, told>>

\* onStreamAdded: the application puts the stream in its map.
KeepKey ==
    /\ told # Untold
    /\ Cardinality(keys \cup {stream.key}) <= MaxKeys
    /\ keys' = keys \cup {stream.key}
    /\ UNCHANGED <<xnu, source, srcRef, stream, told, counted>>

Next == SrcAdded \/ SrcDesc \/ SrcCounts \/ KeepKey

Spec == Init /\ [][Next]_vars

-----------------------------------------------------------------------------
(* Whatever the version, the library asks for what it means: in the structs *)
(* of the kernel's own version it subscribes to the kernel's own provider   *)
(* of each protocol, and its requests about a source name that source       *)
(* ("Prior versions need to convert to uint32_t"), through both conversions *)
(* of the reference.                                                        *)
RequestsSayWhatIsMeant ==
    /\ ours.addAll = theirs.addAll
    /\ handler.addTcp \in KernelProviders(xnu, "tcp")
    /\ handler.addUdp \in KernelProviders(xnu, "udp")
    /\ ours.request = theirs.request
    /\ source # NoSource => Wire(handler, srcRef) = source.ref

(* However many descriptions and counts of either family were read into one *)
(* stream before, it shows the last: its key is, to operator<, the key of   *)
(* the source described, whatever an earlier one left in the unions, and no *)
(* name of an earlier owner stays.  The wired counters are claimed where    *)
(* they are specified: none to 2422, the kernel's from 3789.  In between    *)
(* the library shows what the struct holds, which docs/protocol.md leaves   *)
(* open ("prior to XNU version 3789, the wired counters were not            *)
(* specified").                                                             *)
Described(d, proto) ==
    [isV6 |-> d.isV6, ipproto |-> IpProto(proto), lport |-> d.lport, rport |-> d.rport,
     ifindex |-> d.ifindex, local |-> d.local, remote |-> d.remote]

StreamIsAsReported ==
    /\ told # Untold =>
          /\ Equivalent(stream.key, Described(told, source.proto))
          /\ stream.pid = told.pid
          /\ stream.name = "kernel_task" <=> told.pid = 0
          /\ stream.name = "pname" <=> told.named /\ told.pid # 0
          /\ stream.states = IF source.proto = "tcp" THEN told.states ELSE 0
    /\ stream.packets = counted.packets
    /\ xnu <= 2422 => stream.wired = 0
    /\ xnu >= 3789 => stream.wired = counted.wired

(* The keys the application has are told apart by operator< exactly if they *)
(* are keys of different streams, and never ordered both ways.              *)
KeysTellStreamsApart ==
    \A a, b \in keys \cup {stream.key} :
        /\ Equivalent(a, b) <=> SameStream(a, b)
        /\ ~(Less(a, b) /\ Less(b, a))
        /\ \A c \in keys : Less(a, b) /\ Less(b, c) => Less(a, c)
=============================================================================
