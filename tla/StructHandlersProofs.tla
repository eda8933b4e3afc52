------------------------ MODULE StructHandlersProofs ------------------------
(* What the handlers read and write, for every stream of descriptions and  *)
(* every set of references, and what the application's map makes of it.    *)
EXTENDS StructHandlers, TLAPS

\* operator< is an order std::map can work with, and identifies a stream.
Vector == [1..9 -> Nat]

LEMMA WordsType ==
  ASSUME NEW k \in StreamKey
  PROVE  Words(k) \in Vector
BY DEF Words, Vector, StreamKey, Addr

LEMMA LexIrreflexive ==
  ASSUME NEW v \in Vector
  PROVE  ~LexLess(v, v)
BY DEF LexLess, Vector

LEMMA LexTransitive ==
  ASSUME NEW u \in Vector, NEW v \in Vector, NEW w \in Vector,
         LexLess(u, v), LexLess(v, w)
  PROVE  LexLess(u, w)
<1>1. PICK i \in 1..9 : u[i] < v[i] /\ \A j \in 1..(i - 1) : u[j] = v[j]
  BY DEF LexLess
<1>2. PICK k \in 1..9 : v[k] < w[k] /\ \A j \in 1..(k - 1) : v[j] = w[j]
  BY DEF LexLess
<1>3. CASE i <= k
  <2>1. u[i] < w[i]
    <3>1. CASE i = k
      BY <1>1, <1>2, <3>1 DEF Vector
    <3>2. CASE i < k
      BY <1>1, <1>2, <3>2 DEF Vector
    <3>3. QED BY <1>3, <3>1, <3>2
  <2>2. \A j \in 1..(i - 1) : u[j] = w[j]
    BY <1>1, <1>2, <1>3
  <2>3. QED BY <2>1, <2>2 DEF LexLess
<1>4. CASE k < i
  <2>1. u[k] < w[k]
    BY <1>1, <1>2, <1>4 DEF Vector
  <2>2. \A j \in 1..(k - 1) : u[j] = w[j]
    BY <1>1, <1>2, <1>4
  <2>3. QED BY <2>1, <2>2 DEF LexLess
<1>5. QED BY <1>3, <1>4

(* Two vectors that differ differ first somewhere, and there one is less.  *)
LEMMA LexTotal ==
  ASSUME NEW v \in Vector, NEW w \in Vector, ~LexLess(v, w), ~LexLess(w, v)
  PROVE  v = w
<1>1. v[1] = w[1]
  BY DEF LexLess, Vector
<1>2. v[2] = w[2]
  BY <1>1 DEF LexLess, Vector
<1>3. v[3] = w[3]
  BY <1>1, <1>2 DEF LexLess, Vector
<1>4. v[4] = w[4]
  BY <1>1, <1>2, <1>3 DEF LexLess, Vector
<1>5. v[5] = w[5]
  BY <1>1, <1>2, <1>3, <1>4 DEF LexLess, Vector
<1>6. v[6] = w[6]
  BY <1>1, <1>2, <1>3, <1>4, <1>5 DEF LexLess, Vector
<1>7. v[7] = w[7]
  BY <1>1, <1>2, <1>3, <1>4, <1>5, <1>6 DEF LexLess, Vector
<1>8. v[8] = w[8]
  BY <1>1, <1>2, <1>3, <1>4, <1>5, <1>6, <1>7 DEF LexLess, Vector
<1>9. v[9] = w[9]
  BY <1>1, <1>2, <1>3, <1>4, <1>5, <1>6, <1>7, <1>8 DEF LexLess, Vector
<1>10. QED BY <1>1, <1>2, <1>3, <1>4, <1>5, <1>6, <1>7, <1>8, <1>9 DEF Vector

(* operator< is irreflexive and transitive, as std::map requires, for all   *)
(* keys whatever the unions hold that it does not compare.                  *)
THEOREM KeyOrderIsStrict ==
  /\ \A a \in StreamKey : ~Less(a, a)
  /\ \A a, b, c \in StreamKey : Less(a, b) /\ Less(b, c) => Less(a, c)
BY WordsType, LexIrreflexive, LexTransitive DEF Less

(* Two keys neither of which is less are keys of one stream, of the same    *)
(* protocol, family, interface, ports and addresses: a map never takes one  *)
(* stream for another, nor one stream for two because of the bytes of a     *)
(* union that no IPv4 address sets.                                         *)
THEOREM EquivalentKeysAreOneStream ==
  \A a, b \in StreamKey : Equivalent(a, b) <=> SameStream(a, b)
<1> TAKE a, b \in StreamKey
<1>1. Equivalent(a, b) => Words(a) = Words(b)
  BY WordsType, LexTotal DEF Equivalent, Less
<1>2. Words(a) = Words(b) => Equivalent(a, b)
  BY WordsType, LexIrreflexive DEF Equivalent, Less
<1>3. Words(a) = Words(b) <=> SameStream(a, b)
  BY DEF Words, SameStream, StreamKey, Addr
<1>4. QED BY <1>1, <1>2, <1>3

-----------------------------------------------------------------------------

\* Which versions' counts have wired counters, header by header.
LEMMA WiredSince ==
  /\ ~Header2422.wired
  /\ Header2782.wired /\ Header3248.wired /\ Header3789.wired /\ Header4570.wired
<1>1. ~Header2422.wired
  BY DEF Header2422
<1>2. Header2782.wired
  BY DEF Header2782, Header2422
<1>3. Header3248.wired
  BY <1>2 DEF Header3248, Header2782, Header2422
<1>4. Header3789.wired
  BY DEF Header3789
<1>5. Header4570.wired
  BY DEF Header4570, Header3789
<1>6. QED BY <1>1, <1>2, <1>3, <1>4, <1>5

LEMMA HandlerChosen ==
  ASSUME NEW v \in KnownVersions
  PROVE  \/ v = 2422 /\ LoadStructHandler(v) = Old(Header2422) /\ KernelHeader(v) = Header2422
         \/ v = 2782 /\ LoadStructHandler(v) = Old(Header2782) /\ KernelHeader(v) = Header2782
         \/ v = 3248 /\ LoadStructHandler(v) = Old(Header3248) /\ KernelHeader(v) = Header3248
         \/ v = 3789 /\ LoadStructHandler(v) = New(Header3789) /\ KernelHeader(v) = Header3789
         \/ v = 4570 /\ LoadStructHandler(v) = New(Header4570) /\ KernelHeader(v) = Header4570
BY DEF KnownVersions, LoadStructHandler, KernelHeader,
       Handler2422, Handler2782, Handler3248, Handler3789, Handler4570

(* The choice of handler agrees with the kernel in everything the code      *)
(* depends on.                                                              *)
LEMMA HandlerFits ==
  ASSUME NEW v \in KnownVersions
  PROVE  /\ LoadStructHandler(v).tcp = KernelProviders(v, "tcp")
         /\ LoadStructHandler(v).udp = KernelProviders(v, "udp")
         /\ LoadStructHandler(v).addTcp \in KernelProviders(v, "tcp")
         /\ LoadStructHandler(v).addUdp \in KernelProviders(v, "udp")
         /\ LoadStructHandler(v).header = KernelHeader(v)
         /\ LoadStructHandler(v).narrow <=> v < 3789
         /\ KernelHeader(v).wired <=> v > 2422
<1>1. CASE v < 3789
  <2>1. LoadStructHandler(v) = Old(KernelHeader(v))
    BY <1>1, HandlerChosen
  <2>2. QED BY <1>1, <2>1, HandlerChosen, WiredSince DEF KernelProviders, Old
<1>2. CASE ~(v < 3789)
  <2>1. LoadStructHandler(v) = New(KernelHeader(v))
    BY <1>2, HandlerChosen
  <2>2. QED BY <1>2, <2>1, HandlerChosen, WiredSince DEF KernelProviders, New
<1>3. QED BY <1>1, <1>2

(* A message is read as what it says.                                       *)
LEMMA ReadAsMeant ==
  ASSUME xnu \in KnownVersions
  PROVE  /\ \A ref : GetSrcRef(ref) = {ref}
         /\ \A d, proto : AsRead(SameDescriptor(proto), d, Descriptions) = {d}
         /\ \A c : AsRead(SameCounts, c, Counters) = {c}
<1>1. ours = theirs
  BY HandlerFits DEF ours, theirs, handler
<1>2. QED BY <1>1 DEF GetSrcRef, AsRead, SameDescriptor, SameCounts

Stream ==
  [key : StreamKey, pid : Nat, name : {"", "pname", "kernel_task"},
   states : Nat, packets : Nat, wired : Nat]

SourceKnown ==
  source # NoSource =>
    /\ source.ref \in KernelRefs(xnu)
    /\ source.proto \in {"tcp", "udp"}
    /\ source.provider \in KernelProviders(xnu, source.proto)
    /\ srcRef = source.ref

ToldIsShown ==
  told # Untold =>
    /\ source # NoSource
    /\ told \in Description
    /\ SameStream(stream.key, Described(told, source.proto))
    /\ stream.pid = told.pid
    /\ stream.name = ReadName(told)

StatesAreShown ==
  stream.states = IF told # Untold /\ source.proto = "tcp" THEN told.states ELSE 0

CountedIsShown ==
  /\ counted \in [packets : Nat, wired : Nat]
  /\ stream.packets = counted.packets
  /\ stream.wired = IF xnu <= 2422 THEN 0 ELSE counted.wired

(* StreamIsAsReported says what the map sees; that is inductive only with   *)
(* the fields themselves, and with the types the order needs.               *)
IInv ==
  /\ xnu \in KnownVersions
  /\ stream \in Stream
  /\ keys \subseteq StreamKey
  /\ SourceKnown
  /\ ToldIsShown
  /\ StatesAreShown
  /\ CountedIsShown

LEMMA NewStreamType == NewStream \in Stream
BY DEF NewStream, Stream, StreamKey, Addr, NoAddr

LEMMA InitShown == Init => IInv
<1> SUFFICES ASSUME Init PROVE IInv
  OBVIOUS
<1>1. CountedIsShown
  <2>1. stream.packets = 0 /\ stream.wired = 0
    BY DEF Init, NewStream
  <2>2. counted.packets = 0 /\ counted.wired = 0 /\ counted \in [packets : Nat, wired : Nat]
    BY DEF Init, NoCounts
  <2>3. QED BY <2>1, <2>2 DEF CountedIsShown
<1>2. SourceKnown /\ ToldIsShown /\ StatesAreShown
  BY DEF Init, SourceKnown, ToldIsShown, StatesAreShown, NewStream
<1>3. xnu \in KnownVersions /\ stream \in Stream /\ keys \subseteq StreamKey
  BY NewStreamType, HandlersAssumption DEF Init
<1>4. QED BY <1>1, <1>2, <1>3 DEF IInv

LEMMA AddedStep ==
  ASSUME IInv, SrcAdded
  PROVE  IInv'
<1>1. PICK ref \in KernelRefs(xnu), proto \in {"tcp", "udp"} :
        /\ \E provider \in KernelProviders(xnu, proto) :
             source' = [ref |-> ref, proto |-> proto, provider |-> provider]
        /\ srcRef' \in GetSrcRef(ref)
  BY DEF SrcAdded
<1>2. srcRef' = ref
  BY <1>1, ReadAsMeant DEF IInv
<1>3. SourceKnown'
  BY <1>1, <1>2 DEF SourceKnown, SrcAdded
<1>4. CountedIsShown'
  <2>1. stream'.packets = 0 /\ stream'.wired = 0
    BY DEF SrcAdded, NewStream
  <2>2. counted'.packets = 0 /\ counted'.wired = 0 /\ counted' \in [packets : Nat, wired : Nat]
    BY DEF SrcAdded, NoCounts
  <2>3. QED BY <2>1, <2>2 DEF CountedIsShown
<1>5. StatesAreShown'
  BY DEF SrcAdded, StatesAreShown, NewStream
<1>6. QED BY <1>3, <1>4, <1>5, NewStreamType DEF IInv, SrcAdded, ToldIsShown

LEMMA DescStep ==
  ASSUME IInv, SrcDesc
  PROVE  IInv'
<1>1. PICK d \in Descriptions :
        stream' = ReadSrcDesc(handler, source.provider, d, stream) /\ told' = d
  BY ReadAsMeant DEF SrcDesc, IInv
<1>2. d \in Description /\ source # NoSource /\ SourceKnown /\ stream \in Stream
  BY HandlersAssumption DEF SrcDesc, IInv
<1> DEFINE key == ReadKey(d, IpProto(source.proto), stream.key)
  states == IF source.proto = "tcp" THEN d.states ELSE stream.states
<1>3. stream' = [stream EXCEPT !.key = key, !.pid = d.pid, !.name = ReadName(d),
                               !.states = states]
  <2>1. CASE source.proto = "tcp"
    <3>1. source.provider \in handler.tcp
      BY <1>2, <2>1, HandlerFits DEF SourceKnown, handler, IInv
    <3>2. QED BY <1>1, <2>1, <3>1 DEF ReadSrcDesc, IpProto
  <2>2. CASE source.proto = "udp"
    <3>1. source.provider \in handler.udp /\ source.provider \notin handler.tcp
      BY <1>2, <2>2, HandlerFits DEF SourceKnown, handler, IInv, KernelProviders
    <3>2. stream' = [stream EXCEPT !.key = key, !.pid = d.pid, !.name = ReadName(d)]
      BY <1>1, <2>2, <3>1 DEF ReadSrcDesc, IpProto
    <3>3. QED BY <1>2, <2>2, <3>2 DEF Stream
  <2>3. QED BY <1>2, <2>1, <2>2 DEF SourceKnown
<1>4. key \in StreamKey
  BY <1>2 DEF ReadKey, ReadAddr, Stream, StreamKey, Addr, Description, SourceKnown, IpProto
<1>5. SameStream(key, Described(d, source.proto))
  BY <1>2 DEF ReadKey, ReadAddr, SameStream, Described, Stream, StreamKey, Addr, Description
<1>6. ReadName(d) \in {"", "pname", "kernel_task"}
  BY DEF ReadName
<1>7. stream' \in Stream /\ stream'.key = key /\ stream'.pid = d.pid
      /\ stream'.name = ReadName(d) /\ stream'.packets = stream.packets
      /\ stream'.wired = stream.wired /\ stream'.states = states
  BY <1>2, <1>3, <1>4, <1>6 DEF Stream, Description
<1>8. ToldIsShown'
  BY <1>1, <1>2, <1>5, <1>7 DEF ToldIsShown, SrcDesc, Described, ReadName
<1>9. StatesAreShown'
  <2>1. source.proto # "tcp" => stream.states = 0
    BY DEF IInv, StatesAreShown
  <2>2. d # Untold /\ source' = source
    BY <1>1, HandlersAssumption DEF SrcDesc
  <2>3. QED BY <1>1, <1>7, <2>1, <2>2 DEF StatesAreShown
<1>10. QED BY <1>7, <1>8, <1>9 DEF IInv, SrcDesc, SourceKnown, CountedIsShown

LEMMA CountsStep ==
  ASSUME IInv, SrcCounts
  PROVE  IInv'
<1>1. PICK c \in Counters : stream' = ReadCounts(handler, c, stream) /\ counted' = c
  BY ReadAsMeant DEF SrcCounts, IInv
<1>2. c \in [packets : Nat, wired : Nat] /\ stream \in Stream
  BY HandlersAssumption DEF IInv
<1>3. handler.header.wired <=> xnu > 2422
  BY HandlerFits DEF handler, IInv
<1>4. /\ stream' \in Stream
      /\ stream'.key = stream.key /\ stream'.pid = stream.pid /\ stream'.name = stream.name
      /\ stream'.states = stream.states /\ stream'.packets = c.packets
      /\ stream'.wired = IF handler.header.wired THEN c.wired ELSE stream.wired
  BY <1>1, <1>2 DEF ReadCounts, Stream
<1>5. CountedIsShown'
  BY <1>1, <1>2, <1>3, <1>4 DEF CountedIsShown, SrcCounts, IInv, KnownVersions
<1>6. ToldIsShown' /\ StatesAreShown'
  BY <1>4 DEF ToldIsShown, StatesAreShown, SrcCounts, IInv
<1>7. QED BY <1>4, <1>5, <1>6 DEF IInv, SrcCounts, SourceKnown

LEMMA KeepStep ==
  ASSUME IInv, KeepKey
  PROVE  IInv'
<1>1. UNCHANGED <<xnu, source, srcRef, stream, told, counted>> /\ keys' = keys \cup {stream.key}
  BY DEF KeepKey
<1>2. keys' \subseteq StreamKey
  BY <1>1 DEF IInv, Stream
<1>3. SourceKnown' /\ ToldIsShown' /\ StatesAreShown' /\ CountedIsShown'
  BY <1>1 DEF IInv, SourceKnown, ToldIsShown, StatesAreShown, CountedIsShown
<1>4. QED BY <1>1, <1>2, <1>3 DEF IInv

LEMMA ShownIsInvariant == Spec => []IInv
<1>1. ASSUME IInv, [Next]_vars PROVE IInv'
  <2>1. CASE Next
    BY <1>1, <2>1, AddedStep, DescStep, CountsStep, KeepStep DEF Next
  <2>2. CASE UNCHANGED vars
    BY <1>1, <2>2 DEF vars, IInv, SourceKnown, ToldIsShown, StatesAreShown,
                           CountedIsShown
  <2>3. QED BY <1>1, <2>1, <2>2
<1>2. QED BY <1>1, InitShown, PTL DEF Spec

(* The library asks for what it means, for any references the kernel's      *)
(* version can hand out.                                                    *)
THEOREM RequestsAreUnderstood == Spec => []RequestsSayWhatIsMeant
<1>1. IInv => RequestsSayWhatIsMeant
  <2> SUFFICES ASSUME IInv PROVE RequestsSayWhatIsMeant
    OBVIOUS
  <2>1. source # NoSource => Wire(handler, srcRef) = source.ref
    <3> SUFFICES ASSUME source # NoSource PROVE Wire(handler, srcRef) = source.ref
      OBVIOUS
    <3>1. srcRef = source.ref /\ source.ref \in KernelRefs(xnu)
      BY DEF IInv, SourceKnown
    <3>2. CASE xnu < 3789
      <4>1. source.ref \in Nat /\ source.ref < NarrowRefs
        <5>1. source.ref \in {r \in Refs : r < NarrowRefs}
          BY <3>1, <3>2 DEF KernelRefs
        <5>2. QED BY <5>1, HandlersAssumption
      <4>2. source.ref % NarrowRefs = source.ref
        BY <4>1, HandlersAssumption
      <4>3. QED BY <3>1, <4>2 DEF Wire
    <3>3. CASE ~(xnu < 3789)
      BY <3>1, <3>3, HandlerFits DEF Wire, handler, IInv
    <3>4. QED BY <3>2, <3>3
  <2>2. ours = theirs
    BY HandlerFits DEF IInv, ours, theirs, handler
  <2>3. QED BY <2>1, <2>2, HandlerFits DEF RequestsSayWhatIsMeant, IInv, handler
<1>2. QED BY <1>1, ShownIsInvariant, PTL

(* A stream shows its last description, whichever family the descriptions   *)
(* before it were of.                                                       *)
THEOREM StreamShowsLastReport == Spec => []StreamIsAsReported
<1>1. IInv => StreamIsAsReported
  <2> SUFFICES ASSUME IInv PROVE StreamIsAsReported
    OBVIOUS
  <2>1. ASSUME told # Untold
        PROVE  Equivalent(stream.key, Described(told, source.proto))
    <3>1. stream.key \in StreamKey
      BY DEF IInv, Stream
    <3>2. Described(told, source.proto) \in StreamKey
      BY <2>1 DEF IInv, ToldIsShown, SourceKnown, Described, Description, StreamKey, IpProto
    <3>3. QED BY <2>1, <3>1, <3>2, EquivalentKeysAreOneStream DEF IInv, ToldIsShown
  <2>2. told # Untold =>
           stream.states = IF source.proto = "tcp" THEN told.states ELSE 0
    BY DEF IInv, StatesAreShown
  <2>3. told # Untold => /\ stream.name = "kernel_task" <=> told.pid = 0
                         /\ stream.name = "pname" <=> told.named /\ told.pid # 0
    BY DEF IInv, ToldIsShown, ReadName
  <2>4. xnu >= 3789 => ~(xnu <= 2422)
    BY DEF IInv, KnownVersions
  <2>5. QED BY <2>1, <2>2, <2>3, <2>4 DEF StreamIsAsReported, IInv, ToldIsShown, CountedIsShown
<1>2. QED BY <1>1, ShownIsInvariant, PTL

(* The application's map tells streams apart, whatever it holds.            *)
THEOREM MapTellsStreamsApart == Spec => []KeysTellStreamsApart
<1>1. IInv => KeysTellStreamsApart
  <2> SUFFICES ASSUME IInv,
                      NEW a \in keys \cup {stream.key}, NEW b \in keys \cup {stream.key}
               PROVE  /\ Equivalent(a, b) <=> SameStream(a, b)
                      /\ ~(Less(a, b) /\ Less(b, a))
                      /\ \A c \in keys : Less(a, b) /\ Less(b, c) => Less(a, c)
    BY DEF KeysTellStreamsApart
  <2>1. a \in StreamKey /\ b \in StreamKey /\ keys \subseteq StreamKey
    BY DEF IInv, Stream
  <2>2. Equivalent(a, b) <=> SameStream(a, b)
    BY <2>1, EquivalentKeysAreOneStream
  <2>3. ~(Less(a, b) /\ Less(b, a))
    BY <2>1, KeyOrderIsStrict
  <2>4. \A c \in keys : Less(a, b) /\ Less(b, c) => Less(a, c)
    BY <2>1, KeyOrderIsStrict
  <2>5. QED BY <2>2, <2>3, <2>4
<1>2. QED BY <1>1, ShownIsInvariant, PTL
=============================================================================
