---------------------------- MODULE ClientProofs ----------------------------
(***************************************************************************)
(* The client connected to a kernel is a source table at work: each of its *)
(* steps is a step of Sources, so whatever SourcesProofs establishes for   *)
(* an arbitrary kernel holds of run().  Then what run() keeps bounded,     *)
(* whatever the kernel sends or drops and however often run() is called:   *)
(* the queue of its requests, and the time removed sources stay.           *)
(***************************************************************************)
EXTENDS Client, SourcesProofs, FiniteSetTheorems

(* What the kernel puts in the socket is well formed, even when it drops    *)
(* some of it: this is all the table needs to know of the kernel.           *)
LEMMA MessageTypes ==
  /\ \A r \in SrcRefs : /\ Added(r) \in KernelMessage
                        /\ Removed(r) \in KernelMessage
                        /\ Counts(r) \in KernelMessage
                        /\ \A ports \in PortClass : Desc(r, ports) \in KernelMessage
  /\ Success \in KernelMessage
  /\ Error \in KernelMessage
  /\ NoBuffers \in KernelMessage
  BY DEF Added, Removed, Counts, Desc, Success, Error, NoBuffers, Message,
         KernelMessage, PortClass

LEMMA DeliverType ==
  ASSUME inbox \in Seq(KernelMessage), NEW msgs \in Seq(KernelMessage), Deliver(msgs)
  PROVE  inbox' \in Seq(KernelMessage)
<1>1. PICK arrived \in Arriving(msgs) : inbox' = inbox \o arrived
  BY DEF Deliver
<1>2. arrived \in Seq(KernelMessage)
  <2>1. CASE Lossy
    <3>1. PICK n \in 0..Len(msgs) : \E pick \in Picks(n, Len(msgs)) :
             arrived = [i \in 1..n |-> msgs[pick[i]]]
      BY <1>1, <2>1 DEF Arriving
    <3>2. PICK pick \in [1..n -> 1..Len(msgs)] :
             arrived = [i \in 1..n |-> msgs[pick[i]]]
      BY <3>1 DEF Picks
    <3>3. \A i \in 1..n : msgs[pick[i]] \in KernelMessage
      BY <3>2
    <3>4. QED BY <3>2, <3>3
  <2>2. CASE ~Lossy
    BY <1>1, <2>2 DEF Arriving
  <2>3. QED BY <2>1, <2>2
<1>3. QED BY <1>1, <1>2

LEMMA AnswerType ==
  ASSUME inbox \in Seq(KernelMessage), NEW msgs \in Seq(KernelMessage), Answer(msgs)
  PROVE  inbox' \in Seq(KernelMessage)
<1>1. msgs \o <<NoBuffers>> \in Seq(KernelMessage)
  BY MessageTypes
<1>2. QED BY <1>1, DeliverType DEF Answer

LEMMA DataType ==
  ASSUME inbox \in Seq(KernelMessage), NEW m \in KernelMessage, Data(m)
  PROVE  inbox' \in Seq(KernelMessage)
<1>1. <<m>> \in Seq(KernelMessage) /\ <<m, Success>> \in Seq(KernelMessage)
  BY MessageTypes
<1>2. QED BY <1>1, AnswerType DEF Data

LEMMA RefusalType ==
  ASSUME inbox \in Seq(KernelMessage), Answer(<<Error>>)
  PROVE  inbox' \in Seq(KernelMessage)
<1>1. <<Error>> \in Seq(KernelMessage)
  BY MessageTypes
<1>2. QED BY <1>1, AnswerType

LEMMA ServeType ==
  ASSUME ClientTypeOK, NEW req, req.type = "ADD_ALL_SRCS" \/ req.ref \in SrcRefs,
         Serve(req)
  PROVE  inbox' \in Seq(KernelMessage) /\ socket' = socket
<1> USE DEF ClientTypeOK
<1>1. ASSUME NEW provider, Subscribe(provider) PROVE inbox' \in Seq(KernelMessage)
  <2>1. CASE Answer(<<Error>>)
    <3>2. <<Error>> \in Seq(KernelMessage)
      BY MessageTypes
    <3>3. QED BY <2>1, <3>2, AnswerType
  <2>2. CASE ~Answer(<<Error>>)
    <3>1. PICK list \in Listings(Existing(provider)) :
             Answer([i \in DOMAIN list |-> Added(list[i])] \o <<Success>>)
      BY <1>1, <2>2 DEF Subscribe
    <3> DEFINE n == Cardinality(Existing(provider))
    <3>2. list \in [1..n -> SrcRefs]
      BY <3>1 DEF Listings, Existing
    <3>3. n \in Nat
      BY ClientAssumption, FS_Subset, FS_CardinalityType DEF Existing
    <3>4. [i \in DOMAIN list |-> Added(list[i])] \in Seq(KernelMessage)
      BY <3>2, <3>3, MessageTypes, SMTT(30)
    <3>5. [i \in DOMAIN list |-> Added(list[i])] \o <<Success>> \in Seq(KernelMessage)
      BY <3>4, MessageTypes
    <3>6. QED BY <3>1, <3>5, AnswerType
  <2>3. QED BY <2>1, <2>2
<1>2. ASSUME NEW r \in SrcRefs, Describe(r) PROVE inbox' \in Seq(KernelMessage)
  <2>1. CASE Open(r)
    <3>1. Desc(r, socket[r]) \in KernelMessage
      BY <2>1, MessageTypes DEF Open
    <3>2. QED BY <1>2, <2>1, <3>1, DataType DEF Describe
  <2>2. CASE ~Open(r)
    BY <1>2, <2>2, RefusalType DEF Describe
  <2>3. QED BY <2>1, <2>2
<1>3. ASSUME NEW r \in SrcRefs, Count(r) PROVE inbox' \in Seq(KernelMessage)
  <2>1. CASE Open(r)
    BY <1>3, <2>1, DataType, MessageTypes DEF Count
  <2>2. CASE ~Open(r)
    BY <1>3, <2>2, RefusalType DEF Count
  <2>3. QED BY <2>1, <2>2
<1>4. QED BY <1>1, <1>2, <1>3 DEF Serve

\* Of itself the kernel reports sources it knows.
LEMMA KernelStepType ==
  ASSUME ClientTypeOK, KernelStep
  PROVE  /\ inbox' \in Seq(KernelMessage)
         /\ socket' \in [SrcRefs -> PortClass \cup {"closed"}]
<1> USE ClientAssumption DEF ClientTypeOK
<1>1. ASSUME NEW r \in SrcRefs, OpenSource(r)
      PROVE  /\ inbox' \in Seq(KernelMessage)
             /\ socket' \in [SrcRefs -> PortClass \cup {"closed"}]
  <2>1. <<Added(r)>> \in Seq(KernelMessage)
    BY MessageTypes
  <2>2. inbox' \in Seq(KernelMessage)
    BY <1>1, <2>1, DeliverType DEF OpenSource
  <2>3. QED BY <1>1, <2>2 DEF OpenSource
<1>2. ASSUME NEW r \in SrcRefs, MovePorts(r)
      PROVE  /\ inbox' \in Seq(KernelMessage)
             /\ socket' \in [SrcRefs -> PortClass \cup {"closed"}]
  BY <1>2 DEF MovePorts
<1>3. ASSUME NEW r \in SrcRefs, CloseSource(r)
      PROVE  /\ inbox' \in Seq(KernelMessage)
             /\ socket' \in [SrcRefs -> PortClass \cup {"closed"}]
  <2> DEFINE goodbye == <<Counts(r), Desc(r, socket[r]), Removed(r)>>
  <2>1. socket[r] \in PortClass
    BY <1>3 DEF CloseSource, Open
  <2>2. goodbye \in Seq(KernelMessage)
    BY <2>1, MessageTypes
  <2>3. <<Added(r)>> \o goodbye \in Seq(KernelMessage)
    BY <2>2, MessageTypes
  <2>4. inbox' \in Seq(KernelMessage)
    BY <1>3, <2>2, <2>3, DeliverType DEF CloseSource
  <2>5. QED BY <1>3, <2>4 DEF CloseSource
<1>4. QED BY <1>1, <1>2, <1>3 DEF KernelStep

-----------------------------------------------------------------------------
LEMMA ClientInitType == ClientInit => ClientTypeOK
  BY ClientAssumption DEF ClientInit, KernelInit, ClientTypeOK

LEMMA HandshakeType ==
  ASSUME ClientTypeOK,
         RequestTcpSrc \/ RequestUdpSrc \/ EnterRunning \/ UNCHANGED <<state, outq>>
  PROVE  /\ state' \in {"START", "REQUEST_TCP_SRC", "REQUEST_UDP_SRC", "RUNNING"}
         /\ outq' \in Seq({AddAllSrcs("tcp"), AddAllSrcs("udp")})
<1> DEFINE Requests == {AddAllSrcs("tcp"), AddAllSrcs("udp")}
<1>1. outq \in Seq(Requests)
  BY DEF ClientTypeOK
<1>2. \A req \in Requests : Append(outq, req) \in Seq(Requests)
  <2> HIDE DEF Requests
  <2>1. QED BY <1>1
<1>3. QED BY <1>1, <1>2 DEF ClientTypeOK, RequestTcpSrc, RequestUdpSrc, EnterRunning

LEMMA SendType ==
  ASSUME ClientTypeOK, SendNextMsg
  PROVE  ClientTypeOK'
<1> USE DEF ClientTypeOK
<1>1. /\ inbox' \in Seq(KernelMessage)
      /\ socket' = socket
      /\ outq' \in Seq({AddAllSrcs("tcp"), AddAllSrcs("udp")})
  <2>1. CASE SendQueued
    <3>1. outq # <<>> /\ Serve(Head(outq)) /\ outq' = Tail(outq)
      BY <2>1 DEF SendQueued
    <3>2. Head(outq) \in {AddAllSrcs("tcp"), AddAllSrcs("udp")}
      BY <3>1
    <3>3. Head(outq).type = "ADD_ALL_SRCS"
      BY <3>2 DEF AddAllSrcs, Request
    <3>4. QED BY <3>1, <3>3, ServeType
  <2>2. CASE SendGetSrcDesc
    <3>1. PICK r \in SrcRefs : Serve(GetSrcDesc(r))
      BY <2>2 DEF SendGetSrcDesc
    <3>2. GetSrcDesc(r).ref = r
      BY DEF GetSrcDesc, Request
    <3>3. QED BY <2>2, <3>1, <3>2, ServeType DEF SendGetSrcDesc
  <2>3. CASE SendQuerySrc
    <3>1. PICK r \in SrcRefs : Serve(QuerySrc(r)) \/ UNCHANGED kernelVars
      BY <2>3 DEF SendQuerySrc
    <3>2. QuerySrc(r).ref = r
      BY DEF QuerySrc, Request
    <3>3. QED BY <2>3, <3>1, <3>2, ServeType DEF SendQuerySrc, kernelVars
  <2>4. CASE SendNothing
    BY <2>4 DEF SendNothing, kernelVars
  <2>5. QED BY <2>1, <2>2, <2>3, <2>4 DEF SendNextMsg
<1>2. QED BY <1>1 DEF SendNextMsg

LEMMA ClientTypeStep == ClientTypeOK /\ [ClientNext]_vars => ClientTypeOK'
<1> SUFFICES ASSUME ClientTypeOK, [ClientNext]_vars PROVE ClientTypeOK'
  OBVIOUS
<1>1. CASE StartRun
  BY <1>1, HandshakeType DEF StartRun, ClientTypeOK, kernelVars
<1>2. CASE Cleanup
  BY <1>2 DEF Cleanup, ClientTypeOK, kernelVars
<1>3. CASE Update
  BY <1>3 DEF Update, ClientTypeOK, kernelVars
<1>4. CASE SendNextMsg
  BY <1>4, SendType
<1>5. CASE ReadNextMessage
  <2>1. /\ state' \in {"START", "REQUEST_TCP_SRC", "REQUEST_UDP_SRC", "RUNNING"}
        /\ outq' \in Seq({AddAllSrcs("tcp"), AddAllSrcs("udp")})
    BY <1>5, HandshakeType DEF ReadNextMessage, HandleNotification, HandleResponse,
                               HandleState, MayBeFatal
  <2>2. inbox' \in Seq(KernelMessage)
    BY <1>5 DEF ReadNextMessage, ClientTypeOK
  <2>3. QED BY <1>5, <2>1, <2>2 DEF ReadNextMessage, ClientTypeOK
<1>6. CASE Drained
  BY <1>6 DEF Drained, ClientTypeOK, kernelVars
<1>7. CASE KernelActs
  BY <1>7, KernelStepType DEF KernelActs, ClientTypeOK, runVars
<1>8. CASE Tick
  BY <1>8 DEF Tick, ClientTypeOK, kernelVars, runVars
<1>9. CASE UNCHANGED vars
  BY <1>9 DEF vars, ClientTypeOK, kernelVars, runVars
<1>10. CASE EndRun
  <2>1. inbox' \in Seq(KernelMessage)
    BY <1>10 DEF EndRun, Disconnect
  <2>2. socket' \in [SrcRefs -> PortClass \cup {"closed"}]
    BY <1>10 DEF EndRun, Disconnect, ClientTypeOK
  <2>3. QED BY <1>10, <2>1, <2>2 DEF EndRun, ClientTypeOK
<1>11. QED
  BY <1>1, <1>2, <1>3, <1>4, <1>5, <1>6, <1>7, <1>8, <1>9, <1>10
  DEF ClientNext, RunLoop

(* Every message that reaches the client is well formed and every state of  *)
(* run() is one of the named ones, however messages are dropped.            *)
THEOREM ClientTypeCorrect == ClientSpec => []ClientTypeOK
<1>1. QED BY ClientInitType, ClientTypeStep, PTL DEF ClientSpec

-----------------------------------------------------------------------------
(* Each step of the client is one of the source table, or none of it.       *)
LEMMA ReadStep ==
  ASSUME ClientTypeOK, ReadNextMessage
  PROVE  Next
<1> DEFINE m == Head(inbox)
<1>1. m \in KernelMessage /\ (HandleNotification(m) \/ HandleResponse(m))
  BY DEF ReadNextMessage, ClientTypeOK
<1>2. CASE HandleResponse(m)
  BY <1>2 DEF HandleResponse, Next
<1>3. CASE HandleNotification(m)
  <2>1. m.type \notin {"SUCCESS", "ERROR", "ENOBUFS"}
    BY <1>3 DEF HandleNotification
  <2>2. m.ref \in SrcRefs /\ m.ports \in PortClass
    BY <1>1, <2>1 DEF KernelMessage, Success, Error, NoBuffers, Message
  <2> HIDE DEF m
  <2>3. QED BY <1>3, <2>2 DEF HandleNotification, Next
<1>4. QED BY <1>1, <1>2, <1>3

LEMMA TableStep == ClientTypeOK /\ [ClientNext]_vars => [Next]_sourcesVars
<1> SUFFICES ASSUME ClientTypeOK, [ClientNext]_vars PROVE [Next]_sourcesVars
  OBVIOUS
<1>1. CASE StartRun
  BY <1>1 DEF StartRun, Next
<1>2. CASE Cleanup
  BY <1>2 DEF Cleanup, Next
<1>3. CASE Update
  BY <1>3 DEF Update, Next
<1>4. CASE SendNextMsg
  BY <1>4 DEF SendNextMsg, SendQueued, SendGetSrcDesc, SendQuerySrc, SendNothing, Next
<1>5. CASE ReadNextMessage
  BY <1>5, ReadStep
<1>6. CASE Drained
  BY <1>6 DEF Drained, Next
<1>7. CASE KernelActs
  BY <1>7 DEF KernelActs, Next
<1>8. CASE Tick
  BY <1>8 DEF Tick, Next
<1>9. CASE UNCHANGED vars
  BY <1>9 DEF vars
<1>10. CASE EndRun
  BY <1>10 DEF EndRun, Next
<1>11. QED
  BY <1>1, <1>2, <1>3, <1>4, <1>5, <1>6, <1>7, <1>8, <1>9, <1>10
  DEF ClientNext, RunLoop

(* run() connected to a kernel implements the source table: all that is     *)
(* proved of the table for an arbitrary kernel holds of the client.         *)
THEOREM ClientImplementsSources == ClientSpec => Spec
<1>1. ClientInit => Init
  BY DEF ClientInit
<1>2. QED BY <1>1, ClientTypeCorrect, TableStep, PTL DEF ClientSpec, Spec

(* In particular the pointers the two waiting maps hold are current, or     *)
(* known to be stale, whatever run() has done and the kernel has dropped.   *)
THEOREM ClientPointersAreCurrent ==
  ClientSpec => [](LiveSourcesAreInTable /\ WaitingForDescIsCurrent
                   /\ QueriesAreForCurrentSources)
BY ClientImplementsSources, TableOwnsLiveSources, DescRequestsAreCurrent,
   CountRequestsAreCurrent, PTL

-----------------------------------------------------------------------------
(* A call of run() queues one request, and the answer to the first          *)
(* subscription queues the second: by then the first was sent, for the      *)
(* socket is only read after a request was.                                 *)
QueueInv ==
    /\ runs \in Nat
    /\ pc # "start" => runs >= 1
    /\ Len(outq) <= runs
    /\ pc = "drain" /\ state = "REQUEST_TCP_SRC" => Len(outq) + 1 <= runs

LEMMA QueueLength ==
  ASSUME ClientTypeOK
  PROVE  /\ Len(outq) \in Nat
         /\ outq # <<>> => Len(Tail(outq)) = Len(outq) - 1 /\ Len(outq) >= 1
         /\ \A provider \in {"tcp", "udp"} :
               Len(Append(outq, AddAllSrcs(provider))) = Len(outq) + 1
<1>1. outq \in Seq({AddAllSrcs("tcp"), AddAllSrcs("udp")})
  BY DEF ClientTypeOK
<1>2. QED BY <1>1

LEMMA QueueStep == ClientTypeOK /\ QueueInv /\ [ClientNext]_vars => QueueInv'
<1> SUFFICES ASSUME ClientTypeOK, QueueInv, [ClientNext]_vars PROVE QueueInv'
  OBVIOUS
<1> USE DEF QueueInv
<1>1. CASE StartRun
  BY <1>1, QueueLength DEF StartRun, RequestTcpSrc, RequestUdpSrc
<1>2. CASE Cleanup
  BY <1>2 DEF Cleanup, callVars
<1>3. CASE Update
  BY <1>3 DEF Update, callVars
<1>4. CASE SendNextMsg
  <2>1. pc = "send" /\ runs >= 1 /\ runs' = runs
    BY <1>4 DEF SendNextMsg, callVars
  <2>2. CASE SendQueued
    BY <1>4, <2>1, <2>2, QueueLength DEF SendQueued, SendNextMsg
  <2>3. CASE outq = <<>> /\ outq' = outq
    <3>1. Len(outq) = 0
      BY <2>3
    <3>2. QED BY <2>1, <2>3, <3>1
  <2>4. QED BY <1>4, <2>2, <2>3 DEF SendNextMsg, SendGetSrcDesc, SendQuerySrc, SendNothing
<1>5. CASE ReadNextMessage
  <2>1. pc = "drain" /\ pc' = pc /\ runs' = runs
    BY <1>5 DEF ReadNextMessage, callVars
  <2>2. \/ UNCHANGED <<state, outq>>
        \/ state = "REQUEST_TCP_SRC" /\ RequestUdpSrc
        \/ EnterRunning
    BY <1>5 DEF ReadNextMessage, HandleNotification, HandleResponse, HandleState,
                               MayBeFatal
  <2>3. QED BY <2>1, <2>2, QueueLength DEF RequestUdpSrc, EnterRunning
<1>6. CASE Drained
  BY <1>6 DEF Drained, callVars
<1>7. CASE KernelActs \/ Tick
  BY <1>7 DEF KernelActs, Tick, runVars, callVars
<1>8. CASE EndRun
  BY <1>8 DEF EndRun, callVars
<1>9. CASE UNCHANGED vars
  BY <1>9 DEF vars, runVars, callVars
<1>10. QED
  BY <1>1, <1>2, <1>3, <1>4, <1>5, <1>6, <1>7, <1>8, <1>9 DEF ClientNext, RunLoop

(* Requests do not pile up in _outq: never more than the calls of run().    *)
THEOREM QueueIsBounded == ClientSpec => []RequestsDoNotPileUp
<1>1. ClientInit => QueueInv
  BY DEF ClientInit, QueueInv
<1>2. QueueInv => RequestsDoNotPileUp
  BY DEF QueueInv, RequestsDoNotPileUp
<1>3. QED BY <1>1, <1>2, QueueStep, ClientTypeCorrect, PTL DEF ClientSpec

-----------------------------------------------------------------------------
\* A source is marked removed at the time it is, and not again in the table.
LEMMA RemovalTimes ==
  ASSUME TypeOK, [Next]_sourcesVars,
         NEW r \in SrcRefs, map'[r] # NoObj, heap'[map'[r]].tsRemoved # 0
  PROVE  \/ heap'[map'[r]].tsRemoved = now
         \/ map'[r] = map[r] /\ heap'[map'[r]].tsRemoved = heap[map[r]].tsRemoved
<1> USE Opened
<1>1. ASSUME NEW q \in SrcRefs, SrcAddedNew(q)
      PROVE  map'[r] = map[r] /\ heap'[map'[r]].tsRemoved = heap[map[r]].tsRemoved
  <2>1. PICK o \in Obj \ DOMAIN heap :
           /\ heap' = [p \in DOMAIN heap \cup {o} |->
                          IF p = o THEN NewSource(q) ELSE heap[p]]
           /\ map' = [map EXCEPT ![q] = o]
    BY <1>1 DEF SrcAddedNew
  <2>2. heap'[o].tsRemoved = 0
    BY <2>1 DEF NewSource
  <2>3. r # q
    BY <2>1, <2>2 DEF TypeOK
  <2>4. QED BY <2>1, <2>3 DEF TypeOK
<1>2. ASSUME NEW q \in SrcRefs, SrcRemoved(q)
      PROVE  \/ heap'[map'[r]].tsRemoved = now
             \/ map'[r] = map[r] /\ heap'[map'[r]].tsRemoved = heap[map[r]].tsRemoved
  BY <1>2, SrcRemovedFields DEF SrcRemoved
<1>3. ASSUME NEW q \in SrcRefs, NEW ports \in PortClass, SrcDesc(q, ports)
      PROVE  map'[r] = map[r] /\ heap'[map'[r]].tsRemoved = heap[map[r]].tsRemoved
  BY <1>3, SrcDescFields DEF SrcDesc
<1>4. ASSUME NEW q \in SrcRefs, NEW traffic \in BOOLEAN, SrcCounts(q, traffic)
      PROVE  map'[r] = map[r] /\ heap'[map'[r]].tsRemoved = heap[map[r]].tsRemoved
  BY <1>4, SrcCountsFields DEF SrcCounts
<1>5. CASE UpdateWaitForCountsQueue
  BY <1>5, UpdateFields DEF UpdateWaitForCountsQueue
<1>6. CASE RemoveOldSources
  BY <1>6 DEF RemoveOldSources
<1>7. CASE UNCHANGED <<heap, map>>
  BY <1>7
<1>8. QED
  BY <1>1, <1>2, <1>3, <1>4, <1>5, <1>6, <1>7
  DEF Next, SrcAdded, SrcAddedKnown, SrcDescRefused, TakeWaitingForDesc,
      TakeWaitingForCount, Ignored, ClockStep, tables, sourcesVars

(* The last clean-up left no entry that was removed longer ago than it is   *)
(* kept, and is itself not long ago when the update pass begins.            *)
LeftByCleanup ==
    \A r \in SrcRefs :
        map[r] # NoObj /\ ~Live(map[r]) =>
            /\ heap[map[r]].tsRemoved <= now
            /\ tLastCleanup - Since(heap[map[r]].tsRemoved) <= KeepSeconds

TimeInv ==
    /\ started \in Nat /\ started <= now
    /\ tLastCleanup \in Nat /\ tLastCleanup <= now
    /\ pc = "update" => now - tLastCleanup <= CleanupSeconds
    /\ LeftByCleanup

LEMMA SinceStarted ==
  ASSUME started \in Nat, NEW t \in Nat
  PROVE  Since(t) \in Nat /\ Since(t) >= t /\ Since(t) >= started
BY DEF Since

\* Steps that neither clean up nor begin a run.
LEMMA LeftStep ==
  ASSUME TypeOK, TypeOK', [Next]_sourcesVars, now' >= now, TimeInv,
         UNCHANGED <<started, tLastCleanup>>
  PROVE  LeftByCleanup'
<1> SUFFICES ASSUME NEW r \in SrcRefs, map'[r] # NoObj, heap'[map'[r]].tsRemoved # 0
             PROVE  /\ heap'[map'[r]].tsRemoved <= now'
                    /\ tLastCleanup - Since(heap'[map'[r]].tsRemoved) <= KeepSeconds
  BY DEF LeftByCleanup, Live, Since
<1>1. now \in Nat /\ now' \in Nat
  BY DEF TypeOK
<1>2. CASE heap'[map'[r]].tsRemoved = now
  BY <1>1, <1>2, SourcesAssumption DEF TimeInv, Since
<1>3. CASE map'[r] = map[r] /\ heap'[map'[r]].tsRemoved = heap[map[r]].tsRemoved
  <2>1. heap[map[r]].tsRemoved \in Nat
    BY <1>3, Opened DEF Source
  <2>2. /\ heap[map[r]].tsRemoved <= now
        /\ tLastCleanup - Since(heap[map[r]].tsRemoved) <= KeepSeconds
    BY <1>3 DEF TimeInv, LeftByCleanup, Live
  <2>3. QED BY <1>1, <1>3, <2>1, <2>2
<1>4. QED BY <1>2, <1>3, RemovalTimes

LEMMA TimeStep ==
  TypeOK /\ TypeOK' /\ [Next]_sourcesVars /\ TimeInv /\ [ClientNext]_vars => TimeInv'
<1> SUFFICES ASSUME TypeOK, TypeOK', [Next]_sourcesVars, TimeInv, [ClientNext]_vars
             PROVE  TimeInv'
  OBVIOUS
<1>1. now \in Nat /\ now' \in Nat /\ KeepSeconds \in Nat /\ CleanupSeconds \in Nat
  BY SourcesAssumption, ClientAssumption DEF TypeOK
<1>2. CASE StartRun
  <2>1. /\ started' = now /\ tLastCleanup' = now /\ pc' = "cleanup"
        /\ UNCHANGED <<heap, map, now>>
    BY <1>2 DEF StartRun, Ignored, tables
  <2>2. LeftByCleanup'
    <3> SUFFICES ASSUME NEW r \in SrcRefs, map[r] # NoObj, ~Live(map[r])
                 PROVE  /\ heap[map[r]].tsRemoved <= now
                        /\ now - (IF heap[map[r]].tsRemoved < now THEN now
                                  ELSE heap[map[r]].tsRemoved) <= KeepSeconds
      BY <2>1 DEF LeftByCleanup, Live, Since
    <3>1. heap[map[r]].tsRemoved \in Nat /\ heap[map[r]].tsRemoved <= now
      BY Opened DEF Source, TimeInv, LeftByCleanup
    <3>2. QED BY <1>1, <3>1
  <2>3. QED BY <1>1, <2>1, <2>2 DEF TimeInv
<1>3. CASE Cleanup
  <2>1. pc' = "update" /\ UNCHANGED <<now, heap, started>>
    BY <1>3 DEF Cleanup, RemoveOldSources, Ignored, tables, callVars
  <2>2. CASE now - tLastCleanup > CleanupSeconds
    <3>1. tLastCleanup' = now /\ RemoveOldSources
      BY <1>3, <2>2 DEF Cleanup
    <3>2. LeftByCleanup'
      <4> SUFFICES ASSUME NEW r \in SrcRefs, map'[r] # NoObj, heap[map'[r]].tsRemoved # 0
                   PROVE  /\ heap[map'[r]].tsRemoved <= now
                          /\ now - Since(heap[map'[r]].tsRemoved) <= KeepSeconds
        BY <2>1, <3>1 DEF LeftByCleanup, Live, Since
      <4>1. map'[r] = map[r] /\ ~Expired(map[r])
        BY <3>1 DEF RemoveOldSources
      <4>2. heap[map[r]].tsRemoved \in Nat /\ heap[map[r]].tsRemoved <= now
        BY <4>1, Opened DEF Source, TimeInv, LeftByCleanup, Live
      <4>3. now - heap[map[r]].tsRemoved <= KeepSeconds
        BY <1>1, <4>1, <4>2 DEF Expired
      <4>4. QED BY <1>1, <4>1, <4>2, <4>3, SinceStarted DEF TimeInv
    <3>3. QED BY <1>1, <2>1, <3>1, <3>2 DEF TimeInv
  <2>3. CASE ~(now - tLastCleanup > CleanupSeconds)
    <3>1. UNCHANGED <<tLastCleanup, map>>
      BY <1>3, <2>3 DEF Cleanup, Ignored, tables
    <3>2. now - tLastCleanup <= CleanupSeconds
      BY <1>1, <2>3 DEF TimeInv
    <3>3. QED BY <1>1, <2>1, <3>1, <3>2, LeftStep DEF TimeInv
  <2>4. QED BY <2>2, <2>3
<1>4. CASE ~StartRun /\ ~Cleanup
  <2>1. \/ UNCHANGED <<started, tLastCleanup>> /\ pc' # "update"
        \/ UNCHANGED vars
        \/ KernelActs
        \/ Tick
    BY <1>4 DEF ClientNext, RunLoop, Update, SendNextMsg, ReadNextMessage, Drained,
                EndRun, callVars
  <2>2. UNCHANGED <<started, tLastCleanup>>
    BY <2>1 DEF vars, runVars, callVars, KernelActs, Tick
  <2>3. now' >= now
    <3>1. now' = now \/ now' = now + 1
      <4>1. CASE Tick
        BY <4>1 DEF Tick
      <4>2. CASE ReadNextMessage
        BY <4>2, Zenon DEF ReadNextMessage, HandleNotification, HandleResponse, SrcAdded,
                    SrcAddedKnown, SrcAddedNew, SrcRemoved, SrcDesc, SrcCounts, Ignored
      <4>3. CASE SendNextMsg
        BY <4>3 DEF SendNextMsg, SendQueued, SendGetSrcDesc, SendQuerySrc, SendNothing,
                    TakeWaitingForDesc, TakeWaitingForCount, Ignored
      <4>4. CASE Update \/ Drained \/ EndRun \/ KernelActs
        BY <4>4 DEF Update, Drained, EndRun, KernelActs, UpdateWaitForCountsQueue, Ignored
      <4>5. CASE UNCHANGED vars
        BY <4>5 DEF vars, sourcesVars
      <4>6. QED BY <1>4, <4>1, <4>2, <4>3, <4>4, <4>5 DEF ClientNext, RunLoop
    <3>2. QED BY <1>1, <3>1
  <2>4. pc' = "update" => pc = "update" /\ now' = now
    BY <2>1 DEF vars, runVars, sourcesVars, KernelActs, Tick, Ignored
  <2>5. LeftByCleanup'
    BY <2>2, <2>3, LeftStep
  <2>6. started' <= now' /\ tLastCleanup' <= now'
    BY <1>1, <2>2, <2>3 DEF TimeInv
  <2>7. QED BY <1>1, <2>2, <2>4, <2>5, <2>6, Zenon DEF TimeInv
<1>5. QED BY <1>2, <1>3, <1>4

(* Removed sources leave the table in time: at each update pass none has    *)
(* been there longer than it is kept and the time between two clean-ups,    *)
(* for any settings, any number of runs and whatever messages are lost, of  *)
(* a clock that is not set back.                                            *)
THEOREM RemovedSourcesLeave == ClientSpec => []RemovedLeaveInTime
<1>1. ClientInit => TimeInv
  BY SourcesAssumption DEF ClientInit, Init, TimeInv, LeftByCleanup
<1>2. TypeOK /\ TimeInv => RemovedLeaveInTime
  <2> SUFFICES ASSUME TypeOK, TimeInv, pc = "update",
                      NEW r \in SrcRefs, map[r] # NoObj, ~Live(map[r])
               PROVE  now - Since(heap[map[r]].tsRemoved) <= KeepSeconds + CleanupSeconds
    BY DEF RemovedLeaveInTime
  <2>1. heap[map[r]].tsRemoved \in Nat
    BY Opened DEF Source
  <2>2. Since(heap[map[r]].tsRemoved) \in Nat
    BY <2>1, SinceStarted DEF TimeInv
  <2>3. now \in Nat /\ KeepSeconds \in Nat /\ CleanupSeconds \in Nat
    BY SourcesAssumption, ClientAssumption DEF TypeOK
  <2>4. /\ tLastCleanup \in Nat /\ now - tLastCleanup <= CleanupSeconds
        /\ tLastCleanup - Since(heap[map[r]].tsRemoved) <= KeepSeconds
    BY DEF TimeInv, LeftByCleanup
  <2>5. QED BY <2>2, <2>3, <2>4
<1>3. QED
  BY <1>1, <1>2, TimeStep, ClientImplementsSources, TypeCorrect, PTL
  DEF ClientSpec, Spec
=============================================================================
