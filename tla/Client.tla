------------------------------- MODULE Client -------------------------------
(***************************************************************************)
(* NetworkStatisticsClientImpl at work: run() with its handshake, its      *)
(* periodic passes, its one request a round and its drain of the socket,   *)
(* composed with the source table (module Sources) and the kernel control  *)
(* at the other end of the socket (module Kernel).                         *)
(*                                                                         *)
(* Every step of the client is a step of Sources: the table's guarantees   *)
(* for an arbitrary kernel hold here a fortiori.  What this module adds is *)
(* what needs the real order of requests, replies and notifications.       *)
(***************************************************************************)
EXTENDS Sources, Sequences, FiniteSets

CONSTANTS
    ProviderOf, OpenPorts, PortMoves, MaxLives, InboxCap, Refused, Lossy,
                     \* of the kernel: see module Kernel
    WantTcp,         \* configure(): _wantTcp
    WantUdp,         \* configure(): _wantUdp
    Interval,        \* configure(): the updateIntervalSeconds asked for
    LeastInterval,   \* the 30 seconds of configure()
    CleanupSeconds,  \* CLEANUP_SOURCE_LIST_SECONDS
    MaxRuns          \* bound on the calls of run()

ASSUME ClientAssumption ==
    /\ IsFiniteSet(SrcRefs)
    /\ OpenPorts \subseteq PortClass
    /\ PortMoves \subseteq PortClass \X PortClass
    /\ Lossy \in BOOLEAN
    /\ Interval \in Nat
    /\ LeastInterval \in Nat
    /\ CleanupSeconds \in Nat
    /\ MaxRuns \in Nat

VARIABLES
    socket, lives, subscribed, inbox,   \* of the kernel
    pc,           \* where run() is: "start", "cleanup", "update", "send", "drain"
    state,        \* _state
    outq,         \* _outq
    tLastCleanup, \* locals of run()
    tLastUpdate,
    runs,         \* history: how often run() was called, and when it was last
    started

INSTANCE Kernel

kernelVars == <<socket, lives, subscribed, inbox>>
callVars == <<runs, started>>
runVars == <<pc, state, outq, tLastCleanup, tLastUpdate, callVars>>
vars == <<sourcesVars, kernelVars, runVars>>

ClientInit ==
    /\ Init
    /\ KernelInit
    /\ pc = "start"
    /\ state = "START"
    /\ outq = <<>>
    /\ tLastCleanup = 0
    /\ tLastUpdate = 0
    /\ runs = 0
    /\ started = 0

-----------------------------------------------------------------------------
(* The prelude of run() and _handleState: the subscriptions, one provider   *)
(* after the other.                                                         *)
RequestTcpSrc ==
    /\ state' = "REQUEST_TCP_SRC"
    /\ outq' = Append(outq, AddAllSrcs("tcp"))

RequestUdpSrc ==
    /\ state' = "REQUEST_UDP_SRC"
    /\ outq' = Append(outq, AddAllSrcs("udp"))

EnterRunning ==
    /\ state' = "RUNNING"
    /\ UNCHANGED outq

StartRun ==
    /\ pc = "start"
    /\ pc' = "cleanup"
    /\ IF WantTcp THEN RequestTcpSrc ELSE RequestUdpSrc
    /\ tLastCleanup' = now
    /\ tLastUpdate' = now
    /\ runs' = runs + 1
    /\ started' = now
    /\ Ignored
    /\ UNCHANGED kernelVars

(* stop() was called, and the application connects once more to call run()  *)
(* again: the tables, the queue and _state keep what they had.              *)
EndRun ==
    /\ pc = "cleanup"
    /\ runs < MaxRuns
    /\ pc' = "start"
    /\ Disconnect
    /\ Ignored
    /\ UNCHANGED <<state, outq, tLastCleanup, tLastUpdate, callVars>>

\* Mutants: the second provider is forgotten; the third state of the enum is
\* entered.
HandleStateTcpOnly(fatal) == EnterRunning

HandleStateIfnet(fatal) ==
    IF state = "REQUEST_TCP_SRC" /\ ~fatal /\ WantUdp
    THEN RequestUdpSrc
    ELSE state' = "REQUEST_IFNET_SRC" /\ UNCHANGED outq

\* The first SUCCESS or ERROR is taken for the answer to the subscription.
HandleState(fatal) ==
    IF state = "REQUEST_TCP_SRC" /\ ~fatal /\ WantUdp
    THEN RequestUdpSrc
    ELSE EnterRunning

-----------------------------------------------------------------------------
\* configure: _updateIntervalSeconds.
UpdateInterval == IF Interval < LeastInterval THEN LeastInterval ELSE Interval

\* Mutant: every round counts as a clean-up.
CleanupPostponed ==
    /\ pc = "cleanup"
    /\ pc' = "update"
    /\ IF now - tLastCleanup > CleanupSeconds THEN RemoveOldSources ELSE Ignored
    /\ tLastCleanup' = now
    /\ UNCHANGED <<kernelVars, state, outq, tLastUpdate, callVars>>

(* The head of the loop.                                                    *)
Cleanup ==
    /\ pc = "cleanup"
    /\ pc' = "update"
    /\ IF now - tLastCleanup > CleanupSeconds
       THEN RemoveOldSources /\ tLastCleanup' = now
       ELSE Ignored /\ UNCHANGED tLastCleanup
    /\ UNCHANGED <<kernelVars, state, outq, tLastUpdate, callVars>>

Update ==
    /\ pc = "update"
    /\ pc' = "send"
    /\ IF UpdateInterval > 0 /\ now - tLastUpdate >= UpdateInterval
       THEN UpdateWaitForCountsQueue /\ tLastUpdate' = now
       ELSE Ignored /\ UNCHANGED tLastUpdate
    /\ UNCHANGED <<kernelVars, state, outq, tLastCleanup, callVars>>

\* Mutant: the request sent stays in the queue.
SendQueuedKept ==
    /\ outq # <<>>
    /\ Serve(Head(outq))
    /\ Ignored
    /\ UNCHANGED outq

(* sendNextMsg: the oldest queued request, or else one GET_SRC_DESC, or     *)
(* else one QUERY_SRC.  A request is gone once sent, whatever came of it.   *)
SendQueued ==
    /\ outq # <<>>
    /\ Serve(Head(outq))
    /\ outq' = Tail(outq)
    /\ Ignored

SendGetSrcDesc ==
    /\ outq = <<>>
    /\ \E r \in SrcRefs : TakeWaitingForDesc(r) /\ Serve(GetSrcDesc(r))
    /\ UNCHANGED outq

SendQuerySrc ==
    /\ outq = <<>>
    /\ Keys(mapWaitingForDesc) = {}
    /\ \E r \in SrcRefs :
          /\ TakeWaitingForCount(r)
          /\ IF StillWanted(mapWaitingForCount[r])
             THEN Serve(QuerySrc(r)) ELSE UNCHANGED kernelVars
    /\ UNCHANGED outq

SendNothing ==
    /\ outq = <<>>
    /\ Keys(mapWaitingForDesc) = {}
    /\ Keys(mapWaitingForCount) = {}
    /\ Ignored
    /\ UNCHANGED <<kernelVars, outq>>

SendNextMsg ==
    /\ pc = "send"
    /\ pc' = "drain"
    /\ SendQueued \/ SendGetSrcDesc \/ SendQuerySrc \/ SendNothing
    /\ UNCHANGED <<state, tLastCleanup, tLastUpdate, callVars>>

-----------------------------------------------------------------------------
\* NOT_FATAL: an ERROR is fatal to the handshake, unless its errno is 0.
MayBeFatal(m) == IF m.type = "ERROR" THEN BOOLEAN ELSE {FALSE}

(* _handleResponseMessage, by message type.                                 *)
HandleResponse(m) ==
    /\ m.type \in {"SUCCESS", "ERROR", "ENOBUFS"}
    /\ IF state # "RUNNING"
       THEN \E fatal \in MayBeFatal(m) : HandleState(fatal)
       ELSE UNCHANGED <<state, outq>>
    /\ Ignored

HandleNotification(m) ==
    /\ \/ m.type = "SRC_ADDED" /\ SrcAdded(m.ref)
       \/ m.type = "SRC_REMOVED" /\ SrcRemoved(m.ref)
       \/ m.type = "SRC_DESC" /\ SrcDesc(m.ref, m.ports)
       \/ m.type = "SRC_COUNTS" /\ \E traffic \in BOOLEAN : SrcCounts(m.ref, traffic)
       \/ /\ m.type \in {"SRC_REMOVED", "SRC_DESC", "SRC_COUNTS"}
          /\ map[m.ref] = NoObj
          /\ Ignored
    /\ UNCHANGED <<state, outq>>

ReadNextMessage ==
    /\ pc = "drain"
    /\ inbox # <<>>
    /\ inbox' = Tail(inbox)
    /\ HandleNotification(Head(inbox)) \/ HandleResponse(Head(inbox))
    /\ UNCHANGED <<socket, lives, subscribed, pc, tLastCleanup, tLastUpdate, callVars>>

\* haveIncomingMessage times out.
Drained ==
    /\ pc = "drain"
    /\ inbox = <<>>
    /\ pc' = "cleanup"
    /\ Ignored
    /\ UNCHANGED <<kernelVars, state, outq, tLastCleanup, tLastUpdate, callVars>>

RunLoop ==
    \/ StartRun
    \/ Cleanup
    \/ Update
    \/ SendNextMsg
    \/ ReadNextMessage
    \/ Drained

\* The kernel acts on its own.
KernelActs ==
    /\ KernelStep
    /\ Ignored
    /\ UNCHANGED runVars

\* The clock is only read in the loop: it may as well move while run() waits,
\* or between two calls of run().
Tick ==
    /\ pc = "drain" \/ (pc = "start" /\ runs > 0)
    /\ ClockStep
    /\ now' = now + 1
    /\ UNCHANGED <<kernelVars, runVars>>

ClientNext == RunLoop \/ EndRun \/ KernelActs \/ Tick

ClientSpec == ClientInit /\ [][ClientNext]_vars

\* run() has a thread of its own, which keeps running; it relies on nothing else.
\* Nobody need call stop().
FairClientSpec == ClientSpec /\ WF_vars(RunLoop)
-----------------------------------------------------------------------------
(* The states of run(), and every message in the socket is about a source   *)
(* the kernel knows, or an answer.                                          *)
KernelMessage ==
    [type : {"SRC_ADDED", "SRC_REMOVED", "SRC_DESC", "SRC_COUNTS"},
     ref : SrcRefs, ports : PortClass]
        \cup {Success, Error, NoBuffers}

ClientTypeOK ==
    /\ socket \in [SrcRefs -> PortClass \cup {"closed"}]
    /\ inbox \in Seq(KernelMessage)
    /\ pc \in {"start", "cleanup", "update", "send", "drain"}
    /\ state \in {"START", "REQUEST_TCP_SRC", "REQUEST_UDP_SRC", "RUNNING"}
    /\ outq \in Seq({AddAllSrcs("tcp"), AddAllSrcs("udp")})

\* The streams the application believes to be there, and what it last heard.
Up == {r \in SrcRefs : \E o \in announced \ withdrawn : heap[o].srcRef = r}

LastEvent ==
    IF callback.kind = "none" THEN [kind |-> "none"]
    ELSE [kind |-> callback.kind, id |-> heap[callback.obj].srcRef]

Listener == INSTANCE StreamListener WITH up <- Up, event <- LastEvent

(* The calls the library makes are calls the application may expect: a      *)
(* stream is added, updated while it is known, removed once, and an id the  *)
(* kernel uses again names the new stream only after the old was removed.   *)
(* Handlers of three notifications and the update pass have to agree on it. *)
ListenerContract == Listener!Spec

InTable(r) == map[r] # NoObj /\ Live(map[r])

Waiting(type, r) == \E i \in DOMAIN inbox : inbox[i].type = type /\ inbox[i].ref = r

(* When nothing waits in the socket, the table's live sources are exactly   *)
(* the open sources of the subscribed providers: no source is missed        *)
(* between the list ADD_ALL_SRCS returns and the notifications that follow, *)
(* and a reference used again is not mistaken for the source before it.     *)
TableMatchesKernelWhenDrained ==
    inbox = <<>> => \A r \in SrcRefs : InTable(r) <=> Open(r) /\ Reported(r)

(* No source is forgotten: one without a description still waits for its    *)
(* request to be sent or has the answer on the way.  sendNextMsg erases the *)
(* waiting entry when it sends, so nothing would ask a second time.         *)
NoSourceForgotten ==
    \A r \in SrcRefs :
        InTable(r) /\ ~heap[map[r]].haveDesc =>
            \/ mapWaitingForDesc[r] = map[r]
            \/ Waiting("SRC_DESC", r)

(* A removed source leaves the table: at the update pass no entry is older  *)
(* than the time it is kept and the time between two clean-ups together,    *)
(* not counting the time between two calls of run().                        *)
Since(t) == IF t < started THEN started ELSE t

RemovedLeaveInTime ==
    pc = "update" =>
        \A r \in SrcRefs :
            map[r] # NoObj /\ ~Live(map[r]) =>
                now - Since(heap[map[r]].tsRemoved) <= KeepSeconds + CleanupSeconds

(* No count that was asked for is forgotten: while _requestedCount is set   *)
(* the request waits to be sent or the counts are on the way, even if the   *)
(* source closed before the kernel saw the request.  sendNextMsg erases the *)
(* entry when it sends, and the flag is all that remembers it.              *)
NoCountForgotten ==
    \A r \in SrcRefs :
        InTable(r) /\ heap[map[r]].requestedCount =>
            \/ mapWaitingForCount[r] = map[r]
            \/ Waiting("SRC_COUNTS", r)

Wanted == (IF WantTcp THEN {"tcp"} ELSE {}) \cup (IF WantUdp THEN {"udp"} ELSE {})

(* The handshake ends, with every wanted provider subscribed.               *)
HandshakeCompletes == <>[](state = "RUNNING" /\ Wanted \subseteq subscribed)

(* Every stream the kernel reports is announced to the application sooner   *)
(* or later, even one that closes before its description was asked for.     *)
StreamsAreAnnounced ==
    \A r \in SrcRefs :
        (Reported(r) /\ socket[r] \in {"listen", "conn"}) ~> r \in Up

(* Every stream the application knows of is withdrawn once it has closed    *)
(* ("Receive Add, Stats, Remove on every TCP connection").  It needs one    *)
(* connection to the kernel throughout: no run looks for what closed before *)
(* it began.                                                                *)
ClosedStreamsAreWithdrawn ==
    \A r \in SrcRefs : (r \in Up /\ ~Open(r)) ~> r \notin Up

(* Counts that were asked for arrive, or the source is removed: the request *)
(* is taken in its turn from _mapWaitingForCount and not lost when the      *)
(* update pass or a notification touches the source meanwhile.              *)
Awaited(o) == o \in DOMAIN heap /\ heap[o].requestedCount /\ Live(o)

CountsAreAnswered == \A o \in Obj : Awaited(o) ~> ~Awaited(o)

(* At most one request is queued for each call of run(): the handshake adds *)
(* the next one only after the last has been sent and answered, and a run   *)
(* that is stopped in its handshake leaves at most one to the next.         *)
RequestsDoNotPileUp == Len(outq) <= runs

(* No stream is reported removed that was never reported added              *)
(* ("Receive Add, Stats, Remove on every TCP connection").                  *)
RemovedWereAdded ==
    [][callback'.kind = "removed" => callback'.obj \in announced]_vars
=============================================================================
