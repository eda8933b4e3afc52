------------------------------ MODULE Requests ------------------------------
(***************************************************************************)
(* How NetworkStatisticsClientImpl keeps track of its requests: the number *)
(* each one carries as its context, the map _qmsgMap from numbers to the   *)
(* requests sent, the look-up an answer makes there, and the counters of   *)
(* errors and drops.                                                       *)
(*                                                                         *)
(* Which requests there are, and why, is the matter of module Client; here *)
(* run() asks for something or not in each round, and the kernel answers   *)
(* in full, in part or not at all.                                         *)
(***************************************************************************)
EXTENDS Naturals, Sequences, FiniteSets

CONSTANTS
    SeqLimit,     \* 2^16: _seqnum is a uint16_t
    MaxRequests,  \* bound on the requests made
    MaxTold,      \* bound on the messages the kernel sends of its own accord
    InboxCap      \* bound: nothing happens of itself while this many messages wait

ASSUME RequestsAssumption ==
    /\ SeqLimit \in Nat \ {0, 1}
    /\ MaxRequests \in Nat
    /\ MaxTold \in Nat
    /\ InboxCap \in Nat

VARIABLES
    seqnum,     \* _seqnum
    outq,       \* _outq
    qmsgMap,    \* _qmsgMap
    numErrors,  \* _numErrors
    numDrops,   \* _numDrops
    handshake,  \* of _state: how many subscriptions are not yet answered for
    pc,         \* where run() is: "start", "send" or "drain"
    inbox,      \* the receive queue of the control socket
    made,       \* history: how many requests send() was given
    told,       \* history: how many messages came of the kernel's own accord
    answered,   \* history: the requests an answer was read for
    dropsSent   \* history: how many ENOBUFS the kernel has sent

requestVars == <<seqnum, outq, qmsgMap>>
counters == <<numErrors, numDrops>>
history == <<made, told, answered, dropsSent>>
vars == <<requestVars, counters, handshake, pc, inbox, history>>

-----------------------------------------------------------------------------
Context == 0..(SeqLimit - 1)

\* A request: the context in its header, the number it is filed under, and,
\* to tell requests apart, when it was made; 0 is none of them.
NoRequest == 0
QMsg == [context : Context, seqnum : Context, id : Nat \ {NoRequest}]

\* A message says to which request it belongs by its context alone; "of" is
\* what the kernel knows.  Notifications carry the context 0.
Message == [kind : {"DATA", "SUCCESS", "ERROR", "ENOBUFS", "SHORT"},
            context : Context, of : Nat]
NSMessage(kind, context, of) == [kind |-> kind, context |-> context, of |-> of]

Init ==
    /\ seqnum = 1
    /\ outq = <<>>
    /\ qmsgMap = [n \in {} |-> NoRequest]
    /\ numErrors = 0
    /\ numDrops = 0
    /\ handshake = 0
    /\ pc = "start"
    /\ inbox = <<>>
    /\ made = 0
    /\ told = 0
    /\ answered = {}
    /\ dropsSent = 0

-----------------------------------------------------------------------------
\* Mutant: the request is filed under the number of the next one.
EnqueueAfter ==
    /\ made' = made + 1
    /\ seqnum' = (seqnum + 1) % SeqLimit
    /\ outq' = Append(outq, [context |-> seqnum, seqnum |-> seqnum', id |-> made'])

(* MsgDest::send: a copy is queued under the number in its header.          *)
Enqueue ==
    /\ made' = made + 1
    /\ seqnum' = (seqnum + 1) % SeqLimit
    /\ outq' = Append(outq, [context |-> seqnum, seqnum |-> seqnum, id |-> made'])

\* What the kernel may put in the queue in answer: nothing at all, data under
\* the request's context or none, an ending, and word of what did not fit.
Own(kind, qm) == NSMessage(kind, qm.context, qm.id)
Other(kind) == NSMessage(kind, 0, NoRequest)

DataFor(qm) == {<<>>, <<Own("DATA", qm)>>, <<Other("DATA")>>}
EndsOf(qm) == {<<>>, <<Own("SUCCESS", qm)>>, <<Own("ERROR", qm)>>, <<Own("SHORT", qm)>>}
DropsFor(qm) == {<<>>, <<Own("ENOBUFS", qm)>>, <<Other("ENOBUFS")>>}

Answers(qm) ==
    {data \o end \o drop : data \in DataFor(qm), end \in EndsOf(qm), drop \in DropsFor(qm)}

DropsIn(msgs) == Cardinality({i \in DOMAIN msgs : msgs[i].kind = "ENOBUFS"})

Receive(msgs) ==
    /\ inbox' = inbox \o msgs
    /\ dropsSent' = dropsSent + DropsIn(msgs)

(* SEND: the kernel answers within the write; the map is updated after it,  *)
(* whether the write succeeded or not.                                      *)
Send(qm) ==
    /\ \E msgs \in Answers(qm) : Receive(msgs)
    /\ qmsgMap' = [n \in DOMAIN qmsgMap \cup {qm.seqnum} |->
                      IF n = qm.seqnum THEN qm.id ELSE qmsgMap[n]]

\* The prelude of run(): one provider is wanted, or both are.
StartRun ==
    /\ pc = "start"
    /\ pc' = "send"
    /\ Enqueue
    /\ handshake' \in {1, 2}
    /\ UNCHANGED <<qmsgMap, counters, inbox, told, answered, dropsSent>>

\* sendNextMsg finds a source to ask about.
AskForMore ==
    /\ pc = "send"
    /\ outq = <<>>
    /\ made < MaxRequests
    /\ Enqueue
    /\ UNCHANGED <<qmsgMap, counters, handshake, pc, inbox,
                   told, answered, dropsSent>>

SendNextMsg ==
    /\ pc = "send"
    /\ pc' = "drain"
    /\ IF outq = <<>>
       THEN UNCHANGED <<outq, qmsgMap, inbox, dropsSent>>
       ELSE Send(Head(outq)) /\ outq' = Tail(outq)
    /\ UNCHANGED <<seqnum, counters, handshake, made, told, answered>>

\* The kernel reports a source, or that it could not.
Notify ==
    /\ pc # "start"
    /\ Len(inbox) < InboxCap
    /\ told < MaxTold
    /\ told' = told + 1
    /\ \E kind \in {"DATA", "ENOBUFS"} : Receive(<<Other(kind)>>)
    /\ UNCHANGED <<requestVars, counters, handshake, pc, made, answered>>

-----------------------------------------------------------------------------
IsError(m) == m.kind \in {"ERROR", "ENOBUFS", "SHORT"}

\* Mutant: what is not fatal to the handshake is not looked at.
GetAndLogErrorRunning(m) ==
    IF IsError(m) /\ (handshake = 0 \/ m.kind # "ENOBUFS")
    THEN /\ numErrors' = numErrors + 1
         /\ numDrops' = IF m.kind = "ENOBUFS" THEN numDrops + 1 ELSE numDrops
    ELSE UNCHANGED counters

(* _getAndLogError: a message too short to hold an error counts as one, and *)
(* is nothing else.                                                         *)
GetAndLogError(m) ==
    IF IsError(m)
    THEN /\ numErrors' = numErrors + 1
         /\ numDrops' = IF m.kind = "ENOBUFS" THEN numDrops + 1 ELSE numDrops
    ELSE UNCHANGED counters

Found(m) == IF m.context \in DOMAIN qmsgMap THEN qmsgMap[m.context] ELSE NoRequest

\* Mutants: the request stays in the map once it is found; operator[] looks it
\* up, which leaves an empty one under a number that is not there.
LookupKept(m) ==
    /\ answered' = IF m.of = NoRequest THEN answered ELSE answered \cup {m.of}
    /\ UNCHANGED qmsgMap

LookupInserting(m) ==
    /\ answered' = IF m.of = NoRequest THEN answered ELSE answered \cup {m.of}
    /\ qmsgMap' = IF m.context \in DOMAIN qmsgMap
                  THEN [n \in DOMAIN qmsgMap \ {m.context} |-> qmsgMap[n]]
                  ELSE [n \in DOMAIN qmsgMap \cup {m.context} |-> Found(m)]

(* The request a message answers, if it can be told, leaves the map.        *)
Lookup(m) ==
    /\ answered' = IF m.of = NoRequest THEN answered ELSE answered \cup {m.of}
    /\ qmsgMap' = [n \in DOMAIN qmsgMap \ {m.context} |-> qmsgMap[n]]

\* NOT_FATAL: an ERROR is fatal to the handshake, unless its errno is 0; one
\* too short to have an errno always is.
Fatal(m) ==
    CASE m.kind = "ERROR" -> BOOLEAN
      [] m.kind = "SHORT" -> {TRUE}
      [] OTHER -> {FALSE}

(* _handleState: an answer that is not fatal has the next provider asked    *)
(* for, if there is one left.                                               *)
HandleState(m) ==
    IF handshake = 0 \/ m.kind = "DATA"
    THEN UNCHANGED <<seqnum, outq, handshake, made>>
    ELSE \E fatal \in Fatal(m) :
            IF handshake = 2 /\ ~fatal
            THEN Enqueue /\ handshake' = 1
            ELSE handshake' = 0 /\ UNCHANGED <<seqnum, outq, made>>

ReadNextMessage ==
    /\ pc = "drain"
    /\ inbox # <<>>
    /\ inbox' = Tail(inbox)
    /\ Lookup(Head(inbox))
    /\ GetAndLogError(Head(inbox))
    /\ HandleState(Head(inbox))
    /\ UNCHANGED <<pc, told, dropsSent>>

\* haveIncomingMessage times out.
Drained ==
    /\ pc = "drain"
    /\ inbox = <<>>
    /\ pc' = "send"
    /\ UNCHANGED <<requestVars, counters, handshake, inbox, history>>

Next ==
    \/ StartRun
    \/ AskForMore
    \/ SendNextMsg
    \/ Notify
    \/ ReadNextMessage
    \/ Drained

Spec == Init /\ [][Next]_vars
-----------------------------------------------------------------------------
(* Numbers fit their type, and queue and map hold requests that were made,  *)
(* and nothing else.                                                        *)
TypeOK ==
    /\ seqnum \in Context
    /\ outq \in Seq(QMsg)
    /\ \A j \in DOMAIN outq : outq[j].id <= made
    /\ DOMAIN qmsgMap \subseteq Context
    /\ \A n \in DOMAIN qmsgMap : qmsgMap[n] \in 1..made
    /\ numErrors \in Nat
    /\ numDrops \in Nat
    /\ handshake \in 0..2
    /\ pc \in {"start", "send", "drain"}
    /\ inbox \in Seq(Message)
    /\ made \in Nat
    /\ told \in Nat
    /\ answered \subseteq Nat \ {NoRequest}
    /\ dropsSent \in Nat

(* An answer finds the request it answers ("the application needs to keep   *)
(* track of request messages and lookup request message with matching       *)
(* context field"), or none if an earlier answer took it; it never finds    *)
(* another, however often the numbers have come round.  The request that    *)
(* has the notifications' own number is the exception.                      *)
AnswersFindTheirRequest ==
    \A i \in DOMAIN inbox :
        LET m == inbox[i]
        IN  m.context # 0 =>
                \/ Found(m) = m.of
                \/ Found(m) = NoRequest /\ m.of \in answered

(* What stays in the map was never answered: nothing is kept for a request  *)
(* the kernel has dealt with.                                               *)
KeptAreUnanswered ==
    \A n \in DOMAIN qmsgMap : qmsgMap[n] \notin answered

(* No drop goes uncounted, neither in the handshake nor after it ("returns  *)
(* the number of ENOBUFS errors received from kernel"), and a drop is an    *)
(* error.                                                                   *)
DropsAreCounted ==
    /\ numDrops + DropsIn(inbox) = dropsSent
    /\ numDrops <= numErrors
=============================================================================
