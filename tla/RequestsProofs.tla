--------------------------- MODULE RequestsProofs ---------------------------
(***************************************************************************)
(* What the request map guarantees for every width of _seqnum, every       *)
(* number of requests and every way the kernel may answer them.            *)
(***************************************************************************)
EXTENDS Requests, TLAPS, SequenceTheorems, FiniteSetTheorems, FunctionTheorems

LEMMA NextNumber ==
  ASSUME TypeOK
  PROVE  /\ (seqnum + 1) % SeqLimit \in Context
         /\ 0 \in Context
  BY RequestsAssumption DEF TypeOK, Context

LEMMA EnqueueType ==
  ASSUME TypeOK, Enqueue
  PROVE  seqnum' \in Context /\ outq' \in Seq(QMsg) /\ made' \in Nat
<1>1. [context |-> seqnum, seqnum |-> seqnum, id |-> made'] \in QMsg
  BY DEF TypeOK, Enqueue, QMsg, NoRequest
<1>2. QED BY <1>1, NextNumber DEF TypeOK, Enqueue

LEMMA AnswersType ==
  ASSUME TypeOK, NEW qm \in QMsg, NEW msgs \in Answers(qm)
  PROVE  msgs \in Seq(Message)
<1>1. \A kind \in {"DATA", "SUCCESS", "ERROR", "ENOBUFS", "SHORT"} :
         Own(kind, qm) \in Message /\ Other(kind) \in Message
  BY NextNumber DEF Own, Other, NSMessage, Message, QMsg, NoRequest
<1>2. /\ DataFor(qm) \subseteq Seq(Message)
      /\ EndsOf(qm) \subseteq Seq(Message)
      /\ DropsFor(qm) \subseteq Seq(Message)
  BY <1>1 DEF DataFor, EndsOf, DropsFor
<1>3. PICK data \in DataFor(qm), end \in EndsOf(qm), drop \in DropsFor(qm) :
        msgs = data \o end \o drop
  BY DEF Answers
<1>4. QED BY <1>2, <1>3

LEMMA DropsType ==
  ASSUME NEW s \in Seq(Message)
  PROVE  DropsIn(s) \in Nat
<1>1. DOMAIN s = 1..Len(s) /\ Len(s) \in Nat
  OBVIOUS
<1>2. IsFiniteSet(DOMAIN s)
  BY <1>1, FS_Interval
<1>3. QED BY <1>2, FS_Subset, FS_CardinalityType DEF DropsIn

LEMMA ReceiveType ==
  ASSUME TypeOK, NEW msgs \in Seq(Message), Receive(msgs)
  PROVE  inbox' \in Seq(Message) /\ dropsSent' \in Nat
<1>1. DropsIn(msgs) \in Nat
  BY DropsType
<1>2. QED BY <1>1 DEF TypeOK, Receive

\* What becomes of the queue, element by element.
LEMMA Enqueued ==
  ASSUME TypeOK, Enqueue \/ UNCHANGED <<outq, made>>
  PROVE  /\ made' \in Nat /\ made <= made'
         /\ \A j \in DOMAIN outq' :
               \/ j \in DOMAIN outq /\ outq'[j] = outq[j]
               \/ /\ j = Len(outq) + 1 /\ made' = made + 1
                  /\ outq'[j].context = outq'[j].seqnum /\ outq'[j].id = made'
<1>1. CASE Enqueue
  <2> DEFINE qm == [context |-> seqnum, seqnum |-> seqnum, id |-> made']
  <2>1. qm \in QMsg
    BY <1>1 DEF TypeOK, Enqueue, QMsg, NoRequest
  <2>2. outq' = Append(outq, qm) /\ outq \in Seq(QMsg) /\ made' = made + 1 /\ made \in Nat
    BY <1>1 DEF TypeOK, Enqueue
  <2>3. qm.context = qm.seqnum /\ qm.id = made'
    OBVIOUS
  <2> HIDE DEF qm
  <2>4. \A j \in DOMAIN outq' :
           \/ j \in DOMAIN outq /\ outq'[j] = outq[j]
           \/ j = Len(outq) + 1 /\ outq'[j] = qm
    <3>1. /\ DOMAIN outq' = 1..(Len(outq) + 1) /\ Len(outq) \in Nat
          /\ DOMAIN outq = 1..Len(outq)
      BY <2>1, <2>2
    <3>2. \A j \in 1..Len(outq) : outq'[j] = outq[j]
      BY <2>1, <2>2
    <3>3. outq'[Len(outq) + 1] = qm
      BY <2>1, <2>2
    <3>4. QED BY <3>1, <3>2, <3>3
  <2>5. \A j \in DOMAIN outq' :
           \/ j \in DOMAIN outq /\ outq'[j] = outq[j]
           \/ /\ j = Len(outq) + 1 /\ made' = made + 1
              /\ outq'[j].context = outq'[j].seqnum /\ outq'[j].id = made'
    BY <2>2, <2>3, <2>4, Zenon
  <2>6. QED BY <2>2, <2>5
<1>2. CASE UNCHANGED <<outq, made>>
  BY <1>2 DEF TypeOK
<1>3. QED BY <1>1, <1>2

\* What was made stays made, and what is queued was made.
LEMMA MadeType ==
  ASSUME TypeOK, Enqueue \/ UNCHANGED <<outq, made>>
  PROVE  /\ \A j \in DOMAIN outq' : outq'[j].id <= made'
         /\ 1..made \subseteq 1..made'
<1>1. \A j \in DOMAIN outq : outq[j].id \in Nat /\ outq[j].id <= made
  <2>1. \A j \in DOMAIN outq : outq[j] \in QMsg
    BY DEF TypeOK
  <2>2. QED BY <2>1 DEF QMsg, TypeOK
<1>2. made \in Nat
  BY DEF TypeOK
<1>3. QED BY <1>1, <1>2, Enqueued

LEMMA InitTypeOK == Init => TypeOK
<1> SUFFICES ASSUME Init PROVE TypeOK
  OBVIOUS
<1>1. 1 \in Context
  BY RequestsAssumption DEF Context
<1>2. QED BY <1>1 DEF Init, TypeOK, NoRequest

LEMMA TypeStep == TypeOK /\ [Next]_vars => TypeOK'
<1> SUFFICES ASSUME TypeOK, [Next]_vars PROVE TypeOK'
  OBVIOUS
<1>1. CASE StartRun
  BY <1>1, EnqueueType, MadeType DEF StartRun, TypeOK, counters
<1>2. CASE AskForMore
  BY <1>2, EnqueueType, MadeType DEF AskForMore, TypeOK, counters
<1>3. CASE SendNextMsg
  <2>1. CASE outq = <<>>
    BY <1>3, <2>1 DEF SendNextMsg, TypeOK, counters
  <2>2. CASE outq # <<>>
    <3>1. Head(outq) \in QMsg /\ outq' = Tail(outq) /\ outq' \in Seq(QMsg)
      <4>1. outq \in Seq(QMsg)
        BY DEF TypeOK
      <4>2. outq' = Tail(outq)
        BY <1>3, <2>2 DEF SendNextMsg
      <4>3. QED BY <2>2, <4>1, <4>2
    <3>2. PICK msgs \in Answers(Head(outq)) : Receive(msgs)
      BY <1>3, <2>2 DEF SendNextMsg, Send
    <3>3. inbox' \in Seq(Message) /\ dropsSent' \in Nat
      BY <3>1, <3>2, AnswersType, ReceiveType
    <3>4. /\ Head(outq).id \in 1..made
          /\ \A j \in DOMAIN outq' : outq'[j].id <= made
      <4>1. outq \in Seq(QMsg)
        BY DEF TypeOK
      <4>2. 1 \in DOMAIN outq /\ Head(outq) = outq[1]
        BY <2>2, <4>1
      <4>3. \A j \in DOMAIN outq' : j + 1 \in DOMAIN outq /\ outq'[j] = outq[j + 1]
        BY <2>2, <3>1, <4>1
      <4>4. Head(outq).id \in Nat \ {0} /\ made \in Nat
        BY <3>1 DEF TypeOK, QMsg, NoRequest
      <4>5. \A j \in DOMAIN outq : outq[j].id <= made
        BY DEF TypeOK
      <4>6. QED BY <4>2, <4>3, <4>4, <4>5
    <3>5. /\ DOMAIN qmsgMap' \subseteq Context
          /\ \A n \in DOMAIN qmsgMap' : qmsgMap'[n] \in 1..made
      BY <1>3, <2>2, <3>1, <3>4, SMTT(30) DEF SendNextMsg, Send, TypeOK, QMsg
    <3>6. QED BY <1>3, <3>1, <3>3, <3>4, <3>5 DEF SendNextMsg, TypeOK, counters
  <2>3. QED BY <2>1, <2>2
<1>4. CASE Notify
  <2>1. PICK kind \in {"DATA", "ENOBUFS"} : Receive(<<Other(kind)>>)
    BY <1>4 DEF Notify
  <2>2. <<Other(kind)>> \in Seq(Message)
    BY NextNumber DEF Other, NSMessage, Message, NoRequest
  <2>3. inbox' \in Seq(Message) /\ dropsSent' \in Nat
    BY <2>1, <2>2, ReceiveType
  <2>4. QED BY <1>4, <2>3 DEF Notify, TypeOK, requestVars, counters
<1>5. CASE ReadNextMessage
  <2> DEFINE m == Head(inbox)
  <2>1. m \in Message /\ inbox' \in Seq(Message)
    BY <1>5 DEF ReadNextMessage, TypeOK
  <2>2. /\ DOMAIN qmsgMap' \subseteq Context
        /\ \A n \in DOMAIN qmsgMap' : qmsgMap'[n] \in 1..made
        /\ answered' \subseteq Nat \ {NoRequest}
    <3>1. m.of \in Nat
      BY <2>1 DEF Message
    <3>2. Lookup(m)
      BY <1>5 DEF ReadNextMessage
    <3> HIDE DEF m
    <3>3. QED BY <3>1, <3>2 DEF Lookup, TypeOK, NoRequest
  <2>3. numErrors' \in Nat /\ numDrops' \in Nat
    BY <1>5 DEF ReadNextMessage, GetAndLogError, TypeOK, counters
  <2>4. seqnum' \in Context /\ outq' \in Seq(QMsg) /\ made' \in Nat /\ handshake' \in 0..2
    BY <1>5, EnqueueType DEF ReadNextMessage, HandleState, TypeOK
  <2>5. Enqueue \/ UNCHANGED <<outq, made>>
    BY <1>5 DEF ReadNextMessage, HandleState
  <2>6. /\ \A j \in DOMAIN outq' : outq'[j].id <= made'
        /\ \A n \in DOMAIN qmsgMap' : qmsgMap'[n] \in 1..made'
    BY <2>2, <2>5, MadeType
  <2>7. QED BY <1>5, <2>1, <2>2, <2>3, <2>4, <2>6 DEF ReadNextMessage, TypeOK
<1>6. CASE Drained
  BY <1>6 DEF Drained, TypeOK, requestVars, counters, history
<1>7. CASE UNCHANGED vars
  BY <1>7 DEF vars, TypeOK, requestVars, counters, history
<1>8. QED BY <1>1, <1>2, <1>3, <1>4, <1>5, <1>6, <1>7 DEF Next

(* _seqnum stays a number of its type and every key of the map one, however *)
(* often it wraps, and queue and map hold requests that were made.          *)
THEOREM RequestsTypeCorrect == Spec => []TypeOK
<1>1. QED BY InitTypeOK, TypeStep, PTL DEF Spec

-----------------------------------------------------------------------------
(* The inductive invariant.  Requests are made in the order of their        *)
(* numbers and a number is in one place at a time: the queue, the map or    *)
(* the answered.  Only while the socket is drained do messages with a       *)
(* context wait, and none is sent meanwhile that could take their entry.    *)
NoneFromTheFuture == \A id \in answered : id <= made

QueuedAreNew ==
    \A j \in DOMAIN outq :
        /\ outq[j].context = outq[j].seqnum
        /\ outq[j].id <= made
        /\ outq[j].id \notin answered
        /\ \A n \in DOMAIN qmsgMap : qmsgMap[n] # outq[j].id
        /\ \A k \in DOMAIN outq : outq[k].id = outq[j].id => k = j

\* A message of a request whose entry is its own, or was taken.
Accounted(m) ==
    /\ m.of <= made
    /\ \A j \in DOMAIN outq : outq[j].id # m.of
    /\ \A n \in DOMAIN qmsgMap : qmsgMap[n] = m.of => n = m.context
    /\ m.context \in DOMAIN qmsgMap => qmsgMap[m.context] = m.of
    /\ m.context \notin DOMAIN qmsgMap /\ m.context # 0 => m.of \in answered

WaitingAreAccounted ==
    \A i \in DOMAIN inbox :
        IF inbox[i].of = NoRequest THEN inbox[i].context = 0
        ELSE pc = "drain" /\ Accounted(inbox[i])

IInv ==
    /\ TypeOK
    /\ NoneFromTheFuture
    /\ QueuedAreNew
    /\ WaitingAreAccounted
    /\ KeptAreUnanswered

\* What the steps do to the queue and to the inbox, element by element.
LEMMA EnqueuedIsNoOther ==
  ASSUME TypeOK, Enqueue \/ UNCHANGED <<outq, made>>,
         NEW id \in Nat, id <= made, \A j \in DOMAIN outq : outq[j].id # id
  PROVE  id <= made' /\ \A j \in DOMAIN outq' : outq'[j].id # id
<1>1. made \in Nat
  BY DEF TypeOK
<1>2. QED BY <1>1, Enqueued

LEMMA EnqueuedAreNew ==
  ASSUME TypeOK, QueuedAreNew, Enqueue \/ UNCHANGED <<outq, made>>,
         \A n \in DOMAIN qmsgMap' : qmsgMap'[n] \in Nat /\ qmsgMap'[n] <= made,
         \A id \in answered' : id \in Nat /\ id <= made,
         \A j \in DOMAIN outq :
             /\ outq[j].id \notin answered'
             /\ \A n \in DOMAIN qmsgMap' : qmsgMap'[n] # outq[j].id
  PROVE  QueuedAreNew'
<1>1. made \in Nat /\ outq \in Seq(QMsg)
  BY DEF TypeOK
<1>2. \A j \in DOMAIN outq : outq[j].id \in Nat /\ outq[j].id <= made
  <2>1. \A j \in DOMAIN outq : outq[j] \in QMsg
    BY <1>1
  <2>2. QED BY <2>1 DEF QMsg, QueuedAreNew
<1> SUFFICES ASSUME NEW j \in DOMAIN outq'
             PROVE  /\ outq'[j].context = outq'[j].seqnum
                    /\ outq'[j].id <= made'
                    /\ outq'[j].id \notin answered'
                    /\ \A n \in DOMAIN qmsgMap' : qmsgMap'[n] # outq'[j].id
                    /\ \A k \in DOMAIN outq' : outq'[k].id = outq'[j].id => k = j
  BY DEF QueuedAreNew
<1>3. CASE j \in DOMAIN outq /\ outq'[j] = outq[j]
  <2>1. \A k \in DOMAIN outq' : outq'[k].id = outq'[j].id => k = j
    BY <1>1, <1>2, <1>3, Enqueued DEF QueuedAreNew
  <2>2. QED BY <1>1, <1>2, <1>3, <2>1, Enqueued DEF QueuedAreNew
<1>4. CASE /\ j = Len(outq) + 1 /\ made' = made + 1
           /\ outq'[j].context = outq'[j].seqnum /\ outq'[j].id = made'
  <2>1. \A k \in DOMAIN outq' : outq'[k].id = outq'[j].id => k = j
    BY <1>1, <1>2, <1>4, Enqueued
  <2>2. QED BY <1>1, <1>4, <2>1
<1>5. QED BY <1>3, <1>4, Enqueued

LEMMA Received ==
  ASSUME TypeOK, NEW msgs \in Seq(Message), Receive(msgs)
  PROVE  \A i \in DOMAIN inbox' :
            \/ i \in DOMAIN inbox /\ inbox'[i] = inbox[i]
            \/ \E k \in DOMAIN msgs : inbox'[i] = msgs[k]
<1>1. inbox \in Seq(Message) /\ inbox' = inbox \o msgs
  BY DEF TypeOK, Receive
<1>2. QED BY <1>1

LEMMA AnswersAreOwn ==
  ASSUME NEW qm \in QMsg, NEW msgs \in Answers(qm), NEW k \in DOMAIN msgs
  PROVE  \/ msgs[k].of = NoRequest /\ msgs[k].context = 0
         \/ msgs[k].of = qm.id /\ msgs[k].context = qm.context
<1> DEFINE M == {Own(kind, qm) : kind \in {"DATA", "SUCCESS", "ERROR", "ENOBUFS", "SHORT"}}
                \cup {Other(kind) : kind \in {"DATA", "ENOBUFS"}}
<1>1. /\ DataFor(qm) \subseteq Seq(M)
      /\ EndsOf(qm) \subseteq Seq(M)
      /\ DropsFor(qm) \subseteq Seq(M)
  <2>1. /\ \A kind \in {"DATA", "SUCCESS", "ERROR", "ENOBUFS", "SHORT"} : Own(kind, qm) \in M
        /\ Other("DATA") \in M /\ Other("ENOBUFS") \in M
    OBVIOUS
  <2> HIDE DEF M
  <2>2. QED BY <2>1 DEF DataFor, EndsOf, DropsFor
<1>2. PICK data \in DataFor(qm), end \in EndsOf(qm), drop \in DropsFor(qm) :
        msgs = data \o end \o drop
  BY DEF Answers
<1>3. msgs \in Seq(M)
  <2> HIDE DEF M
  <2>1. QED BY <1>1, <1>2
<1>4. msgs[k] \in M
  <2> HIDE DEF M
  <2>1. QED BY <1>3
<1>5. QED BY <1>4 DEF Own, Other, NSMessage

LEMMA InitAccounted == Init => IInv
BY InitTypeOK
DEF Init, IInv, NoneFromTheFuture, QueuedAreNew, WaitingAreAccounted, KeptAreUnanswered

(* A request is made: its number is of no earlier one.                      *)
LEMMA MadeStep ==
  ASSUME IInv, TypeOK', Enqueue, UNCHANGED <<qmsgMap, answered, inbox>>,
         pc' = pc \/ pc = "start"
  PROVE  IInv'
<1> USE DEF IInv
<1>1. NoneFromTheFuture'
  BY Enqueued DEF NoneFromTheFuture, TypeOK
<1>2. QueuedAreNew'
  <2>1. /\ \A n \in DOMAIN qmsgMap : qmsgMap[n] \in Nat /\ qmsgMap[n] <= made
        /\ \A id \in answered : id \in Nat /\ id <= made
    BY DEF NoneFromTheFuture, TypeOK
  <2>2. QED BY <2>1, EnqueuedAreNew DEF QueuedAreNew
<1>3. WaitingAreAccounted'
  <2>1. ASSUME NEW i \in DOMAIN inbox, inbox[i].of # NoRequest
        PROVE  Accounted(inbox[i])'
    <3>1. inbox[i] \in Message /\ Accounted(inbox[i])
      BY <2>1 DEF WaitingAreAccounted, TypeOK
    <3>2. inbox[i].of <= made' /\ \A j \in DOMAIN outq' : outq'[j].id # inbox[i].of
      BY <3>1, EnqueuedIsNoOther DEF Accounted, Message
    <3>3. QED BY <3>1, <3>2 DEF Accounted
  <2>2. QED BY <2>1 DEF WaitingAreAccounted
<1>4. QED BY <1>1, <1>2, <1>3 DEF KeptAreUnanswered

LEMMA SendStep ==
  ASSUME IInv, TypeOK', SendNextMsg
  PROVE  IInv'
<1> USE DEF IInv
<1>1. CASE outq = <<>>
  <2>1. UNCHANGED <<outq, qmsgMap, made, answered, inbox>>
    BY <1>1 DEF SendNextMsg
  <2>2. QED BY <2>1 DEF SendNextMsg, NoneFromTheFuture, QueuedAreNew,
                        WaitingAreAccounted, Accounted, KeptAreUnanswered
<1>2. CASE outq # <<>>
  <2> DEFINE qm == Head(outq)
  <2>1. /\ outq \in Seq(QMsg) /\ qm \in QMsg /\ qm = outq[1] /\ 1 \in DOMAIN outq
        /\ outq' = Tail(outq)
        /\ \A j \in DOMAIN outq' : j + 1 \in DOMAIN outq /\ outq'[j] = outq[j + 1] /\ j + 1 # 1
    BY <1>2 DEF SendNextMsg, TypeOK
  <2>2. PICK msgs \in Answers(qm) : Receive(msgs)
    BY <1>2 DEF SendNextMsg, Send
  <2>3. /\ DOMAIN qmsgMap' = DOMAIN qmsgMap \cup {qm.context}
        /\ qmsgMap'[qm.context] = qm.id
        /\ \A n \in DOMAIN qmsgMap : n # qm.context => qmsgMap'[n] = qmsgMap[n]
    BY <1>2, <2>1 DEF SendNextMsg, Send, QueuedAreNew
  <2>4. UNCHANGED <<made, answered>> /\ pc = "send" /\ pc' = "drain"
    BY DEF SendNextMsg
  <2>5. /\ qm.id <= made /\ qm.id \notin answered
        /\ \A n \in DOMAIN qmsgMap : qmsgMap[n] # qm.id
        /\ \A j \in DOMAIN outq' : outq'[j].id # qm.id
    BY <2>1 DEF QueuedAreNew
  <2> HIDE DEF qm
  <2>6. NoneFromTheFuture' /\ KeptAreUnanswered'
    BY <2>3, <2>4, <2>5 DEF NoneFromTheFuture, KeptAreUnanswered
  <2>7. QueuedAreNew'
    <3> SUFFICES ASSUME NEW j \in DOMAIN outq'
                 PROVE  /\ outq'[j].context = outq'[j].seqnum
                        /\ outq'[j].id <= made'
                        /\ outq'[j].id \notin answered'
                        /\ \A n \in DOMAIN qmsgMap' : qmsgMap'[n] # outq'[j].id
                        /\ \A k \in DOMAIN outq' : outq'[k].id = outq'[j].id => k = j
      BY DEF QueuedAreNew
    <3>1. j \in Nat
      BY <2>1
    <3>2. \A k \in DOMAIN outq' : outq'[k].id = outq'[j].id => k = j
      <4> SUFFICES ASSUME NEW k \in DOMAIN outq', outq'[k].id = outq'[j].id
                   PROVE  k = j
        OBVIOUS
      <4>1. k \in Nat
        BY <2>1
      <4>2. k + 1 = j + 1
        BY <2>1 DEF QueuedAreNew
      <4>3. QED BY <3>1, <4>1, <4>2
    <3>3. QED BY <2>1, <2>3, <2>4, <2>5, <3>2 DEF QueuedAreNew
  <2>8. WaitingAreAccounted'
    <3> SUFFICES ASSUME NEW i \in DOMAIN inbox'
                 PROVE  IF inbox'[i].of = NoRequest THEN inbox'[i].context = 0
                        ELSE pc' = "drain" /\ Accounted(inbox[i])'
      BY DEF WaitingAreAccounted
    <3>1. CASE i \in DOMAIN inbox /\ inbox'[i] = inbox[i]
      BY <2>4, <3>1 DEF WaitingAreAccounted
    <3>2. CASE \E k \in DOMAIN msgs : inbox'[i] = msgs[k]
      <4>1. \/ inbox'[i].of = NoRequest /\ inbox'[i].context = 0
            \/ inbox'[i].of = qm.id /\ inbox'[i].context = qm.context
        BY <2>1, <3>2, AnswersAreOwn
      <4>2. CASE inbox'[i].of = qm.id /\ inbox'[i].context = qm.context
        <5>1. \A n \in DOMAIN qmsgMap' : qmsgMap'[n] = qm.id => n = qm.context
          BY <2>3, <2>5
        <5>2. qm.context \in DOMAIN qmsgMap' /\ qmsgMap'[qm.context] = qm.id
          BY <2>3
        <5>3. qm.id # NoRequest
          BY <2>1 DEF QMsg
        <5>4. QED BY <2>4, <2>5, <4>2, <5>1, <5>2, <5>3 DEF Accounted
      <4>3. QED BY <2>1, <4>1, <4>2 DEF QMsg
    <3>3. msgs \in Seq(Message)
      BY <2>1, AnswersType
    <3>4. QED BY <2>2, <3>1, <3>2, <3>3, Received
  <2>9. QED BY <2>6, <2>7, <2>8
<1>3. QED BY <1>1, <1>2

LEMMA NotifyStep ==
  ASSUME IInv, TypeOK', Notify
  PROVE  IInv'
<1> USE DEF IInv
<1>1. PICK kind \in {"DATA", "ENOBUFS"} : Receive(<<Other(kind)>>)
  BY DEF Notify
<1>2. UNCHANGED <<outq, qmsgMap, made, answered, pc>>
  BY DEF Notify, requestVars
<1>3. <<Other(kind)>> \in Seq(Message)
  BY NextNumber DEF Other, NSMessage, Message, NoRequest
<1>4. \A i \in DOMAIN inbox' :
         \/ i \in DOMAIN inbox /\ inbox'[i] = inbox[i]
         \/ inbox'[i].of = NoRequest /\ inbox'[i].context = 0
  <2>1. Other(kind).of = NoRequest /\ Other(kind).context = 0
    BY DEF Other, NSMessage
  <2>2. \A k \in DOMAIN <<Other(kind)>> : <<Other(kind)>>[k] = Other(kind)
    OBVIOUS
  <2>3. QED BY <1>1, <1>3, <2>1, <2>2, Received
<1>5. WaitingAreAccounted'
  BY <1>2, <1>4 DEF WaitingAreAccounted, Accounted
<1>6. QED BY <1>2, <1>5 DEF NoneFromTheFuture, QueuedAreNew, KeptAreUnanswered

LEMMA ReadStep ==
  ASSUME IInv, TypeOK', ReadNextMessage
  PROVE  IInv'
<1> USE DEF IInv
<1> DEFINE m == Head(inbox)
<1>1. /\ inbox \in Seq(Message) /\ m \in Message /\ m = inbox[1] /\ 1 \in DOMAIN inbox
      /\ \A i \in DOMAIN inbox' : i + 1 \in DOMAIN inbox /\ inbox'[i] = inbox[i + 1]
  BY DEF ReadNextMessage, TypeOK
<1>2. /\ m.of = NoRequest => m.context = 0
      /\ m.of # NoRequest => Accounted(m)
  BY <1>1 DEF WaitingAreAccounted
<1>3. /\ DOMAIN qmsgMap' = DOMAIN qmsgMap \ {m.context}
      /\ \A n \in DOMAIN qmsgMap' : qmsgMap'[n] = qmsgMap[n]
      /\ answered' = IF m.of = NoRequest THEN answered ELSE answered \cup {m.of}
  BY DEF ReadNextMessage, Lookup
<1>4. Enqueue \/ UNCHANGED <<outq, made>>
  BY DEF ReadNextMessage, HandleState
<1>5. pc = "drain" /\ pc' = "drain" /\ made \in Nat
  BY DEF ReadNextMessage, TypeOK
<1> HIDE DEF m
<1>6. NoneFromTheFuture'
  BY <1>2, <1>3, <1>4, <1>5, Enqueued DEF NoneFromTheFuture, Accounted, TypeOK
<1>7. QueuedAreNew'
  <2>1. \A n \in DOMAIN qmsgMap' : qmsgMap'[n] \in Nat /\ qmsgMap'[n] <= made
    BY <1>3 DEF NoneFromTheFuture, TypeOK
  <2>2. \A id \in answered' : id \in Nat /\ id <= made
    BY <1>1, <1>2, <1>3 DEF NoneFromTheFuture, Accounted, TypeOK, Message
  <2>3. \A j \in DOMAIN outq :
           /\ outq[j].id \notin answered'
           /\ \A n \in DOMAIN qmsgMap' : qmsgMap'[n] # outq[j].id
    BY <1>2, <1>3 DEF QueuedAreNew, Accounted
  <2>4. QED BY <1>4, <2>1, <2>2, <2>3, EnqueuedAreNew
<1>8. KeptAreUnanswered'
  BY <1>2, <1>3 DEF KeptAreUnanswered, Accounted
<1>9. WaitingAreAccounted'
  <2> SUFFICES ASSUME NEW i \in DOMAIN inbox', inbox'[i].of # NoRequest
               PROVE  Accounted(inbox[i])'
    BY <1>1, <1>5 DEF WaitingAreAccounted
  <2> DEFINE w == inbox'[i]
  <2>1. w \in Message /\ Accounted(w)
    BY <1>1 DEF WaitingAreAccounted
  <2>2. w.of <= made' /\ \A j \in DOMAIN outq' : outq'[j].id # w.of
    BY <1>4, <2>1, EnqueuedIsNoOther DEF Accounted, Message
  <2>3. w.context \notin DOMAIN qmsgMap' /\ w.context # 0 => w.of \in answered'
    BY <1>2, <1>3, <2>1 DEF Accounted
  <2>4. QED BY <1>3, <2>1, <2>2, <2>3 DEF Accounted
<1>10. QED BY <1>6, <1>7, <1>8, <1>9

LEMMA AccountedIsInvariant == Spec => []IInv
<1>1. ASSUME IInv, [Next]_vars PROVE IInv'
  <2> USE <1>1
  <2>1. TypeOK'
    BY TypeStep DEF IInv
  <2>2. CASE StartRun
    BY <2>1, <2>2, MadeStep DEF StartRun
  <2>3. CASE AskForMore
    BY <2>1, <2>3, MadeStep DEF AskForMore
  <2>4. CASE SendNextMsg
    BY <2>1, <2>4, SendStep
  <2>5. CASE Notify
    BY <2>1, <2>5, NotifyStep
  <2>6. CASE ReadNextMessage
    BY <2>1, <2>6, ReadStep
  <2>7. CASE Drained
    BY <2>1, <2>7 DEF Drained, requestVars, history, IInv, NoneFromTheFuture, QueuedAreNew,
                      WaitingAreAccounted, Accounted, KeptAreUnanswered
  <2>8. CASE UNCHANGED vars
    BY <2>1, <2>8 DEF vars, requestVars, history, IInv, NoneFromTheFuture, QueuedAreNew,
                      WaitingAreAccounted, Accounted, KeptAreUnanswered
  <2>9. QED BY <2>2, <2>3, <2>4, <2>5, <2>6, <2>7, <2>8 DEF Next
<1>2. QED BY <1>1, InitAccounted, PTL DEF Spec

(* No answer is ever taken for the answer to another request, whatever the  *)
(* width of the number and however often it has wrapped.                    *)
THEOREM AnswersAreMatched == Spec => []AnswersFindTheirRequest
<1>1. IInv => AnswersFindTheirRequest
  BY DEF IInv, WaitingAreAccounted, Accounted, AnswersFindTheirRequest, Found
<1>2. QED BY <1>1, AccountedIsInvariant, PTL

(* The map keeps no request that was answered: what it holds in the end are *)
(* the requests the kernel said nothing to.                                 *)
THEOREM OnlyUnansweredAreKept == Spec => []KeptAreUnanswered
<1>1. IInv => KeptAreUnanswered
  BY DEF IInv
<1>2. QED BY <1>1, AccountedIsInvariant, PTL

-----------------------------------------------------------------------------
\* Drops in a queue are those in its parts.
LEMMA DropsInParts ==
  ASSUME NEW s \in Seq(Message), NEW t \in Seq(Message)
  PROVE  DropsIn(s \o t) = DropsIn(s) + DropsIn(t)
<1> DEFINE drop(q) == {i \in DOMAIN q : q[i].kind = "ENOBUFS"}
           moved == {i \in DOMAIN (s \o t) : (s \o t)[i].kind = "ENOBUFS" /\ i > Len(s)}
<1>1. /\ Len(s) \in Nat /\ Len(t) \in Nat
      /\ DOMAIN s = 1..Len(s) /\ DOMAIN t = 1..Len(t)
      /\ DOMAIN (s \o t) = 1..(Len(s) + Len(t))
      /\ \A i \in 1..Len(s) : (s \o t)[i] = s[i]
      /\ \A i \in 1..Len(t) : (s \o t)[Len(s) + i] = t[i]
  OBVIOUS
<1>2. IsFiniteSet(drop(s)) /\ IsFiniteSet(drop(t)) /\ IsFiniteSet(moved)
  <2>1. IsFiniteSet(1..Len(s)) /\ IsFiniteSet(1..Len(t)) /\ IsFiniteSet(1..(Len(s) + Len(t)))
    BY <1>1, FS_Interval
  <2>2. /\ drop(s) \subseteq 1..Len(s) /\ drop(t) \subseteq 1..Len(t)
        /\ moved \subseteq 1..(Len(s) + Len(t))
    BY <1>1
  <2> HIDE DEF drop, moved
  <2>3. QED BY <2>1, <2>2, FS_Subset
<1>3. drop(s \o t) = drop(s) \cup moved /\ drop(s) \cap moved = {}
  BY <1>1
<1>4. Cardinality(moved) = Cardinality(drop(t))
  <2> DEFINE f == [i \in drop(t) |-> Len(s) + i]
  <2>1. f \in [drop(t) -> moved]
    BY <1>1
  <2>2. \A i, j \in drop(t) : f[i] = f[j] => i = j
    BY <1>1
  <2>3. \A i \in moved : \E j \in drop(t) : f[j] = i
    <3> SUFFICES ASSUME NEW i \in moved PROVE \E j \in drop(t) : f[j] = i
      OBVIOUS
    <3>1. i - Len(s) \in drop(t) /\ Len(s) + (i - Len(s)) = i
      <4>1. i \in 1..(Len(s) + Len(t)) /\ i > Len(s) /\ (s \o t)[i].kind = "ENOBUFS"
        BY <1>1
      <4>2. i - Len(s) \in 1..Len(t) /\ Len(s) + (i - Len(s)) = i
        BY <1>1, <4>1
      <4>3. t[i - Len(s)] = (s \o t)[i]
        BY <1>1, <4>2
      <4>4. QED BY <1>1, <4>1, <4>2, <4>3
    <3>2. QED BY <3>1
  <2> HIDE DEF f, drop, moved
  <2>4. f \in Bijection(drop(t), moved)
    BY <2>1, <2>2, <2>3, Fun_IsBij
  <2>5. QED BY <1>2, <2>4, FS_Bijection DEF ExistsBijection
<1> HIDE DEF drop, moved
<1>5. Cardinality(drop(s \o t)) = Cardinality(drop(s)) + Cardinality(moved) - Cardinality({})
  BY <1>2, <1>3, FS_Union
<1>6. /\ Cardinality({}) = 0
      /\ Cardinality(drop(s)) \in Nat /\ Cardinality(drop(t)) \in Nat
  BY <1>2, FS_EmptySet, FS_CardinalityType
<1>7. /\ DropsIn(s) = Cardinality(drop(s)) /\ DropsIn(t) = Cardinality(drop(t))
      /\ DropsIn(s \o t) = Cardinality(drop(s \o t))
  BY DEF DropsIn, drop
<1>8. QED BY <1>4, <1>5, <1>6, <1>7

LEMMA DropsOfOne ==
  ASSUME NEW m \in Message
  PROVE  DropsIn(<<m>>) = IF m.kind = "ENOBUFS" THEN 1 ELSE 0
<1>1. {i \in DOMAIN <<m>> : <<m>>[i].kind = "ENOBUFS"} =
         IF m.kind = "ENOBUFS" THEN {1} ELSE {}
  OBVIOUS
<1>2. QED BY <1>1, FS_Singleton, FS_EmptySet DEF DropsIn

LEMMA DropsReceived ==
  ASSUME TypeOK, DropsAreCounted, NEW msgs \in Seq(Message), Receive(msgs),
         UNCHANGED counters
  PROVE  DropsAreCounted'
<1>1. DropsIn(inbox') = DropsIn(inbox) + DropsIn(msgs)
  BY DropsInParts DEF TypeOK, Receive
<1>2. DropsIn(inbox) \in Nat /\ DropsIn(msgs) \in Nat
  BY DropsType DEF TypeOK
<1>3. dropsSent' = dropsSent + DropsIn(msgs) /\ UNCHANGED <<numDrops, numErrors>>
  BY DEF Receive, counters
<1>4. QED BY <1>1, <1>2, <1>3 DEF DropsAreCounted, TypeOK

LEMMA DropsStep == TypeOK /\ DropsAreCounted /\ [Next]_vars => DropsAreCounted'
<1> SUFFICES ASSUME TypeOK, DropsAreCounted, [Next]_vars PROVE DropsAreCounted'
  OBVIOUS
<1>1. CASE SendNextMsg
  <2>1. CASE outq = <<>>
    BY <1>1, <2>1 DEF SendNextMsg, DropsAreCounted, counters
  <2>2. CASE outq # <<>>
    <3>1. Head(outq) \in QMsg
      BY <2>2 DEF TypeOK
    <3>2. PICK msgs \in Answers(Head(outq)) : Receive(msgs)
      BY <1>1, <2>2 DEF SendNextMsg, Send
    <3>3. msgs \in Seq(Message)
      BY <3>1, AnswersType
    <3>4. QED BY <1>1, <3>2, <3>3, DropsReceived DEF SendNextMsg
  <2>3. QED BY <2>1, <2>2
<1>2. CASE Notify
  <2>1. PICK kind \in {"DATA", "ENOBUFS"} : Receive(<<Other(kind)>>)
    BY <1>2 DEF Notify
  <2>2. <<Other(kind)>> \in Seq(Message)
    BY NextNumber DEF Other, NSMessage, Message, NoRequest
  <2>3. QED BY <1>2, <2>1, <2>2, DropsReceived DEF Notify
<1>3. CASE ReadNextMessage
  <2> DEFINE m == Head(inbox)
  <2>1. m \in Message /\ inbox' \in Seq(Message) /\ inbox = <<m>> \o inbox'
    BY <1>3 DEF ReadNextMessage, TypeOK
  <2>2. GetAndLogError(m) /\ dropsSent' = dropsSent
    BY <1>3 DEF ReadNextMessage
  <2> HIDE DEF m
  <2>3. <<m>> \in Seq(Message)
    BY <2>1
  <2>4. DropsIn(inbox) = DropsIn(<<m>>) + DropsIn(inbox')
    BY <2>1, <2>3, DropsInParts
  <2>5. DropsIn(inbox') \in Nat
    BY <2>1, DropsType
  <2>6. numDrops' = numDrops + DropsIn(<<m>>) /\ numErrors' >= numErrors + DropsIn(<<m>>)
    BY <2>1, <2>2, DropsOfOne DEF GetAndLogError, IsError, counters, TypeOK
  <2>7. DropsIn(<<m>>) \in Nat
    BY <2>3, DropsType
  <2>8. numDrops \in Nat /\ numErrors \in Nat /\ numErrors' \in Nat /\ dropsSent \in Nat
    BY <2>2 DEF TypeOK, GetAndLogError, counters
  <2>9. QED BY <2>2, <2>4, <2>5, <2>6, <2>7, <2>8 DEF DropsAreCounted
<1>4. CASE StartRun \/ AskForMore
  BY <1>4 DEF StartRun, AskForMore, DropsAreCounted, counters
<1>5. CASE Drained
  BY <1>5 DEF Drained, DropsAreCounted, counters, history
<1>6. CASE UNCHANGED vars
  BY <1>6 DEF vars, DropsAreCounted, counters, history
<1>7. QED BY <1>1, <1>2, <1>3, <1>4, <1>5, <1>6 DEF Next

(* numDrops() is the number of ENOBUFS the kernel has sent, less those the  *)
(* socket still holds.                                                      *)
THEOREM EveryDropIsCounted == Spec => []DropsAreCounted
<1>1. Init => DropsAreCounted
  <2> SUFFICES ASSUME Init PROVE DropsAreCounted
    OBVIOUS
  <2>1. {i \in DOMAIN inbox : inbox[i].kind = "ENOBUFS"} = {}
    BY DEF Init
  <2>2. DropsIn(inbox) = 0
    BY <2>1, FS_EmptySet DEF DropsIn
  <2>3. QED BY <2>2 DEF Init, DropsAreCounted
<1>2. QED BY <1>1, DropsStep, RequestsTypeCorrect, PTL DEF Spec
=============================================================================
