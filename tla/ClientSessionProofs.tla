------------------------ MODULE ClientSessionProofs ------------------------
(***************************************************************************)
(* One session of a client with a kernel that drops nothing: the table     *)
(* follows the kernel, every source is described, and no count asked for   *)
(* is forgotten.  For any references, ports, subscriptions that may be     *)
(* refused, and settings of the client.                                    *)
(***************************************************************************)
EXTENDS ClientProofs, SequenceTheorems

Is(m, type, r) == m.type = type /\ m.ref = r

Tells(msgs, type, r) == \E i \in DOMAIN msgs : Is(msgs[i], type, r)

\* The last report of r that waits is that it was added.
AddedLast(r) ==
    \E i \in DOMAIN inbox :
        /\ Is(inbox[i], "SRC_ADDED", r)
        /\ \A j \in DOMAIN inbox : j > i => ~Is(inbox[j], "SRC_REMOVED", r)

\* Whether r will be in the table once the socket is drained.
Believed(r) == AddedLast(r) \/ (InTable(r) /\ ~Waiting("SRC_REMOVED", r))

Described(r) == InTable(r) => heap[map[r]].haveDesc

\* No source is reported removed but right after its description.
RemovedWithDesc(r) ==
    \A i \in DOMAIN inbox :
        Is(inbox[i], "SRC_REMOVED", r) =>
            IF i = 1 THEN Described(r) ELSE Is(inbox[i - 1], "SRC_DESC", r)

Remembered(r) ==
    ~Described(r) => mapWaitingForDesc[r] = map[r] \/ Waiting("SRC_DESC", r)

(* The inductive invariant, of one source.  The table agrees with the       *)
(* kernel once what waits is read: Believed is what makes that inductive.   *)
(* A request that finds its source closed is answered by an error; then     *)
(* Believed tells that SRC_REMOVED waits, and RemovedWithDesc that the      *)
(* description does too.                                                    *)
Session(r) ==
    /\ Believed(r) <=> Open(r) /\ Reported(r)
    /\ RemovedWithDesc(r)
    /\ Remembered(r)

-----------------------------------------------------------------------------
\* Messages arrive at the end of the queue, and all of them do.
LEMMA Arrives ==
  ASSUME ~Lossy, NEW msgs
  PROVE  /\ Deliver(msgs) => inbox' = inbox \o msgs
         /\ Answer(msgs) => inbox' = inbox \o msgs
BY DEF Deliver, Answer, Arriving

LEMMA Elements ==
  ASSUME inbox \in Seq(KernelMessage), NEW msgs \in Seq(KernelMessage),
         inbox' = inbox \o msgs
  PROVE  /\ Len(inbox) \in Nat /\ DOMAIN inbox = 1..Len(inbox)
         /\ Len(msgs) \in Nat /\ DOMAIN msgs = 1..Len(msgs)
         /\ DOMAIN inbox' = 1..(Len(inbox) + Len(msgs))
         /\ \A i \in 1..Len(inbox) : inbox'[i] = inbox[i]
         /\ \A i \in 1..Len(msgs) : inbox'[Len(inbox) + i] = msgs[i]
         /\ \A i \in DOMAIN inbox' :
               i \in 1..Len(inbox) \/ (i > Len(inbox) /\ i - Len(inbox) \in 1..Len(msgs)
                                       /\ inbox'[i] = msgs[i - Len(inbox)])
<1>1. /\ Len(inbox) \in Nat /\ DOMAIN inbox = 1..Len(inbox)
      /\ Len(msgs) \in Nat /\ DOMAIN msgs = 1..Len(msgs)
      /\ DOMAIN inbox' = 1..(Len(inbox) + Len(msgs))
      /\ \A i \in 1..Len(inbox) : inbox'[i] = inbox[i]
      /\ \A i \in 1..Len(msgs) : inbox'[Len(inbox) + i] = msgs[i]
  OBVIOUS
<1>2. ASSUME NEW i \in DOMAIN inbox', ~(i \in 1..Len(inbox))
      PROVE  i > Len(inbox) /\ i - Len(inbox) \in 1..Len(msgs)
             /\ inbox'[i] = msgs[i - Len(inbox)]
  <2>1. i \in Nat /\ i > Len(inbox) /\ i - Len(inbox) \in 1..Len(msgs)
        /\ Len(inbox) + (i - Len(inbox)) = i
    BY <1>1, <1>2
  <2>2. QED BY <1>1, <2>1
<1>3. QED BY <1>1, <1>2

LEMMA ArrivedAdded ==
  ASSUME inbox \in Seq(KernelMessage), NEW msgs \in Seq(KernelMessage), NEW r,
         inbox' = inbox \o msgs, ~Tells(msgs, "SRC_REMOVED", r)
  PROVE  /\ AddedLast(r)' <=> (AddedLast(r) \/ Tells(msgs, "SRC_ADDED", r))
         /\ Waiting("SRC_REMOVED", r)' <=> Waiting("SRC_REMOVED", r)
         /\ Waiting("SRC_DESC", r) \/ Tells(msgs, "SRC_DESC", r) => Waiting("SRC_DESC", r)'
<1> USE Elements DEF Tells
<1>1. Waiting("SRC_REMOVED", r)' <=> Waiting("SRC_REMOVED", r)
  <2>1. ASSUME NEW i \in DOMAIN inbox, Is(inbox[i], "SRC_REMOVED", r)
        PROVE  i \in DOMAIN inbox' /\ Is(inbox'[i], "SRC_REMOVED", r)
    BY <2>1
  <2>2. ASSUME NEW i \in DOMAIN inbox', Is(inbox'[i], "SRC_REMOVED", r)
        PROVE  i \in DOMAIN inbox /\ Is(inbox[i], "SRC_REMOVED", r)
    BY <2>2
  <2>3. QED BY <2>1, <2>2 DEF Waiting, Is
<1>2. Waiting("SRC_DESC", r) \/ Tells(msgs, "SRC_DESC", r) => Waiting("SRC_DESC", r)'
  <2>1. CASE Waiting("SRC_DESC", r)
    BY <2>1, SMTT(30) DEF Waiting
  <2>2. CASE Tells(msgs, "SRC_DESC", r)
    <3>1. PICK k \in 1..Len(msgs) : Is(msgs[k], "SRC_DESC", r)
      BY <2>2
    <3>2. Len(inbox) + k \in DOMAIN inbox' /\ inbox'[Len(inbox) + k] = msgs[k]
      BY <3>1
    <3>3. QED BY <3>1, <3>2 DEF Waiting, Is
  <2>3. QED BY <2>1, <2>2
<1>3. ASSUME AddedLast(r) PROVE AddedLast(r)'
  <2>1. PICK i \in 1..Len(inbox) :
          /\ Is(inbox[i], "SRC_ADDED", r)
          /\ \A j \in DOMAIN inbox : j > i => ~Is(inbox[j], "SRC_REMOVED", r)
    BY <1>3 DEF AddedLast
  <2>2. i \in DOMAIN inbox' /\ inbox'[i] = inbox[i]
    BY <2>1
  <2>3. \A j \in DOMAIN inbox' : j > i => ~Is(inbox'[j], "SRC_REMOVED", r)
    BY <2>1
  <2>4. QED BY <2>1, <2>2, <2>3 DEF AddedLast
<1>4. ASSUME Tells(msgs, "SRC_ADDED", r) PROVE AddedLast(r)'
  <2>1. PICK k \in 1..Len(msgs) : Is(msgs[k], "SRC_ADDED", r)
    BY <1>4
  <2>2. Len(inbox) + k \in DOMAIN inbox' /\ inbox'[Len(inbox) + k] = msgs[k]
    BY <2>1
  <2>3. \A j \in DOMAIN inbox' : j > Len(inbox) + k => ~Is(inbox'[j], "SRC_REMOVED", r)
    BY <2>1
  <2>4. QED BY <2>1, <2>2, <2>3 DEF AddedLast
<1>5. ASSUME AddedLast(r)', ~Tells(msgs, "SRC_ADDED", r) PROVE AddedLast(r)
  <2>1. PICK i \in DOMAIN inbox' :
          /\ Is(inbox'[i], "SRC_ADDED", r)
          /\ \A j \in DOMAIN inbox' : j > i => ~Is(inbox'[j], "SRC_REMOVED", r)
    BY <1>5 DEF AddedLast
  <2>2. i \in 1..Len(inbox)
    BY <1>5, <2>1
  <2>3. Is(inbox[i], "SRC_ADDED", r)
    BY <2>1, <2>2
  <2>4. \A j \in DOMAIN inbox : j \in DOMAIN inbox' /\ inbox'[j] = inbox[j]
    OBVIOUS
  <2>5. \A j \in DOMAIN inbox : j > i => ~Is(inbox[j], "SRC_REMOVED", r)
    BY <2>1, <2>4
  <2>6. QED BY <2>2, <2>3, <2>5 DEF AddedLast
<1>6. QED BY <1>1, <1>2, <1>3, <1>4, <1>5

(* Messages arrive that do not take r away.                                 *)
LEMMA SessionArriving ==
  ASSUME NEW r, Session(r),
         inbox \in Seq(KernelMessage), NEW msgs \in Seq(KernelMessage),
         inbox' = inbox \o msgs, ~Tells(msgs, "SRC_REMOVED", r),
         InTable(r)' <=> InTable(r), Described(r)' <=> Described(r),
         \/ ~Tells(msgs, "SRC_ADDED", r)
            /\ (Open(r)' /\ Reported(r)' <=> Open(r) /\ Reported(r))
         \/ Tells(msgs, "SRC_ADDED", r) /\ Open(r)' /\ Reported(r)',
         ~Described(r) /\ mapWaitingForDesc[r] = map[r] =>
             mapWaitingForDesc'[r] = map'[r] \/ Tells(msgs, "SRC_DESC", r)
                                             \/ Waiting("SRC_DESC", r)
  PROVE  Session(r)'
<1>1. (Believed(r) <=> Open(r) /\ Reported(r))'
  <2>1. Tells(msgs, "SRC_ADDED", r) => Believed(r)'
    BY ArrivedAdded DEF Believed
  <2>2. ~Tells(msgs, "SRC_ADDED", r) => (Believed(r)' <=> Believed(r))
    BY ArrivedAdded DEF Believed
  <2>3. QED BY <2>1, <2>2 DEF Session
<1>2. RemovedWithDesc(r)'
  <2> SUFFICES ASSUME NEW i \in DOMAIN inbox', Is(inbox'[i], "SRC_REMOVED", r)
               PROVE  IF i = 1 THEN Described(r)' ELSE Is(inbox'[i - 1], "SRC_DESC", r)
    BY DEF RemovedWithDesc
  <2>1. i \in DOMAIN inbox /\ inbox'[i] = inbox[i] /\ i \in 1..Len(inbox)
    BY Elements DEF Tells
  <2>2. CASE i = 1
    BY <2>1, <2>2 DEF Session, RemovedWithDesc
  <2>3. CASE i # 1
    <3>1. i - 1 \in 1..Len(inbox) /\ Len(inbox) \in Nat
      BY <2>1, <2>3, Elements
    <3>2. inbox'[i - 1] = inbox[i - 1]
      BY <3>1, Elements
    <3>3. QED BY <2>1, <2>3, <3>2 DEF Session, RemovedWithDesc
  <2>4. QED BY <2>2, <2>3
<1>3. Remembered(r)'
  BY ArrivedAdded DEF Session, Remembered
<1>4. QED BY <1>1, <1>2, <1>3 DEF Session

LEMMA Between ==
  \A l, n \in Nat : \A i \in 1..(n + 2) :
      i \notin 1..l /\ i # n + 1 /\ i # n + 2 => i \in Nat /\ i > l /\ i <= n
OBVIOUS

(* r is taken away: its description and its removal arrive together.        *)
LEMMA SessionClosing ==
  ASSUME NEW r, Session(r),
         inbox \in Seq(KernelMessage), NEW first \in Seq(KernelMessage),
         NEW d \in KernelMessage, NEW m \in KernelMessage,
         Is(d, "SRC_DESC", r), Is(m, "SRC_REMOVED", r),
         ~Tells(first, "SRC_REMOVED", r), inbox' = (inbox \o first) \o <<d, m>>,
         InTable(r)' <=> InTable(r), Described(r)' <=> Described(r), ~Open(r)',
         ~Described(r) /\ mapWaitingForDesc[r] = map[r] => mapWaitingForDesc'[r] = map'[r]
  PROVE  Session(r)'
<1> DEFINE n == Len(inbox) + Len(first)
<1>1. /\ Len(inbox) \in Nat /\ DOMAIN inbox = 1..Len(inbox)
      /\ n \in Nat /\ n = Len(inbox) + Len(first) /\ Len(first) \in Nat
      /\ DOMAIN inbox' = 1..(n + 2)
      /\ inbox'[n + 1] = d /\ inbox'[n + 2] = m
      /\ \A i \in 1..Len(inbox) : inbox'[i] = inbox[i] /\ i \in DOMAIN inbox'
      /\ n + 1 \in DOMAIN inbox' /\ n + 2 \in DOMAIN inbox'
  OBVIOUS
<1> HIDE DEF n
<1>2. \A i \in DOMAIN inbox' : Is(inbox'[i], "SRC_REMOVED", r) => i \in 1..Len(inbox) \/ i = n + 2
  <2> SUFFICES ASSUME NEW i \in DOMAIN inbox', i \notin 1..Len(inbox), i # n + 2,
                      Is(inbox'[i], "SRC_REMOVED", r)
               PROVE  FALSE
    OBVIOUS
  <2>1. i # n + 1
    BY <1>1 DEF Is
  <2>2. i \in Nat /\ i > Len(inbox) /\ i <= n
    <3>1. i \in 1..(n + 2)
      BY <1>1
    <3>2. n \in Nat /\ Len(inbox) \in Nat
      BY <1>1
    <3>3. QED BY <2>1, <3>1, <3>2, Between, Zenon
  <2>3. i - Len(inbox) \in DOMAIN first /\ inbox'[i] = first[i - Len(inbox)]
    <3>1. /\ i - Len(inbox) \in 1..Len(first) /\ DOMAIN first = 1..Len(first)
          /\ i \in 1..Len(inbox \o first) /\ Len(inbox) + (i - Len(inbox)) = i
      BY <1>1, <2>2
    <3>2. inbox'[i] = (inbox \o first)[i]
      BY <3>1
    <3>3. (inbox \o first)[Len(inbox) + (i - Len(inbox))] = first[i - Len(inbox)]
      BY <3>1
    <3>4. QED BY <3>1, <3>2, <3>3
  <2>4. QED BY <2>3 DEF Tells
<1>3. (Believed(r) <=> Open(r) /\ Reported(r))'
  <2>1. Waiting("SRC_REMOVED", r)'
    BY <1>1 DEF Waiting, Is
  <2>2. ~AddedLast(r)'
    <3> SUFFICES ASSUME NEW i \in DOMAIN inbox', Is(inbox'[i], "SRC_ADDED", r)
                 PROVE  \E j \in DOMAIN inbox' : j > i /\ Is(inbox'[j], "SRC_REMOVED", r)
      BY DEF AddedLast
    <3>1. i # n + 2 /\ i \in Nat
      BY <1>1 DEF Is
    <3>2. n + 2 > i
      BY <1>1, <3>1
    <3>3. QED BY <1>1, <3>2
  <2>3. QED BY <2>1, <2>2 DEF Believed
<1>4. RemovedWithDesc(r)'
  <2> SUFFICES ASSUME NEW i \in DOMAIN inbox', Is(inbox'[i], "SRC_REMOVED", r)
               PROVE  IF i = 1 THEN Described(r)' ELSE Is(inbox'[i - 1], "SRC_DESC", r)
    BY DEF RemovedWithDesc
  <2>1. CASE i = n + 2
    <3>1. i # 1 /\ i - 1 = n + 1
      BY <1>1, <2>1
    <3>2. QED BY <1>1, <3>1
  <2>2. CASE i \in 1..Len(inbox) /\ i = 1
    BY <1>1, <2>2 DEF Session, RemovedWithDesc
  <2>3. CASE i \in 1..Len(inbox) /\ i # 1
    <3>1. i - 1 \in 1..Len(inbox)
      BY <1>1, <2>3
    <3>2. inbox'[i - 1] = inbox[i - 1] /\ inbox'[i] = inbox[i] /\ i \in DOMAIN inbox
      BY <1>1, <2>3, <3>1
    <3>3. QED BY <2>3, <3>2 DEF Session, RemovedWithDesc
  <2>4. QED BY <1>2, <2>1, <2>2, <2>3
<1>5. Remembered(r)'
  <2>1. Waiting("SRC_DESC", r)'
    BY <1>1 DEF Waiting, Is
  <2>2. QED BY <2>1 DEF Remembered
<1>6. QED BY <1>3, <1>4, <1>5 DEF Session

(* The oldest message is read.                                              *)
LEMMA Reading ==
  ASSUME inbox \in Seq(KernelMessage), inbox # <<>>, inbox' = Tail(inbox), NEW r
  PROVE  /\ Waiting("SRC_DESC", r) => Waiting("SRC_DESC", r)' \/ Is(Head(inbox), "SRC_DESC", r)
         /\ Waiting("SRC_REMOVED", r) <=>
               \/ Waiting("SRC_REMOVED", r)'
               \/ Is(Head(inbox), "SRC_REMOVED", r)
         /\ AddedLast(r) <=>
               \/ AddedLast(r)'
               \/ Is(Head(inbox), "SRC_ADDED", r) /\ ~Waiting("SRC_REMOVED", r)'
<1>1. /\ Len(inbox) \in Nat /\ DOMAIN inbox = 1..Len(inbox) /\ Len(inbox) >= 1
      /\ Head(inbox) = inbox[1] /\ DOMAIN inbox' = 1..(Len(inbox) - 1)
      /\ \A i \in 1..(Len(inbox) - 1) : inbox'[i] = inbox[i + 1]
  OBVIOUS
<1>2. \A i \in DOMAIN inbox' : i + 1 \in DOMAIN inbox /\ inbox[i + 1] = inbox'[i] /\ i + 1 > 1
  BY <1>1
<1>3. \A i \in DOMAIN inbox : i # 1 => i - 1 \in DOMAIN inbox' /\ inbox'[i - 1] = inbox[i]
  <2> SUFFICES ASSUME NEW i \in DOMAIN inbox, i # 1
               PROVE  i - 1 \in DOMAIN inbox' /\ inbox'[i - 1] = inbox[i]
    OBVIOUS
  <2>1. i - 1 \in 1..(Len(inbox) - 1) /\ (i - 1) + 1 = i
    BY <1>1
  <2>2. QED BY <1>1, <2>1
<1>4. ASSUME NEW type, Waiting(type, r)
      PROVE  Waiting(type, r)' \/ Is(Head(inbox), type, r)
  BY <1>1, <1>3, <1>4 DEF Waiting, Is
<1>5. Waiting("SRC_REMOVED", r)' \/ Is(Head(inbox), "SRC_REMOVED", r) => Waiting("SRC_REMOVED", r)
  <2>1. 1 \in DOMAIN inbox
    BY <1>1
  <2>2. QED BY <1>1, <1>2, <2>1 DEF Waiting, Is
<1>6. ASSUME AddedLast(r)
      PROVE  \/ AddedLast(r)'
             \/ Is(Head(inbox), "SRC_ADDED", r) /\ ~Waiting("SRC_REMOVED", r)'
  <2>1. PICK i \in DOMAIN inbox :
          /\ Is(inbox[i], "SRC_ADDED", r)
          /\ \A j \in DOMAIN inbox : j > i => ~Is(inbox[j], "SRC_REMOVED", r)
    BY <1>6 DEF AddedLast
  <2>2. CASE i = 1
    <3>1. \A j \in DOMAIN inbox' : ~Is(inbox'[j], "SRC_REMOVED", r)
      BY <1>2, <2>1, <2>2
    <3>2. QED BY <1>1, <2>1, <2>2, <3>1 DEF Waiting, Is
  <2>3. CASE i # 1
    <3>1. i - 1 \in DOMAIN inbox' /\ Is(inbox'[i - 1], "SRC_ADDED", r)
      BY <1>3, <2>1, <2>3
    <3>2. ASSUME NEW j \in DOMAIN inbox', j > i - 1 PROVE ~Is(inbox'[j], "SRC_REMOVED", r)
      <4>1. j + 1 > i
        BY <1>1, <3>2
      <4>2. QED BY <1>2, <2>1, <4>1
    <3>3. QED BY <3>1, <3>2 DEF AddedLast
  <2>4. QED BY <2>2, <2>3
<1>7. ASSUME AddedLast(r)' PROVE AddedLast(r)
  <2>1. PICK i \in DOMAIN inbox' :
          /\ Is(inbox'[i], "SRC_ADDED", r)
          /\ \A j \in DOMAIN inbox' : j > i => ~Is(inbox'[j], "SRC_REMOVED", r)
    BY <1>7 DEF AddedLast
  <2>2. i + 1 \in DOMAIN inbox /\ Is(inbox[i + 1], "SRC_ADDED", r)
    BY <1>2, <2>1
  <2>3. ASSUME NEW j \in DOMAIN inbox, j > i + 1 PROVE ~Is(inbox[j], "SRC_REMOVED", r)
    <3>1. j # 1 /\ j - 1 > i
      BY <1>1, <2>3
    <3>2. QED BY <1>3, <2>1, <3>1
  <2>4. QED BY <2>2, <2>3 DEF AddedLast
<1>8. ASSUME Is(Head(inbox), "SRC_ADDED", r), ~Waiting("SRC_REMOVED", r)' PROVE AddedLast(r)
  <2>1. 1 \in DOMAIN inbox /\ Is(inbox[1], "SRC_ADDED", r)
    BY <1>1, <1>8
  <2>2. ASSUME NEW j \in DOMAIN inbox, j > 1 PROVE ~Is(inbox[j], "SRC_REMOVED", r)
    BY <1>1, <1>3, <1>8, <2>2 DEF Waiting, Is
  <2>3. QED BY <2>1, <2>2 DEF AddedLast
<1>9. QED BY <1>4, <1>5, <1>6, <1>7, <1>8

LEMMA ReadingRemoved ==
  ASSUME inbox \in Seq(KernelMessage), inbox # <<>>, inbox' = Tail(inbox), NEW r,
         RemovedWithDesc(r), Is(Head(inbox), "SRC_DESC", r) => Described(r)'
  PROVE  RemovedWithDesc(r)'
<1> SUFFICES ASSUME NEW i \in DOMAIN inbox', Is(inbox'[i], "SRC_REMOVED", r)
             PROVE  IF i = 1 THEN Described(r)' ELSE Is(inbox'[i - 1], "SRC_DESC", r)
  BY DEF RemovedWithDesc
<1>1. /\ Len(inbox) \in Nat /\ DOMAIN inbox = 1..Len(inbox) /\ Head(inbox) = inbox[1]
      /\ DOMAIN inbox' = 1..(Len(inbox) - 1)
      /\ \A j \in 1..(Len(inbox) - 1) : inbox'[j] = inbox[j + 1]
  OBVIOUS
<1>2. i + 1 \in DOMAIN inbox /\ inbox[i + 1] = inbox'[i] /\ i + 1 # 1 /\ (i + 1) - 1 = i
  BY <1>1
<1>3. Is(inbox[i], "SRC_DESC", r)
  BY <1>2 DEF RemovedWithDesc
<1>4. CASE i = 1
  BY <1>1, <1>3, <1>4
<1>5. CASE i # 1
  <2>1. i - 1 \in 1..(Len(inbox) - 1) /\ (i - 1) + 1 = i
    BY <1>1, <1>5
  <2>2. QED BY <1>1, <1>3, <1>5, <2>1
<1>6. QED BY <1>4, <1>5

-----------------------------------------------------------------------------
\* What the table has of r changes only with a message about r.
KeptFor(r) ==
    /\ InTable(r)' <=> InTable(r)
    /\ Described(r)' <=> Described(r)
    /\ InTable(r) => map'[r] = map[r]

LEMMA OwnObjects ==
  ASSUME IInv, NEW r \in SrcRefs, NEW q \in SrcRefs, q # r, map[q] # NoObj
  PROVE  map[r] # map[q]
BY DEF IInv, Pointers, PointsHome

LEMMA KeptByPasses ==
  ASSUME IInv, NEW r \in SrcRefs,
         \/ UNCHANGED <<heap, map>>
         \/ RemoveOldSources
         \/ UpdateWaitForCountsQueue
         \/ \E q \in SrcRefs, traffic \in BOOLEAN : SrcCounts(q, traffic)
  PROVE  KeptFor(r)
<1>1. TypeOK
  BY DEF IInv
<1> USE Opened DEF KeptFor, InTable, Described, Live
<1>2. CASE UNCHANGED <<heap, map>>
  BY <1>2
<1>3. CASE RemoveOldSources
  BY <1>1, <1>3 DEF RemoveOldSources, Expired
<1>4. CASE UpdateWaitForCountsQueue
  BY <1>1, <1>4, UpdateFields, SMTT(30) DEF UpdateWaitForCountsQueue
<1>5. CASE \E q \in SrcRefs, traffic \in BOOLEAN : SrcCounts(q, traffic)
  <2>1. PICK q \in SrcRefs, traffic \in BOOLEAN : SrcCounts(q, traffic)
    BY <1>5
  <2>2. map' = map /\ \A o \in DOMAIN heap : /\ heap'[o].tsRemoved = heap[o].tsRemoved
                                            /\ heap'[o].haveDesc = heap[o].haveDesc
    BY <1>1, <2>1, SrcCountsFields DEF SrcCounts
  <2>3. QED BY <1>1, <2>2
<1>6. QED BY <1>2, <1>3, <1>4, <1>5

LEMMA KeptByOthers ==
  ASSUME IInv, NEW r \in SrcRefs, NEW q \in SrcRefs, q # r,
         \/ SrcAdded(q)
         \/ SrcRemoved(q)
         \/ \E ports \in PortClass : SrcDesc(q, ports)
  PROVE  KeptFor(r) /\ mapWaitingForDesc'[r] = mapWaitingForDesc[r]
<1>1. TypeOK
  BY SMTT(30) DEF IInv
<1> USE Opened DEF KeptFor, InTable, Described, Live
<1>2. mapWaitingForDesc'[r] = mapWaitingForDesc[r]
  BY <1>1 DEF SrcAdded, SrcAddedKnown, SrcAddedNew, SrcRemoved, SrcDesc, TypeOK
<1>3. CASE SrcAddedKnown(q)
  BY <1>2, <1>3 DEF SrcAddedKnown
<1>4. CASE SrcAddedNew(q)
  BY <1>1, <1>2, <1>4 DEF SrcAddedNew, TypeOK
<1>5. CASE SrcRemoved(q)
  BY <1>1, <1>2, <1>5, SrcRemovedFields, OwnObjects DEF SrcRemoved
<1>6. CASE \E ports \in PortClass : SrcDesc(q, ports)
  <2>1. PICK ports \in PortClass : SrcDesc(q, ports)
    BY <1>6
  <2>2. map' = map /\ map[q] # NoObj
    BY <2>1 DEF SrcDesc
  <2>3. map[r] # NoObj => heap'[map[r]] = heap[map[r]]
    BY <1>1, <2>1, <2>2, SrcDescFields, OwnObjects
  <2>4. QED BY <1>2, <2>2, <2>3
<1>7. QED BY <1>3, <1>4, <1>5, <1>6 DEF SrcAdded

LEMMA OfItself ==
  ASSUME IInv, NEW r \in SrcRefs
  PROVE  /\ SrcAdded(r) => InTable(r)' /\ (~Described(r)' => mapWaitingForDesc'[r] = map'[r])
         /\ SrcRemoved(r) => ~InTable(r)'
         /\ \A ports \in PortClass : SrcDesc(r, ports) =>
               (InTable(r)' <=> InTable(r)) /\ Described(r)'
<1>1. TypeOK
  BY DEF IInv
<1> USE Opened DEF InTable, Described, Live
<1>2. ASSUME SrcAddedKnown(r)
      PROVE  InTable(r)' /\ (~Described(r)' => mapWaitingForDesc'[r] = map'[r])
  BY <1>1, <1>2 DEF SrcAddedKnown, TypeOK
<1>3. ASSUME SrcAddedNew(r)
      PROVE  InTable(r)' /\ (~Described(r)' => mapWaitingForDesc'[r] = map'[r])
  <2>1. PICK o \in Obj \ DOMAIN heap :
           /\ heap' = [p \in DOMAIN heap \cup {o} |->
                          IF p = o THEN NewSource(r) ELSE heap[p]]
           /\ map' = [map EXCEPT ![r] = o]
           /\ mapWaitingForDesc' = [mapWaitingForDesc EXCEPT ![r] = o]
    BY <1>3 DEF SrcAddedNew
  <2>2. map'[r] = o /\ mapWaitingForDesc'[r] = o /\ heap'[o].tsRemoved = 0 /\ o # NoObj
    BY <1>1, <2>1, SourcesAssumption DEF TypeOK, NewSource
  <2>3. QED BY <2>2
<1>4. SrcRemoved(r) => ~InTable(r)'
  BY <1>1, SrcRemovedFields DEF SrcRemoved
<1>5. ASSUME NEW ports \in PortClass, SrcDesc(r, ports)
      PROVE  (InTable(r)' <=> InTable(r)) /\ Described(r)'
  <2>1. map' = map /\ map[r] # NoObj
    BY <1>5 DEF SrcDesc
  <2>2. heap'[map[r]].tsRemoved = heap[map[r]].tsRemoved /\ heap'[map[r]].haveDesc
    BY <1>1, <1>5, SrcDescFields
  <2>3. QED BY <2>1, <2>2
<1>6. SrcAdded(r) => InTable(r)' /\ (~Described(r)' => mapWaitingForDesc'[r] = map'[r])
  BY <1>2, <1>3 DEF SrcAdded
<1>7. QED BY <1>4, <1>5, <1>6

-----------------------------------------------------------------------------
\* The step of the table that goes with a message, as far as r is concerned.
LEMMA ReadCases ==
  ASSUME ClientTypeOK, IInv, NEW r \in SrcRefs, ReadNextMessage
  PROVE  \/ /\ KeptFor(r) /\ mapWaitingForDesc'[r] = mapWaitingForDesc[r]
            /\ \A type \in {"SRC_ADDED", "SRC_REMOVED", "SRC_DESC"} :
                  Is(Head(inbox), type, r) => ~InTable(r) /\ type # "SRC_ADDED"
         \/ Is(Head(inbox), "SRC_ADDED", r) /\ SrcAdded(r)
         \/ Is(Head(inbox), "SRC_REMOVED", r) /\ SrcRemoved(r)
         \/ /\ Is(Head(inbox), "SRC_DESC", r)
            /\ \E ports \in PortClass : SrcDesc(r, ports)
<1> DEFINE m == Head(inbox)
<1>1. m \in KernelMessage /\ (HandleNotification(m) \/ HandleResponse(m))
  BY DEF ReadNextMessage, ClientTypeOK
<1> HIDE DEF m
<1>2. CASE HandleResponse(m)
  <2>1. UNCHANGED <<heap, map, mapWaitingForDesc>>
    BY <1>2 DEF HandleResponse, Ignored, tables
  <2>2. \A type \in {"SRC_ADDED", "SRC_REMOVED", "SRC_DESC"} : ~Is(m, type, r)
    BY <1>2 DEF HandleResponse, Is
  <2>3. QED BY <2>1, <2>2, KeptByPasses DEF m
<1>3. CASE HandleNotification(m)
  <2>1. m.type \notin {"SUCCESS", "ERROR", "ENOBUFS"}
    BY <1>3 DEF HandleNotification
  <2>2. m.ref \in SrcRefs /\ m.ports \in PortClass
    BY <1>1, <2>1 DEF KernelMessage, Success, Error, NoBuffers, Message
  <2>3. CASE \E traffic \in BOOLEAN : m.type = "SRC_COUNTS" /\ SrcCounts(m.ref, traffic)
    <3>1. KeptFor(r)
      BY <2>2, <2>3, KeptByPasses
    <3>2. mapWaitingForDesc' = mapWaitingForDesc
      BY <2>3 DEF SrcCounts
    <3>3. \A type \in {"SRC_ADDED", "SRC_REMOVED", "SRC_DESC"} : ~Is(m, type, r)
      BY <2>3 DEF Is
    <3>4. QED BY <3>1, <3>2, <3>3 DEF m
  <2>4. CASE m.type \in {"SRC_REMOVED", "SRC_DESC", "SRC_COUNTS"} /\ map[m.ref] = NoObj /\ Ignored
    <3>1. UNCHANGED <<heap, map, mapWaitingForDesc>>
      BY <2>4 DEF Ignored, tables
    <3>2. \A type \in {"SRC_ADDED", "SRC_REMOVED", "SRC_DESC"} :
             Is(m, type, r) => ~InTable(r) /\ type # "SRC_ADDED"
      BY <2>4 DEF Is, InTable
    <3>3. QED BY <3>1, <3>2, KeptByPasses DEF m
  <2>5. CASE /\ m.ref # r
             /\ \/ SrcAdded(m.ref)
                \/ SrcRemoved(m.ref)
                \/ SrcDesc(m.ref, m.ports)
    <3>1. KeptFor(r) /\ mapWaitingForDesc'[r] = mapWaitingForDesc[r]
      BY <2>2, <2>5, KeptByOthers
    <3>2. \A type \in {"SRC_ADDED", "SRC_REMOVED", "SRC_DESC"} : ~Is(m, type, r)
      BY <2>5 DEF Is
    <3>3. QED BY <3>1, <3>2 DEF m
  <2>6. CASE m.ref = r /\ m.type = "SRC_ADDED" /\ SrcAdded(m.ref)
    BY <2>6 DEF Is, m
  <2>7. CASE m.ref = r /\ m.type = "SRC_REMOVED" /\ SrcRemoved(m.ref)
    BY <2>7 DEF Is, m
  <2>8. CASE m.ref = r /\ m.type = "SRC_DESC" /\ SrcDesc(m.ref, m.ports)
    <3>1. Is(m, "SRC_DESC", r) /\ SrcDesc(r, m.ports)
      BY <2>8 DEF Is
    <3>2. QED BY <2>2, <3>1 DEF m
  <2>9. QED BY <1>3, <2>3, <2>4, <2>5, <2>6, <2>7, <2>8 DEF HandleNotification
<1>4. QED BY <1>1, <1>2, <1>3

LEMMA ReadSession ==
  ASSUME ClientTypeOK, IInv, NEW r \in SrcRefs, Session(r), ReadNextMessage
  PROVE  Session(r)'
<1> DEFINE m == Head(inbox)
<1>1. inbox \in Seq(KernelMessage) /\ inbox # <<>> /\ inbox' = Tail(inbox)
  BY DEF ReadNextMessage, ClientTypeOK
<1>2. (Open(r)' <=> Open(r)) /\ (Reported(r)' <=> Reported(r))
  BY DEF ReadNextMessage, Open, Reported
<1>3. /\ Waiting("SRC_DESC", r) => Waiting("SRC_DESC", r)' \/ Is(m, "SRC_DESC", r)
      /\ Waiting("SRC_REMOVED", r) <=> Waiting("SRC_REMOVED", r)' \/ Is(m, "SRC_REMOVED", r)
      /\ AddedLast(r) <=>
            \/ AddedLast(r)'
            \/ Is(m, "SRC_ADDED", r) /\ ~Waiting("SRC_REMOVED", r)'
  BY <1>1, Reading
<1>4. \A s, t \in {"SRC_ADDED", "SRC_REMOVED", "SRC_DESC"} : s # t => ~(Is(m, s, r) /\ Is(m, t, r))
  BY DEF Is
<1> HIDE DEF m
<1>5. CASE /\ KeptFor(r) /\ mapWaitingForDesc'[r] = mapWaitingForDesc[r]
           /\ \A type \in {"SRC_ADDED", "SRC_REMOVED", "SRC_DESC"} :
                 Is(m, type, r) => ~InTable(r) /\ type # "SRC_ADDED"
  <2>1. /\ ~Is(m, "SRC_ADDED", r)
        /\ Is(m, "SRC_REMOVED", r) => ~InTable(r)
        /\ Is(m, "SRC_DESC", r) => ~InTable(r)
    BY <1>5
  <2>2. Believed(r)' <=> Believed(r)
    BY <1>3, <1>5, <2>1 DEF Believed, KeptFor
  <2>3. Described(r)' <=> Described(r)
    BY <1>5 DEF KeptFor
  <2>4. Is(m, "SRC_DESC", r) => Described(r)'
    BY <2>1, <2>3 DEF Described
  <2>5. RemovedWithDesc(r)'
    BY <1>1, <2>4, ReadingRemoved DEF Session, m
  <2>6. Remembered(r)'
    BY <1>3, <1>5, <2>3, <2>4 DEF Session, Remembered, KeptFor, Described
  <2>7. QED BY <1>2, <2>2, <2>5, <2>6 DEF Session
<1>6. CASE Is(m, "SRC_ADDED", r) /\ SrcAdded(r)
  <2>1. InTable(r)' /\ (~Described(r)' => mapWaitingForDesc'[r] = map'[r])
    BY <1>6, OfItself
  <2>2. ~Is(m, "SRC_REMOVED", r) /\ ~Is(m, "SRC_DESC", r)
    BY <1>4, <1>6
  <2>3. Believed(r)' <=> Believed(r)
    BY <1>3, <1>6, <2>1, <2>2 DEF Believed
  <2>4. RemovedWithDesc(r)'
    BY <1>1, <2>2, ReadingRemoved DEF Session, m
  <2>5. QED BY <1>2, <2>1, <2>3, <2>4 DEF Session, Remembered
<1>7. CASE Is(m, "SRC_REMOVED", r) /\ SrcRemoved(r)
  <2>1. ~InTable(r)'
    BY <1>7, OfItself
  <2>2. ~Is(m, "SRC_ADDED", r) /\ ~Is(m, "SRC_DESC", r)
    BY <1>4, <1>7
  <2>3. Believed(r)' <=> Believed(r)
    BY <1>3, <1>7, <2>1, <2>2 DEF Believed
  <2>4. RemovedWithDesc(r)'
    BY <1>1, <2>2, ReadingRemoved DEF Session, m
  <2>5. Described(r)'
    BY <2>1 DEF Described
  <2>6. QED BY <1>2, <2>3, <2>4, <2>5 DEF Session, Remembered
<1>8. CASE Is(m, "SRC_DESC", r) /\ \E ports \in PortClass : SrcDesc(r, ports)
  <2>1. (InTable(r)' <=> InTable(r)) /\ Described(r)'
    BY <1>8, OfItself
  <2>2. ~Is(m, "SRC_ADDED", r) /\ ~Is(m, "SRC_REMOVED", r)
    BY <1>4, <1>8
  <2>3. Believed(r)' <=> Believed(r)
    BY <1>3, <2>1, <2>2 DEF Believed
  <2>4. RemovedWithDesc(r)'
    BY <1>1, <2>1, ReadingRemoved DEF Session, m
  <2>5. QED BY <1>2, <2>1, <2>3, <2>4 DEF Session, Remembered
<1>9. QED BY <1>5, <1>6, <1>7, <1>8, ReadCases DEF m
-----------------------------------------------------------------------------
\* What arrives is of other sources, and the table keeps what it has of r.
LEMMA OthersArriving ==
  ASSUME ClientTypeOK, NEW r \in SrcRefs, Session(r),
         NEW msgs \in Seq(KernelMessage), inbox' = inbox \o msgs,
         ~Tells(msgs, "SRC_ADDED", r), ~Tells(msgs, "SRC_REMOVED", r),
         (Open(r)' /\ Reported(r)') <=> (Open(r) /\ Reported(r)),
         KeptFor(r),
         ~Described(r) /\ mapWaitingForDesc[r] = map[r] =>
             \/ mapWaitingForDesc'[r] = mapWaitingForDesc[r]
             \/ Tells(msgs, "SRC_DESC", r)
             \/ Waiting("SRC_DESC", r)
  PROVE  Session(r)'
<1>1. inbox \in Seq(KernelMessage)
  BY DEF ClientTypeOK
<1>2. (InTable(r)' <=> InTable(r)) /\ (Described(r)' <=> Described(r))
  BY DEF KeptFor
<1>3. ~Described(r) => map'[r] = map[r]
  BY DEF KeptFor, Described
<1>4. QED BY <1>1, <1>2, <1>3, SessionArriving

\* Nothing arrives.
LEMMA QuietSession ==
  ASSUME ClientTypeOK, IInv, NEW r \in SrcRefs, Session(r),
         UNCHANGED <<inbox, socket, subscribed, mapWaitingForDesc>>,
         UNCHANGED <<heap, map>> \/ RemoveOldSources \/ UpdateWaitForCountsQueue
  PROVE  Session(r)'
<1>1. inbox \in Seq(KernelMessage) /\ <<>> \in Seq(KernelMessage)
  BY DEF ClientTypeOK
<1>2. inbox' = inbox \o <<>>
  BY <1>1, ConcatEmptySeq
<1>3. KeptFor(r)
  BY KeptByPasses
<1>4. \A type : ~Tells(<<>>, type, r)
  BY DEF Tells
<1>5. (Open(r)' <=> Open(r)) /\ (Reported(r)' <=> Reported(r))
  BY DEF Open, Reported
<1>6. QED BY <1>1, <1>2, <1>3, <1>4, <1>5, OthersArriving

LEMMA OpenSession ==
  ASSUME ~Lossy, ClientTypeOK, IInv, NEW r \in SrcRefs, Session(r),
         NEW q \in SrcRefs, OpenSource(q), Ignored
  PROVE  Session(r)'
<1>1. UNCHANGED <<heap, map, mapWaitingForDesc, subscribed>>
  BY DEF OpenSource, Ignored, tables
<1>2. KeptFor(r)
  BY <1>1, KeptByPasses
<1>3. /\ inbox \in Seq(KernelMessage) /\ <<Added(q)>> \in Seq(KernelMessage)
      /\ <<>> \in Seq(KernelMessage)
  BY MessageTypes DEF ClientTypeOK
<1>4. PICK ports \in OpenPorts : socket' = [socket EXCEPT ![q] = ports]
  BY DEF OpenSource
<1>5. ports # "closed" /\ socket \in [SrcRefs -> PortClass \cup {"closed"}]
  BY ClientAssumption DEF PortClass, ClientTypeOK
<1>6. /\ Open(q)' /\ ~Open(q)
      /\ r # q => (Open(r)' <=> Open(r))
      /\ Reported(r)' <=> Reported(r)
  BY <1>1, <1>4, <1>5 DEF OpenSource, Open, Reported
<1>7. CASE ~Reported(q)
  <2>1. inbox' = inbox
    BY <1>7 DEF OpenSource
  <2>2. inbox' = inbox \o <<>>
    BY <1>3, <2>1, ConcatEmptySeq
  <2>3. \A type : ~Tells(<<>>, type, r)
    BY DEF Tells
  <2>4. QED BY <1>1, <1>2, <1>3, <1>6, <1>7, <2>2, <2>3, OthersArriving
<1>8. CASE Reported(q)
  <2>1. inbox' = inbox \o <<Added(q)>>
    BY <1>8, Arrives DEF OpenSource
  <2>2. \A type : Tells(<<Added(q)>>, type, r) <=> type = "SRC_ADDED" /\ r = q
    <3>1. Added(q).type = "SRC_ADDED" /\ Added(q).ref = q
      BY DEF Added, Message
    <3>2. QED BY <3>1 DEF Tells, Is
  <2>3. CASE r # q
    BY <1>1, <1>2, <1>3, <1>6, <2>1, <2>2, <2>3, OthersArriving
  <2>4. CASE r = q
    <3>1. Open(r)' /\ Reported(r)'
      BY <1>6, <1>8, <2>4
    <3>2. Tells(<<Added(q)>>, "SRC_ADDED", r) /\ ~Tells(<<Added(q)>>, "SRC_REMOVED", r)
      BY <2>2, <2>4
    <3>3. (InTable(r)' <=> InTable(r)) /\ (Described(r)' <=> Described(r))
      BY <1>2 DEF KeptFor
    <3>4. ~Described(r) /\ mapWaitingForDesc[r] = map[r] => mapWaitingForDesc'[r] = map'[r]
      BY <1>1
    <3>5. QED BY <1>3, <2>1, <3>1, <3>2, <3>3, <3>4, SessionArriving
  <2>5. QED BY <2>3, <2>4
<1>9. QED BY <1>7, <1>8

LEMMA MoveSession ==
  ASSUME ClientTypeOK, IInv, NEW r \in SrcRefs, Session(r),
         NEW q \in SrcRefs, MovePorts(q), Ignored
  PROVE  Session(r)'
<1>1. UNCHANGED <<heap, map, mapWaitingForDesc, subscribed, inbox>>
  BY DEF MovePorts, Ignored, tables
<1>2. KeptFor(r)
  BY <1>1, KeptByPasses
<1>3. inbox \in Seq(KernelMessage) /\ <<>> \in Seq(KernelMessage)
  BY DEF ClientTypeOK
<1>4. (Open(r)' <=> Open(r)) /\ (Reported(r)' <=> Reported(r))
  <2>1. PICK move \in PortMoves :
          socket[q] = move[1] /\ socket' = [socket EXCEPT ![q] = move[2]]
    BY DEF MovePorts
  <2>2. move[1] \in PortClass /\ move[2] \in PortClass
    BY ClientAssumption
  <2>3. QED BY <1>1, <2>1, <2>2 DEF Open, Reported, ClientTypeOK, PortClass
<1>5. inbox' = inbox \o <<>>
  BY <1>1, <1>3, ConcatEmptySeq
<1>6. \A type : ~Tells(<<>>, type, r)
  BY DEF Tells
<1>7. QED BY <1>1, <1>2, <1>3, <1>4, <1>5, <1>6, OthersArriving

LEMMA OneAndTwo ==
  ASSUME NEW S, NEW a \in S, NEW b \in S, NEW c \in S
  PROVE  <<a>> \o <<b, c>> = <<a, b, c>>
<1>1. <<a>> \o <<b, c>> \in Seq(S) /\ <<a, b, c>> \in Seq(S)
  OBVIOUS
<1>2. /\ Len(<<a>> \o <<b, c>>) = 3 /\ Len(<<a, b, c>>) = 3
      /\ \A i \in 1..3 : (<<a>> \o <<b, c>>)[i] = <<a, b, c>>[i]
  OBVIOUS
<1>3. QED BY <1>1, <1>2, SeqEqual

LEMMA OneAndThree ==
  ASSUME NEW S, NEW a \in S, NEW b \in S, NEW c \in S, NEW d \in S
  PROVE  <<a>> \o <<b, c, d>> = <<a, b, c, d>>
<1>1. <<a>> \o <<b, c, d>> \in Seq(S) /\ <<a, b, c, d>> \in Seq(S)
  OBVIOUS
<1>2. /\ Len(<<a>> \o <<b, c, d>>) = 4 /\ Len(<<a, b, c, d>>) = 4
      /\ \A i \in 1..4 : (<<a>> \o <<b, c, d>>)[i] = <<a, b, c, d>>[i]
  OBVIOUS
<1>3. QED BY <1>1, <1>2, SeqEqual

LEMMA TwoAndTwo ==
  ASSUME NEW S, NEW a \in S, NEW b \in S, NEW c \in S, NEW d \in S
  PROVE  <<a, b>> \o <<c, d>> = <<a, b, c, d>>
<1>1. <<a, b>> \o <<c, d>> \in Seq(S) /\ <<a, b, c, d>> \in Seq(S)
  OBVIOUS
<1>2. /\ Len(<<a, b>> \o <<c, d>>) = 4 /\ Len(<<a, b, c, d>>) = 4
      /\ \A i \in 1..4 : (<<a, b>> \o <<c, d>>)[i] = <<a, b, c, d>>[i]
  OBVIOUS
<1>3. QED BY <1>1, <1>2, SeqEqual

LEMMA Regrouped ==
  ASSUME NEW s \in Seq(KernelMessage), NEW t \in Seq(KernelMessage),
         NEW u \in Seq(KernelMessage)
  PROVE  (s \o t) \o u = s \o (t \o u)
BY ConcatAssociative

LEMMA Goodbye ==
  ASSUME NEW q \in SrcRefs, NEW ports \in PortClass, inbox \in Seq(KernelMessage)
  PROVE  LET bye == <<Counts(q), Desc(q, ports), Removed(q)>>
         IN  /\ inbox \o bye = (inbox \o <<Counts(q)>>) \o <<Desc(q, ports), Removed(q)>>
             /\ inbox \o (<<Added(q)>> \o bye) =
                   (inbox \o <<Added(q), Counts(q)>>) \o <<Desc(q, ports), Removed(q)>>
<1> DEFINE d == Desc(q, ports)
<1>1. /\ d \in KernelMessage /\ Added(q) \in KernelMessage
      /\ Counts(q) \in KernelMessage /\ Removed(q) \in KernelMessage
  BY MessageTypes
<1> HIDE DEF d
<1>2. /\ <<Counts(q)>> \in Seq(KernelMessage)
      /\ <<Added(q), Counts(q)>> \in Seq(KernelMessage)
      /\ <<d, Removed(q)>> \in Seq(KernelMessage)
  BY <1>1
<1>3. <<Counts(q)>> \o <<d, Removed(q)>> = <<Counts(q), d, Removed(q)>>
  BY <1>1, OneAndTwo
<1>4. <<Added(q), Counts(q)>> \o <<d, Removed(q)>>
          = <<Added(q)>> \o <<Counts(q), d, Removed(q)>>
  <2>1. <<Added(q), Counts(q)>> \o <<d, Removed(q)>> = <<Added(q), Counts(q), d, Removed(q)>>
    BY <1>1, TwoAndTwo
  <2>2. <<Added(q)>> \o <<Counts(q), d, Removed(q)>> = <<Added(q), Counts(q), d, Removed(q)>>
    BY <1>1, OneAndThree
  <2>3. QED BY <2>1, <2>2, Zenon
<1>5. (inbox \o <<Counts(q)>>) \o <<d, Removed(q)>> = inbox \o <<Counts(q), d, Removed(q)>>
  <2>1. (inbox \o <<Counts(q)>>) \o <<d, Removed(q)>>
            = inbox \o (<<Counts(q)>> \o <<d, Removed(q)>>)
    BY <1>2, Regrouped, Zenon
  <2>2. QED BY <1>3, <2>1, Zenon
<1>6. (inbox \o <<Added(q), Counts(q)>>) \o <<d, Removed(q)>>
          = inbox \o (<<Added(q)>> \o <<Counts(q), d, Removed(q)>>)
  <2>1. (inbox \o <<Added(q), Counts(q)>>) \o <<d, Removed(q)>>
            = inbox \o (<<Added(q), Counts(q)>> \o <<d, Removed(q)>>)
    BY <1>2, Regrouped, Zenon
  <2>2. QED BY <1>4, <2>1, Zenon
<1>7. QED BY <1>5, <1>6 DEF d

LEMMA CloseSession ==
  ASSUME ~Lossy, ClientTypeOK, IInv, NEW r \in SrcRefs, Session(r),
         NEW q \in SrcRefs, CloseSource(q), Ignored
  PROVE  Session(r)'
<1>1. UNCHANGED <<heap, map, mapWaitingForDesc, subscribed>>
  BY DEF CloseSource, Ignored, tables
<1>2. KeptFor(r)
  BY <1>1, KeptByPasses
<1>3. inbox \in Seq(KernelMessage) /\ <<>> \in Seq(KernelMessage) /\ socket[q] \in PortClass
  BY DEF ClientTypeOK, CloseSource, Open
<1>4. /\ ~Open(q)' /\ Open(q)
      /\ r # q => (Open(r)' <=> Open(r))
      /\ Reported(r)' <=> Reported(r)
  BY <1>1 DEF CloseSource, Open, Reported, ClientTypeOK
<1>5. CASE ~Reported(q)
  <2>1. inbox' = inbox
    BY <1>5 DEF CloseSource
  <2>2. inbox' = inbox \o <<>>
    BY <1>3, <2>1, ConcatEmptySeq
  <2>3. \A type : ~Tells(<<>>, type, r)
    BY DEF Tells
  <2>4. QED BY <1>1, <1>2, <1>3, <1>4, <1>5, <2>2, <2>3, OthersArriving
<1>6. CASE Reported(q)
  <2> DEFINE c == Counts(q)
             d == Desc(q, socket[q])
             m == Removed(q)
             a == Added(q)
  <2>1. /\ a \in KernelMessage /\ a.type = "SRC_ADDED" /\ a.ref = q
        /\ c \in KernelMessage /\ c.type = "SRC_COUNTS" /\ c.ref = q
        /\ d \in KernelMessage /\ d.type = "SRC_DESC" /\ d.ref = q
        /\ m \in KernelMessage /\ m.type = "SRC_REMOVED" /\ m.ref = q
    BY <1>3, MessageTypes DEF Added, Counts, Desc, Removed, Message
  <2>2. inbox' = inbox \o <<c, d, m>> \/ inbox' = inbox \o (<<a>> \o <<c, d, m>>)
    BY <1>6, Arrives DEF CloseSource
  <2>3. \/ inbox' = (inbox \o <<c>>) \o <<d, m>>
        \/ inbox' = (inbox \o <<a, c>>) \o <<d, m>>
    BY <1>3, <2>2, Goodbye
  <2> HIDE DEF a, c, d, m
  <2>4. PICK first \in {<<c>>, <<a, c>>} : inbox' = (inbox \o first) \o <<d, m>>
    BY <2>3
  <2>5. first \in Seq(KernelMessage) /\ ~Tells(first, "SRC_REMOVED", r)
    <3>1. /\ <<c>> \in Seq(KernelMessage) /\ <<a, c>> \in Seq(KernelMessage)
          /\ DOMAIN <<c>> = 1..1 /\ DOMAIN <<a, c>> = 1..2
      BY <2>1
    <3>2. ~Tells(<<c>>, "SRC_REMOVED", r)
      BY <2>1, <3>1 DEF Tells, Is
    <3>3. ~Tells(<<a, c>>, "SRC_REMOVED", r)
      BY <2>1, <3>1 DEF Tells, Is
    <3>4. QED BY <2>4, <3>1, <3>2, <3>3, Zenon
  <2>6. CASE r = q
    <3>1. Is(d, "SRC_DESC", r) /\ Is(m, "SRC_REMOVED", r)
      BY <2>1, <2>6 DEF Is
    <3>2. (InTable(r)' <=> InTable(r)) /\ (Described(r)' <=> Described(r)) /\ ~Open(r)'
      BY <1>2, <1>4, <2>6 DEF KeptFor
    <3>3. ~Described(r) /\ mapWaitingForDesc[r] = map[r] => mapWaitingForDesc'[r] = map'[r]
      BY <1>1
    <3>4. QED BY <1>3, <2>1, <2>4, <2>5, <3>1, <3>2, <3>3, SessionClosing
  <2>7. CASE r # q
    <3>1. <<d, m>> \in Seq(KernelMessage)
      BY <2>1
    <3>2. first \o <<d, m>> \in Seq(KernelMessage)
      BY <2>5, <3>1
    <3>3. inbox' = inbox \o (first \o <<d, m>>)
      BY <1>3, <2>4, <2>5, <3>1, Regrouped, Zenon
    <3>4. first \o <<d, m>> = <<c, d, m>> \/ first \o <<d, m>> = <<a, c, d, m>>
      <4>1. <<c>> \o <<d, m>> = <<c, d, m>>
        BY <2>1, OneAndTwo
      <4>2. <<a, c>> \o <<d, m>> = <<a, c, d, m>>
        BY <2>1, TwoAndTwo
      <4>3. QED BY <2>4, <4>1, <4>2, Zenon
    <3>5. ~Tells(first \o <<d, m>>, "SRC_ADDED", r) /\ ~Tells(first \o <<d, m>>, "SRC_REMOVED", r)
      BY <2>1, <2>7, <3>4 DEF Tells, Is
    <3>6. QED BY <1>1, <1>2, <1>4, <2>7, <3>2, <3>3, <3>5, OthersArriving
  <2>8. QED BY <2>6, <2>7
<1>7. QED BY <1>5, <1>6
-----------------------------------------------------------------------------
(* Steps of sendNextMsg.                                                    *)
LEMMA ListingIsComplete ==
  ASSUME NEW provider, NEW list \in Listings(Existing(provider))
  PROVE  LET n == Cardinality(Existing(provider))
         IN  /\ n \in Nat
             /\ list \in [1..n -> SrcRefs]
             /\ \A i \in 1..n : list[i] \in Existing(provider)
             /\ \A r \in Existing(provider) : \E i \in 1..n : list[i] = r
<1> DEFINE E == Existing(provider)
           n == Cardinality(E)
<1>1. IsFiniteSet(E) /\ n \in Nat /\ E \subseteq SrcRefs
  <2>1. E \subseteq SrcRefs
    BY DEF Existing
  <2>2. QED BY <2>1, ClientAssumption, FS_Subset, FS_CardinalityType
<1> HIDE DEF E
<1>2. list \in [1..n -> E] /\ \A i, j \in 1..n : list[i] = list[j] => i = j
  BY DEF Listings, E
<1>3. list \in Injection(1..n, E)
  BY <1>2 DEF Injection, IsInjective
<1>4. Cardinality(1..n) = n
  <2>1. Cardinality(1..n) = IF 1 > n THEN 0 ELSE n - 1 + 1
    BY <1>1, FS_Interval
  <2>2. QED BY <1>1, <2>1
<1>5. list \in Surjection(1..n, E)
  BY <1>1, <1>3, <1>4, FS_Injection
<1>6. \A r \in E : \E i \in 1..n : list[i] = r
  BY <1>5 DEF Surjection
<1>7. QED BY <1>1, <1>2, <1>6 DEF E

LEMMA SubscribeSession ==
  ASSUME ~Lossy, ClientTypeOK, IInv, NEW r \in SrcRefs, Session(r),
         NEW provider, Subscribe(provider),
         UNCHANGED <<socket, heap, map, mapWaitingForDesc>>
  PROVE  Session(r)'
<1>1. KeptFor(r)
  BY KeptByPasses
<1>2. Open(r)' <=> Open(r)
  BY DEF Open
<1>3. CASE Answer(<<Error>>) /\ UNCHANGED subscribed
  <2>1. inbox' = inbox \o <<Error>>
    BY <1>3, Arrives
  <2>2. <<Error>> \in Seq(KernelMessage)
    BY MessageTypes
  <2>3. Error.type = "ERROR"
    BY DEF Error, Message
  <2>4. ~Tells(<<Error>>, "SRC_ADDED", r) /\ ~Tells(<<Error>>, "SRC_REMOVED", r)
    BY <2>3 DEF Tells, Is
  <2>5. Reported(r)' <=> Reported(r)
    BY <1>3 DEF Reported
  <2>6. QED BY <1>1, <1>2, <2>1, <2>2, <2>4, <2>5, OthersArriving
<1>4. ASSUME NEW list \in Listings(Existing(provider)),
             Answer([i \in DOMAIN list |-> Added(list[i])] \o <<Success>>),
             subscribed' = subscribed \cup {provider}
      PROVE  Session(r)'
  <2> DEFINE n == Cardinality(Existing(provider))
             reports == [i \in DOMAIN list |-> Added(list[i])]
             msgs == reports \o <<Success>>
  <2>1. /\ n \in Nat
        /\ list \in [1..n -> SrcRefs]
        /\ \A i \in 1..n : list[i] \in Existing(provider)
        /\ \A q \in Existing(provider) : \E i \in 1..n : list[i] = q
    BY ListingIsComplete, Zenon
  <2> HIDE DEF n
  <2>2. inbox' = inbox \o msgs
    BY <1>4, Arrives
  <2>3. reports = [i \in 1..n |-> Added(list[i])] /\ reports \in Seq(KernelMessage)
    BY <2>1, MessageTypes
  <2> HIDE DEF reports
  <2>4. /\ msgs \in Seq(KernelMessage) /\ DOMAIN msgs = 1..(n + 1) /\ msgs[n + 1] = Success
        /\ \A i \in 1..n : msgs[i] = Added(list[i])
    <3>1. Len(reports) = n
      BY <2>1, <2>3
    <3>2. Success \in KernelMessage
      BY MessageTypes
    <3>3. QED BY <2>1, <2>3, <3>1, <3>2
  <2> HIDE DEF msgs
  <2>5. /\ Success.type = "SUCCESS"
        /\ \A i \in 1..n : Added(list[i]).type = "SRC_ADDED" /\ Added(list[i]).ref = list[i]
    BY DEF Success, Added, Message
  <2>6. \A i \in DOMAIN msgs : i \in 1..n \/ i = n + 1
    BY <2>1, <2>4
  <2>7. ~Tells(msgs, "SRC_REMOVED", r)
    BY <2>4, <2>5, <2>6 DEF Tells, Is
  <2>8. Tells(msgs, "SRC_ADDED", r) <=> r \in Existing(provider)
    <3>1. ASSUME Tells(msgs, "SRC_ADDED", r) PROVE r \in Existing(provider)
      BY <2>1, <2>4, <2>5, <2>6, <3>1 DEF Tells, Is
    <3>2. ASSUME r \in Existing(provider) PROVE Tells(msgs, "SRC_ADDED", r)
      <4>1. PICK i \in 1..n : list[i] = r
        BY <2>1, <3>2
      <4>2. i \in DOMAIN msgs
        BY <2>1, <2>4
      <4>3. QED BY <2>4, <2>5, <4>1, <4>2 DEF Tells, Is
    <3>3. QED BY <3>1, <3>2
  <2>9. CASE r \in Existing(provider)
    <3>1. Open(r)' /\ Reported(r)'
      BY <1>2, <1>4, <2>9 DEF Existing, Reported
    <3>2. (InTable(r)' <=> InTable(r)) /\ (Described(r)' <=> Described(r))
      BY <1>1 DEF KeptFor
    <3>3. ~Described(r) /\ mapWaitingForDesc[r] = map[r] => mapWaitingForDesc'[r] = map'[r]
      OBVIOUS
    <3>4. inbox \in Seq(KernelMessage)
      BY DEF ClientTypeOK
    <3>5. QED BY <2>2, <2>4, <2>7, <2>8, <2>9, <3>1, <3>2, <3>3, <3>4, SessionArriving
  <2>10. CASE r \notin Existing(provider)
    <3>1. (Open(r)' /\ Reported(r)') <=> (Open(r) /\ Reported(r))
      BY <1>2, <1>4, <2>10 DEF Existing, Reported
    <3>2. QED BY <1>1, <2>2, <2>4, <2>7, <2>8, <2>10, <3>1, OthersArriving
  <2>11. QED BY <2>9, <2>10
<1>5. QED BY <1>3, <1>4 DEF Subscribe

\* What one request for the data of a source is answered with.
LEMMA DataTells ==
  ASSUME ~Lossy, ClientTypeOK, NEW r, NEW m \in KernelMessage,
         m.type \notin {"SRC_ADDED", "SRC_REMOVED"},
         Data(m) \/ Answer(<<Error>>)
  PROVE  \E msgs \in Seq(KernelMessage) :
            /\ inbox' = inbox \o msgs
            /\ ~Tells(msgs, "SRC_ADDED", r) /\ ~Tells(msgs, "SRC_REMOVED", r)
            /\ Data(m) => \E i \in DOMAIN msgs : msgs[i] = m
<1>1. /\ Success \in KernelMessage /\ Success.type = "SUCCESS"
      /\ Error \in KernelMessage /\ Error.type = "ERROR"
  BY MessageTypes DEF Success, Error, Message
<1>2. ASSUME NEW msgs \in {<<m>>, <<m, Success>>}
      PROVE  /\ msgs \in Seq(KernelMessage)
             /\ ~Tells(msgs, "SRC_ADDED", r) /\ ~Tells(msgs, "SRC_REMOVED", r)
             /\ \E i \in DOMAIN msgs : msgs[i] = m
  <2>1. CASE msgs = <<m>>
    BY <1>1, <2>1 DEF Tells, Is
  <2>2. CASE msgs = <<m, Success>>
    BY <1>1, <2>2 DEF Tells, Is
  <2>3. QED BY <1>2, <2>1, <2>2
<1>3. CASE Data(m)
  <2>1. PICK msgs \in {<<m>>, <<m, Success>>} : Answer(msgs)
    BY <1>3 DEF Data
  <2>2. inbox' = inbox \o msgs
    BY <2>1, Arrives
  <2>3. QED BY <1>2, <2>2
<1>4. CASE ~Data(m) /\ Answer(<<Error>>)
  <2>1. inbox' = inbox \o <<Error>>
    BY <1>4, Arrives
  <2>2. /\ <<Error>> \in Seq(KernelMessage)
        /\ ~Tells(<<Error>>, "SRC_ADDED", r) /\ ~Tells(<<Error>>, "SRC_REMOVED", r)
    BY <1>1 DEF Tells, Is
  <2>3. QED BY <1>4, <2>1, <2>2
<1>5. QED BY <1>3, <1>4

\* A source that has closed but is in the table still waits to be described.
LEMMA ClosedIsDescribed ==
  ASSUME ClientTypeOK, NEW r \in SrcRefs, Session(r), ~Open(r), ~Described(r)
  PROVE  Waiting("SRC_DESC", r)
<1>1. InTable(r) /\ ~Believed(r)
  BY DEF Described, Session
<1>2. PICK i \in DOMAIN inbox : Is(inbox[i], "SRC_REMOVED", r)
  BY <1>1 DEF Believed, Waiting, Is
<1>3. i # 1 /\ Is(inbox[i - 1], "SRC_DESC", r)
  BY <1>2 DEF Session, RemovedWithDesc
<1>4. i - 1 \in DOMAIN inbox
  BY <1>3 DEF ClientTypeOK
<1>5. QED BY <1>3, <1>4 DEF Waiting, Is

LEMMA DescribeSession ==
  ASSUME ~Lossy, ClientTypeOK, IInv, NEW r \in SrcRefs, Session(r),
         NEW q \in SrcRefs, Describe(q), UNCHANGED <<socket, heap, map>>,
         mapWaitingForDesc' = [mapWaitingForDesc EXCEPT ![q] = NoObj]
  PROVE  Session(r)'
<1>1. KeptFor(r)
  BY KeptByPasses
<1>2. (Open(r)' <=> Open(r)) /\ (Reported(r)' <=> Reported(r))
  BY DEF Open, Reported, Describe
<1>3. r # q => mapWaitingForDesc'[r] = mapWaitingForDesc[r]
  BY DEF IInv, TypeOK
<1>4. CASE Open(q)
  <2> DEFINE d == Desc(q, socket[q])
  <2>1. d \in KernelMessage /\ d.type = "SRC_DESC" /\ d.ref = q /\ Data(d)
    BY <1>4, MessageTypes DEF Open, ClientTypeOK, Desc, Message, Describe
  <2> HIDE DEF d
  <2>2. PICK msgs \in Seq(KernelMessage) :
            /\ inbox' = inbox \o msgs
            /\ ~Tells(msgs, "SRC_ADDED", r) /\ ~Tells(msgs, "SRC_REMOVED", r)
            /\ \E i \in DOMAIN msgs : msgs[i] = d
    BY <2>1, DataTells
  <2>3. r = q => Tells(msgs, "SRC_DESC", r)
    BY <2>1, <2>2 DEF Tells, Is
  <2>4. QED BY <1>1, <1>2, <1>3, <2>2, <2>3, OthersArriving
<1>5. CASE ~Open(q)
  <2>1. Answer(<<Error>>) /\ Added(q) \in KernelMessage
    BY <1>5, MessageTypes DEF Describe
  <2>2. inbox' = inbox \o <<Error>>
    BY <2>1, Arrives
  <2>3. <<Error>> \in Seq(KernelMessage) /\ Error.type = "ERROR"
    BY MessageTypes DEF Error, Message
  <2>4. ~Tells(<<Error>>, "SRC_ADDED", r) /\ ~Tells(<<Error>>, "SRC_REMOVED", r)
    BY <2>3 DEF Tells, Is
  <2>5. r = q /\ ~Described(r) => Waiting("SRC_DESC", r)
    BY <1>5, ClosedIsDescribed
  <2>6. QED BY <1>1, <1>2, <1>3, <2>2, <2>3, <2>4, <2>5, OthersArriving
<1>6. QED BY <1>4, <1>5

LEMMA CountSession ==
  ASSUME ~Lossy, ClientTypeOK, IInv, NEW r \in SrcRefs, Session(r),
         NEW q \in SrcRefs, Count(q),
         UNCHANGED <<socket, heap, map, mapWaitingForDesc>>
  PROVE  Session(r)'
<1>1. KeptFor(r)
  BY KeptByPasses
<1>2. (Open(r)' <=> Open(r)) /\ (Reported(r)' <=> Reported(r))
  BY DEF Open, Reported, Count
<1>3. Counts(q) \in KernelMessage /\ Counts(q).type = "SRC_COUNTS"
  BY MessageTypes DEF Counts, Message
<1>4. Data(Counts(q)) \/ Answer(<<Error>>)
  BY DEF Count
<1>5. PICK msgs \in Seq(KernelMessage) :
          /\ inbox' = inbox \o msgs
          /\ ~Tells(msgs, "SRC_ADDED", r) /\ ~Tells(msgs, "SRC_REMOVED", r)
  BY <1>3, <1>4, DataTells
<1>6. QED BY <1>1, <1>2, <1>5, OthersArriving
LEMMA SendSession ==
  ASSUME ~Lossy, ClientTypeOK, IInv, NEW r \in SrcRefs, Session(r), SendNextMsg
  PROVE  Session(r)'
<1>1. CASE SendQueued
  <2>1. /\ Serve(Head(outq)) /\ outq \in Seq({AddAllSrcs("tcp"), AddAllSrcs("udp")})
        /\ outq # <<>>
        /\ UNCHANGED <<heap, map, mapWaitingForDesc>>
    BY <1>1 DEF SendQueued, Ignored, tables, ClientTypeOK
  <2>2. Head(outq).type = "ADD_ALL_SRCS"
    <3>1. Head(outq) \in {AddAllSrcs("tcp"), AddAllSrcs("udp")}
      BY <2>1
    <3>2. QED BY <3>1 DEF AddAllSrcs, Request
  <2>3. Subscribe(Head(outq).provider) /\ UNCHANGED socket
    BY <2>1, <2>2 DEF Serve
  <2>4. QED BY <2>1, <2>3, SubscribeSession
<1>2. CASE SendGetSrcDesc
  <2>1. PICK q \in SrcRefs : TakeWaitingForDesc(q) /\ Serve(GetSrcDesc(q))
    BY <1>2 DEF SendGetSrcDesc
  <2>2. Describe(q) /\ UNCHANGED socket
    BY <2>1 DEF Serve, GetSrcDesc, Request
  <2>3. /\ UNCHANGED <<heap, map>>
        /\ mapWaitingForDesc' = [mapWaitingForDesc EXCEPT ![q] = NoObj]
    BY <2>1 DEF TakeWaitingForDesc
  <2>4. QED BY <2>2, <2>3, DescribeSession
<1>3. CASE SendQuerySrc
  <2>1. PICK q \in SrcRefs :
           TakeWaitingForCount(q) /\ (Serve(QuerySrc(q)) \/ UNCHANGED kernelVars)
    BY <1>3 DEF SendQuerySrc
  <2>2. UNCHANGED <<heap, map, mapWaitingForDesc>>
    BY <2>1 DEF TakeWaitingForCount
  <2>3. CASE Serve(QuerySrc(q))
    <3>1. Count(q) /\ UNCHANGED socket
      BY <2>3 DEF Serve, QuerySrc, Request
    <3>2. QED BY <2>2, <3>1, CountSession
  <2>4. CASE UNCHANGED kernelVars
    BY <2>2, <2>4, QuietSession DEF kernelVars
  <2>5. QED BY <2>1, <2>3, <2>4
<1>4. CASE SendNothing
  BY <1>4, QuietSession DEF SendNothing, kernelVars, Ignored, tables
<1>5. QED BY <1>1, <1>2, <1>3, <1>4 DEF SendNextMsg

-----------------------------------------------------------------------------
(* A session is one run: EndRun needs a second.                             *)
LEMMA SessionStep ==
  ASSUME ~Lossy, MaxRuns <= 1, ClientTypeOK, IInv, QueueInv, NEW r \in SrcRefs, Session(r),
         [ClientNext]_vars
  PROVE  Session(r)'
<1>1. CASE StartRun
  BY <1>1, QuietSession DEF StartRun, kernelVars, Ignored, tables
<1>2. CASE Cleanup
  <2>1. UNCHANGED <<inbox, socket, subscribed, mapWaitingForDesc>>
    BY <1>2 DEF Cleanup, kernelVars, RemoveOldSources, Ignored, tables
  <2>2. RemoveOldSources \/ UNCHANGED <<heap, map>>
    BY <1>2 DEF Cleanup, Ignored, tables
  <2>3. QED BY <2>1, <2>2, QuietSession
<1>3. CASE Update
  <2>1. UNCHANGED <<inbox, socket, subscribed, mapWaitingForDesc>>
    BY <1>3 DEF Update, kernelVars, UpdateWaitForCountsQueue, Ignored, tables
  <2>2. UpdateWaitForCountsQueue \/ UNCHANGED <<heap, map>>
    BY <1>3 DEF Update, Ignored, tables
  <2>3. QED BY <2>1, <2>2, QuietSession
<1>4. CASE SendNextMsg
  BY <1>4, SendSession
<1>5. CASE ReadNextMessage
  BY <1>5, ReadSession
<1>6. CASE Drained
  BY <1>6, QuietSession DEF Drained, kernelVars, Ignored, tables
<1>7. CASE KernelActs
  BY <1>7, OpenSession, MoveSession, CloseSession DEF KernelActs, KernelStep
<1>8. CASE Tick
  BY <1>8, QuietSession DEF Tick, ClockStep, kernelVars, tables
<1>9. CASE UNCHANGED vars
  BY <1>9, QuietSession DEF vars, kernelVars, sourcesVars, tables
<1>10. ~EndRun
  <2>1. EndRun => pc = "cleanup" /\ runs < MaxRuns
    BY DEF EndRun
  <2>2. pc = "cleanup" => runs >= 1 /\ runs \in Nat
    BY DEF QueueInv
  <2>3. QED BY <2>1, <2>2, ClientAssumption
<1>11. QED
  BY <1>1, <1>2, <1>3, <1>4, <1>5, <1>6, <1>7, <1>8, <1>9, <1>10
  DEF ClientNext, RunLoop

LEMMA SessionInit == ASSUME ClientInit, NEW r \in SrcRefs PROVE Session(r)
<1>1. inbox = <<>> /\ subscribed = {} /\ map[r] = NoObj
  BY DEF ClientInit, KernelInit, Init
<1>2. ~InTable(r) /\ Described(r) /\ DOMAIN inbox = {}
  BY <1>1 DEF InTable, Described
<1>3. QED
  BY <1>1, <1>2 DEF Session, Believed, AddedLast, RemovedWithDesc, Remembered, Reported

Sessions == \A r \in SrcRefs : Session(r)

LEMMA SessionInvariance ==
  ASSUME ~Lossy, MaxRuns <= 1
  PROVE  ClientSpec => []Sessions
<1>1. ClientInit => Sessions
  BY SessionInit DEF Sessions
<1>2. ClientTypeOK /\ IInv /\ QueueInv /\ Sessions /\ [ClientNext]_vars => Sessions'
  BY SessionStep DEF Sessions
<1>3. ClientSpec => []QueueInv
  <2>1. ClientInit => QueueInv
    BY DEF ClientInit, QueueInv
  <2>2. QED BY <2>1, QueueStep, ClientTypeCorrect, PTL DEF ClientSpec
<1>4. QED
  BY <1>1, <1>2, <1>3, ClientTypeCorrect, ClientImplementsSources, Invariance, PTL
  DEF ClientSpec

(* In one session with a kernel that drops nothing, the table's live sources *)
(* are exactly the open sources of the subscribed providers whenever the     *)
(* socket is drained, for any number of references, however often each is    *)
(* used again and whichever provider is refused.                             *)
THEOREM TableFollowsKernel ==
  ASSUME ~Lossy, MaxRuns <= 1
  PROVE  ClientSpec => []TableMatchesKernelWhenDrained
<1>1. ClientTypeOK /\ Sessions => TableMatchesKernelWhenDrained
  <2> SUFFICES ASSUME Sessions, inbox = <<>>, NEW r \in SrcRefs
               PROVE  InTable(r) <=> Open(r) /\ Reported(r)
    BY DEF TableMatchesKernelWhenDrained
  <2>1. ~AddedLast(r) /\ ~Waiting("SRC_REMOVED", r)
    BY DEF AddedLast, Waiting
  <2>2. QED BY <2>1 DEF Sessions, Session, Believed
<1>2. QED BY <1>1, SessionInvariance, ClientTypeCorrect, PTL

(* And no source is forgotten before it is described: it waits for its       *)
(* request to be sent, or its description has been sent.                     *)
THEOREM EverySourceIsDescribed ==
  ASSUME ~Lossy, MaxRuns <= 1
  PROVE  ClientSpec => []NoSourceForgotten
<1>1. Sessions => NoSourceForgotten
  BY DEF Sessions, Session, Remembered, Described, NoSourceForgotten
<1>2. QED BY <1>1, SessionInvariance, PTL

-----------------------------------------------------------------------------
\* The counts of r were asked for and have not come.
Asked(r) == InTable(r) /\ heap[map[r]].requestedCount

\* No source is reported removed but after its counts, two messages before.
\* The table has read them where they are not in the socket any more.
RemovedWithCounts(r) ==
    \A i \in DOMAIN inbox :
        Is(inbox[i], "SRC_REMOVED", r) =>
            IF i > 2 THEN Is(inbox[i - 2], "SRC_COUNTS", r) ELSE pc = "drain" /\ ~Asked(r)

CountAwaited(r) ==
    Asked(r) => mapWaitingForCount[r] = map[r] \/ Waiting("SRC_COUNTS", r)

(* The inductive invariant, of one source: NoCountForgotten and what it     *)
(* takes when the request finds its source closed.  Nothing is asked for    *)
(* while the socket is read, so the flag stays down between a source's last *)
(* counts and its removal.                                                  *)
Counting(r) == RemovedWithCounts(r) /\ CountAwaited(r)

LEMMA CountingArrives ==
  ASSUME NEW r, Counting(r),
         inbox \in Seq(KernelMessage), NEW msgs \in Seq(KernelMessage),
         inbox' = inbox \o msgs,
         \A k \in DOMAIN msgs :
            Is(msgs[k], "SRC_REMOVED", r) => k > 2 /\ Is(msgs[k - 2], "SRC_COUNTS", r),
         pc = "drain" => inbox = <<>> \/ (pc' = "drain" /\ (Asked(r)' => Asked(r))),
         Asked(r)' => \/ mapWaitingForCount'[r] = map'[r]
                      \/ Tells(msgs, "SRC_COUNTS", r)
                      \/ Waiting("SRC_COUNTS", r)
  PROVE  Counting(r)'
<1>1. /\ Len(inbox) \in Nat /\ DOMAIN inbox = 1..Len(inbox)
      /\ Len(msgs) \in Nat /\ DOMAIN msgs = 1..Len(msgs)
      /\ DOMAIN inbox' = 1..(Len(inbox) + Len(msgs))
      /\ \A i \in 1..Len(inbox) : inbox'[i] = inbox[i]
      /\ \A i \in 1..Len(msgs) : inbox'[Len(inbox) + i] = msgs[i]
  BY Elements
<1>2. ASSUME NEW i \in DOMAIN inbox', Is(inbox'[i], "SRC_REMOVED", r)
      PROVE  IF i > 2 THEN Is(inbox'[i - 2], "SRC_COUNTS", r) ELSE pc' = "drain" /\ ~Asked(r)'
  <2>1. CASE i \in 1..Len(inbox)
    <3>1. i \in DOMAIN inbox /\ Is(inbox[i], "SRC_REMOVED", r) /\ inbox # <<>>
      BY <1>1, <1>2, <2>1
    <3>2. CASE i > 2
      <4>1. i - 2 \in 1..Len(inbox)
        BY <1>1, <2>1, <3>2
      <4>2. Is(inbox[i - 2], "SRC_COUNTS", r)
        BY <3>1, <3>2 DEF Counting, RemovedWithCounts
      <4>3. QED BY <1>1, <3>2, <4>1, <4>2
    <3>3. CASE ~(i > 2)
      BY <3>1, <3>3 DEF Counting, RemovedWithCounts
    <3>4. QED BY <3>2, <3>3
  <2>2. CASE i \notin 1..Len(inbox)
    <3>1. PICK k \in 1..Len(msgs) : i = Len(inbox) + k /\ inbox'[i] = msgs[k]
      <4>1. i - Len(inbox) \in 1..Len(msgs) /\ i = Len(inbox) + (i - Len(inbox))
        BY <1>1, <2>2
      <4>2. inbox'[i] = msgs[i - Len(inbox)]
        BY <1>1, <4>1
      <4>3. QED BY <4>1, <4>2
    <3>2. k > 2 /\ Is(msgs[k - 2], "SRC_COUNTS", r)
      BY <1>1, <1>2, <3>1
    <3>3. k - 2 \in 1..Len(msgs) /\ Len(inbox) + (k - 2) = i - 2 /\ i > 2
      BY <1>1, <3>1, <3>2
    <3>4. inbox'[i - 2] = msgs[k - 2]
      BY <1>1, <3>3
    <3>5. QED BY <3>2, <3>3, <3>4
  <2>3. QED BY <2>1, <2>2
<1>3. Waiting("SRC_COUNTS", r) \/ Tells(msgs, "SRC_COUNTS", r) => Waiting("SRC_COUNTS", r)'
  <2>1. CASE Waiting("SRC_COUNTS", r)
    <3>1. PICK i \in 1..Len(inbox) : Is(inbox[i], "SRC_COUNTS", r)
      BY <1>1, <2>1 DEF Waiting, Is
    <3>2. i \in DOMAIN inbox' /\ inbox'[i] = inbox[i]
      BY <1>1
    <3>3. QED BY <3>1, <3>2 DEF Waiting, Is
  <2>2. CASE Tells(msgs, "SRC_COUNTS", r)
    <3>1. PICK k \in 1..Len(msgs) : Is(msgs[k], "SRC_COUNTS", r)
      BY <1>1, <2>2 DEF Tells
    <3>2. Len(inbox) + k \in DOMAIN inbox' /\ inbox'[Len(inbox) + k] = msgs[k]
      BY <1>1
    <3>3. QED BY <3>1, <3>2 DEF Waiting, Is
  <2>3. QED BY <2>1, <2>2
<1>4. QED BY <1>2, <1>3 DEF Counting, RemovedWithCounts, CountAwaited

LEMMA CountingRead ==
  ASSUME NEW r, Counting(r),
         inbox \in Seq(KernelMessage), inbox # <<>>, inbox' = Tail(inbox),
         pc = "drain", pc' = "drain",
         mapWaitingForCount' = mapWaitingForCount,
         Asked(r)' => Asked(r) /\ map'[r] = map[r] /\ ~Is(Head(inbox), "SRC_COUNTS", r)
  PROVE  Counting(r)'
<1>1. /\ Len(inbox) \in Nat /\ DOMAIN inbox = 1..Len(inbox) /\ Head(inbox) = inbox[1]
      /\ DOMAIN inbox' = 1..(Len(inbox) - 1)
      /\ \A j \in 1..(Len(inbox) - 1) : inbox'[j] = inbox[j + 1]
  OBVIOUS
<1>2. ASSUME NEW i \in DOMAIN inbox', Is(inbox'[i], "SRC_REMOVED", r)
      PROVE  IF i > 2 THEN Is(inbox'[i - 2], "SRC_COUNTS", r) ELSE pc' = "drain" /\ ~Asked(r)'
  <2>1. /\ i + 1 \in DOMAIN inbox /\ Is(inbox[i + 1], "SRC_REMOVED", r)
        /\ i \in Nat /\ i >= 1 /\ (i + 1) - 2 = i - 1
    BY <1>1, <1>2
  <2>2. CASE i > 2
    <3>1. Is(inbox[i - 1], "SRC_COUNTS", r)
      BY <2>1, <2>2 DEF Counting, RemovedWithCounts
    <3>2. i - 2 \in 1..(Len(inbox) - 1) /\ (i - 2) + 1 = i - 1
      BY <1>1, <2>2
    <3>3. QED BY <1>1, <2>2, <3>1, <3>2
  <2>3. CASE i = 2
    <3>1. Is(inbox[1], "SRC_COUNTS", r)
      BY <2>1, <2>3 DEF Counting, RemovedWithCounts
    <3>2. QED BY <1>1, <2>3, <3>1
  <2>4. CASE i = 1
    <3>1. ~Asked(r)
      BY <2>1, <2>4 DEF Counting, RemovedWithCounts
    <3>2. QED BY <2>4, <3>1
  <2>5. QED BY <2>1, <2>2, <2>3, <2>4
<1>3. ASSUME Asked(r)' PROVE mapWaitingForCount'[r] = map'[r] \/ Waiting("SRC_COUNTS", r)'
  <2>1. CASE Waiting("SRC_COUNTS", r)
    <3>1. PICK i \in 1..Len(inbox) : Is(inbox[i], "SRC_COUNTS", r)
      BY <1>1, <2>1 DEF Waiting, Is
    <3>2. i # 1
      BY <1>1, <1>3, <3>1
    <3>3. i - 1 \in 1..(Len(inbox) - 1) /\ (i - 1) + 1 = i
      BY <1>1, <3>2
    <3>4. i - 1 \in DOMAIN inbox' /\ inbox'[i - 1] = inbox[i]
      BY <1>1, <3>3
    <3>5. QED BY <3>1, <3>4 DEF Waiting, Is
  <2>2. CASE ~Waiting("SRC_COUNTS", r)
    BY <1>3, <2>2 DEF Counting, CountAwaited
  <2>3. QED BY <2>1, <2>2
<1>4. QED BY <1>2, <1>3 DEF Counting, RemovedWithCounts, CountAwaited

-----------------------------------------------------------------------------
\* Only the update pass asks.
LEMMA AskedByPasses ==
  ASSUME IInv, NEW r \in SrcRefs, Asked(r)',
         UNCHANGED <<heap, map>> \/ RemoveOldSources
  PROVE  Asked(r) /\ map'[r] = map[r]
<1>1. CASE UNCHANGED <<heap, map>>
  BY <1>1 DEF Asked, InTable, Live
<1>2. CASE RemoveOldSources
  BY <1>2 DEF RemoveOldSources, Asked, InTable, Live
<1>3. QED BY <1>1, <1>2

LEMMA AskedByUpdate ==
  ASSUME IInv, NEW r \in SrcRefs, Asked(r)', UpdateWaitForCountsQueue
  PROVE  \/ mapWaitingForCount'[r] = map'[r]
         \/ /\ Asked(r) /\ map'[r] = map[r]
            /\ mapWaitingForCount'[r] = mapWaitingForCount[r]
<1>1. map' = map /\ map[r] # NoObj /\ map[r] \in DOMAIN heap
  BY Opened DEF UpdateWaitForCountsQueue, Asked, InTable, IInv
<1>2. mapWaitingForCount'[r] = IF Due(r) THEN map[r] ELSE mapWaitingForCount[r]
  BY DEF UpdateWaitForCountsQueue
<1>3. CASE Due(r)
  BY <1>1, <1>2, <1>3
<1>4. CASE ~Due(r)
  <2>1. \A q \in SrcRefs : map[q] = map[r] => q = r
    BY <1>1, OwnObjects
  <2>2. ~\E q \in SrcRefs : map[q] = map[r] /\ Due(q)
    BY <1>4, <2>1
  <2>3. heap'[map[r]] = heap[map[r]]
    BY <1>1, <2>2 DEF UpdateWaitForCountsQueue
  <2>4. Asked(r)
    BY <1>1, <2>3 DEF Asked, InTable, Live
  <2>5. QED BY <1>1, <1>2, <1>4, <2>4
<1>5. QED BY <1>3, <1>4

LEMMA AskedByMessage ==
  ASSUME ClientTypeOK, IInv, NEW r \in SrcRefs, ReadNextMessage
  PROVE  /\ mapWaitingForCount' = mapWaitingForCount
         /\ Asked(r)' => Asked(r) /\ map'[r] = map[r] /\ ~Is(Head(inbox), "SRC_COUNTS", r)
<1> DEFINE m == Head(inbox)
           Kept == Asked(r)' => Asked(r) /\ map'[r] = map[r] /\ ~Is(m, "SRC_COUNTS", r)
<1>1. m \in KernelMessage /\ (HandleNotification(m) \/ HandleResponse(m))
  BY DEF ReadNextMessage, ClientTypeOK
<1> HIDE DEF m
<1>2. TypeOK
  BY DEF IInv
<1>3. CASE HandleResponse(m)
  <2>1. UNCHANGED <<heap, map, mapWaitingForCount>> /\ ~Is(m, "SRC_COUNTS", r)
    BY <1>3 DEF HandleResponse, Ignored, tables, Is
  <2>2. QED BY <2>1, AskedByPasses DEF m
<1>4. CASE HandleNotification(m)
  <2> DEFINE q == m.ref
  <2>1. m.type \notin {"SUCCESS", "ERROR", "ENOBUFS"}
    BY <1>4 DEF HandleNotification
  <2>2. q \in SrcRefs /\ m.ports \in PortClass
    BY <1>1, <2>1 DEF KernelMessage, Success, Error, NoBuffers, Message
  <2> HIDE DEF q
  <2>3. CASE m.type = "SRC_ADDED" /\ SrcAdded(q)
    <3>1. ~Is(m, "SRC_COUNTS", r)
      BY <2>3 DEF Is
    <3>2. CASE SrcAddedKnown(q)
      <4>1. UNCHANGED <<heap, map, mapWaitingForCount>>
        BY <3>2 DEF SrcAddedKnown
      <4>2. QED BY <3>1, <4>1, AskedByPasses DEF m
    <3>3. CASE SrcAddedNew(q)
      <4>1. PICK o \in Obj \ DOMAIN heap :
               /\ heap' = [p \in DOMAIN heap \cup {o} |-> IF p = o THEN NewSource(q) ELSE heap[p]]
               /\ map' = [map EXCEPT ![q] = o]
        BY <3>3 DEF SrcAddedNew
      <4>2. /\ heap'[o] = NewSource(q) /\ \A p \in DOMAIN heap : heap'[p] = heap[p]
            /\ map'[q] = o /\ (r # q => map'[r] = map[r])
        BY <1>2, <2>2, <4>1 DEF TypeOK
      <4>3. r = q => ~Asked(r)'
        BY <4>2 DEF Asked, NewSource
      <4>4. r # q /\ Asked(r)' => Asked(r)
        BY <1>2, <4>2, Opened DEF Asked, InTable, Live
      <4>5. mapWaitingForCount' = mapWaitingForCount
        BY <3>3 DEF SrcAddedNew
      <4>6. QED BY <3>1, <4>2, <4>3, <4>4, <4>5 DEF m
    <3>4. QED BY <2>3, <3>2, <3>3 DEF SrcAdded
  <2>4. CASE m.type = "SRC_REMOVED" /\ SrcRemoved(q)
    <3>1. map' = map /\ mapWaitingForCount' = mapWaitingForCount /\ ~Is(m, "SRC_COUNTS", r)
      BY <2>4 DEF SrcRemoved, Is
    <3>2. map[r] \in DOMAIN heap /\ heap'[map[r]].tsRemoved = 0 => heap'[map[r]] = heap[map[r]]
      <4>1. now # 0
        BY <1>2 DEF TypeOK
      <4>2. QED BY <1>2, <2>2, <2>4, <4>1, SrcRemovedFields
    <3>3. Asked(r)' => Asked(r)
      BY <1>2, <3>1, <3>2, Opened DEF Asked, InTable, Live
    <3>4. QED BY <3>1, <3>3 DEF m
  <2>5. CASE m.type = "SRC_DESC" /\ SrcDesc(q, m.ports)
    <3>1. map' = map /\ mapWaitingForCount' = mapWaitingForCount /\ ~Is(m, "SRC_COUNTS", r)
      BY <2>5 DEF SrcDesc, Is
    <3>2. \A o \in DOMAIN heap : /\ heap'[o].tsRemoved = heap[o].tsRemoved
                                 /\ heap'[o].requestedCount = heap[o].requestedCount
      BY <1>2, <2>2, <2>5, SrcDescFields
    <3>3. Asked(r)' => Asked(r)
      BY <1>2, <3>1, <3>2, Opened DEF Asked, InTable, Live
    <3>4. QED BY <3>1, <3>3 DEF m
  <2>6. ASSUME NEW traffic \in BOOLEAN, m.type = "SRC_COUNTS", SrcCounts(q, traffic)
        PROVE  mapWaitingForCount' = mapWaitingForCount /\ Kept
    <3>1. map' = map /\ mapWaitingForCount' = mapWaitingForCount /\ map[q] \in DOMAIN heap
      BY <1>2, <2>2, <2>6, SrcCountsFields DEF SrcCounts
    <3>2. \A o \in DOMAIN heap : /\ heap'[o].tsRemoved = heap[o].tsRemoved
                                 /\ heap'[o].requestedCount => heap[o].requestedCount
      BY <1>2, <2>2, <2>6, SrcCountsFields
    <3>3. Asked(r)' => Asked(r)
      BY <1>2, <3>1, <3>2, Opened DEF Asked, InTable, Live
    <3>4. heap'[map[q]].requestedCount = FALSE
      <4>1. heap' = [heap EXCEPT ![map[q]].tsLastUpdate = now, ![map[q]].requestedCount = FALSE]
        BY <2>6 DEF SrcCounts
      <4>2. heap[map[q]] \in Source
        BY <1>2, <3>1, Opened
      <4>3. heap'[map[q]] = [heap[map[q]] EXCEPT !.tsLastUpdate = now, !.requestedCount = FALSE]
        BY <3>1, <4>1
      <4>4. QED BY <4>2, <4>3 DEF Source
    <3>5. Is(m, "SRC_COUNTS", r) => ~Asked(r)'
      BY <3>1, <3>4 DEF Is, Asked, q
    <3>6. QED BY <3>1, <3>3, <3>5
  <2>7. CASE map[q] = NoObj /\ Ignored
    <3>1. UNCHANGED <<heap, map, mapWaitingForCount>>
      BY <2>7 DEF Ignored, tables
    <3>2. Is(m, "SRC_COUNTS", r) => ~Asked(r)
      BY <2>7 DEF Is, Asked, InTable, q
    <3>3. QED BY <3>1, <3>2, AskedByPasses DEF m
  <2>8. QED BY <1>4, <2>3, <2>4, <2>5, <2>6, <2>7 DEF HandleNotification, q, m
<1>5. QED BY <1>1, <1>3, <1>4

-----------------------------------------------------------------------------
\* Messages arrive of which none takes r away, and the table asks nothing new.
LEMMA CountingKept ==
  ASSUME ClientTypeOK, NEW r, Counting(r),
         NEW msgs \in Seq(KernelMessage), inbox' = inbox \o msgs,
         ~Tells(msgs, "SRC_REMOVED", r),
         pc = "drain" => inbox = <<>> \/ pc' = "drain",
         Asked(r)' => \/ mapWaitingForCount'[r] = map'[r]
                      \/ /\ Asked(r) /\ map'[r] = map[r]
                         /\ \/ mapWaitingForCount'[r] = mapWaitingForCount[r]
                            \/ Tells(msgs, "SRC_COUNTS", r)
                            \/ Waiting("SRC_COUNTS", r),
         pc = "drain" => inbox = <<>> \/ (Asked(r)' => Asked(r))
  PROVE  Counting(r)'
<1>1. inbox \in Seq(KernelMessage)
  BY DEF ClientTypeOK
<1>2. Asked(r)' => \/ mapWaitingForCount'[r] = map'[r]
                   \/ Tells(msgs, "SRC_COUNTS", r)
                   \/ Waiting("SRC_COUNTS", r)
  BY DEF Counting, CountAwaited
<1>3. \A k \in DOMAIN msgs : ~Is(msgs[k], "SRC_REMOVED", r)
  BY DEF Tells
<1>4. QED BY <1>1, <1>2, <1>3, CountingArrives

\* Nothing arrives.
LEMMA CountingQuiet ==
  ASSUME ClientTypeOK, NEW r, Counting(r), inbox' = inbox,
         pc = "drain" => inbox = <<>> \/ pc' = "drain",
         Asked(r)' => \/ pc # "drain" /\ mapWaitingForCount'[r] = map'[r]
                      \/ /\ Asked(r) /\ map'[r] = map[r]
                         /\ mapWaitingForCount'[r] = mapWaitingForCount[r]
  PROVE  Counting(r)'
<1>1. inbox \in Seq(KernelMessage) /\ <<>> \in Seq(KernelMessage)
  BY DEF ClientTypeOK
<1>2. inbox' = inbox \o <<>>
  BY <1>1, ConcatEmptySeq
<1>3. ~Tells(<<>>, "SRC_REMOVED", r)
  BY DEF Tells
<1>4. QED BY <1>1, <1>2, <1>3, CountingKept, Zenon

LEMMA CountingKernel ==
  ASSUME ~Lossy, ClientTypeOK, IInv, NEW r \in SrcRefs, Counting(r), KernelActs
  PROVE  Counting(r)'
<1>1. UNCHANGED <<heap, map, mapWaitingForCount, pc>>
  BY DEF KernelActs, Ignored, tables, runVars
<1>2. Asked(r)' => Asked(r)
  BY <1>1, AskedByPasses
<1>3. inbox \in Seq(KernelMessage)
  BY DEF ClientTypeOK
<1>4. CASE inbox' = inbox
  BY <1>1, <1>2, <1>4, CountingQuiet
<1>5. ASSUME NEW q \in SrcRefs, OpenSource(q), Reported(q) PROVE Counting(r)'
  <2>1. inbox' = inbox \o <<Added(q)>>
    BY <1>5, Arrives DEF OpenSource
  <2>2. Added(q) \in KernelMessage /\ Added(q).type = "SRC_ADDED"
    BY MessageTypes DEF Added, Message
  <2>3. <<Added(q)>> \in Seq(KernelMessage) /\ ~Tells(<<Added(q)>>, "SRC_REMOVED", r)
    BY <2>2 DEF Tells, Is
  <2>4. QED BY <1>1, <1>2, <2>1, <2>3, CountingKept, Zenon
<1>6. ASSUME NEW q \in SrcRefs, CloseSource(q), Reported(q) PROVE Counting(r)'
  <2> DEFINE c == Counts(q)
             d == Desc(q, socket[q])
             m == Removed(q)
             a == Added(q)
  <2>1. socket[q] \in PortClass
    BY <1>6 DEF ClientTypeOK, CloseSource, Open
  <2>2. /\ a \in KernelMessage /\ a.type = "SRC_ADDED" /\ a.ref = q
        /\ c \in KernelMessage /\ c.type = "SRC_COUNTS" /\ c.ref = q
        /\ d \in KernelMessage /\ d.type = "SRC_DESC" /\ d.ref = q
        /\ m \in KernelMessage /\ m.type = "SRC_REMOVED" /\ m.ref = q
    BY <2>1, MessageTypes DEF Added, Counts, Desc, Removed, Message
  <2>3. inbox' = inbox \o <<c, d, m>> \/ inbox' = inbox \o (<<a>> \o <<c, d, m>>)
    BY <1>6, Arrives DEF CloseSource
  <2> HIDE DEF a, c, d, m
  <2>4. <<a>> \o <<c, d, m>> = <<a, c, d, m>>
    BY <2>2, OneAndThree
  <2>5. PICK msgs \in {<<c, d, m>>, <<a, c, d, m>>} : inbox' = inbox \o msgs
    BY <2>3, <2>4, Zenon
  <2>6. CASE msgs = <<c, d, m>>
    <3>1. msgs \in Seq(KernelMessage) /\ DOMAIN msgs = 1..3
          /\ msgs[1] = c /\ msgs[2] = d /\ msgs[3] = m
      BY <2>2, <2>6
    <3>2. ASSUME NEW k \in DOMAIN msgs, Is(msgs[k], "SRC_REMOVED", r)
          PROVE  k > 2 /\ Is(msgs[k - 2], "SRC_COUNTS", r)
      <4>1. k = 3 /\ k - 2 = 1
        BY <2>2, <3>1, <3>2 DEF Is
      <4>2. QED BY <2>2, <3>1, <3>2, <4>1 DEF Is
    <3>3. QED BY <1>1, <1>2, <1>3, <2>5, <3>1, <3>2, CountingArrives DEF Counting, CountAwaited
  <2>7. CASE msgs = <<a, c, d, m>>
    <3>1. msgs \in Seq(KernelMessage) /\ DOMAIN msgs = 1..4
          /\ msgs[1] = a /\ msgs[2] = c /\ msgs[3] = d /\ msgs[4] = m
      BY <2>2, <2>7
    <3>2. ASSUME NEW k \in DOMAIN msgs, Is(msgs[k], "SRC_REMOVED", r)
          PROVE  k > 2 /\ Is(msgs[k - 2], "SRC_COUNTS", r)
      <4>1. k = 4 /\ k - 2 = 2
        BY <2>2, <3>1, <3>2 DEF Is
      <4>2. QED BY <2>2, <3>1, <3>2, <4>1 DEF Is
    <3>3. QED BY <1>1, <1>2, <1>3, <2>5, <3>1, <3>2, CountingArrives DEF Counting, CountAwaited
  <2>8. QED BY <2>5, <2>6, <2>7
<1>7. QED BY <1>4, <1>5, <1>6 DEF KernelActs, KernelStep, OpenSource, CloseSource, MovePorts

\* A source that has closed before its counts were requested still has them.
LEMMA ClosedIsCounted ==
  ASSUME ClientTypeOK, NEW r \in SrcRefs, Session(r), RemovedWithCounts(r),
         pc # "drain", ~Open(r), Asked(r)
  PROVE  Waiting("SRC_COUNTS", r)
<1>1. InTable(r) /\ ~Believed(r)
  BY DEF Asked, Session
<1>2. PICK i \in DOMAIN inbox : Is(inbox[i], "SRC_REMOVED", r)
  BY <1>1 DEF Believed, Waiting, Is
<1>3. i > 2 /\ Is(inbox[i - 2], "SRC_COUNTS", r)
  BY <1>2 DEF RemovedWithCounts
<1>4. i - 2 \in DOMAIN inbox
  BY <1>3 DEF ClientTypeOK
<1>5. QED BY <1>3, <1>4 DEF Waiting, Is

\* What a request is answered with takes no source away.
LEMMA ServeTells ==
  ASSUME ~Lossy, ClientTypeOK, NEW r \in SrcRefs, NEW req, Serve(req),
         \/ \E provider : req = AddAllSrcs(provider)
         \/ \E q \in SrcRefs : req = GetSrcDesc(q) \/ req = QuerySrc(q)
  PROVE  \E msgs \in Seq(KernelMessage) :
            /\ inbox' = inbox \o msgs
            /\ ~Tells(msgs, "SRC_REMOVED", r)
            /\ req = QuerySrc(r) /\ Open(r) => Tells(msgs, "SRC_COUNTS", r)
<1> DEFINE Goal == \E msgs \in Seq(KernelMessage) :
                      /\ inbox' = inbox \o msgs
                      /\ ~Tells(msgs, "SRC_REMOVED", r)
                      /\ req = QuerySrc(r) /\ Open(r) => Tells(msgs, "SRC_COUNTS", r)
<1>1. /\ Success \in KernelMessage /\ Success.type = "SUCCESS"
      /\ Error \in KernelMessage /\ Error.type = "ERROR"
  BY MessageTypes DEF Success, Error, Message
<1>2. <<Error>> \in Seq(KernelMessage) /\ ~Tells(<<Error>>, "SRC_REMOVED", r)
  BY <1>1 DEF Tells, Is
<1>3. CASE \E provider : req = AddAllSrcs(provider)
  <2>1. PICK provider : req = AddAllSrcs(provider)
    BY <1>3
  <2>2. req.type = "ADD_ALL_SRCS" /\ req # QuerySrc(r)
    BY <2>1 DEF AddAllSrcs, QuerySrc, Request
  <2>3. Subscribe(req.provider)
    BY <2>2 DEF Serve
  <2>4. CASE Answer(<<Error>>)
    BY <1>2, <2>2, <2>4, Arrives
  <2>5. ASSUME NEW list \in Listings(Existing(req.provider)),
               Answer([i \in DOMAIN list |-> Added(list[i])] \o <<Success>>)
        PROVE  Goal
    <3> DEFINE n == Cardinality(Existing(req.provider))
               reports == [i \in DOMAIN list |-> Added(list[i])]
               msgs == reports \o <<Success>>
    <3>1. n \in Nat /\ list \in [1..n -> SrcRefs]
      BY ListingIsComplete, Zenon
    <3> HIDE DEF n
    <3>2. inbox' = inbox \o msgs
      BY <2>5, Arrives
    <3>3. reports = [i \in 1..n |-> Added(list[i])] /\ reports \in Seq(KernelMessage)
      BY <3>1, MessageTypes
    <3> HIDE DEF reports
    <3>4. /\ msgs \in Seq(KernelMessage) /\ DOMAIN msgs = 1..(n + 1) /\ msgs[n + 1] = Success
          /\ \A i \in 1..n : msgs[i] = Added(list[i])
      <4>1. Len(reports) = n
        BY <3>1, <3>3
      <4>2. QED BY <1>1, <3>1, <3>3, <4>1
    <3> HIDE DEF msgs
    <3>5. \A i \in 1..n : Added(list[i]).type = "SRC_ADDED"
      BY DEF Added, Message
    <3>6. \A i \in DOMAIN msgs : i \in 1..n \/ i = n + 1
      BY <3>1, <3>4
    <3>7. ~Tells(msgs, "SRC_REMOVED", r)
      BY <1>1, <3>4, <3>5, <3>6 DEF Tells, Is
    <3>8. QED BY <2>2, <3>2, <3>4, <3>7
  <2>6. QED BY <2>3, <2>4, <2>5 DEF Subscribe
<1>4. ASSUME NEW q \in SrcRefs, req = GetSrcDesc(q) PROVE Goal
  <2> DEFINE d == Desc(q, socket[q])
  <2>1. Describe(q) /\ req # QuerySrc(r)
    BY <1>4 DEF Serve, GetSrcDesc, QuerySrc, Request
  <2>2. CASE Open(q)
    <3>1. d \in KernelMessage /\ d.type = "SRC_DESC" /\ Data(d)
      BY <2>1, <2>2, MessageTypes DEF Open, ClientTypeOK, Desc, Message, Describe
    <3> HIDE DEF d
    <3>2. QED BY <2>1, <3>1, DataTells
  <2>3. CASE ~Open(q)
    BY <1>2, <2>1, <2>3, Arrives DEF Describe
  <2>4. QED BY <2>2, <2>3
<1>5. ASSUME NEW q \in SrcRefs, req = QuerySrc(q) PROVE Goal
  <2> DEFINE c == Counts(q)
  <2>1. Count(q) /\ (req = QuerySrc(r) => q = r)
    BY <1>5 DEF Serve, QuerySrc, Request
  <2>2. c \in KernelMessage /\ c.type = "SRC_COUNTS" /\ c.ref = q
    BY MessageTypes DEF Counts, Message
  <2>3. CASE Open(q)
    <3>1. Data(c)
      BY <2>1, <2>3 DEF Count
    <3> HIDE DEF c
    <3>2. PICK msgs \in Seq(KernelMessage) :
              /\ inbox' = inbox \o msgs
              /\ ~Tells(msgs, "SRC_REMOVED", r)
              /\ \E i \in DOMAIN msgs : msgs[i] = c
      BY <2>2, <3>1, DataTells
    <3>3. q = r => Tells(msgs, "SRC_COUNTS", r)
      BY <2>2, <3>2 DEF Tells, Is
    <3>4. QED BY <2>1, <3>2, <3>3
  <2>4. CASE ~Open(q)
    BY <1>2, <2>1, <2>4, Arrives DEF Count
  <2>5. QED BY <2>3, <2>4
<1>6. QED BY <1>3, <1>4, <1>5

LEMMA CountingSend ==
  ASSUME ~Lossy, ClientTypeOK, IInv, NEW r \in SrcRefs, Session(r), Counting(r), SendNextMsg
  PROVE  Counting(r)'
<1>1. pc = "send" /\ pc' = "drain" /\ UNCHANGED <<heap, map>>
  BY DEF SendNextMsg, SendQueued, SendGetSrcDesc, SendQuerySrc, SendNothing, Ignored, tables,
         TakeWaitingForDesc, TakeWaitingForCount
<1>2. Asked(r)' => Asked(r)
  BY <1>1, AskedByPasses
<1>3. ASSUME NEW req, Serve(req), mapWaitingForCount' = mapWaitingForCount,
             \/ \E provider : req = AddAllSrcs(provider)
             \/ \E q \in SrcRefs : req = GetSrcDesc(q)
      PROVE  Counting(r)'
  <2>1. PICK msgs \in Seq(KernelMessage) :
            inbox' = inbox \o msgs /\ ~Tells(msgs, "SRC_REMOVED", r)
    BY <1>3, ServeTells
  <2>2. QED BY <1>1, <1>2, <1>3, <2>1, CountingKept
<1>4. CASE SendQueued
  <2>1. Serve(Head(outq)) /\ outq \in Seq({AddAllSrcs("tcp"), AddAllSrcs("udp")}) /\ outq # <<>>
    BY <1>4 DEF SendQueued, ClientTypeOK
  <2>2. Head(outq) \in {AddAllSrcs("tcp"), AddAllSrcs("udp")}
    BY <2>1
  <2>3. mapWaitingForCount' = mapWaitingForCount
    BY <1>4 DEF SendQueued, Ignored, tables
  <2>4. QED BY <1>3, <2>1, <2>2, <2>3
<1>5. CASE SendGetSrcDesc
  BY <1>3, <1>5 DEF SendGetSrcDesc, TakeWaitingForDesc
<1>6. CASE SendNothing
  BY <1>1, <1>2, <1>6, CountingQuiet DEF SendNothing, kernelVars, Ignored, tables
<1>7. CASE SendQuerySrc
  <2>1. PICK q \in SrcRefs :
           /\ TakeWaitingForCount(q)
           /\ IF StillWanted(mapWaitingForCount[q])
              THEN Serve(QuerySrc(q)) ELSE UNCHANGED kernelVars
    BY <1>7 DEF SendQuerySrc
  <2>2. mapWaitingForCount \in [SrcRefs -> Pointer]
    BY DEF IInv, TypeOK
  <2>3. r # q => mapWaitingForCount'[r] = mapWaitingForCount[r]
    BY <2>1, <2>2 DEF TakeWaitingForCount
  <2>4. Asked(r) /\ r = q /\ ~Waiting("SRC_COUNTS", r) => Open(r) /\ StillWanted(mapWaitingForCount[q])
    <3>1. Asked(r) /\ ~Waiting("SRC_COUNTS", r) => Open(r)
      BY <1>1, ClosedIsCounted DEF Counting
    <3>2. Asked(r) /\ ~Waiting("SRC_COUNTS", r) => StillWanted(mapWaitingForCount[r])
      BY DEF Counting, CountAwaited, StillWanted, Asked, InTable
    <3>3. QED BY <3>1, <3>2
  <2>5. CASE StillWanted(mapWaitingForCount[q])
    <3>1. PICK msgs \in Seq(KernelMessage) :
              /\ inbox' = inbox \o msgs
              /\ ~Tells(msgs, "SRC_REMOVED", r)
              /\ q = r /\ Open(r) => Tells(msgs, "SRC_COUNTS", r)
      BY <2>1, <2>5, ServeTells
    <3>2. QED BY <1>1, <1>2, <2>3, <2>4, <3>1, CountingKept
  <2>6. CASE ~StillWanted(mapWaitingForCount[q])
    <3>1. inbox' = inbox /\ inbox \in Seq(KernelMessage) /\ <<>> \in Seq(KernelMessage)
      BY <2>1, <2>6 DEF kernelVars, ClientTypeOK
    <3>2. inbox' = inbox \o <<>> /\ ~Tells(<<>>, "SRC_REMOVED", r)
      BY <3>1, ConcatEmptySeq DEF Tells
    <3>3. QED BY <1>1, <1>2, <2>3, <2>4, <2>6, <3>1, <3>2, CountingKept
  <2>7. QED BY <2>5, <2>6
<1>8. QED BY <1>4, <1>5, <1>6, <1>7 DEF SendNextMsg

LEMMA CountingStep ==
  ASSUME ~Lossy, MaxRuns <= 1, ClientTypeOK, IInv, QueueInv, NEW r \in SrcRefs,
         Session(r), Counting(r), [ClientNext]_vars
  PROVE  Counting(r)'
<1>1. CASE StartRun
  <2>1. UNCHANGED <<heap, map, mapWaitingForCount, inbox>> /\ pc # "drain"
    BY <1>1 DEF StartRun, kernelVars, Ignored, tables
  <2>2. QED BY <2>1, AskedByPasses, CountingQuiet
<1>2. CASE Cleanup
  <2>1. UNCHANGED <<mapWaitingForCount, inbox>> /\ pc # "drain"
    BY <1>2 DEF Cleanup, kernelVars, RemoveOldSources, Ignored, tables
  <2>2. RemoveOldSources \/ UNCHANGED <<heap, map>>
    BY <1>2 DEF Cleanup, Ignored, tables
  <2>3. QED BY <2>1, <2>2, AskedByPasses, CountingQuiet
<1>3. CASE Update
  <2>1. inbox' = inbox /\ pc # "drain"
    BY <1>3 DEF Update, kernelVars
  <2>2. CASE UpdateWaitForCountsQueue
    BY <2>1, <2>2, AskedByUpdate, CountingQuiet
  <2>3. CASE UNCHANGED <<heap, map, mapWaitingForCount>>
    BY <2>1, <2>3, AskedByPasses, CountingQuiet
  <2>4. QED BY <1>3, <2>2, <2>3 DEF Update, Ignored, tables
<1>4. CASE SendNextMsg
  BY <1>4, CountingSend
<1>5. CASE ReadNextMessage
  <2>1. /\ inbox \in Seq(KernelMessage) /\ inbox # <<>> /\ inbox' = Tail(inbox)
        /\ pc = "drain" /\ pc' = "drain"
    BY <1>5 DEF ReadNextMessage, ClientTypeOK
  <2>2. QED BY <1>5, <2>1, AskedByMessage, CountingRead
<1>6. CASE Drained
  <2>1. UNCHANGED <<heap, map, mapWaitingForCount, inbox>> /\ inbox = <<>>
    BY <1>6 DEF Drained, kernelVars, Ignored, tables
  <2>2. QED BY <2>1, AskedByPasses, CountingQuiet
<1>7. CASE KernelActs
  BY <1>7, CountingKernel
<1>8. CASE Tick
  <2>1. UNCHANGED <<heap, map, mapWaitingForCount, inbox, pc>>
    BY <1>8 DEF Tick, ClockStep, kernelVars, runVars, tables
  <2>2. QED BY <2>1, AskedByPasses, CountingQuiet
<1>9. CASE UNCHANGED vars
  <2>1. UNCHANGED <<heap, map, mapWaitingForCount, inbox, pc>>
    BY <1>9 DEF vars, sourcesVars, tables, kernelVars, runVars
  <2>2. QED BY <2>1, AskedByPasses, CountingQuiet
<1>10. ~EndRun
  <2>1. EndRun => pc = "cleanup" /\ runs < MaxRuns
    BY DEF EndRun
  <2>2. pc = "cleanup" => runs >= 1 /\ runs \in Nat
    BY DEF QueueInv
  <2>3. QED BY <2>1, <2>2, ClientAssumption
<1>11. QED
  BY <1>1, <1>2, <1>3, <1>4, <1>5, <1>6, <1>7, <1>8, <1>9, <1>10
  DEF ClientNext, RunLoop

LEMMA CountingInit == ASSUME ClientInit, NEW r \in SrcRefs PROVE Counting(r)
<1>1. inbox = <<>> /\ map[r] = NoObj
  BY DEF ClientInit, KernelInit, Init
<1>2. DOMAIN inbox = {} /\ ~Asked(r)
  BY <1>1 DEF Asked, InTable
<1>3. QED BY <1>2 DEF Counting, RemovedWithCounts, CountAwaited

CountsRemembered == \A r \in SrcRefs : Counting(r)

(* And no count that was asked for is forgotten, although the request is    *)
(* erased when it is sent and may then find that the source is gone: the    *)
(* kernel's last counts of that source wait in the socket already.          *)
THEOREM EveryCountIsAwaited ==
  ASSUME ~Lossy, MaxRuns <= 1
  PROVE  ClientSpec => []NoCountForgotten
<1>1. ClientInit => CountsRemembered
  BY CountingInit DEF CountsRemembered
<1>2. /\ ClientTypeOK /\ IInv /\ QueueInv /\ Sessions /\ CountsRemembered
      /\ [ClientNext]_vars
      => CountsRemembered'
  BY CountingStep DEF CountsRemembered, Sessions
<1>3. CountsRemembered => NoCountForgotten
  BY DEF CountsRemembered, Counting, CountAwaited, Asked, NoCountForgotten
<1>4. ClientSpec => []QueueInv
  <2>1. ClientInit => QueueInv
    BY DEF ClientInit, QueueInv
  <2>2. QED BY <2>1, QueueStep, ClientTypeCorrect, PTL DEF ClientSpec
<1>5. QED
  BY <1>1, <1>2, <1>3, <1>4, SessionInvariance, ClientTypeCorrect,
     ClientImplementsSources, Invariance, PTL
  DEF ClientSpec
=============================================================================
