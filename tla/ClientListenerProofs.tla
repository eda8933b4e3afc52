------------------------ MODULE ClientListenerProofs ------------------------
(***************************************************************************)
(* The calls the client makes are the calls an application may expect:     *)
(* ClientSpec implements StreamListener, for a kernel that always knows a  *)
(* port of what it describes, and that hands out each reference once or    *)
(* drops no message.  run() may be called as often as one likes.           *)
(***************************************************************************)
EXTENDS ClientSessionProofs

(* What the table, the application and the fields of an object agree on: a  *)
(* source was announced once it is described, and withdrawn once removed.   *)
Told(o) ==
    /\ heap[o].haveDesc <=> o \in announced
    /\ heap[o].haveNotifiedAdded <=> o \in announced
    /\ heap[o].ports = "none" <=> o \notin announced
    /\ o \in withdrawn <=> o \in announced /\ ~Live(o)

Story == \A o \in DOMAIN heap : Told(o)

\* A call and what the application knows of after it, or no call.
Expected == [Listener!Next]_<<Up, LastEvent>>

-----------------------------------------------------------------------------
LEMMA NothingTold ==
  ASSUME callback' = NoCall, Up' = Up
  PROVE  Expected
BY DEF Expected, NoCall, LastEvent, Listener!Next, Listener!NoCallback, Listener!Quiet

\* A step that leaves what Story is about alone, and makes no call.
LEMMA SilentStep ==
  ASSUME TypeOK, Story, Silent, DOMAIN heap' = DOMAIN heap,
         \A o \in DOMAIN heap :
            /\ heap'[o].srcRef = heap[o].srcRef
            /\ heap'[o].ports = heap[o].ports
            /\ heap'[o].tsRemoved = heap[o].tsRemoved
            /\ heap'[o].haveDesc = heap[o].haveDesc
            /\ heap'[o].haveNotifiedAdded = heap[o].haveNotifiedAdded
  PROVE  Story' /\ Expected
<1>1. Story'
  BY DEF Story, Told, Live, Silent
<1>2. Up' = Up
  BY Opened DEF Up, Silent
<1>3. QED BY <1>1, <1>2, NothingTold DEF Silent

LEMMA AddedNewStep ==
  ASSUME TypeOK, Story, NEW r \in SrcRefs, SrcAddedNew(r)
  PROVE  Story' /\ Expected
<1> USE Opened
<1>1. PICK o \in Obj \ DOMAIN heap :
         heap' = [p \in DOMAIN heap \cup {o} |-> IF p = o THEN NewSource(r) ELSE heap[p]]
  BY DEF SrcAddedNew
<1>2. /\ DOMAIN heap' = DOMAIN heap \cup {o}
      /\ heap'[o] = NewSource(r)
      /\ \A p \in DOMAIN heap : heap'[p] = heap[p]
  BY <1>1
<1>3. announced' = announced /\ withdrawn' = withdrawn /\ callback' = NoCall
  BY DEF SrcAddedNew, Silent
<1>4. o \notin announced /\ o \notin withdrawn
  BY <1>1 DEF TypeOK
<1>5. Story'
  BY <1>2, <1>3, <1>4 DEF Story, Told, Live, NewSource
<1>6. Up' = Up
  BY <1>2, <1>3 DEF Up
<1>7. QED BY <1>3, <1>5, <1>6, NothingTold

\* The streams the application knows of are live, and in the table.
LEMMA UpIsLive ==
  ASSUME TypeOK, LiveSourcesAreInTable, Story, NEW r \in SrcRefs
  PROVE  /\ \A o \in announced \ withdrawn :
               /\ o \in DOMAIN heap
               /\ Live(o)
               /\ heap[o].srcRef = r => map[r] = o
         /\ r \in Up => map[r] \in announced \ withdrawn
<1> USE Opened
<1>1. ASSUME NEW o \in announced \ withdrawn
      PROVE  o \in DOMAIN heap /\ Live(o) /\ (heap[o].srcRef = r => map[r] = o)
  BY DEF Story, Told, LiveSourcesAreInTable
<1>2. QED BY <1>1 DEF Up

(* A description announces the source it is the first of.                   *)
LEMMA DescStep ==
  ASSUME TypeOK, Pointers, LiveSourcesAreInTable, Story, NEW r \in SrcRefs,
         NEW ports \in PortClass \ {"none"}, SrcDesc(r, ports), Live(map[r])
  PROVE  Story' /\ Expected
<1> USE Opened
<1>0. PICK o \in DOMAIN heap : o = map[r]
  BY DEF SrcDesc
<1>1. heap[o] \in Source /\ heap[o].srcRef = r /\ o # NoObj
  BY <1>0 DEF SrcDesc, Pointers, PointsHome
<1>2. /\ DOMAIN heap' = DOMAIN heap
      /\ \A p \in DOMAIN heap :
            /\ heap'[p].srcRef = heap[p].srcRef
            /\ heap'[p].tsRemoved = heap[p].tsRemoved
            /\ p # o => heap'[p] = heap[p]
      /\ heap'[o].haveDesc /\ heap'[o].haveNotifiedAdded
  BY <1>0, SrcDescFields
<1>3. heap'[o].ports = ports
  <2>1. heap'[o] = [heap[o] EXCEPT !.ports = ports, !.haveDesc = TRUE,
                                   !.haveNotifiedAdded = TRUE]
    BY <1>0 DEF TypeOK, SrcDesc
  <2>2. QED BY <1>1, <2>1 DEF Source
<1>4. heap[o].haveNotifiedAdded <=> o \in announced
  BY DEF Story, Told
<1>5. IF o \in announced
      THEN callback' = NoCall /\ UNCHANGED <<announced, withdrawn>>
      ELSE /\ callback' = Call("added", o)
           /\ announced' = announced \cup {o}
           /\ withdrawn' = withdrawn
  <2>1. heap[o].haveNotifiedAdded = (o \in announced)
    BY <1>1, <1>4 DEF Source
  <2>2. ports # "none"
    OBVIOUS
  <2>3. IF heap[o].haveNotifiedAdded
        THEN Silent
        ELSE /\ callback' = Call("added", o)
             /\ announced' = announced \cup {o}
             /\ UNCHANGED withdrawn
    BY <1>0, <2>2 DEF SrcDesc
  <2>4. QED BY <2>1, <2>3 DEF Silent
<1>6. Live(o) /\ o \notin withdrawn
  BY <1>0 DEF Story, Told
<1>7. ASSUME NEW p \in DOMAIN heap PROVE Told(p)'
  <2>1. CASE p = o
    BY <1>2, <1>3, <1>5, <1>6, <2>1 DEF Told, Live
  <2>2. CASE p # o
    BY <1>2, <1>5, <2>2 DEF Story, Told, Live
  <2>3. QED BY <2>1, <2>2
<1>8. Story'
  BY <1>2, <1>7 DEF Story
<1>9. CASE o \in announced
  <2>1. callback' = NoCall
    BY <1>5, <1>9
  <2>2. Up' = Up
    BY <1>2, <1>5, <1>9 DEF Up
  <2>3. QED BY <1>8, <2>1, <2>2, NothingTold
<1>10. CASE o \notin announced
  <2>1. callback' = Call("added", o)
    BY <1>5, <1>10
  <2>2. r \notin Up
    BY <1>0, <1>10, UpIsLive
  <2>3. Up' = Up \cup {r}
    BY <1>1, <1>2, <1>5, <1>6, <1>10 DEF Up
  <2>4. LastEvent' = Listener!Event("added", r)
    BY <1>1, <1>2, <2>1 DEF LastEvent, Call, Listener!Event
  <2>5. QED BY <1>8, <2>2, <2>3, <2>4 DEF Expected, Listener!Next, Listener!OnStreamAdded
<1>11. QED BY <1>9, <1>10

(* A removal withdraws a source that was described, and no other.           *)
LEMMA RemovedStep ==
  ASSUME TypeOK, Pointers, LiveSourcesAreInTable, Story, NEW r \in SrcRefs,
         SrcRemoved(r), Live(map[r])
  PROVE  Story' /\ Expected
<1> USE Opened, SrcRemovedFields
<1>0. PICK o \in DOMAIN heap : o = map[r]
  BY DEF SrcRemoved
<1>1. heap[o].srcRef = r
  BY <1>0 DEF SrcRemoved, Pointers, PointsHome
<1>2. heap[o].ports = "none" <=> o \notin announced
  BY <1>1 DEF Story, Told
<1>3. /\ announced' = announced
      /\ withdrawn' = IF o \in announced THEN withdrawn \cup {o} ELSE withdrawn
  <2>1. CASE o \in announced
    BY <1>0, <1>2, <2>1 DEF SrcRemoved
  <2>2. CASE o \notin announced
    BY <1>0, <1>2, <2>2 DEF SrcRemoved, Silent
  <2>3. QED BY <2>1, <2>2
<1>4. ~Live(o)'
  BY <1>0 DEF Live
<1>5. ASSUME NEW p \in DOMAIN heap PROVE Told(p)'
  <2>1. CASE p = o
    BY <1>0, <1>3, <1>4, <2>1 DEF Story, Told, Live
  <2>2. CASE p # o
    BY <1>0, <1>3, <2>2 DEF Story, Told, Live
  <2>3. QED BY <2>1, <2>2
<1>6. Story'
  BY <1>5 DEF Story
<1>7. CASE o \notin announced
  <2>1. callback' = NoCall
    BY <1>0, <1>2, <1>7 DEF SrcRemoved, Silent
  <2>2. Up' = Up
    BY <1>3, <1>7 DEF Up
  <2>3. QED BY <1>6, <2>1, <2>2, NothingTold
<1>8. CASE o \in announced
  <2>1. callback' = Call("removed", o)
    BY <1>0, <1>2, <1>8 DEF SrcRemoved
  <2>2. r \in Up
    BY <1>0, <1>1, <1>8 DEF Up, Story, Told
  <2>3. Up' = Up \ {r}
    <3>1. \A p \in announced \ withdrawn : heap[p].srcRef = r => p = o
      BY <1>0, UpIsLive
    <3>2. announced' \ withdrawn' = (announced \ withdrawn) \ {o}
      BY <1>3, <1>8
    <3>3. QED BY <1>1, <3>1, <3>2 DEF Up
  <2>4. LastEvent' = Listener!Event("removed", r)
    BY <1>1, <2>1 DEF LastEvent, Call, Listener!Event
  <2>5. QED BY <1>6, <2>2, <2>3, <2>4 DEF Expected, Listener!Next, Listener!OnStreamRemoved
<1>9. QED BY <1>7, <1>8

(* Counts are only told of a stream the application knows.                  *)
LEMMA CountsStep ==
  ASSUME TypeOK, Pointers, Story, NEW r \in SrcRefs, NEW traffic \in BOOLEAN,
         SrcCounts(r, traffic), Live(map[r])
  PROVE  Story' /\ Expected
<1> USE Opened, SrcCountsFields
<1>0. PICK o \in DOMAIN heap : o = map[r]
  BY DEF SrcCounts
<1>1. heap[o].srcRef = r
  BY <1>0 DEF SrcCounts, Pointers, PointsHome
<1>2. announced' = announced /\ withdrawn' = withdrawn
  BY DEF SrcCounts
<1>3. Story'
  BY <1>2 DEF Story, Told, Live
<1>4. Up' = Up
  BY <1>2 DEF Up
<1>5. CASE callback' = NoCall
  BY <1>3, <1>4, <1>5, NothingTold
<1>6. CASE callback' # NoCall
  <2>1. callback' = Call("stats", o) /\ heap[o].haveDesc
    BY <1>0, <1>6 DEF SrcCounts
  <2>2. r \in Up
    BY <1>0, <1>1, <2>1 DEF Up, Story, Told
  <2>3. LastEvent' = Listener!Event("stats", r)
    BY <1>1, <2>1 DEF LastEvent, Call, Listener!Event
  <2>4. QED BY <1>3, <1>4, <2>2, <2>3
            DEF Expected, Listener!Next, Listener!OnStreamStatsUpdate
<1>7. QED BY <1>5, <1>6

-----------------------------------------------------------------------------
(* What the listener's contract rests on, of the kernel: the message read   *)
(* is not about a source that was removed before, and descriptions have     *)
(* ports.                                                                   *)
Notifications == {"SRC_ADDED", "SRC_REMOVED", "SRC_DESC", "SRC_COUNTS"}

About(m, r) == m.type \in Notifications /\ m.ref = r

NotTooLate ==
    \A r \in SrcRefs :
        /\ inbox # <<>>
        /\ About(Head(inbox), r)
        /\ map[r] # NoObj
        => Head(inbox).type = "SRC_ADDED" \/ Live(map[r])

PortedMessage == {m \in KernelMessage : m.type = "SRC_DESC" => m.ports # "none"}

Ported ==
    /\ \A r \in SrcRefs : socket[r] # "none"
    /\ inbox \in Seq(PortedMessage)

LEMMA IgnoredStep == ASSUME TypeOK, Story, Ignored PROVE Story' /\ Expected
BY SilentStep DEF Ignored, tables

LEMMA NotificationStep ==
  ASSUME ClientTypeOK, IInv, Story, Ported, NotTooLate, inbox # <<>>,
         HandleNotification(Head(inbox))
  PROVE  Story' /\ Expected
<1> DEFINE m == Head(inbox)
           r == m.ref
<1>1. m \in KernelMessage /\ m = inbox[1] /\ 1 \in DOMAIN inbox
  BY DEF ClientTypeOK
<1>2. m.type \in Notifications
  BY DEF HandleNotification, Notifications
<1>3. r \in SrcRefs /\ m.ports \in PortClass
  BY <1>1, <1>2 DEF KernelMessage, Success, Error, NoBuffers, Message, Notifications
<1>4. map[r] # NoObj => m.type = "SRC_ADDED" \/ Live(map[r])
  BY <1>2, <1>3 DEF NotTooLate, About
<1>5. m.type = "SRC_DESC" => m.ports # "none"
  BY <1>1 DEF Ported, PortedMessage
<1> HIDE DEF m
<1> USE DEF IInv
<1>6. CASE SrcAddedKnown(r)
  BY <1>6, SilentStep DEF SrcAddedKnown
<1>7. CASE SrcAddedNew(r)
  BY <1>3, <1>7, AddedNewStep
<1>8. CASE m.type = "SRC_REMOVED" /\ SrcRemoved(r)
  BY <1>3, <1>4, <1>8, RemovedStep DEF SrcRemoved
<1>9. CASE m.type = "SRC_DESC" /\ SrcDesc(r, m.ports)
  BY <1>3, <1>4, <1>5, <1>9, DescStep DEF SrcDesc
<1>10. ASSUME NEW traffic \in BOOLEAN, m.type = "SRC_COUNTS", SrcCounts(r, traffic)
       PROVE  Story' /\ Expected
  BY <1>3, <1>4, <1>10, CountsStep DEF SrcCounts
<1>11. CASE Ignored
  BY <1>11, IgnoredStep
<1>12. HandleNotification(m)
  BY DEF m
<1>13. QED
  BY <1>6, <1>7, <1>8, <1>9, <1>10, <1>11, <1>12 DEF HandleNotification, SrcAdded

(* Whatever else the client does, it makes no call.                         *)
LEMMA StoryStep ==
  ASSUME ClientTypeOK, IInv, Story, Ported, NotTooLate, [ClientNext]_vars
  PROVE  Story' /\ Expected
<1> USE DEF IInv
<1>1. CASE ReadNextMessage
  <2>1. CASE HandleNotification(Head(inbox))
    BY <1>1, <2>1, NotificationStep DEF ReadNextMessage
  <2>2. CASE HandleResponse(Head(inbox))
    BY <2>2, IgnoredStep DEF HandleResponse
  <2>3. QED BY <1>1, <2>1, <2>2 DEF ReadNextMessage
<1>2. CASE Cleanup
  <2>1. CASE RemoveOldSources
    BY <2>1, SilentStep DEF RemoveOldSources
  <2>2. QED BY <1>2, <2>1, IgnoredStep DEF Cleanup
<1>3. CASE Update
  <2>1. CASE UpdateWaitForCountsQueue
    BY <2>1, SilentStep, UpdateFields DEF UpdateWaitForCountsQueue
  <2>2. QED BY <1>3, <2>1, IgnoredStep DEF Update
<1>4. CASE SendNextMsg
  <2>1. ASSUME NEW r \in SrcRefs, TakeWaitingForDesc(r) \/ TakeWaitingForCount(r)
        PROVE  Story' /\ Expected
    BY <2>1, SilentStep DEF TakeWaitingForDesc, TakeWaitingForCount
  <2>2. QED BY <1>4, <2>1, IgnoredStep
            DEF SendNextMsg, SendQueued, SendGetSrcDesc, SendQuerySrc, SendNothing
<1>5. CASE StartRun \/ Drained \/ EndRun \/ KernelActs
  BY <1>5, IgnoredStep DEF StartRun, Drained, EndRun, KernelActs
<1>6. CASE Tick
  BY <1>6, SilentStep DEF Tick, ClockStep, tables
<1>7. CASE UNCHANGED vars
  <2>1. UNCHANGED <<heap, announced, withdrawn, callback>>
    BY <1>7 DEF vars, sourcesVars, tables
  <2>2. Story'
    BY <2>1 DEF Story, Told, Live
  <2>3. Up' = Up /\ LastEvent' = LastEvent
    BY <2>1 DEF Up, LastEvent
  <2>4. QED BY <2>2, <2>3 DEF Expected
<1>8. QED
  BY <1>1, <1>2, <1>3, <1>4, <1>5, <1>6, <1>7 DEF ClientNext, RunLoop

-----------------------------------------------------------------------------
(* Each reference is handed out once.  Then a source that was removed is    *)
(* not heard of again: its removal is the last message about it, and it is  *)
(* neither opened nor listed after that.                                    *)
Mentions(msgs, r) == \E i \in DOMAIN msgs : About(msgs[i], r)

RemovedLast(msgs, r) ==
    \A i, j \in DOMAIN msgs :
        i < j /\ Is(msgs[i], "SRC_REMOVED", r) => ~About(msgs[j], r)

Gone(r) == \E o \in DOMAIN heap : heap[o].srcRef = r /\ ~Live(o)

OneLife(r) ==
    /\ lives \in [SrcRefs -> Nat]
    /\ Open(r) \/ Mentions(inbox, r) \/ Gone(r) => lives[r] >= 1
    /\ Open(r) => ~Tells(inbox, "SRC_REMOVED", r)
    /\ Gone(r) => ~Open(r) /\ ~Mentions(inbox, r)
    /\ RemovedLast(inbox, r)

LEMMA OneLifeIsEnough ==
  ASSUME TypeOK, Pointers, \A r \in SrcRefs : OneLife(r), ClientTypeOK
  PROVE  NotTooLate
<1> SUFFICES ASSUME NEW r \in SrcRefs, inbox # <<>>, About(Head(inbox), r), map[r] # NoObj
             PROVE  Live(map[r])
  BY DEF NotTooLate
<1>1. Mentions(inbox, r)
  <2>1. 1 \in DOMAIN inbox /\ Head(inbox) = inbox[1]
    BY DEF ClientTypeOK
  <2>2. QED BY <2>1 DEF Mentions
<1>2. map[r] \in DOMAIN heap /\ heap[map[r]].srcRef = r
  BY Opened DEF Pointers, PointsHome
<1>3. QED BY <1>1, <1>2 DEF OneLife, Gone

\* Messages that arrive: none about a source that is gone, and a removal last.
LEMMA OneLifeArriving ==
  ASSUME NEW r \in SrcRefs, OneLife(r), inbox \in Seq(KernelMessage), NEW arrived \in Seq(KernelMessage),
         inbox' = inbox \o arrived, Gone(r)' <=> Gone(r),
         lives' \in [SrcRefs -> Nat], lives'[r] >= lives[r], RemovedLast(arrived, r),
         Tells(arrived, "SRC_REMOVED", r) => ~Open(r)',
         Mentions(arrived, r) \/ Open(r)' =>
             lives'[r] >= 1 /\ ~Gone(r) /\ ~Tells(inbox, "SRC_REMOVED", r)
  PROVE  OneLife(r)'
<1> USE Elements
<1>1. Mentions(inbox, r)' <=> Mentions(inbox, r) \/ Mentions(arrived, r)
  <2>1. ASSUME Mentions(arrived, r) PROVE Mentions(inbox, r)'
    <3>1. PICK k \in 1..Len(arrived) : About(arrived[k], r)
      BY <2>1 DEF Mentions
    <3>2. Len(inbox) + k \in DOMAIN inbox' /\ inbox'[Len(inbox) + k] = arrived[k]
      BY <3>1
    <3>3. QED BY <3>1, <3>2 DEF Mentions
  <2>2. ASSUME Mentions(inbox, r) PROVE Mentions(inbox, r)'
    <3>1. PICK k \in 1..Len(inbox) : About(inbox[k], r)
      BY <2>2 DEF Mentions
    <3>2. k \in DOMAIN inbox' /\ inbox'[k] = inbox[k]
      BY <3>1
    <3>3. QED BY <3>1, <3>2 DEF Mentions
  <2>3. Mentions(inbox, r)' => Mentions(inbox, r) \/ Mentions(arrived, r)
    BY DEF Mentions
  <2>4. QED BY <2>1, <2>2, <2>3
<1>2. Tells(inbox, "SRC_REMOVED", r)' =>
          Tells(inbox, "SRC_REMOVED", r) \/ Tells(arrived, "SRC_REMOVED", r)
  BY DEF Tells
<1>3. RemovedLast(inbox, r)'
  <2> SUFFICES ASSUME NEW i \in DOMAIN inbox', NEW j \in DOMAIN inbox', i < j,
                      Is(inbox'[i], "SRC_REMOVED", r), About(inbox'[j], r)
               PROVE  FALSE
    BY DEF RemovedLast
  <2>1. CASE i \in 1..Len(inbox)
    <3>1. Tells(inbox, "SRC_REMOVED", r)
      BY <2>1 DEF Tells
    <3>2. CASE j \in 1..Len(inbox)
      BY <2>1, <3>2 DEF OneLife, RemovedLast
    <3>3. CASE j \notin 1..Len(inbox)
      BY <3>1, <3>3 DEF Mentions
    <3>4. QED BY <3>2, <3>3
  <2>2. CASE i \notin 1..Len(inbox)
    <3>1. j \notin 1..Len(inbox)
      BY <2>2
    <3>2. /\ i - Len(inbox) \in DOMAIN arrived /\ inbox'[i] = arrived[i - Len(inbox)]
          /\ j - Len(inbox) \in DOMAIN arrived /\ inbox'[j] = arrived[j - Len(inbox)]
          /\ i - Len(inbox) < j - Len(inbox)
      BY <2>2, <3>1
    <3>3. QED BY <3>2 DEF RemovedLast
  <2>3. QED BY <2>1, <2>2
<1>4. QED BY <1>1, <1>2, <1>3 DEF OneLife

(* What arrives of messages of one kind is of that kind, whatever is lost   *)
(* of it.                                                                   *)
LEMMA ArriveOf ==
  ASSUME NEW S, NEW msgs \in Seq(S), NoBuffers \in S, Answer(msgs) \/ Deliver(msgs)
  PROVE  \E arrived \in Seq(S) : inbox' = inbox \o arrived
<1>1. ASSUME NEW sent \in Seq(S), Deliver(sent)
      PROVE  \E arrived \in Seq(S) : inbox' = inbox \o arrived
  <2>1. PICK arrived \in Arriving(sent) : inbox' = inbox \o arrived
    BY <1>1 DEF Deliver
  <2>2. CASE Lossy
    <3>1. PICK n \in 0..Len(sent) : \E pick \in Picks(n, Len(sent)) :
             arrived = [i \in 1..n |-> sent[pick[i]]]
      BY <2>1, <2>2 DEF Arriving
    <3>2. PICK pick \in [1..n -> 1..Len(sent)] :
             arrived = [i \in 1..n |-> sent[pick[i]]]
      BY <3>1 DEF Picks
    <3>3. \A i \in 1..n : sent[pick[i]] \in S
      BY <3>2
    <3>4. arrived \in Seq(S)
      BY <3>2, <3>3
    <3>5. QED BY <2>1, <3>4
  <2>3. CASE ~Lossy
    BY <2>1, <2>3 DEF Arriving
  <2>4. QED BY <2>2, <2>3
<1>2. msgs \o <<NoBuffers>> \in Seq(S)
  OBVIOUS
<1>3. QED BY <1>1, <1>2 DEF Answer

-----------------------------------------------------------------------------
\* The messages are those of the kernel; descriptions name a port.
LEMMA PortedMessages ==
  /\ \A r \in SrcRefs :
        /\ Added(r) \in PortedMessage
        /\ Removed(r) \in PortedMessage
        /\ Counts(r) \in PortedMessage
        /\ \A ports \in PortClass \ {"none"} : Desc(r, ports) \in PortedMessage
  /\ Success \in PortedMessage
  /\ Error \in PortedMessage
  /\ NoBuffers \in PortedMessage
BY MessageTypes DEF PortedMessage, Added, Removed, Counts, Desc, Success, Error, NoBuffers,
                    Message

LEMMA Abouts ==
  ASSUME NEW r, NEW q
  PROVE  /\ About(Added(q), r) => q = r
         /\ About(Counts(q), r) => q = r
         /\ About(Removed(q), r) => q = r
         /\ \A ports : About(Desc(q, ports), r) => q = r
         /\ ~Is(Added(q), "SRC_REMOVED", r)
         /\ ~Is(Counts(q), "SRC_REMOVED", r)
         /\ \A ports : ~Is(Desc(q, ports), "SRC_REMOVED", r)
         /\ ~About(Success, r) /\ ~Is(Success, "SRC_REMOVED", r)
         /\ ~About(Error, r) /\ ~Is(Error, "SRC_REMOVED", r)
         /\ ~About(NoBuffers, r) /\ ~Is(NoBuffers, "SRC_REMOVED", r)
BY DEF About, Is, Added, Counts, Removed, Desc, Success, Error, NoBuffers, Message,
       Notifications

\* Nothing of a source that is not open, no removal, and no ports but its own.
News(r) ==
    {m \in KernelMessage :
        /\ ~Is(m, "SRC_REMOVED", r)
        /\ About(m, r) => Open(r)
        /\ m.type = "SRC_DESC" => m.ref \in SrcRefs /\ m.ports = socket[m.ref]}

LEMMA AnswersAreNews ==
  ASSUME ClientTypeOK, NEW r
  PROVE  /\ Success \in News(r) /\ Error \in News(r) /\ NoBuffers \in News(r)
         /\ \A q \in SrcRefs : Open(q) =>
               /\ Added(q) \in News(r)
               /\ Counts(q) \in News(r)
               /\ Desc(q, socket[q]) \in News(r)
<1>1. Success \in News(r) /\ Error \in News(r) /\ NoBuffers \in News(r)
  BY MessageTypes, Abouts DEF News, Success, Error, NoBuffers, Message
<1>2. ASSUME NEW q \in SrcRefs, Open(q) PROVE Added(q) \in News(r) /\ Counts(q) \in News(r)
  BY <1>2, MessageTypes, Abouts DEF News, Added, Counts, Message
<1>3. ASSUME NEW q \in SrcRefs, Open(q) PROVE Desc(q, socket[q]) \in News(r)
  <2>1. socket[q] \in PortClass
    BY <1>3 DEF ClientTypeOK, Open
  <2>2. Desc(q, socket[q]).ref = q /\ Desc(q, socket[q]).ports = socket[q]
    BY DEF Desc, Message
  <2>3. QED BY <1>3, <2>1, <2>2, MessageTypes, Abouts DEF News
<1>4. QED BY <1>1, <1>2, <1>3

LEMMA ServeNews ==
  ASSUME ClientTypeOK, NEW req, req.type = "ADD_ALL_SRCS" \/ req.ref \in SrcRefs,
         Serve(req), NEW r
  PROVE  /\ \E arrived \in Seq(News(r)) : inbox' = inbox \o arrived
         /\ UNCHANGED <<socket, lives>>
<1> DEFINE Sends(msgs) == Answer(msgs) /\ msgs \in Seq(News(r))
<1> USE AnswersAreNews
<1>1. ASSUME NEW provider, Subscribe(provider) PROVE \E msgs : Sends(msgs)
  <2>1. CASE Answer(<<Error>>)
    <3>1. <<Error>> \in Seq(News(r))
      OBVIOUS
    <3>2. Sends(<<Error>>)
      BY <2>1, <3>1
    <3>3. QED BY <3>2
  <2>2. CASE ~Answer(<<Error>>)
    <3>1. PICK list \in Listings(Existing(provider)) :
             Answer([i \in DOMAIN list |-> Added(list[i])] \o <<Success>>)
      BY <1>1, <2>2 DEF Subscribe
    <3> DEFINE n == Cardinality(Existing(provider))
    <3>2. n \in Nat /\ list \in [1..n -> Existing(provider)]
      BY ListingIsComplete, Zenon
    <3> HIDE DEF n
    <3>6. \A i \in 1..n : list[i] \in SrcRefs /\ Open(list[i])
      BY <3>2 DEF Existing
    <3>3. [i \in DOMAIN list |-> Added(list[i])] \in Seq(News(r))
      <4>1. DOMAIN list = 1..n
        BY <3>2
      <4>2. \A i \in 1..n : Added(list[i]) \in News(r)
        BY <3>6
      <4>3. QED BY <3>2, <4>1, <4>2
    <3>4. [i \in DOMAIN list |-> Added(list[i])] \o <<Success>> \in Seq(News(r))
      BY <3>3
    <3>5. QED BY <3>1, <3>4
  <2>3. QED BY <2>1, <2>2
<1>2. ASSUME NEW m \in News(r), Data(m) \/ Answer(<<Error>>) PROVE \E msgs : Sends(msgs)
  <2>1. <<m>> \in Seq(News(r)) /\ <<m, Success>> \in Seq(News(r)) /\ <<Error>> \in Seq(News(r))
    OBVIOUS
  <2>2. QED BY <1>2, <2>1 DEF Data
<1>3. ASSUME NEW q \in SrcRefs, Describe(q) PROVE \E msgs : Sends(msgs)
  <2>1. CASE Open(q)
    BY <1>2, <1>3, <2>1 DEF Describe
  <2>2. CASE ~Open(q)
    BY <1>2, <1>3, <2>2 DEF Describe
  <2>3. QED BY <2>1, <2>2
<1>4. ASSUME NEW q \in SrcRefs, Count(q) PROVE \E msgs : Sends(msgs)
  BY <1>2, <1>4 DEF Count
<1>5. UNCHANGED <<socket, lives>>
  BY DEF Serve
<1>6. CASE \E msgs : Sends(msgs)
  <2>1. PICK msgs : Sends(msgs)
    BY <1>6
  <2>2. \E arrived \in Seq(News(r)) : inbox' = inbox \o arrived
    BY <2>1, ArriveOf
  <2>3. QED BY <1>5, <2>2
<1>7. CASE UNCHANGED inbox
  <2>1. <<>> \in Seq(News(r)) /\ inbox' = inbox \o <<>>
    BY <1>7, ConcatEmptySeq DEF ClientTypeOK
  <2>2. QED BY <1>5, <2>1
<1>8. QED BY <1>1, <1>3, <1>4, <1>6, <1>7 DEF Serve

LEMMA OneLifeNews ==
  ASSUME NEW r \in SrcRefs, OneLife(r), inbox \in Seq(KernelMessage),
         NEW arrived \in Seq(News(r)), inbox' = inbox \o arrived,
         Gone(r)' <=> Gone(r), UNCHANGED <<socket, lives>>
  PROVE  OneLife(r)'
<1>1. \A i \in DOMAIN arrived : arrived[i] \in News(r)
  OBVIOUS
<1>2. ~Tells(arrived, "SRC_REMOVED", r) /\ RemovedLast(arrived, r)
  BY <1>1 DEF News, Tells, RemovedLast
<1>3. Mentions(arrived, r) => Open(r)
  BY <1>1 DEF News, Mentions
<1>4. arrived \in Seq(KernelMessage)
  BY <1>1 DEF News
<1>5. Open(r)' <=> Open(r)
  BY DEF Open
<1>6. lives' \in [SrcRefs -> Nat] /\ lives'[r] >= lives[r]
  BY DEF OneLife
<1>7. Open(r) => lives'[r] >= 1 /\ ~Gone(r) /\ ~Tells(inbox, "SRC_REMOVED", r)
  BY DEF OneLife
<1>8. QED BY <1>2, <1>3, <1>4, <1>5, <1>6, <1>7, OneLifeArriving

\* What a request is answered with is news, and nothing else changes of it.
LEMMA SendNews ==
  ASSUME ClientTypeOK, SendNextMsg, NEW r
  PROVE  /\ \E arrived \in Seq(News(r)) : inbox' = inbox \o arrived
         /\ UNCHANGED <<socket, lives, heap>>
<1>1. CASE SendQueued
  <2>1. /\ Serve(Head(outq)) /\ outq \in Seq({AddAllSrcs("tcp"), AddAllSrcs("udp")})
        /\ outq # <<>> /\ heap' = heap
    BY <1>1 DEF SendQueued, Ignored, tables, ClientTypeOK
  <2>2. Head(outq).type = "ADD_ALL_SRCS"
    <3>1. Head(outq) \in {AddAllSrcs("tcp"), AddAllSrcs("udp")}
      BY <2>1
    <3>2. QED BY <3>1 DEF AddAllSrcs, Request
  <2>3. QED BY <2>1, <2>2, ServeNews
<1>2. CASE SendGetSrcDesc
  <2>1. PICK q \in SrcRefs : TakeWaitingForDesc(q) /\ Serve(GetSrcDesc(q))
    BY <1>2 DEF SendGetSrcDesc
  <2>2. GetSrcDesc(q).ref = q /\ heap' = heap
    BY <2>1 DEF GetSrcDesc, Request, TakeWaitingForDesc
  <2>3. QED BY <2>1, <2>2, ServeNews
<1>3. ASSUME UNCHANGED kernelVars
      PROVE  /\ \E arrived \in Seq(News(r)) : inbox' = inbox \o arrived
             /\ UNCHANGED <<socket, lives>>
  <2>1. <<>> \in Seq(News(r)) /\ inbox' = inbox \o <<>>
    BY <1>3, ConcatEmptySeq DEF ClientTypeOK, kernelVars
  <2>2. QED BY <1>3, <2>1 DEF kernelVars
<1>4. CASE SendQuerySrc
  <2>1. PICK q \in SrcRefs :
           TakeWaitingForCount(q) /\ (Serve(QuerySrc(q)) \/ UNCHANGED kernelVars)
    BY <1>4 DEF SendQuerySrc
  <2>2. QuerySrc(q).ref = q /\ heap' = heap
    BY <2>1 DEF QuerySrc, Request, TakeWaitingForCount
  <2>3. CASE Serve(QuerySrc(q))
    BY <2>2, <2>3, ServeNews
  <2>4. QED BY <1>3, <2>1, <2>2, <2>3
<1>5. CASE SendNothing
  BY <1>3, <1>5 DEF SendNothing, Ignored, tables
<1>6. QED BY <1>1, <1>2, <1>4, <1>5 DEF SendNextMsg

-----------------------------------------------------------------------------
(* What is described has a port: no source is opened without one, and none  *)
(* gives up the ones it has.                                                *)
HavePorts ==
    /\ "none" \notin OpenPorts
    /\ \A move \in PortMoves : move[2] # "none"

LEMMA PortedArriving ==
  ASSUME inbox \in Seq(PortedMessage), NEW msgs \in Seq(PortedMessage), Deliver(msgs)
  PROVE  inbox' \in Seq(PortedMessage)
<1>1. NoBuffers \in PortedMessage
  BY PortedMessages
<1>2. PICK arrived \in Seq(PortedMessage) : inbox' = inbox \o arrived
  BY <1>1, ArriveOf
<1>3. QED BY <1>2

LEMMA PortedKernel ==
  ASSUME HavePorts, ClientTypeOK, Ported, KernelStep
  PROVE  Ported'
<1> USE PortedMessages DEF Ported
<1>1. ASSUME NEW q \in SrcRefs, OpenSource(q) PROVE Ported'
  <2>1. <<Added(q)>> \in Seq(PortedMessage)
    OBVIOUS
  <2>2. inbox' \in Seq(PortedMessage)
    BY <1>1, <2>1, PortedArriving DEF OpenSource
  <2>3. \A r \in SrcRefs : socket'[r] # "none"
    BY <1>1 DEF OpenSource, HavePorts, ClientTypeOK
  <2>4. QED BY <2>2, <2>3
<1>2. ASSUME NEW q \in SrcRefs, MovePorts(q) PROVE Ported'
  BY <1>2 DEF MovePorts, HavePorts, ClientTypeOK
<1>3. ASSUME NEW q \in SrcRefs, CloseSource(q) PROVE Ported'
  <2> DEFINE goodbye == <<Counts(q), Desc(q, socket[q]), Removed(q)>>
  <2>1. socket[q] \in PortClass \ {"none"}
    BY <1>3 DEF CloseSource, Open, ClientTypeOK
  <2>2. goodbye \in Seq(PortedMessage)
    BY <2>1
  <2>3. <<Added(q)>> \o goodbye \in Seq(PortedMessage)
    BY <2>2
  <2>4. inbox' \in Seq(PortedMessage)
    BY <1>3, <2>2, <2>3, PortedArriving DEF CloseSource
  <2>5. \A r \in SrcRefs : socket'[r] # "none"
    BY <1>3 DEF CloseSource, ClientTypeOK
  <2>6. QED BY <2>4, <2>5
<1>4. QED BY <1>1, <1>2, <1>3 DEF KernelStep

LEMMA PortedStep ==
  ASSUME HavePorts, ClientTypeOK, Ported, [ClientNext]_vars
  PROVE  Ported'
<1>1. CASE SendNextMsg
  <2>1. PICK arrived \in Seq(News(0)) : inbox' = inbox \o arrived /\ socket' = socket
    BY <1>1, SendNews
  <2>2. News(0) \subseteq PortedMessage
    BY DEF News, PortedMessage, Ported
  <2>3. arrived \in Seq(PortedMessage)
    BY <2>1, <2>2
  <2>4. QED BY <2>1, <2>3 DEF Ported
<1>2. CASE ReadNextMessage
  BY <1>2 DEF ReadNextMessage, Ported
<1>3. CASE KernelActs
  BY <1>3, PortedKernel DEF KernelActs
<1>4. CASE EndRun
  BY <1>4 DEF EndRun, Disconnect, Ported
<1>5. CASE UNCHANGED kernelVars
  BY <1>5 DEF kernelVars, Ported
<1>6. QED
  BY <1>1, <1>2, <1>3, <1>4, <1>5
  DEF ClientNext, RunLoop, StartRun, Cleanup, Update, Drained, Tick, vars

-----------------------------------------------------------------------------
LEMMA GoneUnmoved ==
  ASSUME NEW r, DOMAIN heap' = DOMAIN heap,
         \A o \in DOMAIN heap : /\ heap'[o].srcRef = heap[o].srcRef
                                /\ heap'[o].tsRemoved = heap[o].tsRemoved
  PROVE  Gone(r)' <=> Gone(r)
BY DEF Gone, Live

\* Messages about other sources, none of this one.
Others(r) == {m \in KernelMessage : ~About(m, r) /\ ~Is(m, "SRC_REMOVED", r)}

LEMMA OneLifeOthers ==
  ASSUME NEW r \in SrcRefs, OneLife(r), inbox \in Seq(KernelMessage),
         NEW arrived \in Seq(Others(r)), inbox' = inbox \o arrived,
         Gone(r)' <=> Gone(r), Open(r)' <=> Open(r),
         lives' \in [SrcRefs -> Nat], lives'[r] = lives[r]
  PROVE  OneLife(r)'
<1>1. \A i \in DOMAIN arrived : arrived[i] \in Others(r)
  OBVIOUS
<1>2. ~Tells(arrived, "SRC_REMOVED", r) /\ RemovedLast(arrived, r) /\ ~Mentions(arrived, r)
  BY <1>1 DEF Others, Tells, RemovedLast, Mentions
<1>3. arrived \in Seq(KernelMessage)
  BY <1>1 DEF Others
<1>4. lives'[r] >= lives[r] /\ lives[r] \in Nat
  BY DEF OneLife
<1>5. Open(r) => lives'[r] >= 1 /\ ~Gone(r) /\ ~Tells(inbox, "SRC_REMOVED", r)
  BY DEF OneLife
<1>6. QED BY <1>2, <1>3, <1>4, <1>5, OneLifeArriving

\* A reference that was never handed out is news to everyone.
LEMMA OneLifeOpened ==
  ASSUME MaxLives = 1, ClientTypeOK, NEW r \in SrcRefs, OneLife(r), OpenSource(r),
         UNCHANGED heap
  PROVE  OneLife(r)'
<1> DEFINE Arrivals == {m \in KernelMessage : ~Is(m, "SRC_REMOVED", r)}
<1>1. lives \in [SrcRefs -> Nat] /\ lives[r] < 1 /\ lives' = [lives EXCEPT ![r] = @ + 1]
  BY DEF OpenSource, OneLife
<1>2. /\ ~Gone(r) /\ ~Mentions(inbox, r)
      /\ lives' \in [SrcRefs -> Nat] /\ lives'[r] >= 1 /\ lives'[r] >= lives[r]
  BY <1>1 DEF OneLife
<1>3. ~Tells(inbox, "SRC_REMOVED", r)
  BY <1>2 DEF Mentions, Tells, Is, About, Notifications
<1>4. PICK arrived \in Seq(Arrivals) : inbox' = inbox \o arrived
  <2>1. NoBuffers \in Arrivals /\ Added(r) \in Arrivals
    BY MessageTypes, Abouts
  <2> HIDE DEF Arrivals
  <2>2. <<Added(r)>> \in Seq(Arrivals) /\ <<>> \in Seq(Arrivals)
    BY <2>1
  <2>3. CASE Deliver(<<Added(r)>>)
    BY <2>1, <2>2, <2>3, ArriveOf
  <2>4. CASE UNCHANGED inbox
    <3>1. inbox' = inbox \o <<>>
      BY <2>4, ConcatEmptySeq DEF ClientTypeOK
    <3>2. QED BY <2>2, <3>1
  <2>5. QED BY <2>3, <2>4 DEF OpenSource
<1>5. \A i \in DOMAIN arrived : arrived[i] \in Arrivals
  OBVIOUS
<1>6. ~Tells(arrived, "SRC_REMOVED", r) /\ RemovedLast(arrived, r)
  BY <1>5 DEF Tells, RemovedLast
<1>7. arrived \in Seq(KernelMessage)
  BY <1>5
<1>8. Gone(r)' <=> Gone(r)
  BY GoneUnmoved
<1>9. inbox \in Seq(KernelMessage)
  BY DEF ClientTypeOK
<1> HIDE DEF Arrivals
<1>10. QED BY <1>2, <1>3, <1>4, <1>6, <1>7, <1>8, <1>9, OneLifeArriving

(* Whatever is lost of a farewell, the removal is the last of what is not.  *)
LEMMA Farewell ==
  ASSUME NEW r, NEW msgs \in Seq(KernelMessage), Deliver(msgs),
         \A i \in DOMAIN msgs : Is(msgs[i], "SRC_REMOVED", r) => i = Len(msgs)
  PROVE  \E arrived \in Seq(KernelMessage) : inbox' = inbox \o arrived /\ RemovedLast(arrived, r)
<1>1. PICK arrived \in Arriving(msgs) : inbox' = inbox \o arrived
  BY DEF Deliver
<1>2. CASE Lossy
  <2>1. PICK n \in 0..Len(msgs) : \E pick \in Picks(n, Len(msgs)) :
           arrived = [i \in 1..n |-> msgs[pick[i]]]
    BY <1>1, <1>2 DEF Arriving
  <2>2. PICK pick \in [1..n -> 1..Len(msgs)] :
           /\ arrived = [i \in 1..n |-> msgs[pick[i]]]
           /\ \A i, j \in 1..n : i < j => pick[i] < pick[j]
    BY <2>1 DEF Picks
  <2>3. \A i \in 1..n : msgs[pick[i]] \in KernelMessage /\ pick[i] \in DOMAIN msgs
    BY <2>2
  <2>4. arrived \in Seq(KernelMessage) /\ DOMAIN arrived = 1..n
    BY <2>2, <2>3
  <2>5. RemovedLast(arrived, r)
    <3> SUFFICES ASSUME NEW i \in 1..n, NEW j \in 1..n, i < j,
                        Is(arrived[i], "SRC_REMOVED", r)
                 PROVE  FALSE
      BY <2>4 DEF RemovedLast
    <3>1. pick[i] = Len(msgs)
      BY <2>2, <2>3
    <3>2. pick[i] < pick[j] /\ pick[j] <= Len(msgs) /\ pick[j] \in Nat /\ Len(msgs) \in Nat
      BY <2>2
    <3>3. QED BY <3>1, <3>2
  <2>6. QED BY <1>1, <2>4, <2>5
<1>3. CASE ~Lossy
  <2>1. arrived = msgs
    BY <1>1, <1>3 DEF Arriving
  <2>2. RemovedLast(msgs, r)
    <3> SUFFICES ASSUME NEW i \in 1..Len(msgs), NEW j \in 1..Len(msgs), i < j,
                        Is(msgs[i], "SRC_REMOVED", r)
                 PROVE  FALSE
      BY DEF RemovedLast
    <3>1. i = Len(msgs) /\ j <= Len(msgs) /\ Len(msgs) \in Nat
      OBVIOUS
    <3>2. QED BY <3>1
  <2>3. QED BY <1>1, <2>1, <2>2
<1>4. QED BY <1>2, <1>3

LEMMA OneLifeClosed ==
  ASSUME ClientTypeOK, NEW r \in SrcRefs, OneLife(r), CloseSource(r), UNCHANGED heap
  PROVE  OneLife(r)'
<1> DEFINE goodbye == <<Counts(r), Desc(r, socket[r]), Removed(r)>>
           again == <<Added(r)>> \o goodbye
<1>1. Open(r) /\ ~Open(r)' /\ lives' = lives
  BY DEF CloseSource, Open, ClientTypeOK
<1>2. lives[r] >= 1 /\ ~Gone(r) /\ ~Tells(inbox, "SRC_REMOVED", r) /\ lives \in [SrcRefs -> Nat]
  BY <1>1 DEF OneLife
<1>3. socket[r] \in PortClass
  BY <1>1 DEF Open, ClientTypeOK
<1>4. /\ goodbye \in Seq(KernelMessage) /\ Len(goodbye) = 3 /\ DOMAIN goodbye = 1..3
      /\ goodbye[1] = Counts(r) /\ goodbye[2] = Desc(r, socket[r])
  BY <1>3, MessageTypes
<1>5. /\ again \in Seq(KernelMessage) /\ Len(again) = 4 /\ DOMAIN again = 1..4
      /\ again[1] = Added(r) /\ again[2] = Counts(r) /\ again[3] = Desc(r, socket[r])
  BY <1>3, MessageTypes
<1>6. UNCHANGED inbox \/ Deliver(goodbye) \/ Deliver(again)
  BY DEF CloseSource
<1> HIDE DEF goodbye, again
<1>7. \A i \in DOMAIN goodbye : Is(goodbye[i], "SRC_REMOVED", r) => i = Len(goodbye)
  <2>1. /\ ~Is(Counts(r), "SRC_REMOVED", r)
        /\ ~Is(Desc(r, socket[r]), "SRC_REMOVED", r)
    BY Abouts
  <2>2. \A i \in 1..3 : i = 1 \/ i = 2 \/ i = 3
    OBVIOUS
  <2>3. QED BY <1>4, <2>1, <2>2
<1>8. \A i \in DOMAIN again : Is(again[i], "SRC_REMOVED", r) => i = Len(again)
  <2>1. /\ ~Is(Added(r), "SRC_REMOVED", r)
        /\ ~Is(Counts(r), "SRC_REMOVED", r)
        /\ ~Is(Desc(r, socket[r]), "SRC_REMOVED", r)
    BY Abouts
  <2>2. \A i \in 1..4 : i = 1 \/ i = 2 \/ i = 3 \/ i = 4
    OBVIOUS
  <2>3. QED BY <1>5, <2>1, <2>2
<1>9. PICK arrived \in Seq(KernelMessage) : inbox' = inbox \o arrived /\ RemovedLast(arrived, r)
  <2>1. CASE UNCHANGED inbox
    <3>1. inbox' = inbox \o <<>> /\ <<>> \in Seq(KernelMessage)
      BY <2>1, ConcatEmptySeq DEF ClientTypeOK
    <3>2. RemovedLast(<<>>, r)
      BY DEF RemovedLast
    <3>3. QED BY <3>1, <3>2
  <2>2. CASE Deliver(goodbye)
    BY <1>4, <1>7, <2>2, Farewell
  <2>3. CASE Deliver(again)
    BY <1>5, <1>8, <2>3, Farewell
  <2>4. QED BY <1>6, <2>1, <2>2, <2>3
<1>10. Gone(r)' <=> Gone(r)
  BY GoneUnmoved
<1>11. inbox \in Seq(KernelMessage) /\ lives' \in [SrcRefs -> Nat] /\ lives'[r] >= lives[r]
       /\ lives'[r] >= 1
  BY <1>1, <1>2 DEF ClientTypeOK
<1>12. QED BY <1>1, <1>2, <1>9, <1>10, <1>11, OneLifeArriving

LEMMA OneLifeKernel ==
  ASSUME MaxLives = 1, ClientTypeOK, NEW r \in SrcRefs, OneLife(r), KernelStep,
         UNCHANGED heap
  PROVE  OneLife(r)'
<1>1. (Gone(r)' <=> Gone(r)) /\ inbox \in Seq(KernelMessage) /\ lives \in [SrcRefs -> Nat]
  BY GoneUnmoved DEF ClientTypeOK, OneLife
<1>2. ASSUME NEW q \in SrcRefs, q # r
      PROVE  /\ <<Added(q)>> \in Seq(Others(r))
             /\ \A ports \in PortClass :
                   LET goodbye == <<Counts(q), Desc(q, ports), Removed(q)>>
                   IN  /\ goodbye \in Seq(Others(r))
                       /\ <<Added(q)>> \o goodbye \in Seq(Others(r))
  <2>1. /\ Added(q) \in Others(r) /\ Counts(q) \in Others(r) /\ Removed(q) \in Others(r)
        /\ \A ports \in PortClass : Desc(q, ports) \in Others(r)
    BY <1>2, MessageTypes, Abouts DEF Others, About, Is, Removed, Message, Notifications
  <2>2. QED BY <2>1
<1>3. ASSUME NEW msgs \in Seq(Others(r)), Deliver(msgs)
      PROVE  \E arrived \in Seq(Others(r)) : inbox' = inbox \o arrived
  <2>1. NoBuffers \in Others(r)
    BY MessageTypes, Abouts DEF Others
  <2>2. QED BY <1>3, <2>1, ArriveOf
<1>4. ASSUME UNCHANGED inbox
      PROVE  \E arrived \in Seq(Others(r)) : inbox' = inbox \o arrived
  <2>1. <<>> \in Seq(Others(r)) /\ inbox' = inbox \o <<>>
    BY <1>1, <1>4, ConcatEmptySeq
  <2>2. QED BY <2>1
<1>5. ASSUME NEW q \in SrcRefs, OpenSource(q) PROVE OneLife(r)'
  <2>1. CASE q = r
    BY <1>5, <2>1, OneLifeOpened
  <2>2. CASE q # r
    <3>1. Deliver(<<Added(q)>>) \/ UNCHANGED inbox
      BY <1>5 DEF OpenSource
    <3>2. PICK arrived \in Seq(Others(r)) : inbox' = inbox \o arrived
      BY <1>2, <1>3, <1>4, <2>2, <3>1
    <3>3. /\ Open(r)' <=> Open(r)
          /\ lives' \in [SrcRefs -> Nat] /\ lives'[r] = lives[r]
      BY <1>1, <1>5, <2>2 DEF OpenSource, Open, ClientTypeOK
    <3>4. QED BY <1>1, <3>2, <3>3, OneLifeOthers
  <2>3. QED BY <2>1, <2>2
<1>6. ASSUME NEW q \in SrcRefs, MovePorts(q) PROVE OneLife(r)'
  <2>1. PICK arrived \in Seq(Others(r)) : inbox' = inbox \o arrived
    BY <1>4, <1>6 DEF MovePorts
  <2>2. /\ Open(r)' <=> Open(r)
        /\ lives' = lives
    <3>1. PICK move \in PortMoves : socket[q] = move[1] /\ socket' = [socket EXCEPT ![q] = move[2]]
      BY <1>6 DEF MovePorts
    <3>2. move[1] # "closed" /\ move[2] # "closed"
      BY ClientAssumption DEF PortClass
    <3>3. QED BY <1>6, <3>1, <3>2 DEF MovePorts, Open, ClientTypeOK
  <2>3. QED BY <1>1, <2>1, <2>2, OneLifeOthers
<1>7. ASSUME NEW q \in SrcRefs, CloseSource(q) PROVE OneLife(r)'
  <2>1. CASE q = r
    BY <1>7, <2>1, OneLifeClosed
  <2>2. CASE q # r
    <3>1. socket[q] \in PortClass
      BY <1>7 DEF CloseSource, Open, ClientTypeOK
    <3>2. PICK arrived \in Seq(Others(r)) : inbox' = inbox \o arrived
      BY <1>2, <1>3, <1>4, <1>7, <2>2, <3>1 DEF CloseSource
    <3>3. (Open(r)' <=> Open(r)) /\ lives' = lives
      BY <1>7, <2>2 DEF CloseSource, Open, ClientTypeOK
    <3>4. QED BY <1>1, <3>2, <3>3, OneLifeOthers
  <2>3. QED BY <2>1, <2>2
<1>8. QED BY <1>5, <1>6, <1>7 DEF KernelStep

-----------------------------------------------------------------------------
\* One message less waits.
LEMMA ReadMentions ==
  ASSUME inbox \in Seq(KernelMessage), inbox # <<>>, inbox' = Tail(inbox), NEW r,
         RemovedLast(inbox, r)
  PROVE  /\ Mentions(inbox, r)' => Mentions(inbox, r)
         /\ Tells(inbox, "SRC_REMOVED", r)' => Tells(inbox, "SRC_REMOVED", r)
         /\ About(Head(inbox), r) => Mentions(inbox, r)
         /\ Is(Head(inbox), "SRC_REMOVED", r) =>
               ~Mentions(inbox, r)' /\ Tells(inbox, "SRC_REMOVED", r)
         /\ RemovedLast(inbox, r)'
<1>1. /\ Len(inbox) \in Nat /\ DOMAIN inbox = 1..Len(inbox) /\ Len(inbox) >= 1
      /\ Head(inbox) = inbox[1] /\ DOMAIN inbox' = 1..(Len(inbox) - 1)
      /\ \A i \in 1..(Len(inbox) - 1) : inbox'[i] = inbox[i + 1]
  OBVIOUS
<1>2. 1 \in DOMAIN inbox
  BY <1>1
<1>3. \A i \in DOMAIN inbox' : i + 1 \in DOMAIN inbox /\ inbox[i + 1] = inbox'[i] /\ 1 < i + 1
  BY <1>1
<1>4. \A i, j \in DOMAIN inbox' : i < j => i + 1 < j + 1
  BY <1>1
<1>5. Mentions(inbox, r)' => Mentions(inbox, r)
  BY <1>3 DEF Mentions
<1>6. Tells(inbox, "SRC_REMOVED", r)' => Tells(inbox, "SRC_REMOVED", r)
  BY <1>3 DEF Tells
<1>7. About(Head(inbox), r) => Mentions(inbox, r)
  BY <1>1, <1>2 DEF Mentions
<1>8. Is(Head(inbox), "SRC_REMOVED", r) =>
         ~Mentions(inbox, r)' /\ Tells(inbox, "SRC_REMOVED", r)
  BY <1>1, <1>2, <1>3 DEF RemovedLast, Mentions, Tells
<1>9. RemovedLast(inbox, r)'
  BY <1>3, <1>4 DEF RemovedLast
<1>10. QED BY <1>5, <1>6, <1>7, <1>8, <1>9

\* What reading a message does to the objects of r.
LEMMA ReadGone ==
  ASSUME ClientTypeOK, IInv, NEW r \in SrcRefs, ReadNextMessage
  PROVE  Gone(r)' => Gone(r) \/ Is(Head(inbox), "SRC_REMOVED", r)
<1> USE DEF IInv
<1>0. SUFFICES ASSUME ~Is(Head(inbox), "SRC_REMOVED", r), Gone(r)' PROVE Gone(r)
  OBVIOUS
<1>1. Head(inbox) \in KernelMessage
  BY DEF ReadNextMessage, ClientTypeOK
<1> DEFINE m == Head(inbox)
           q == m.ref
<1>2. HandleNotification(m) \/ HandleResponse(m)
  BY DEF ReadNextMessage
<1>3. m.type \in Notifications => q \in SrcRefs /\ m.ports \in PortClass
  BY <1>1 DEF KernelMessage, Success, Error, NoBuffers, Message, Notifications
<1>4. m.type = "SRC_REMOVED" => q # r
  BY <1>0 DEF Is
<1> HIDE DEF m
<1>5. CASE SrcAddedKnown(q) \/ Ignored
  BY <1>0, <1>5, GoneUnmoved DEF SrcAddedKnown, Ignored, tables
<1>6. CASE SrcAddedNew(q)
  <2>1. PICK o \in Obj \ DOMAIN heap :
           heap' = [p \in DOMAIN heap \cup {o} |-> IF p = o THEN NewSource(q) ELSE heap[p]]
    BY <1>6 DEF SrcAddedNew
  <2>2. /\ DOMAIN heap' = DOMAIN heap \cup {o}
        /\ heap'[o] = NewSource(q)
        /\ \A p \in DOMAIN heap : heap'[p] = heap[p]
    BY <2>1
  <2>3. QED BY <1>0, <2>2 DEF Gone, Live, NewSource
<1>7. CASE m.type = "SRC_REMOVED" /\ SrcRemoved(q)
  <2>1. q \in SrcRefs /\ q # r
    BY <1>3, <1>4, <1>7 DEF Notifications
  <2>2. heap[map[q]].srcRef = q /\ map[q] \in DOMAIN heap
    BY <1>7, <2>1, SrcRemovedFields DEF SrcRemoved, Pointers, PointsHome
  <2>3. QED BY <1>0, <1>7, <2>1, <2>2, SrcRemovedFields DEF Gone, Live
<1>8. CASE m.type = "SRC_DESC" /\ SrcDesc(q, m.ports)
  <2>1. q \in SrcRefs /\ m.ports \in PortClass
    BY <1>3, <1>8 DEF Notifications
  <2>2. QED BY <1>0, <1>8, <2>1, SrcDescFields, GoneUnmoved
<1>9. ASSUME NEW traffic \in BOOLEAN, m.type = "SRC_COUNTS", SrcCounts(q, traffic)
      PROVE  Gone(r)
  <2>1. q \in SrcRefs
    BY <1>3, <1>9 DEF Notifications
  <2>2. QED BY <1>0, <1>9, <2>1, SrcCountsFields, GoneUnmoved
<1>10. QED
  BY <1>2, <1>5, <1>6, <1>7, <1>8, <1>9
  DEF HandleNotification, HandleResponse, SrcAdded

LEMMA OneLifeRead ==
  ASSUME ClientTypeOK, IInv, NEW r \in SrcRefs, OneLife(r), ReadNextMessage
  PROVE  OneLife(r)'
<1>1. /\ inbox \in Seq(KernelMessage) /\ inbox # <<>> /\ inbox' = Tail(inbox)
      /\ lives' = lives /\ (Open(r)' <=> Open(r))
  BY DEF ReadNextMessage, ClientTypeOK, Open
<1>2. Gone(r)' => Gone(r) \/ Is(Head(inbox), "SRC_REMOVED", r)
  BY ReadGone
<1>3. Is(Head(inbox), "SRC_REMOVED", r) => About(Head(inbox), r)
  BY DEF Is, About, Notifications
<1>4. RemovedLast(inbox, r)
  BY DEF OneLife
<1>5. /\ Mentions(inbox, r)' => Mentions(inbox, r)
      /\ Tells(inbox, "SRC_REMOVED", r)' => Tells(inbox, "SRC_REMOVED", r)
      /\ About(Head(inbox), r) => Mentions(inbox, r)
      /\ Is(Head(inbox), "SRC_REMOVED", r) =>
            ~Mentions(inbox, r)' /\ Tells(inbox, "SRC_REMOVED", r)
      /\ RemovedLast(inbox, r)'
  BY <1>1, <1>4, ReadMentions
<1>6. QED BY <1>1, <1>2, <1>3, <1>5 DEF OneLife

LEMMA OneLifeEnd ==
  ASSUME NEW r \in SrcRefs, OneLife(r), Disconnect, UNCHANGED heap
  PROVE  OneLife(r)'
<1>1. inbox' = <<>> /\ DOMAIN inbox' = {} /\ lives' = lives
  BY DEF Disconnect
<1>2. Open(r)' => Open(r)
  BY DEF Disconnect, Open
<1>3. ~Mentions(inbox, r)' /\ ~Tells(inbox, "SRC_REMOVED", r)' /\ RemovedLast(inbox, r)'
  BY <1>1 DEF Mentions, Tells, RemovedLast
<1>4. Gone(r)' <=> Gone(r)
  BY GoneUnmoved
<1>5. QED BY <1>1, <1>2, <1>3, <1>4 DEF OneLife

LEMMA OneLifeStep ==
  ASSUME MaxLives = 1, ClientTypeOK, IInv, NEW r \in SrcRefs, OneLife(r),
         [ClientNext]_vars
  PROVE  OneLife(r)'
<1>1. ASSUME UNCHANGED kernelVars, Gone(r)' <=> Gone(r) PROVE OneLife(r)'
  <2>1. UNCHANGED <<socket, lives, inbox>>
    BY <1>1 DEF kernelVars
  <2>2. QED BY <1>1, <2>1 DEF OneLife, Open, Mentions, Tells, RemovedLast
<1>2. ASSUME UNCHANGED kernelVars, UNCHANGED heap PROVE OneLife(r)'
  BY <1>1, <1>2, GoneUnmoved
<1>3. CASE StartRun \/ Drained
  BY <1>2, <1>3 DEF StartRun, Drained, Ignored, tables
<1>4. CASE Cleanup
  BY <1>2, <1>4 DEF Cleanup, RemoveOldSources, Ignored, tables
<1>5. CASE Update
  <2>1. CASE UpdateWaitForCountsQueue
    <3>1. Gone(r)' <=> Gone(r)
      BY <2>1, UpdateFields, GoneUnmoved DEF IInv
    <3>2. QED BY <1>1, <1>5, <3>1 DEF Update
  <2>2. QED BY <1>2, <1>5, <2>1 DEF Update, Ignored, tables
<1>6. CASE SendNextMsg
  <2>1. PICK arrived \in Seq(News(r)) :
           inbox' = inbox \o arrived /\ UNCHANGED <<socket, lives, heap>>
    BY <1>6, SendNews
  <2>2. Gone(r)' <=> Gone(r)
    BY <2>1, GoneUnmoved
  <2>3. QED BY <2>1, <2>2, OneLifeNews DEF ClientTypeOK
<1>7. CASE ReadNextMessage
  BY <1>7, OneLifeRead
<1>8. CASE KernelActs
  BY <1>8, OneLifeKernel DEF KernelActs, Ignored, tables
<1>9. CASE EndRun
  BY <1>9, OneLifeEnd DEF EndRun, Ignored, tables
<1>10. CASE Tick
  BY <1>2, <1>10 DEF Tick, ClockStep, tables
<1>11. CASE UNCHANGED vars
  BY <1>2, <1>11 DEF vars, sourcesVars, tables
<1>12. QED
  BY <1>3, <1>4, <1>5, <1>6, <1>7, <1>8, <1>9, <1>10, <1>11 DEF ClientNext, RunLoop

-----------------------------------------------------------------------------
OneLives == \A r \in SrcRefs : OneLife(r)

\* All of it, and what it is for.
ListenerInv == ClientTypeOK /\ IInv /\ Story /\ Ported /\ OneLives

LEMMA OneLivesInit == ASSUME ClientInit PROVE OneLives
<1>1. /\ DOMAIN heap = {} /\ inbox = <<>> /\ DOMAIN inbox = {}
      /\ lives = [r \in SrcRefs |-> IF socket[r] = "closed" THEN 0 ELSE 1]
  BY DEF ClientInit, KernelInit, Init
<1>2. ASSUME NEW r \in SrcRefs PROVE OneLife(r)
  <2>1. ~Gone(r) /\ ~Mentions(inbox, r) /\ ~Tells(inbox, "SRC_REMOVED", r)
        /\ RemovedLast(inbox, r)
    BY <1>1 DEF Gone, Mentions, Tells, RemovedLast
  <2>2. lives \in [SrcRefs -> Nat] /\ (Open(r) => lives[r] >= 1)
    BY <1>1 DEF Open
  <2>3. QED BY <2>1, <2>2 DEF OneLife
<1>3. QED BY <1>2 DEF OneLives

LEMMA ListenerInit == ASSUME HavePorts, ClientInit PROVE Story /\ Ported
<1>1. /\ DOMAIN heap = {} /\ inbox = <<>>
      /\ socket \in [SrcRefs -> OpenPorts \cup {"closed"}]
  BY DEF ClientInit, KernelInit, Init
<1>2. QED BY <1>1 DEF Story, Ported, HavePorts

LEMMA ListenerStep ==
  ASSUME MaxLives = 1, HavePorts, ListenerInv, [ClientNext]_vars
  PROVE  Expected /\ Story' /\ Ported' /\ OneLives'
<1> USE DEF ListenerInv
<1>1. NotTooLate
  BY OneLifeIsEnough DEF IInv, OneLives
<1>2. QED BY <1>1, StoryStep, PortedStep, OneLifeStep DEF OneLives

(* The client calls its listener as the listener may expect, whatever       *)
(* messages are dropped and however often run() is called: each stream is   *)
(* added before it is updated or removed, and removed once.  It takes a     *)
(* kernel that uses no reference twice: when the SRC_REMOVED between two    *)
(* uses is dropped, the table cannot tell them apart.                       *)
THEOREM ListenerIsServed ==
  ASSUME MaxLives = 1, HavePorts
  PROVE  ClientSpec => ListenerContract
<1>1. ClientInit => Listener!Init
  BY DEF ClientInit, Init, Listener!Init, Listener!Quiet, Up, LastEvent, NoCall
<1>2. ClientInit => Story /\ Ported /\ OneLives
  BY ListenerInit, OneLivesInit
<1>3. ListenerInv /\ [ClientNext]_vars => Expected /\ Story' /\ Ported' /\ OneLives'
  BY ListenerStep
<1>4. ClientSpec => []ClientTypeOK /\ []IInv
  BY ClientTypeCorrect, ClientImplementsSources, Invariance, PTL
<1>5. QED
  BY <1>1, <1>2, <1>3, <1>4, PTL
  DEF ClientSpec, ListenerInv, Expected, ListenerContract, Listener!Spec

-----------------------------------------------------------------------------
(* References are used again, and nothing is dropped.  Then a message that  *)
(* is not SRC_ADDED follows one that is, or finds the source in the table.  *)
KnownAt(r, i) ==
    \/ \E k \in DOMAIN inbox :
          /\ k < i
          /\ Is(inbox[k], "SRC_ADDED", r)
          /\ \A j \in DOMAIN inbox : k < j /\ j < i => ~Is(inbox[j], "SRC_REMOVED", r)
    \/ InTable(r) /\ \A j \in DOMAIN inbox : j < i => ~Is(inbox[j], "SRC_REMOVED", r)

Later(m, r) == About(m, r) /\ m.type # "SRC_ADDED"

(* An open source is in the table once what waits is read, if the kernel    *)
(* reports it or the table holds it already: then no removal of it waits,   *)
(* or it was added after that.  This is what Session has of several runs.   *)
Heard(r) ==
    /\ Open(r) /\ (InTable(r) \/ Reported(r)) => Believed(r)
    /\ Tells(inbox, "SRC_REMOVED", r) => Reported(r)
    /\ \A i \in DOMAIN inbox : Later(inbox[i], r) => KnownAt(r, i)

LEMMA HeardIsEnough ==
  ASSUME ClientTypeOK, \A r \in SrcRefs : Heard(r)
  PROVE  NotTooLate
<1> SUFFICES ASSUME NEW r \in SrcRefs, inbox # <<>>, Later(Head(inbox), r)
             PROVE  Live(map[r])
  BY DEF NotTooLate, Later
<1>1. 1 \in DOMAIN inbox /\ Head(inbox) = inbox[1] /\ \A k \in DOMAIN inbox : ~(k < 1)
  BY DEF ClientTypeOK
<1>2. KnownAt(r, 1)
  BY <1>1 DEF Heard
<1>3. QED BY <1>1, <1>2 DEF KnownAt, InTable

LEMMA HeardArriving ==
  ASSUME NEW r, Heard(r), inbox \in Seq(KernelMessage), NEW arrived \in Seq(KernelMessage),
         inbox' = inbox \o arrived, InTable(r)' <=> InTable(r),
         Reported(r) => Reported(r)',
         Tells(arrived, "SRC_REMOVED", r) => Reported(r) /\ ~Open(r)',
         Open(r)' /\ (InTable(r) \/ Reported(r)') =>
             Believed(r) \/ Tells(arrived, "SRC_ADDED", r),
         \A i \in DOMAIN arrived :
            /\ Is(arrived[i], "SRC_REMOVED", r) => i = Len(arrived)
            /\ Later(arrived[i], r) => Believed(r)
  PROVE  Heard(r)'
<1> USE Elements
<1>1. (Open(r) /\ (InTable(r) \/ Reported(r)) => Believed(r))'
  <2>1. CASE Tells(arrived, "SRC_REMOVED", r)
    BY <2>1
  <2>2. CASE ~Tells(arrived, "SRC_REMOVED", r)
    <3>1. /\ AddedLast(r)' <=> AddedLast(r) \/ Tells(arrived, "SRC_ADDED", r)
          /\ Waiting("SRC_REMOVED", r)' <=> Waiting("SRC_REMOVED", r)
      BY <2>2, ArrivedAdded
    <3>2. QED BY <3>1 DEF Believed
  <2>3. QED BY <2>1, <2>2
<1>2. (Tells(inbox, "SRC_REMOVED", r) => Reported(r))'
  <2>1. Tells(inbox, "SRC_REMOVED", r)' =>
            Tells(inbox, "SRC_REMOVED", r) \/ Tells(arrived, "SRC_REMOVED", r)
    BY DEF Tells
  <2>2. QED BY <2>1 DEF Heard
<1>3. ASSUME NEW i \in DOMAIN inbox', Later(inbox'[i], r) PROVE KnownAt(r, i)'
  <2>1. CASE i \in 1..Len(inbox)
    <3>1. KnownAt(r, i)
      BY <1>3, <2>1 DEF Heard
    <3>2. \A j \in DOMAIN inbox' : j < i => j \in DOMAIN inbox /\ inbox'[j] = inbox[j]
      BY <2>1
    <3>3. \A k \in DOMAIN inbox : k \in DOMAIN inbox' /\ inbox'[k] = inbox[k]
      OBVIOUS
    <3>4. QED BY <3>1, <3>2, <3>3 DEF KnownAt
  <2>2. CASE i \notin 1..Len(inbox)
    <3>1. i - Len(inbox) \in DOMAIN arrived /\ inbox'[i] = arrived[i - Len(inbox)]
      BY <2>2
    <3>2. Believed(r)
      BY <1>3, <3>1
    <3>3. ASSUME NEW j \in DOMAIN inbox', j < i, Is(inbox'[j], "SRC_REMOVED", r)
          PROVE  j \in DOMAIN inbox /\ inbox'[j] = inbox[j]
      <4>1. CASE j \in 1..Len(inbox)
        BY <4>1
      <4>2. CASE j \notin 1..Len(inbox)
        <5>1. j - Len(inbox) \in DOMAIN arrived /\ inbox'[j] = arrived[j - Len(inbox)]
              /\ j - Len(inbox) < i - Len(inbox)
          BY <2>2, <3>3, <4>2
        <5>2. j - Len(inbox) = Len(arrived)
          BY <3>3, <5>1
        <5>3. QED BY <3>1, <5>1, <5>2
      <4>3. QED BY <4>1, <4>2
    <3>4. \A k \in DOMAIN inbox : k \in DOMAIN inbox' /\ inbox'[k] = inbox[k] /\ k < i
      BY <2>2
    <3>5. CASE AddedLast(r)
      <4>1. PICK k \in DOMAIN inbox :
               /\ Is(inbox[k], "SRC_ADDED", r)
               /\ \A j \in DOMAIN inbox : j > k => ~Is(inbox[j], "SRC_REMOVED", r)
        BY <3>5 DEF AddedLast
      <4>2. \A j \in DOMAIN inbox' : k < j /\ j < i => ~Is(inbox'[j], "SRC_REMOVED", r)
        BY <3>3, <4>1
      <4>3. QED BY <3>4, <4>1, <4>2 DEF KnownAt
    <3>6. CASE InTable(r) /\ ~Waiting("SRC_REMOVED", r)
      <4>1. \A j \in DOMAIN inbox' : j < i => ~Is(inbox'[j], "SRC_REMOVED", r)
        BY <3>3, <3>6 DEF Waiting, Is
      <4>2. QED BY <3>6, <4>1 DEF KnownAt
    <3>7. QED BY <3>2, <3>5, <3>6 DEF Believed
  <2>3. QED BY <2>1, <2>2
<1>4. QED BY <1>1, <1>2, <1>3 DEF Heard

LEMMA HeardReading ==
  ASSUME ClientTypeOK, IInv, NEW r \in SrcRefs, Heard(r), ReadNextMessage
  PROVE  Heard(r)'
<1> DEFINE m == Head(inbox)
<1>1. /\ inbox \in Seq(KernelMessage) /\ inbox # <<>> /\ inbox' = Tail(inbox)
      /\ subscribed' = subscribed
  BY DEF ReadNextMessage, ClientTypeOK
<1>2. /\ Len(inbox) \in Nat /\ DOMAIN inbox = 1..Len(inbox) /\ Len(inbox) >= 1
      /\ m = inbox[1] /\ 1 \in DOMAIN inbox
      /\ DOMAIN inbox' = 1..(Len(inbox) - 1)
      /\ \A i \in DOMAIN inbox' :
            i + 1 \in DOMAIN inbox /\ inbox'[i] = inbox[i + 1] /\ i \in Nat /\ 1 < i + 1
  BY <1>1
<1> HIDE DEF m
<1>3. /\ Is(m, "SRC_ADDED", r) => InTable(r)'
      /\ InTable(r)' => InTable(r) \/ Is(m, "SRC_ADDED", r)
      /\ InTable(r) => InTable(r)' \/ Is(m, "SRC_REMOVED", r)
  BY ReadCases, OfItself DEF KeptFor, m, Is
<1>4. (Reported(r)' <=> Reported(r)) /\ (Open(r)' <=> Open(r))
  BY <1>1 DEF Reported, Open, ReadNextMessage
<1>5. /\ (Tells(inbox, "SRC_REMOVED", r) => Reported(r))'
      /\ Waiting("SRC_REMOVED", r) => Reported(r)
  <2>1. Tells(inbox, "SRC_REMOVED", r)' => Tells(inbox, "SRC_REMOVED", r)
    BY <1>2 DEF Tells
  <2>2. Waiting("SRC_REMOVED", r) => Tells(inbox, "SRC_REMOVED", r)
    BY DEF Tells, Waiting, Is
  <2>3. QED BY <1>4, <2>1, <2>2 DEF Heard
<1>6. (Open(r) /\ (InTable(r) \/ Reported(r)) => Believed(r))'
  <2>1. /\ Waiting("SRC_REMOVED", r) <=> Waiting("SRC_REMOVED", r)' \/ Is(m, "SRC_REMOVED", r)
        /\ AddedLast(r) <=>
              \/ AddedLast(r)'
              \/ Is(m, "SRC_ADDED", r) /\ ~Waiting("SRC_REMOVED", r)'
    BY <1>1, Reading DEF m
  <2>2. ASSUME Open(r), (InTable(r) \/ Reported(r))' PROVE Believed(r)'
    <3>1. CASE Is(m, "SRC_ADDED", r)
      BY <1>3, <1>5, <2>1, <2>2, <3>1 DEF Heard, Believed
    <3>2. CASE Is(m, "SRC_REMOVED", r)
      <4>1. ~Is(m, "SRC_ADDED", r)
        BY <3>2 DEF Is
      <4>2. QED BY <1>5, <2>1, <2>2, <3>2, <4>1 DEF Heard, Believed
    <3>3. CASE ~Is(m, "SRC_ADDED", r) /\ ~Is(m, "SRC_REMOVED", r)
      BY <1>3, <1>4, <2>1, <2>2, <3>3 DEF Heard, Believed
    <3>4. QED BY <3>1, <3>2, <3>3
  <2>3. QED BY <1>4, <2>2
<1>7. ASSUME NEW i \in DOMAIN inbox', Later(inbox'[i], r) PROVE KnownAt(r, i)'
  <2>1. KnownAt(r, i + 1)
    BY <1>2, <1>7 DEF Heard
  <2>2. ASSUME NEW k \in DOMAIN inbox, k < i + 1, Is(inbox[k], "SRC_ADDED", r),
               \A j \in DOMAIN inbox : k < j /\ j < i + 1 => ~Is(inbox[j], "SRC_REMOVED", r)
        PROVE  KnownAt(r, i)'
    <3>1. \A j \in DOMAIN inbox' : k < j + 1 /\ j < i => ~Is(inbox'[j], "SRC_REMOVED", r)
      BY <1>2, <2>2
    <3>2. CASE k = 1
      <4>1. InTable(r)'
        BY <1>2, <1>3, <2>2, <3>2
      <4>2. \A j \in DOMAIN inbox' : j < i => ~Is(inbox'[j], "SRC_REMOVED", r)
        BY <1>2, <3>1, <3>2
      <4>3. QED BY <4>1, <4>2 DEF KnownAt
    <3>3. CASE k # 1
      <4>1. k - 1 \in DOMAIN inbox' /\ (k - 1) + 1 = k /\ k - 1 < i /\ k \in Nat
        BY <1>2, <2>2, <3>3
      <4>2. Is(inbox'[k - 1], "SRC_ADDED", r)
        BY <1>2, <2>2, <4>1
      <4>3. \A j \in DOMAIN inbox' : k - 1 < j /\ j < i => ~Is(inbox'[j], "SRC_REMOVED", r)
        BY <1>2, <3>1, <4>1
      <4>4. QED BY <4>1, <4>2, <4>3 DEF KnownAt
    <3>4. QED BY <3>2, <3>3
  <2>3. ASSUME InTable(r), \A j \in DOMAIN inbox : j < i + 1 => ~Is(inbox[j], "SRC_REMOVED", r)
        PROVE  KnownAt(r, i)'
    <3>1. ~Is(m, "SRC_REMOVED", r)
      BY <1>2, <2>3
    <3>2. \A j \in DOMAIN inbox' : j < i => ~Is(inbox'[j], "SRC_REMOVED", r)
      BY <1>2, <2>3
    <3>3. QED BY <1>3, <2>3, <3>1, <3>2 DEF KnownAt
  <2>4. QED BY <2>1, <2>2, <2>3 DEF KnownAt
<1>8. QED BY <1>5, <1>7, <1>6 DEF Heard

\* Nothing arrives.
LEMMA HeardQuiet ==
  ASSUME ClientTypeOK, IInv, NEW r \in SrcRefs, Heard(r), UNCHANGED <<inbox, subscribed>>,
         Open(r)' => Open(r) \/ ~Reported(r),
         UNCHANGED <<heap, map>> \/ RemoveOldSources \/ UpdateWaitForCountsQueue
  PROVE  Heard(r)'
<1>1. InTable(r)' <=> InTable(r)
  BY KeptByPasses DEF KeptFor
<1>2. (Reported(r)' <=> Reported(r)) /\ (Believed(r)' <=> Believed(r))
  BY <1>1 DEF Reported, Believed, AddedLast, Waiting
<1>3. ~Reported(r) => ~Waiting("SRC_REMOVED", r)
  BY DEF Heard, Tells, Waiting, Is
<1>4. (Open(r) /\ (InTable(r) \/ Reported(r)) => Believed(r))'
  BY <1>1, <1>2, <1>3 DEF Heard, Believed
<1>5. QED BY <1>1, <1>2, <1>4 DEF Heard, KnownAt, Tells

\* What the kernel tells of itself it tells of sources it reports.
LEMMA HeardOpening ==
  ASSUME ~Lossy, ClientTypeOK, IInv, NEW r \in SrcRefs, Heard(r),
         UNCHANGED <<heap, map>>, NEW q \in SrcRefs, OpenSource(q)
  PROVE  Heard(r)'
<1> DEFINE a == Added(q)
<1>1. a \in KernelMessage /\ a.type = "SRC_ADDED" /\ a.ref = q
  BY MessageTypes DEF Added, Message
<1>2. /\ q # r => (Open(r)' <=> Open(r))
      /\ Reported(r)' <=> Reported(r)
      /\ InTable(r)' <=> InTable(r)
      /\ inbox \in Seq(KernelMessage)
  <2>1. InTable(r)' <=> InTable(r)
    BY KeptByPasses DEF KeptFor
  <2>2. QED BY <2>1 DEF OpenSource, Open, Reported, ClientTypeOK
<1>3. CASE Reported(q)
  <2>1. inbox' = inbox \o <<a>>
    BY <1>3, Arrives DEF OpenSource
  <2> HIDE DEF a
  <2>2. <<a>> \in Seq(KernelMessage) /\ DOMAIN <<a>> = 1..1 /\ <<a>>[1] = a
    BY <1>1
  <2>3. Tells(<<a>>, "SRC_ADDED", r) <=> q = r
    BY <1>1, <2>2 DEF Tells, Is
  <2>4. ~Tells(<<a>>, "SRC_REMOVED", r)
    BY <1>1, <2>2 DEF Tells, Is
  <2>5. Open(r)' /\ (InTable(r) \/ Reported(r)') =>
            Believed(r) \/ Tells(<<a>>, "SRC_ADDED", r)
    BY <1>2, <2>3 DEF Heard
  <2>6. \A i \in DOMAIN <<a>> : ~Is(<<a>>[i], "SRC_REMOVED", r) /\ ~Later(<<a>>[i], r)
    BY <1>1, <2>2 DEF Is, Later
  <2>7. QED BY <1>2, <2>1, <2>2, <2>4, <2>5, <2>6, HeardArriving
<1>4. CASE ~Reported(q)
  BY <1>2, <1>4, HeardQuiet DEF OpenSource
<1>5. QED BY <1>3, <1>4

LEMMA HeardClosing ==
  ASSUME ~Lossy, ClientTypeOK, IInv, NEW r \in SrcRefs, Heard(r),
         UNCHANGED <<heap, map>>, NEW q \in SrcRefs, CloseSource(q)
  PROVE  Heard(r)'
<1> DEFINE c == Counts(q)
           d == Desc(q, socket[q])
           m == Removed(q)
           a == Added(q)
<1>1. socket[q] \in PortClass /\ Open(q)
  BY DEF CloseSource, Open, ClientTypeOK
<1>2. /\ a \in KernelMessage /\ a.type = "SRC_ADDED" /\ a.ref = q
      /\ c \in KernelMessage /\ c.type = "SRC_COUNTS" /\ c.ref = q
      /\ d \in KernelMessage /\ d.type = "SRC_DESC" /\ d.ref = q
      /\ m \in KernelMessage /\ m.type = "SRC_REMOVED" /\ m.ref = q
  BY <1>1, MessageTypes DEF Added, Counts, Desc, Removed, Message
<1>3. /\ q # r => (Open(r)' <=> Open(r))
      /\ ~Open(q)'
      /\ Reported(r)' <=> Reported(r)
      /\ InTable(r)' <=> InTable(r)
      /\ inbox \in Seq(KernelMessage)
  <2>1. InTable(r)' <=> InTable(r)
    BY KeptByPasses DEF KeptFor
  <2>2. QED BY <2>1 DEF CloseSource, Open, Reported, ClientTypeOK
<1>4. CASE Reported(q)
  <2>1. inbox' = inbox \o <<c, d, m>> \/ inbox' = inbox \o (<<a>> \o <<c, d, m>>)
    BY <1>4, Arrives DEF CloseSource
  <2> HIDE DEF a, c, d, m
  <2>2. <<a>> \o <<c, d, m>> = <<a, c, d, m>>
    BY <1>2, OneAndThree
  <2>3. PICK msgs \in {<<c, d, m>>, <<a, c, d, m>>} : inbox' = inbox \o msgs
    BY <2>1, <2>2
  <2>4. /\ msgs \in Seq(KernelMessage)
        /\ \A i \in DOMAIN msgs : msgs[i] \in {a, c, d, m} /\ (msgs[i] = m => i = Len(msgs))
    <3>1. CASE msgs = <<c, d, m>>
      <4>1. msgs \in Seq(KernelMessage) /\ DOMAIN msgs = 1..3 /\ Len(msgs) = 3
            /\ msgs[1] = c /\ msgs[2] = d /\ msgs[3] = m
        BY <1>2, <3>1
      <4>2. \A i \in 1..3 : i = 1 \/ i = 2 \/ i = 3
        OBVIOUS
      <4>3. QED BY <1>2, <4>1, <4>2
    <3>2. CASE msgs = <<a, c, d, m>>
      <4>1. msgs \in Seq(KernelMessage) /\ DOMAIN msgs = 1..4 /\ Len(msgs) = 4
            /\ msgs[1] = a /\ msgs[2] = c /\ msgs[3] = d /\ msgs[4] = m
        BY <1>2, <3>2
      <4>2. \A i \in 1..4 : i = 1 \/ i = 2 \/ i = 3 \/ i = 4
        OBVIOUS
      <4>3. QED BY <1>2, <4>1, <4>2
    <3>3. QED BY <2>3, <3>1, <3>2
  <2>5. q = r => Believed(r) /\ ~Open(r)' /\ Reported(r)
    BY <1>1, <1>3, <1>4 DEF Heard
  <2>6. Tells(msgs, "SRC_REMOVED", r) => q = r
    BY <1>2, <2>4 DEF Tells, Is
  <2>7. ASSUME NEW i \in DOMAIN msgs
        PROVE  /\ Is(msgs[i], "SRC_REMOVED", r) => i = Len(msgs)
               /\ Later(msgs[i], r) => Believed(r)
    BY <1>2, <2>4, <2>5 DEF Is, Later, About
  <2>8. Open(r)' /\ (InTable(r) \/ Reported(r)') => Believed(r)
    BY <1>3, <2>5 DEF Heard
  <2>9. QED BY <1>3, <2>3, <2>4, <2>5, <2>6, <2>7, <2>8, HeardArriving
<1>5. CASE ~Reported(q)
  BY <1>3, <1>5, HeardQuiet DEF CloseSource
<1>6. QED BY <1>4, <1>5

LEMMA HeardMoving ==
  ASSUME ClientTypeOK, IInv, NEW r \in SrcRefs, Heard(r),
         UNCHANGED <<heap, map>>, NEW q \in SrcRefs, MovePorts(q)
  PROVE  Heard(r)'
<1>1. PICK move \in PortMoves :
        socket[q] = move[1] /\ socket' = [socket EXCEPT ![q] = move[2]]
  BY DEF MovePorts
<1>2. move[1] \in PortClass /\ move[2] \in PortClass
  BY ClientAssumption
<1>3. Open(r)' <=> Open(r)
  BY <1>1, <1>2 DEF Open, ClientTypeOK, PortClass
<1>4. QED BY <1>3, HeardQuiet DEF MovePorts

\* The connection ends: what is in the table stays there, nothing waits.
LEMMA HeardEnding ==
  ASSUME ClientTypeOK, IInv, NEW r \in SrcRefs, Heard(r), UNCHANGED <<heap, map>>,
         Disconnect
  PROVE  Heard(r)'
<1>1. inbox' = <<>> /\ DOMAIN inbox' = {} /\ ~Reported(r)'
  BY DEF Disconnect, Reported
<1>2. QED BY <1>1 DEF Heard, Believed, Waiting, Tells

(* Answers are about what is in the table, or list what is reported from    *)
(* now on.                                                                  *)
LEMMA HeardAnswer ==
  ASSUME ~Lossy, ClientTypeOK, IInv, NEW r \in SrcRefs, Heard(r),
         UNCHANGED <<heap, map, socket>>, Reported(r) => Reported(r)',
         NEW S, S \subseteq {x \in KernelMessage : /\ ~Is(x, "SRC_REMOVED", r)
                                                   /\ Later(x, r) => Believed(r)},
         NEW msgs \in Seq(S), Answer(msgs),
         Open(r) /\ ~Reported(r) /\ Reported(r)' => Tells(msgs, "SRC_ADDED", r)
  PROVE  Heard(r)'
<1>1. inbox' = inbox \o msgs
  BY Arrives
<1>2. \A i \in DOMAIN msgs : msgs[i] \in S
  OBVIOUS
<1>3. msgs \in Seq(KernelMessage)
  BY <1>2
<1>4. (InTable(r)' <=> InTable(r)) /\ (Open(r)' <=> Open(r))
  BY KeptByPasses DEF KeptFor, Open
<1>5. \A i \in DOMAIN msgs : ~Is(msgs[i], "SRC_REMOVED", r) /\ (Later(msgs[i], r) => Believed(r))
  BY <1>2
<1>6. ~Tells(msgs, "SRC_REMOVED", r)
  BY <1>5 DEF Tells
<1>7. Open(r)' /\ (InTable(r) \/ Reported(r)') => Believed(r) \/ Tells(msgs, "SRC_ADDED", r)
  BY <1>4 DEF Heard
<1>8. inbox \in Seq(KernelMessage)
  BY DEF ClientTypeOK
<1>9. QED BY <1>1, <1>3, <1>4, <1>5, <1>6, <1>7, <1>8, HeardArriving

LEMMA HeardData ==
  ASSUME ~Lossy, ClientTypeOK, IInv, NEW r \in SrcRefs, Heard(r),
         UNCHANGED <<heap, map, socket, subscribed>>, NEW m \in KernelMessage,
         m.type \in {"SRC_DESC", "SRC_COUNTS"},
         m.ref = r => Open(r) /\ InTable(r),
         Data(m)
  PROVE  Heard(r)'
<1> DEFINE S == {x \in KernelMessage : ~Is(x, "SRC_REMOVED", r)
                                       /\ (Later(x, r) => Believed(r))}
<1>1. Success \in S
  BY MessageTypes, Abouts DEF Is, Later, Success, Message
<1>2. m \in S
  BY DEF Is, Later, About, Heard
<1> HIDE DEF S
<1>3. <<m>> \in Seq(S) /\ <<m, Success>> \in Seq(S)
  BY <1>1, <1>2
<1>4. PICK msgs \in Seq(S) : Answer(msgs)
  BY <1>3 DEF Data
<1>5. S \subseteq {x \in KernelMessage : /\ ~Is(x, "SRC_REMOVED", r)
                                         /\ Later(x, r) => Believed(r)}
  BY DEF S
<1>6. Reported(r) <=> Reported(r)'
  BY DEF Reported
<1>7. QED BY <1>4, <1>5, <1>6, HeardAnswer

LEMMA HeardRefused ==
  ASSUME ~Lossy, ClientTypeOK, IInv, NEW r \in SrcRefs, Heard(r),
         UNCHANGED <<heap, map, socket, subscribed>>, Answer(<<Error>>)
  PROVE  Heard(r)'
<1>1. Error \in KernelMessage /\ ~Is(Error, "SRC_REMOVED", r) /\ ~Later(Error, r)
  BY MessageTypes, Abouts DEF Is, Later, Error, Message
<1>2. <<Error>> \in Seq({Error})
  OBVIOUS
<1>3. Reported(r) <=> Reported(r)'
  BY DEF Reported
<1>4. {Error} \subseteq {x \in KernelMessage : /\ ~Is(x, "SRC_REMOVED", r)
                                               /\ Later(x, r) => Believed(r)}
  BY <1>1
<1>5. QED BY <1>2, <1>3, <1>4, HeardAnswer

\* A provider is reported from now on, and what is open of it is listed.
LEMMA HeardSubscribe ==
  ASSUME ~Lossy, ClientTypeOK, IInv, NEW r \in SrcRefs, Heard(r),
         UNCHANGED <<heap, map, socket>>, NEW provider, Subscribe(provider)
  PROVE  Heard(r)'
<1>1. CASE Answer(<<Error>>) /\ UNCHANGED subscribed
  BY <1>1, HeardRefused
<1>2. ASSUME NEW list \in Listings(Existing(provider)),
             Answer([i \in DOMAIN list |-> Added(list[i])] \o <<Success>>),
             subscribed' = subscribed \cup {provider}
      PROVE  Heard(r)'
  <2> DEFINE S == {x \in KernelMessage : ~Is(x, "SRC_REMOVED", r) /\ ~Later(x, r)}
             n == Cardinality(Existing(provider))
             reports == [i \in DOMAIN list |-> Added(list[i])]
             msgs == reports \o <<Success>>
  <2>1. Success \in S
    BY MessageTypes, Abouts DEF Is, Later, Success, Message
  <2>2. /\ n \in Nat
        /\ list \in [1..n -> SrcRefs]
        /\ \A q \in Existing(provider) : \E i \in 1..n : list[i] = q
    BY ListingIsComplete, Zenon
  <2> HIDE DEF n
  <2>3. \A q \in SrcRefs : Added(q) \in S
    BY MessageTypes DEF Is, Later, Added, Message
  <2>4. S \subseteq {x \in KernelMessage : /\ ~Is(x, "SRC_REMOVED", r)
                                           /\ Later(x, r) => Believed(r)}
    OBVIOUS
  <2> HIDE DEF S
  <2>5. reports \in Seq(S) /\ Len(reports) = n
        /\ \A i \in 1..n : reports[i] = Added(list[i])
    BY <2>2, <2>3
  <2> HIDE DEF reports
  <2>6. /\ msgs \in Seq(S)
        /\ \A i \in 1..n : i \in DOMAIN msgs /\ msgs[i] = Added(list[i])
    BY <2>1, <2>2, <2>5
  <2>7. Answer(msgs)
    BY <1>2 DEF reports
  <2> HIDE DEF msgs
  <2>8. Open(r) /\ ~Reported(r) /\ Reported(r)' => Tells(msgs, "SRC_ADDED", r)
    <3>1. SUFFICES ASSUME Open(r), ~Reported(r), Reported(r)'
                   PROVE  Tells(msgs, "SRC_ADDED", r)
      OBVIOUS
    <3>2. r \in Existing(provider)
      BY <1>2, <3>1 DEF Reported, Existing
    <3>3. PICK i \in 1..n : list[i] = r
      BY <2>2, <3>2
    <3>4. Added(r).type = "SRC_ADDED" /\ Added(r).ref = r
      BY DEF Added, Message
    <3>5. QED BY <2>6, <3>3, <3>4 DEF Tells, Is
  <2>9. Reported(r) => Reported(r)'
    BY <1>2 DEF Reported
  <2>10. QED BY <2>4, <2>6, <2>7, <2>8, <2>9, HeardAnswer
<1>3. QED BY <1>1, <1>2 DEF Subscribe

(* Strict inclusion is well founded on finite sets, so one of the sets of   *)
(* what lies below an element is least: it is empty.                        *)
LEMMA LeastElement ==
  ASSUME NEW T \in SUBSET Nat, IsFiniteSet(T), T # {}
  PROVE  \E x \in T : \A y \in T : x <= y
<1> DEFINE Below(x) == {y \in T : y < x}
           R == StrictSubsetOrdering(T)
           B == {Below(x) : x \in T}
<1>1. IsWellFoundedOn(R, FiniteSubsetsOf(T))
  BY FS_StrictSubsetOrderingWellFounded
<1>2. FiniteSubsetsOf(T) = SUBSET T
  BY FS_FiniteSubsetsOfFinite
<1>3. B # {} /\ B \subseteq FiniteSubsetsOf(T)
  <2>1. \A x \in T : Below(x) \in SUBSET T
    OBVIOUS
  <2>2. B \subseteq SUBSET T
    BY <2>1, Zenon
  <2>3. PICK x : x \in T
    OBVIOUS
  <2>4. Below(x) \in B
    BY <2>3, Zenon
  <2>5. QED BY <1>2, <2>2, <2>4, Zenon
<1>4. \E b \in B : \A c \in B : <<c, b>> \notin R
  <2> HIDE DEF R, B
  <2>1. QED BY <1>1, <1>3, WFMin
<1>5. PICK x \in T : \A y \in T : <<Below(y), Below(x)>> \notin R
  BY <1>4
<1>6. ASSUME NEW y \in T, y < x PROVE FALSE
  <2>1. /\ Below(y) \subseteq Below(x) /\ Below(y) # Below(x)
        /\ Below(x) \subseteq T
    <3>1. x \in Nat /\ y \in Nat
      OBVIOUS
    <3>2. y \in Below(x) /\ y \notin Below(y)
      BY <1>6, <3>1
    <3>3. ASSUME NEW z \in Below(y) PROVE z \in Below(x)
      <4>1. z \in Nat /\ z \in T /\ z < y
        OBVIOUS
      <4>2. z < x
        BY <1>6, <3>1, <4>1
      <4>3. QED BY <4>1, <4>2
    <3> HIDE DEF Below
    <3>4. Below(x) \subseteq T
      BY DEF Below
    <3>5. QED BY <3>2, <3>3, <3>4
  <2>2. <<Below(y), Below(x)>> \in R
    BY <2>1 DEF StrictSubsetOrdering
  <2>3. QED BY <1>5, <2>2
<1>7. QED BY <1>6

LEMMA FirstIsKey ==
  ASSUME NEW f, Keys(f) # {}
  PROVE  First(f) \in Keys(f)
<1>1. Keys(f) \in SUBSET SrcRefs /\ SrcRefs \subseteq Nat /\ IsFiniteSet(SrcRefs)
  BY SourcesAssumption, ClientAssumption DEF Keys
<1>2. IsFiniteSet(Keys(f))
  BY <1>1, FS_Subset
<1>3. \E x \in Keys(f) : \A y \in Keys(f) : x <= y
  BY <1>1, <1>2, LeastElement
<1>4. QED BY <1>3 DEF First

LEMMA QueriesAreCurrent == ASSUME IInv PROVE QueriesAreForCurrentSources
BY Opened DEF IInv, LiveSourcesAreInTable, Pointers, PointsHome, Keys,
   QueriesAreForCurrentSources, StillWanted

LEMMA HeardSend ==
  ASSUME ~Lossy, ClientTypeOK, IInv, NEW r \in SrcRefs, Heard(r), SendNextMsg
  PROVE  Heard(r)'
<1>1. CASE SendQueued
  <2>1. /\ Serve(Head(outq)) /\ outq \in Seq({AddAllSrcs("tcp"), AddAllSrcs("udp")})
        /\ outq # <<>>
        /\ UNCHANGED <<heap, map, socket>>
    BY <1>1 DEF SendQueued, Serve, Ignored, tables, ClientTypeOK
  <2>2. Head(outq).type = "ADD_ALL_SRCS"
    <3>1. Head(outq) \in {AddAllSrcs("tcp"), AddAllSrcs("udp")}
      BY <2>1
    <3>2. QED BY <3>1 DEF AddAllSrcs, Request
  <2>3. Subscribe(Head(outq).provider)
    BY <2>1, <2>2 DEF Serve
  <2>4. QED BY <2>1, <2>3, HeardSubscribe
<1>2. CASE SendGetSrcDesc
  <2>1. PICK q \in SrcRefs : TakeWaitingForDesc(q) /\ Serve(GetSrcDesc(q))
    BY <1>2 DEF SendGetSrcDesc
  <2>2. Describe(q) /\ UNCHANGED <<heap, map, socket>>
    BY <2>1 DEF Serve, GetSrcDesc, Request, TakeWaitingForDesc
  <2>3. q \in Keys(mapWaitingForDesc)
    BY <2>1, FirstIsKey DEF TakeWaitingForDesc
  <2>4. InTable(q)
    BY <2>3 DEF IInv, WaitingForDescIsCurrent, Keys, InTable
  <2>5. CASE Open(q)
    <3> DEFINE d == Desc(q, socket[q])
    <3>1. /\ d \in KernelMessage /\ d.type = "SRC_DESC" /\ d.ref = q
          /\ Data(d) /\ subscribed' = subscribed
      BY <2>2, <2>5, MessageTypes DEF Open, ClientTypeOK, Desc, Message, Describe
    <3> HIDE DEF d
    <3>2. QED BY <2>2, <2>4, <2>5, <3>1, HeardData
  <2>6. CASE ~Open(q)
    BY <2>2, <2>6, HeardRefused DEF Describe
  <2>7. QED BY <2>5, <2>6
<1>3. CASE SendQuerySrc
  <2>1. PICK q \in SrcRefs :
           /\ TakeWaitingForCount(q)
           /\ IF StillWanted(mapWaitingForCount[q])
              THEN Serve(QuerySrc(q)) ELSE UNCHANGED kernelVars
    BY <1>3 DEF SendQuerySrc
  <2>2. UNCHANGED <<heap, map>>
    BY <2>1 DEF TakeWaitingForCount
  <2>3. CASE StillWanted(mapWaitingForCount[q])
    <3>1. Count(q) /\ socket' = socket
      BY <2>1, <2>3 DEF Serve, QuerySrc, Request
    <3>2. q \in Keys(mapWaitingForCount)
      BY <2>1, FirstIsKey DEF TakeWaitingForCount
    <3>3. mapWaitingForCount[q] = map[q]
      BY <2>3, <3>2, QueriesAreCurrent DEF IInv, QueriesAreForCurrentSources
    <3>4. InTable(q)
      BY <2>3, <3>2, <3>3 DEF StillWanted, Keys, InTable
    <3>5. CASE Open(q)
      <4>1. /\ Counts(q) \in KernelMessage /\ Counts(q).type = "SRC_COUNTS"
            /\ Counts(q).ref = q
        BY MessageTypes DEF Counts, Message
      <4>2. Data(Counts(q)) /\ subscribed' = subscribed
        BY <3>1, <3>5 DEF Count
      <4>3. QED BY <2>2, <3>1, <3>4, <3>5, <4>1, <4>2, HeardData
    <3>6. CASE ~Open(q)
      BY <2>2, <3>1, <3>6, HeardRefused DEF Count
    <3>7. QED BY <3>5, <3>6
  <2>4. CASE ~StillWanted(mapWaitingForCount[q])
    BY <2>1, <2>2, <2>4, HeardQuiet DEF kernelVars, Open
  <2>5. QED BY <2>3, <2>4
<1>4. CASE SendNothing
  BY <1>4, HeardQuiet DEF SendNothing, kernelVars, Ignored, tables, Open
<1>5. QED BY <1>1, <1>2, <1>3, <1>4 DEF SendNextMsg

LEMMA HeardStep ==
  ASSUME ~Lossy, ClientTypeOK, IInv, NEW r \in SrcRefs, Heard(r), [ClientNext]_vars
  PROVE  Heard(r)'
<1> USE DEF Open
<1>1. CASE StartRun
  BY <1>1, HeardQuiet DEF StartRun, kernelVars, Ignored, tables
<1>2. CASE Cleanup
  BY <1>2, HeardQuiet DEF Cleanup, kernelVars, Ignored, tables
<1>3. CASE Update
  BY <1>3, HeardQuiet DEF Update, kernelVars, Ignored, tables
<1>4. CASE SendNextMsg
  BY <1>4, HeardSend
<1>5. CASE ReadNextMessage
  BY <1>5, HeardReading
<1>6. CASE Drained
  BY <1>6, HeardQuiet DEF Drained, kernelVars, Ignored, tables
<1>7. CASE EndRun
  BY <1>7, HeardEnding DEF EndRun, Ignored, tables
<1>8. CASE KernelActs
  BY <1>8, HeardOpening, HeardMoving, HeardClosing
  DEF KernelActs, KernelStep, Ignored, tables
<1>9. CASE Tick
  BY <1>9, HeardQuiet DEF Tick, ClockStep, kernelVars, tables
<1>10. CASE UNCHANGED vars
  BY <1>10, HeardQuiet DEF vars, kernelVars, sourcesVars, tables
<1>11. QED
  BY <1>1, <1>2, <1>3, <1>4, <1>5, <1>6, <1>7, <1>8, <1>9, <1>10
  DEF ClientNext, RunLoop

AllHeard == \A r \in SrcRefs : Heard(r)

LEMMA AllHeardInit == ASSUME ClientInit PROVE AllHeard
<1>1. ASSUME NEW r \in SrcRefs PROVE Heard(r)
  <2>1. inbox = <<>> /\ DOMAIN inbox = {} /\ map[r] = NoObj /\ subscribed = {}
    BY DEF ClientInit, KernelInit, Init
  <2>2. QED BY <2>1 DEF Heard, InTable, Tells, Reported
<1>2. QED BY <1>1 DEF AllHeard

\* All of it, and what it is for.
ReuseInv == ClientTypeOK /\ IInv /\ Story /\ Ported /\ AllHeard

LEMMA ReuseStep ==
  ASSUME ~Lossy, HavePorts, ReuseInv, [ClientNext]_vars
  PROVE  Expected /\ Story' /\ Ported' /\ AllHeard'
<1> USE DEF ReuseInv
<1>1. NotTooLate
  BY HeardIsEnough DEF AllHeard
<1>2. AllHeard'
  BY HeardStep DEF AllHeard
<1>3. QED BY <1>1, <1>2, StoryStep, PortedStep DEF IInv

(* When nothing is dropped, the client calls its listener as the listener   *)
(* may expect, however often references are used again, also between two    *)
(* calls of run().  ListenerIsServed has the loss, without the reuse.       *)
THEOREM ReuseIsServed ==
  ASSUME ~Lossy, HavePorts
  PROVE  ClientSpec => ListenerContract
<1>1. ClientInit => Listener!Init
  BY DEF ClientInit, Init, Listener!Init, Listener!Quiet, Up, LastEvent, NoCall
<1>2. ClientInit => Story /\ Ported /\ AllHeard
  BY ListenerInit, AllHeardInit
<1>3. ReuseInv /\ [ClientNext]_vars => Expected /\ Story' /\ Ported' /\ AllHeard'
  BY ReuseStep
<1>4. ClientSpec => []ClientTypeOK /\ []IInv
  BY ClientTypeCorrect, ClientImplementsSources, Invariance, PTL
<1>5. QED
  BY <1>1, <1>2, <1>3, <1>4, PTL
  DEF ClientSpec, ReuseInv, Expected, ListenerContract, Listener!Spec

-----------------------------------------------------------------------------
(* Messages are dropped and references are used again.  Then one object may *)
(* be withdrawn twice, or stand for two streams; what is left of the        *)
(* contract is that the application hears of it by onStreamAdded first.     *)
Introduced ==
    \A o \in DOMAIN heap :
        /\ heap[o].haveDesc <=> o \in announced
        /\ heap[o].haveNotifiedAdded <=> o \in announced
        /\ heap[o].ports = "none" <=> o \notin announced

CalledAfterAdded ==
    callback'.kind \in {"stats", "removed"} => callback'.obj \in announced

LEMMA UncalledStep ==
  ASSUME Introduced, Silent, DOMAIN heap' = DOMAIN heap,
         \A o \in DOMAIN heap :
            /\ heap'[o].ports = heap[o].ports
            /\ heap'[o].haveDesc = heap[o].haveDesc
            /\ heap'[o].haveNotifiedAdded = heap[o].haveNotifiedAdded
  PROVE  Introduced' /\ CalledAfterAdded
BY DEF Introduced, CalledAfterAdded, Silent, NoCall

LEMMA UncalledIgnored == ASSUME Introduced, Ignored PROVE Introduced' /\ CalledAfterAdded
BY UncalledStep DEF Ignored, tables

LEMMA DescIntroduces ==
  ASSUME TypeOK, Introduced, NEW r \in SrcRefs, NEW ports \in PortClass \ {"none"},
         SrcDesc(r, ports)
  PROVE  Introduced' /\ CalledAfterAdded
<1> USE Opened
<1>0. PICK o \in DOMAIN heap : o = map[r]
  BY DEF SrcDesc
<1>1. heap[o] \in Source
  OBVIOUS
<1>2. /\ DOMAIN heap' = DOMAIN heap
      /\ \A p \in DOMAIN heap : p # o => heap'[p] = heap[p]
      /\ heap'[o].haveDesc /\ heap'[o].haveNotifiedAdded
  BY <1>0, SrcDescFields
<1>3. heap'[o].ports = ports
  <2>1. heap'[o] = [heap[o] EXCEPT !.ports = ports, !.haveDesc = TRUE,
                                   !.haveNotifiedAdded = TRUE]
    BY <1>0 DEF TypeOK, SrcDesc
  <2>2. QED BY <1>1, <2>1 DEF Source
<1>4. callback' = NoCall \/ callback' = Call("added", o)
  BY <1>0 DEF SrcDesc, Silent
<1>5. announced' = announced \cup {o}
  <2>1. heap[o].haveNotifiedAdded = (o \in announced)
    BY <1>1 DEF Introduced, Source
  <2>2. CASE o \in announced
    BY <1>0, <2>1, <2>2 DEF SrcDesc, Silent
  <2>3. CASE o \notin announced
    BY <1>0, <2>1, <2>3 DEF SrcDesc
  <2>4. QED BY <2>2, <2>3
<1>6. ports # "none"
  OBVIOUS
<1>7. ASSUME NEW p \in DOMAIN heap
      PROVE  /\ heap'[p].haveDesc <=> p \in announced'
             /\ heap'[p].haveNotifiedAdded <=> p \in announced'
             /\ heap'[p].ports = "none" <=> p \notin announced'
  <2>1. CASE p = o
    BY <1>2, <1>3, <1>5, <1>6, <2>1
  <2>2. CASE p # o
    BY <1>2, <1>5, <2>2 DEF Introduced
  <2>3. QED BY <2>1, <2>2
<1>8. QED BY <1>2, <1>4, <1>7 DEF Introduced, CalledAfterAdded, NoCall, Call

LEMMA NotificationIntroduces ==
  ASSUME ClientTypeOK, TypeOK, Introduced, Ported, inbox # <<>>,
         HandleNotification(Head(inbox))
  PROVE  Introduced' /\ CalledAfterAdded
<1> DEFINE m == Head(inbox)
           r == m.ref
<1>1. m \in KernelMessage /\ m = inbox[1] /\ 1 \in DOMAIN inbox
  BY DEF ClientTypeOK
<1>2. m.type \in Notifications
  BY DEF HandleNotification, Notifications
<1>3. r \in SrcRefs /\ m.ports \in PortClass
  BY <1>1, <1>2 DEF KernelMessage, Success, Error, NoBuffers, Message, Notifications
<1>4. m.type = "SRC_DESC" => m.ports # "none"
  BY <1>1 DEF Ported, PortedMessage
<1>5. HandleNotification(m)
  OBVIOUS
<1> HIDE DEF m
<1>6. CASE SrcAddedKnown(r)
  BY <1>6, UncalledStep DEF SrcAddedKnown
<1>7. CASE SrcAddedNew(r)
  <2>1. PICK o \in Obj \ DOMAIN heap :
           heap' = [p \in DOMAIN heap \cup {o} |-> IF p = o THEN NewSource(r) ELSE heap[p]]
    BY <1>7 DEF SrcAddedNew
  <2>2. /\ DOMAIN heap' = DOMAIN heap \cup {o}
        /\ heap'[o] = NewSource(r)
        /\ \A p \in DOMAIN heap : heap'[p] = heap[p]
    BY <2>1
  <2>3. announced' = announced /\ callback' = NoCall /\ o \notin announced
    BY <1>7, <2>1 DEF SrcAddedNew, Silent, TypeOK
  <2>4. QED BY <2>2, <2>3 DEF Introduced, CalledAfterAdded, NewSource, NoCall
<1>8. CASE SrcRemoved(r)
  <2>1. PICK o \in DOMAIN heap : o = map[r]
    BY <1>3, <1>8, Opened DEF SrcRemoved
  <2>2. Introduced'
    <3>1. announced' = announced
      BY <1>8 DEF SrcRemoved, Silent
    <3>2. QED BY <1>3, <1>8, <3>1, SrcRemovedFields DEF Introduced
  <2>3. callback' = NoCall \/ (callback' = Call("removed", o) /\ heap[o].ports # "none")
    BY <1>8, <2>1 DEF SrcRemoved, Silent
  <2>4. QED BY <2>2, <2>3 DEF Introduced, CalledAfterAdded, NoCall, Call
<1>9. CASE m.type = "SRC_DESC" /\ SrcDesc(r, m.ports)
  BY <1>3, <1>4, <1>9, DescIntroduces
<1>10. ASSUME NEW traffic \in BOOLEAN, SrcCounts(r, traffic)
       PROVE  Introduced' /\ CalledAfterAdded
  <2>1. PICK o \in DOMAIN heap : o = map[r]
    BY <1>3, <1>10, Opened DEF SrcCounts
  <2>2. Introduced'
    <3>1. announced' = announced
      BY <1>10 DEF SrcCounts
    <3>2. QED BY <1>3, <1>10, <3>1, SrcCountsFields DEF Introduced
  <2>3. callback' = NoCall \/ (callback' = Call("stats", o) /\ heap[o].haveDesc)
    BY <1>10, <2>1 DEF SrcCounts
  <2>4. QED BY <2>2, <2>3 DEF Introduced, CalledAfterAdded, NoCall, Call
<1>11. CASE Ignored
  BY <1>11, UncalledIgnored
<1>12. QED
  BY <1>5, <1>6, <1>7, <1>8, <1>9, <1>10, <1>11 DEF HandleNotification, SrcAdded

LEMMA IntroducedStep ==
  ASSUME ClientTypeOK, TypeOK, Introduced, Ported, [ClientNext]_vars
  PROVE  Introduced' /\ [CalledAfterAdded]_vars
<1>1. CASE ReadNextMessage
  <2>1. CASE HandleNotification(Head(inbox))
    BY <1>1, <2>1, NotificationIntroduces DEF ReadNextMessage
  <2>2. CASE HandleResponse(Head(inbox))
    BY <2>2, UncalledIgnored DEF HandleResponse
  <2>3. QED BY <1>1, <2>1, <2>2 DEF ReadNextMessage
<1>2. CASE Cleanup
  <2>1. CASE RemoveOldSources
    BY <2>1, UncalledStep DEF RemoveOldSources
  <2>2. QED BY <1>2, <2>1, UncalledIgnored DEF Cleanup
<1>3. CASE Update
  <2>1. CASE UpdateWaitForCountsQueue
    BY <2>1, UncalledStep, UpdateFields DEF UpdateWaitForCountsQueue
  <2>2. QED BY <1>3, <2>1, UncalledIgnored DEF Update
<1>4. CASE SendNextMsg
  <2>1. ASSUME NEW r \in SrcRefs, TakeWaitingForDesc(r) \/ TakeWaitingForCount(r)
        PROVE  Introduced' /\ CalledAfterAdded
    BY <2>1, UncalledStep DEF TakeWaitingForDesc, TakeWaitingForCount
  <2>2. QED BY <1>4, <2>1, UncalledIgnored
            DEF SendNextMsg, SendQueued, SendGetSrcDesc, SendQuerySrc, SendNothing
<1>5. CASE StartRun \/ Drained \/ EndRun \/ KernelActs
  BY <1>5, UncalledIgnored DEF StartRun, Drained, EndRun, KernelActs
<1>6. CASE Tick
  BY <1>6, UncalledStep DEF Tick, ClockStep, tables
<1>7. CASE UNCHANGED vars
  BY <1>7 DEF vars, sourcesVars, tables, Introduced
<1>8. QED
  BY <1>1, <1>2, <1>3, <1>4, <1>5, <1>6, <1>7 DEF ClientNext, RunLoop

(* No onStreamStatsUpdate and no onStreamRemoved names an object that        *)
(* onStreamAdded was not called with in an earlier step.                    *)
AddedFirst == [][CalledAfterAdded]_vars

(* Whatever is dropped and however often references are used again, the     *)
(* application hears of no update and no removal of an object that it was   *)
(* not told of by onStreamAdded before, if the kernel always knows a port   *)
(* of what it describes; client_late_ports shows what happens otherwise.    *)
THEOREM AddedComesFirst ==
  ASSUME HavePorts
  PROVE  ClientSpec => RemovedWereAdded /\ AddedFirst
<1>1. ClientInit => Introduced /\ Ported
  BY ListenerInit DEF ClientInit, Init, Introduced
<1>2. ClientTypeOK /\ TypeOK /\ Introduced /\ Ported /\ [ClientNext]_vars
         => Introduced' /\ Ported' /\ [CalledAfterAdded]_vars
  BY IntroducedStep, PortedStep
<1>3. [CalledAfterAdded]_vars
         => [callback'.kind = "removed" => callback'.obj \in announced]_vars
  BY DEF CalledAfterAdded
<1>4. ClientSpec => []ClientTypeOK /\ []TypeOK
  BY ClientTypeCorrect, ClientImplementsSources, TypeCorrect, PTL
<1>5. QED
  BY <1>1, <1>2, <1>3, <1>4, PTL DEF ClientSpec, AddedFirst, RemovedWereAdded
=============================================================================
