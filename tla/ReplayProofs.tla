---------------------------- MODULE ReplayProofs ----------------------------
(***************************************************************************)
(* A replay tells what its session told, however long the session was and  *)
(* wherever it ended.  The two processes share the file and nothing else,  *)
(* and their tables differ: the session cleans up, the replay does not.    *)
(* What the calls depend on is less than the table, and it is the same on  *)
(* both sides after each record: the Views below.  The account of a file,  *)
(* a view and a list of calls for each record, is made up while the        *)
(* session is live, one chapter with each record, and read in the replay.  *)
(***************************************************************************)
EXTENDS Replay, ClientListenerProofs

(* What the calls about one reference depend on: whether a live source, a   *)
(* removed one or none was heard of, its ports, and whether it was told.    *)
Picture == [known : {"never", "live", "gone"}, ports : PortClass, flagged : BOOLEAN]

Never == [known |-> "never", ports |-> "none", flagged |-> FALSE]
Fresh == [known |-> "live", ports |-> "none", flagged |-> FALSE]
Lost == [known |-> "gone", ports |-> "none", flagged |-> FALSE]
Seen(ports, flagged) == [known |-> "live", ports |-> ports, flagged |-> flagged]

HasObject(r) == \E o \in DOMAIN heap : heap[o].srcRef = r

PictureOf(r) ==
    IF InTable(r) THEN Seen(heap[map[r]].ports, heap[map[r]].haveNotifiedAdded)
    ELSE IF HasObject(r) THEN Lost ELSE Never

Views == [SrcRefs -> Picture]
View == [r \in SrcRefs |-> PictureOf(r)]

Alive(view, r) == view[r].known = "live"

\* What a message makes of a view, and the calls it brings about.
After(view, m) ==
    IF m.type = "SRC_ADDED" /\ ~Alive(view, m.ref)
    THEN [view EXCEPT ![m.ref] = Fresh]
    ELSE IF m.type = "SRC_REMOVED" /\ Alive(view, m.ref)
    THEN [view EXCEPT ![m.ref] = Lost]
    ELSE IF m.type = "SRC_DESC" /\ Alive(view, m.ref)
    THEN [view EXCEPT ![m.ref] = Seen(m.ports, TRUE)]
    ELSE view

Entry(kind, r) == [kind |-> kind, id |-> r]
Entries == [kind : {"added", "removed"}, id : SrcRefs]

Calls(view, m) ==
    IF /\ m.type = "SRC_REMOVED"
       /\ Alive(view, m.ref)
       /\ view[m.ref].ports # "none"
    THEN <<Entry("removed", m.ref)>>
    ELSE IF /\ m.type = "SRC_DESC"
            /\ Alive(view, m.ref)
            /\ ~view[m.ref].flagged
            /\ m.ports # "none"
    THEN <<Entry("added", m.ref)>>
    ELSE <<>>

(* A source that was removed is not heard of before it is added again.  If  *)
(* it were, a replay that keeps it and a session that cleaned it up would   *)
(* part.                                                                    *)
Proper(view, m) ==
    m.type \in {"SRC_REMOVED", "SRC_DESC"} => view[m.ref].known # "gone"

Recorded == KernelMessage \cup RequestMessage

-----------------------------------------------------------------------------
LEMMA RecordedTypes ==
  ASSUME NEW m \in Recorded
  PROVE  /\ m # Cut
         /\ m.type \in Notifications =>
               m \in KernelMessage /\ m.ref \in SrcRefs /\ m.ports \in PortClass
         /\ m \in RequestMessage => m.type \notin Notifications
<1>1. m # Cut
  BY ReplayAssumption DEF Recorded
<1>2. m \in RequestMessage => m.type \notin Notifications
  BY DEF RequestMessage, AddAllSrcs, GetSrcDesc, QuerySrc, Request, Notifications
<1>3. ASSUME m.type \in Notifications
      PROVE  m \in KernelMessage /\ m.ref \in SrcRefs /\ m.ports \in PortClass
  BY <1>2, <1>3 DEF Recorded, KernelMessage, Success, Error, NoBuffers, Message, Notifications
<1>4. QED BY <1>1, <1>2, <1>3

LEMMA PictureTypes ==
  /\ Never \in Picture /\ Fresh \in Picture /\ Lost \in Picture
  /\ \A ports \in PortClass, flagged \in BOOLEAN : Seen(ports, flagged) \in Picture
BY DEF Never, Fresh, Lost, Seen, Picture, PortClass

LEMMA ViewType == ASSUME TypeOK PROVE View \in Views
<1>1. ASSUME NEW r \in SrcRefs PROVE PictureOf(r) \in Picture
  <2>1. CASE InTable(r)
    <3>1. heap[map[r]] \in Source
      BY <2>1, Opened DEF InTable
    <3>2. heap[map[r]].ports \in PortClass /\ heap[map[r]].haveNotifiedAdded \in BOOLEAN
      BY <3>1 DEF Source
    <3>3. QED BY <2>1, <3>2, PictureTypes DEF PictureOf
  <2>2. QED BY <2>1, PictureTypes DEF PictureOf
<1>2. QED BY <1>1 DEF View, Views

LEMMA AfterType ==
  ASSUME NEW view \in Views, NEW m \in Recorded
  PROVE  After(view, m) \in Views /\ Calls(view, m) \in Seq(Entries)
<1>1. CASE m.type \in Notifications
  <2>1. m.ref \in SrcRefs /\ m.ports \in PortClass
    BY <1>1, RecordedTypes
  <2>2. \A picture \in Picture : [view EXCEPT ![m.ref] = picture] \in Views
    BY <2>1 DEF Views
  <2>3. After(view, m) \in Views
    BY <2>1, <2>2, PictureTypes DEF After
  <2>4. \A kind \in {"added", "removed"} : <<Entry(kind, m.ref)>> \in Seq(Entries)
    BY <2>1 DEF Entry, Entries
  <2>5. Calls(view, m) \in Seq(Entries)
    BY <2>4 DEF Calls
  <2>6. QED BY <2>3, <2>5
<1>2. CASE m.type \notin Notifications
  BY <1>2 DEF After, Calls, Notifications
<1>3. QED BY <1>1, <1>2

-----------------------------------------------------------------------------
\* A step that makes no call and leaves alone what a view is made of.
Unheard == View' = View /\ \A story : Tell(story) = story

LEMMA UnheardStep ==
  ASSUME TypeOK, callback'.kind \notin {"added", "removed"},
         DOMAIN heap' = DOMAIN heap,
         \A o \in DOMAIN heap :
            /\ heap'[o].srcRef = heap[o].srcRef
            /\ heap'[o].ports = heap[o].ports
            /\ heap'[o].tsRemoved = heap[o].tsRemoved
            /\ heap'[o].haveNotifiedAdded = heap[o].haveNotifiedAdded,
         \A r \in SrcRefs : map'[r] = map[r] \/ (map'[r] = NoObj /\ ~InTable(r))
  PROVE  Unheard
<1>1. ASSUME NEW r \in SrcRefs PROVE PictureOf(r)' = PictureOf(r)
  <2>1. HasObject(r)' <=> HasObject(r)
    BY DEF HasObject
  <2>2. CASE map'[r] = map[r]
    <3>1. map[r] # NoObj => map[r] \in DOMAIN heap
      BY Opened
    <3>2. InTable(r)' <=> InTable(r)
      BY <2>2, <3>1 DEF InTable, Live
    <3>3. QED BY <2>1, <2>2, <3>1, <3>2 DEF PictureOf, InTable
  <2>3. CASE map'[r] = NoObj /\ ~InTable(r)
    BY <2>1, <2>3 DEF PictureOf, InTable
  <2>4. QED BY <2>2, <2>3
<1>2. View' = View
  BY <1>1 DEF View
<1>3. \A story : Tell(story) = story
  BY DEF Tell
<1>4. QED BY <1>2, <1>3 DEF Unheard

LEMMA UnheardIgnored == ASSUME TypeOK, Ignored PROVE Unheard
BY UnheardStep DEF Ignored, Silent, NoCall, tables
-----------------------------------------------------------------------------
\* A step that does to the table and tells the application what m is read as.
ReadAs(m) ==
    /\ View' = After(View, m)
    /\ \A story \in Seq(Entries) : Tell(story) = story \o Calls(View, m)

LEMMA UnheardRead ==
  ASSUME Unheard, NEW m, After(View, m) = View, Calls(View, m) = <<>>
  PROVE  ReadAs(m)
<1>1. \A story \in Seq(Entries) : story \o <<>> = story
  OBVIOUS
<1>2. QED BY <1>1 DEF Unheard, ReadAs

LEMMA ViewOf ==
  ASSUME TypeOK, Pointers, NEW r \in SrcRefs
  PROVE  /\ View[r] = PictureOf(r)
         /\ Alive(View, r) <=> InTable(r)
         /\ InTable(r) => View[r].ports = heap[map[r]].ports
                          /\ View[r].flagged = heap[map[r]].haveNotifiedAdded
         /\ map[r] # NoObj => HasObject(r)
         /\ ~InTable(r) /\ HasObject(r) => View[r].known = "gone"
<1>1. View[r] = PictureOf(r)
  BY DEF View
<1>2. map[r] # NoObj => HasObject(r)
  BY Opened DEF Pointers, PointsHome, HasObject
<1>3. CASE InTable(r)
  <2>1. View[r] = Seen(heap[map[r]].ports, heap[map[r]].haveNotifiedAdded)
    BY <1>1, <1>3 DEF PictureOf
  <2>2. /\ View[r].known = "live" /\ View[r].ports = heap[map[r]].ports
        /\ View[r].flagged = heap[map[r]].haveNotifiedAdded
    BY <2>1 DEF Seen
  <2>3. QED BY <1>1, <1>2, <1>3, <2>2 DEF Alive
<1>4. CASE ~InTable(r)
  <2>1. View[r] = IF HasObject(r) THEN Lost ELSE Never
    BY <1>1, <1>4 DEF PictureOf
  <2>2. View[r].known # "live" /\ (HasObject(r) => View[r].known = "gone")
    BY <2>1 DEF Lost, Never
  <2>3. QED BY <1>1, <1>2, <1>4, <2>2 DEF Alive
<1>5. QED BY <1>3, <1>4

\* The pictures of other references stay when the object of r changes.
LEMMA OneViewed ==
  ASSUME TypeOK, Pointers, NEW r \in SrcRefs, NEW picture,
         PictureOf(r)' = picture,
         \A o \in DOMAIN heap :
            /\ o \in DOMAIN heap'
            /\ heap'[o].srcRef = heap[o].srcRef
            /\ heap[o].srcRef # r => heap'[o] = heap[o],
         \A o \in DOMAIN heap' : o \in DOMAIN heap \/ heap'[o].srcRef = r,
         \A q \in SrcRefs : q # r => map'[q] = map[q]
  PROVE  View' = [View EXCEPT ![r] = picture]
<1>1. ASSUME NEW q \in SrcRefs, q # r PROVE PictureOf(q)' = PictureOf(q)
  <2>1. HasObject(q)' <=> HasObject(q)
    BY <1>1 DEF HasObject
  <2>2. map[q] # NoObj => /\ map[q] \in DOMAIN heap
                          /\ heap'[map[q]] = heap[map[q]]
    BY <1>1, Opened DEF Pointers, PointsHome
  <2>3. QED BY <1>1, <2>1, <2>2 DEF PictureOf, InTable, Live
<1>2. QED BY <1>1 DEF View

LEMMA AddedRead ==
  ASSUME TypeOK, Pointers, NEW m \in Recorded, m.type = "SRC_ADDED", SrcAdded(m.ref)
  PROVE  ReadAs(m)
<1> DEFINE r == m.ref
<1>0. r \in SrcRefs
  BY RecordedTypes DEF Notifications
<1>1. CASE SrcAddedKnown(r)
  <2>1. Unheard
    BY <1>1, UnheardStep DEF SrcAddedKnown, Silent, NoCall
  <2>2. Alive(View, r)
    BY <1>0, <1>1, ViewOf DEF SrcAddedKnown, InTable
  <2>3. QED BY <2>1, <2>2, UnheardRead DEF After, Calls
<1>2. CASE SrcAddedNew(r)
  <2>1. PICK o \in Obj \ DOMAIN heap :
           /\ heap' = [p \in DOMAIN heap \cup {o} |-> IF p = o THEN NewSource(r) ELSE heap[p]]
           /\ map' = [map EXCEPT ![r] = o]
    BY <1>2 DEF SrcAddedNew
  <2>2. /\ DOMAIN heap' = DOMAIN heap \cup {o} /\ heap'[o] = NewSource(r)
        /\ \A p \in DOMAIN heap : heap'[p] = heap[p]
        /\ map'[r] = o /\ o # NoObj
        /\ \A q \in SrcRefs : q # r => map'[q] = map[q]
    BY <1>0, <2>1, SourcesAssumption DEF TypeOK
  <2>3. PictureOf(r)' = Fresh
    <3>1. /\ heap'[map'[r]].tsRemoved = 0 /\ heap'[map'[r]].ports = "none"
          /\ heap'[map'[r]].haveNotifiedAdded = FALSE
      BY <2>2 DEF NewSource
    <3>2. QED BY <2>2, <3>1 DEF PictureOf, InTable, Live, Seen, Fresh
  <2>4. View' = [View EXCEPT ![r] = Fresh]
    <3>1. heap'[o].srcRef = r
      BY <2>2 DEF NewSource
    <3>2. QED BY <1>0, <2>2, <2>3, <3>1, OneViewed
  <2>5. ~Alive(View, r)
    BY <1>0, <1>2, ViewOf DEF SrcAddedNew, InTable
  <2>6. callback' = NoCall
    BY <1>2 DEF SrcAddedNew, Silent
  <2>7. \A story \in Seq(Entries) : Tell(story) = story \o <<>>
    BY <2>6 DEF Tell, NoCall
  <2>8. QED BY <2>4, <2>5, <2>7 DEF ReadAs, After, Calls
<1>3. QED BY <1>1, <1>2 DEF SrcAdded

\* The call of a notification, as an entry of the story.
LEMMA Told1 ==
  ASSUME NEW r, NEW kind \in {"added", "removed"},
         callback' = Call(kind, map[r]), heap'[map[r]].srcRef = r
  PROVE  \A story \in Seq(Entries) : Tell(story) = Append(story, Entry(kind, r))
BY DEF Tell, LastEvent, Call, Entry

LEMMA RemovedRead ==
  ASSUME TypeOK, Pointers, NEW m \in Recorded, m.type = "SRC_REMOVED", SrcRemoved(m.ref),
         Proper(View, m)
  PROVE  ReadAs(m)
<1> DEFINE r == m.ref
<1>0. r \in SrcRefs
  BY RecordedTypes DEF Notifications
<1>1. map[r] # NoObj /\ InTable(r) /\ Alive(View, r)
  BY <1>0, ViewOf DEF SrcRemoved, Proper
<1>2. map[r] \in DOMAIN heap /\ heap[map[r]].srcRef = r /\ map'[r] = map[r] /\ map' = map
  BY <1>0, <1>1, Opened DEF Pointers, PointsHome, SrcRemoved
<1>3. /\ DOMAIN heap' = DOMAIN heap
      /\ \A o \in DOMAIN heap : /\ heap'[o].srcRef = heap[o].srcRef
                                /\ o # map[r] => heap'[o] = heap[o]
      /\ heap'[map[r]].tsRemoved = now
  BY <1>0, <1>2, SrcRemovedFields DEF SrcRemoved
<1>4. PictureOf(r)' = Lost
  <2>1. ~InTable(r)'
    BY <1>2, <1>3, Opened DEF InTable, Live
  <2>2. HasObject(r)'
    BY <1>2, <1>3 DEF HasObject
  <2>3. QED BY <2>1, <2>2 DEF PictureOf
<1>5. View' = [View EXCEPT ![r] = Lost]
  BY <1>0, <1>2, <1>3, <1>4, OneViewed
<1>6. After(View, m) = [View EXCEPT ![r] = Lost]
  BY <1>1 DEF After
<1>7. CASE heap[map[r]].ports = "none"
  <2>1. callback' = NoCall
    BY <1>7 DEF SrcRemoved, Silent
  <2>2. Calls(View, m) = <<>>
    BY <1>0, <1>1, <1>7, ViewOf DEF Calls
  <2>3. \A story \in Seq(Entries) : Tell(story) = story \o <<>>
    BY <2>1 DEF Tell, NoCall
  <2>4. QED BY <1>5, <1>6, <2>2, <2>3 DEF ReadAs
<1>8. CASE heap[map[r]].ports # "none"
  <2>1. callback' = Call("removed", map[r])
    BY <1>8 DEF SrcRemoved
  <2>2. Calls(View, m) = <<Entry("removed", r)>>
    BY <1>0, <1>1, <1>8, ViewOf DEF Calls
  <2>3. \A story \in Seq(Entries) : Tell(story) = Append(story, Entry("removed", r))
    BY <1>2, <1>3, <2>1, Told1
  <2>4. Entry("removed", r) \in Entries
    BY <1>0 DEF Entry, Entries
  <2>5. \A story \in Seq(Entries) : Tell(story) = story \o Calls(View, m)
    BY <2>2, <2>3, <2>4, AppendIsConcat
  <2>6. QED BY <1>5, <1>6, <2>5, Zenon DEF ReadAs
<1>9. QED BY <1>7, <1>8

LEMMA DescRead ==
  ASSUME TypeOK, Pointers, NEW m \in Recorded, m.type = "SRC_DESC",
         SrcDesc(m.ref, m.ports), Proper(View, m)
  PROVE  ReadAs(m)
<1> DEFINE r == m.ref
<1>0. r \in SrcRefs /\ m.ports \in PortClass
  BY RecordedTypes DEF Notifications
<1>1. map[r] # NoObj /\ InTable(r) /\ Alive(View, r)
  BY <1>0, ViewOf DEF SrcDesc, Proper
<1>2. map[r] \in DOMAIN heap /\ heap[map[r]].srcRef = r /\ map' = map
  BY <1>0, <1>1, Opened DEF Pointers, PointsHome, SrcDesc
<1>3. /\ DOMAIN heap' = DOMAIN heap
      /\ \A o \in DOMAIN heap : /\ heap'[o].srcRef = heap[o].srcRef
                                /\ heap'[o].tsRemoved = heap[o].tsRemoved
                                /\ o # map[r] => heap'[o] = heap[o]
      /\ heap'[map[r]].haveNotifiedAdded
  BY <1>0, SrcDescFields
<1>4. heap'[map[r]].ports = m.ports /\ heap'[map[r]].haveNotifiedAdded = TRUE
  <2>1. heap'[map[r]] = [heap[map[r]] EXCEPT !.ports = m.ports, !.haveDesc = TRUE,
                                             !.haveNotifiedAdded = TRUE]
    BY <1>2 DEF TypeOK, SrcDesc
  <2>2. heap[map[r]] \in Source
    BY <1>2, Opened
  <2>3. QED BY <2>1, <2>2 DEF Source
<1>5. PictureOf(r)' = Seen(m.ports, TRUE)
  BY <1>1, <1>2, <1>3, <1>4 DEF PictureOf, InTable, Live
<1>6. View' = [View EXCEPT ![r] = Seen(m.ports, TRUE)]
  <2>1. \A o \in DOMAIN heap : /\ o \in DOMAIN heap'
                               /\ heap'[o].srcRef = heap[o].srcRef
                               /\ heap[o].srcRef # r => heap'[o] = heap[o]
    BY <1>2, <1>3
  <2>2. \A o \in DOMAIN heap' : o \in DOMAIN heap
    BY <1>3
  <2>3. \A q \in SrcRefs : map'[q] = map[q]
    BY <1>2
  <2> HIDE DEF r
  <2>4. QED BY <1>0, <1>5, <2>1, <2>2, <2>3, OneViewed, Zenon
<1>7. After(View, m) = [View EXCEPT ![r] = Seen(m.ports, TRUE)]
  BY <1>1 DEF After
<1>8. View[r].flagged = heap[map[r]].haveNotifiedAdded
  BY <1>0, <1>1, ViewOf
<1>9. CASE heap[map[r]].haveNotifiedAdded \/ m.ports = "none"
  <2>1. callback' = NoCall
    BY <1>9 DEF SrcDesc, Silent
  <2>2. Calls(View, m) = <<>>
    BY <1>8, <1>9 DEF Calls
  <2>3. \A story \in Seq(Entries) : Tell(story) = story \o <<>>
    BY <2>1 DEF Tell, NoCall
  <2>4. QED BY <1>6, <1>7, <2>2, <2>3 DEF ReadAs
<1>10. CASE ~(heap[map[r]].haveNotifiedAdded \/ m.ports = "none")
  <2>1. callback' = Call("added", map[r])
    BY <1>10 DEF SrcDesc
  <2>2. Calls(View, m) = <<Entry("added", r)>>
    BY <1>1, <1>8, <1>10 DEF Calls
  <2>3. \A story \in Seq(Entries) : Tell(story) = Append(story, Entry("added", r))
    BY <1>2, <1>3, <2>1, Told1
  <2>4. Entry("added", r) \in Entries
    BY <1>0 DEF Entry, Entries
  <2>5. \A story \in Seq(Entries) : Tell(story) = story \o Calls(View, m)
    BY <2>2, <2>3, <2>4, AppendIsConcat
  <2>6. QED BY <1>6, <1>7, <2>5, Zenon DEF ReadAs
<1>11. QED BY <1>9, <1>10

LEMMA CountsRead ==
  ASSUME TypeOK, NEW m \in Recorded, m.type = "SRC_COUNTS", NEW traffic \in BOOLEAN,
         SrcCounts(m.ref, traffic)
  PROVE  ReadAs(m)
<1>0. m.ref \in SrcRefs
  BY RecordedTypes DEF Notifications
<1>1. callback' = NoCall \/ callback' = Call("stats", map[m.ref])
  BY DEF SrcCounts
<1>2. callback'.kind \notin {"added", "removed"}
  BY <1>1 DEF NoCall, Call
<1>3. map' = map
  BY DEF SrcCounts
<1>4. Unheard
  BY <1>0, <1>2, <1>3, SrcCountsFields, UnheardStep
<1>5. QED BY <1>4, UnheardRead DEF After, Calls

(* Reading a record does to the view, and tells, what the view before and   *)
(* the record determine: in the session and in the replay alike.            *)
LEMMA RecordRead ==
  ASSUME TypeOK, Pointers, NEW m \in Recorded, Proper(View, m),
         HandleNotification(m) \/ (m.type \notin Notifications /\ Ignored)
  PROVE  ReadAs(m)
<1>1. CASE m.type \notin Notifications /\ Ignored
  BY <1>1, UnheardIgnored, UnheardRead DEF After, Calls, Notifications
<1>2. CASE /\ m.type \in {"SRC_REMOVED", "SRC_DESC", "SRC_COUNTS"}
           /\ map[m.ref] = NoObj
           /\ Ignored
  <2>1. m.ref \in SrcRefs
    BY <1>2, RecordedTypes DEF Notifications
  <2>2. ~Alive(View, m.ref)
    BY <1>2, <2>1, ViewOf DEF InTable
  <2>3. QED BY <1>2, <2>2, UnheardIgnored, UnheardRead DEF After, Calls
<1>3. QED
  BY <1>1, <1>2, AddedRead, RemovedRead, DescRead, CountsRead DEF HandleNotification
-----------------------------------------------------------------------------
(* What run() does besides reading messages tells nothing: the clean-up     *)
(* only takes entries that are not live any more.                           *)
LEMMA PassesUnheard ==
  ASSUME TypeOK,
         StartRun \/ Cleanup \/ Update \/ SendNextMsg \/ Drained \/ KernelActs \/ Tick
  PROVE  Unheard
<1>1. CASE RemoveOldSources
  <2>1. \A r \in SrcRefs : map'[r] = map[r] \/ (map'[r] = NoObj /\ ~InTable(r))
    BY <1>1, Opened DEF RemoveOldSources, Expired, InTable, Live, TypeOK
  <2>2. QED BY <1>1, <2>1, UnheardStep DEF RemoveOldSources, Silent, NoCall
<1>2. CASE UpdateWaitForCountsQueue
  BY <1>2, UpdateFields, UnheardStep DEF UpdateWaitForCountsQueue, Silent, NoCall
<1>3. ASSUME NEW r \in SrcRefs, TakeWaitingForDesc(r) \/ TakeWaitingForCount(r) PROVE Unheard
  BY <1>3, UnheardStep DEF TakeWaitingForDesc, TakeWaitingForCount, Silent, NoCall
<1>4. CASE ClockStep
  BY <1>4, UnheardStep DEF ClockStep, tables, Silent, NoCall
<1>5. QED
  BY <1>1, <1>2, <1>3, <1>4, UnheardIgnored
  DEF StartRun, Cleanup, Update, SendNextMsg, SendQueued, SendGetSrcDesc, SendQuerySrc,
      SendNothing, Drained, KernelActs, Tick

LEMMA NextRequestType ==
  ASSUME ClientTypeOK
  PROVE  NextRequest = <<>> \/ \E req \in RequestMessage : NextRequest = <<req>>
<1>1. CASE outq # <<>>
  <2>1. Head(outq) \in {AddAllSrcs("tcp"), AddAllSrcs("udp")}
    BY <1>1 DEF ClientTypeOK
  <2>2. QED BY <1>1, <2>1 DEF NextRequest, RequestMessage
<1>2. ASSUME NEW f, Keys(f) # {}
      PROVE  GetSrcDesc(First(f)) \in RequestMessage /\ QuerySrc(First(f)) \in RequestMessage
  BY <1>2, FirstIsKey DEF Keys, RequestMessage
<1>3. QED BY <1>1, <1>2 DEF NextRequest

-----------------------------------------------------------------------------
LEMMA PrefixMeans ==
  ASSUME NEW S, NEW s \in Seq(S), NEW t \in Seq(S)
  PROVE  IsPrefix(s, t) <=> Len(s) <= Len(t) /\ \A i \in 1..Len(s) : s[i] = t[i]
<1>1. ASSUME Len(s) <= Len(t)
      PROVE  SubSeq(s, 1, Len(s)) = SubSeq(t, 1, Len(s)) <=>
                 \A i \in 1..Len(s) : s[i] = t[i]
  <2>1. /\ SubSeq(s, 1, Len(s)) = [i \in 1..Len(s) |-> s[i]]
        /\ SubSeq(t, 1, Len(s)) = [i \in 1..Len(s) |-> t[i]]
    BY <1>1
  <2>2. QED BY <2>1
<1>2. QED BY <1>1 DEF IsPrefix

LEMMA PrefixGrows ==
  ASSUME NEW S, NEW s \in Seq(S), NEW t \in Seq(S), NEW u \in Seq(S), IsPrefix(s, t)
  PROVE  IsPrefix(s, t \o u)
<1>1. Len(s) <= Len(t) /\ \A i \in 1..Len(s) : s[i] = t[i]
  BY PrefixMeans
<1>2. /\ t \o u \in Seq(S) /\ Len(s) <= Len(t \o u)
      /\ \A i \in 1..Len(s) : s[i] = (t \o u)[i]
  BY <1>1
<1>3. QED BY <1>2, PrefixMeans

LEMMA PrefixOfItself ==
  ASSUME NEW S, NEW s \in Seq(S)
  PROVE  IsPrefix(s, s) /\ IsPrefix(<<>>, s)
<1>1. <<>> \in Seq(S) /\ Len(<<>>) = 0 /\ Len(s) \in Nat
  OBVIOUS
<1>2. IsPrefix(<<>>, s)
  <2>1. SubSeq(s, 1, 0) = <<>> /\ SubSeq(<<>>, 1, 0) = <<>>
    OBVIOUS
  <2>2. QED BY <1>1, <2>1 DEF IsPrefix
<1>3. QED BY <1>1, <1>2, PrefixMeans

-----------------------------------------------------------------------------
(* An account of the first n records of a file: the view and the calls      *)
(* after each of them, none of which comes too late.                        *)
Account(f, n, views, calls) ==
    /\ views \in [0..n -> Views]
    /\ calls \in [0..n -> Seq(Entries)]
    /\ views[0] = [r \in SrcRefs |-> Never]
    /\ calls[0] = <<>>
    /\ \A i \in 1..n :
          /\ f[i] \in Recorded
          /\ Proper(views[i - 1], f[i])
          /\ views[i] = After(views[i - 1], f[i])
          /\ calls[i] = calls[i - 1] \o Calls(views[i - 1], f[i])

Continued(f, m, views, calls) ==
    \E v, c :
       /\ Account(Append(f, m), Len(f) + 1, v, c)
       /\ \A i \in 0..Len(f) : v[i] = views[i] /\ c[i] = calls[i]
       /\ v[Len(f) + 1] = After(views[Len(f)], m)
       /\ c[Len(f) + 1] = calls[Len(f)] \o Calls(views[Len(f)], m)

LEMMA NextChapter ==
  ASSUME NEW f \in Seq(Recorded), NEW views, NEW calls, Account(f, Len(f), views, calls),
         NEW m \in Recorded, Proper(views[Len(f)], m)
  PROVE  Continued(f, m, views, calls)
<1> DEFINE n == Len(f)
           view == After(views[n], m)
           list == calls[n] \o Calls(views[n], m)
           v == [i \in 0..(n + 1) |-> IF i = n + 1 THEN view ELSE views[i]]
           c == [i \in 0..(n + 1) |-> IF i = n + 1 THEN list ELSE calls[i]]
<1>1. n \in Nat /\ views[n] \in Views /\ calls[n] \in Seq(Entries)
  BY DEF Account
<1>2. view \in Views /\ list \in Seq(Entries)
  BY <1>1, AfterType
<1>3. \A i \in 0..n : v[i] = views[i] /\ c[i] = calls[i]
  BY <1>1
<1>4. v[n + 1] = view /\ c[n + 1] = list
  <2>1. n + 1 \in 0..(n + 1)
    BY <1>1
  <2> HIDE DEF view, list
  <2>2. QED BY <2>1
<1>5. v \in [0..(n + 1) -> Views] /\ c \in [0..(n + 1) -> Seq(Entries)]
  <2>1. \A i \in 0..(n + 1) : i # n + 1 => views[i] \in Views /\ calls[i] \in Seq(Entries)
    <3>1. views \in [0..n -> Views] /\ calls \in [0..n -> Seq(Entries)]
      BY DEF Account
    <3>2. \A i \in 0..(n + 1) : i # n + 1 => i \in 0..n
      BY <1>1
    <3> HIDE DEF n, view, list, v, c
    <3>3. QED BY <3>1, <3>2
  <2> HIDE DEF view, list
  <2>2. QED BY <1>2, <2>1
<1>6. \A i \in 1..n : Append(f, m)[i] = f[i]
  <2> HIDE DEF view, list, v, c
  <2>1. QED BY AppendProperties
<1>7. Append(f, m)[n + 1] = m
  <2> HIDE DEF view, list, v, c
  <2>1. QED BY AppendProperties
<1>8. ASSUME NEW i \in 1..(n + 1)
      PROVE  /\ Append(f, m)[i] \in Recorded
             /\ Proper(v[i - 1], Append(f, m)[i])
             /\ v[i] = After(v[i - 1], Append(f, m)[i])
             /\ c[i] = c[i - 1] \o Calls(v[i - 1], Append(f, m)[i])
  <2> HIDE DEF v, c
  <2>1. CASE i = n + 1
    <3>1. v[i - 1] = views[n] /\ c[i - 1] = calls[n]
      BY <1>1, <1>3, <2>1
    <3>2. QED BY <1>4, <1>7, <2>1, <3>1
  <2>2. CASE i \in 1..n
    <3>1. v[i] = views[i] /\ c[i] = calls[i] /\ v[i - 1] = views[i - 1]
          /\ c[i - 1] = calls[i - 1]
      BY <1>1, <1>3, <2>2
    <3>2. Append(f, m)[i] = f[i]
      BY <1>6, <2>2
    <3>3. QED BY <2>2, <3>1, <3>2 DEF Account
  <2>3. i = n + 1 \/ i \in 1..n
    BY <1>1
  <2>4. QED BY <2>1, <2>2, <2>3, Zenon
<1>9. v[0] = views[0] /\ c[0] = calls[0]
  BY <1>1, <1>3
<1> HIDE DEF v, c
<1>10. Account(Append(f, m), n + 1, v, c)
  BY <1>5, <1>8, <1>9 DEF Account
<1>11. QED BY <1>3, <1>4, <1>10 DEF Continued

-----------------------------------------------------------------------------
(* While the session is live, the account of what was recorded ends in the  *)
(* view and the calls of now.                                               *)
Recording ==
    /\ file \in Seq(Recorded)
    /\ told \in Seq(Entries)
    /\ retold = <<>>
    /\ position = 0
    /\ \E views, calls :
          /\ Account(file, Len(file), views, calls)
          /\ views[Len(file)] = View
          /\ calls[Len(file)] = told
          /\ \A i \in 0..Len(file) : IsPrefix(calls[i], told)

LEMMA RecordsNothing ==
  ASSUME Recording, Unheard, file' = file, told' = Tell(told), UNCHANGED <<retold, position>>
  PROVE  Recording'
<1>1. View' = View /\ told' = told
  BY DEF Unheard
<1>2. QED BY <1>1 DEF Recording

LEMMA RecordsOne ==
  ASSUME Recording, NEW m \in Recorded, Proper(View, m), ReadAs(m),
         file' = Append(file, m), told' = Tell(told), UNCHANGED <<retold, position>>
  PROVE  Recording'
<1>1. PICK views, calls :
         /\ Account(file, Len(file), views, calls)
         /\ views[Len(file)] = View
         /\ calls[Len(file)] = told
         /\ \A i \in 0..Len(file) : IsPrefix(calls[i], told)
  BY DEF Recording
<1>2. file \in Seq(Recorded) /\ told \in Seq(Entries)
  BY DEF Recording
<1> Continued(file, m, views, calls)
  BY <1>1, <1>2, NextChapter
<1>3. PICK v, c :
         /\ Account(Append(file, m), Len(file) + 1, v, c)
         /\ \A i \in 0..Len(file) : v[i] = views[i] /\ c[i] = calls[i]
         /\ v[Len(file) + 1] = After(views[Len(file)], m)
         /\ c[Len(file) + 1] = calls[Len(file)] \o Calls(views[Len(file)], m)
  BY DEF Continued
<1>4. file' \in Seq(Recorded) /\ Len(file') = Len(file) + 1 /\ Len(file) \in Nat
  BY <1>2
<1>5. v[Len(file')] = View' /\ c[Len(file')] = told' /\ told' = told \o Calls(View, m)
  BY <1>1, <1>2, <1>3, <1>4 DEF ReadAs
<1>6. Calls(View, m) \in Seq(Entries)
  <2>1. View \in Views
    BY <1>1, <1>4 DEF Account
  <2>2. QED BY <2>1, AfterType
<1>7. told' \in Seq(Entries)
  BY <1>2, <1>5, <1>6
<1>8. ASSUME NEW i \in 0..Len(file') PROVE IsPrefix(c[i], told')
  <2>1. CASE i = Len(file')
    BY <1>5, <1>7, <2>1, PrefixOfItself
  <2>2. CASE i \in 0..Len(file)
    <3>1. c[i] = calls[i] /\ calls[i] \in Seq(Entries) /\ IsPrefix(calls[i], told)
      BY <1>1, <1>3, <2>2 DEF Account
    <3>2. QED BY <1>2, <1>5, <1>6, <3>1, PrefixGrows
  <2>3. QED BY <1>4, <2>1, <2>2
<1>9. retold' = <<>> /\ position' = 0
  BY DEF Recording
<1>10. Account(file', Len(file'), v, c)
  BY <1>3, <1>4
<1>11. QED BY <1>4, <1>5, <1>7, <1>8, <1>9, <1>10 DEF Recording

LEMMA RequestRead ==
  ASSUME Unheard, NEW req \in RequestMessage
  PROVE  req \in Recorded /\ Proper(View, req) /\ ReadAs(req)
         /\ Calls(View, req) = <<>> /\ After(View, req) = View
<1>1. req \in Recorded
  BY DEF Recorded
<1>2. req.type \notin Notifications
  BY <1>1, RecordedTypes
<1>3. Proper(View, req) /\ Calls(View, req) = <<>> /\ After(View, req) = View
  BY <1>2 DEF Proper, Calls, After, Notifications
<1>4. QED BY <1>1, <1>3, UnheardRead
-----------------------------------------------------------------------------
\* The message about to be read is of use, or about a source never heard of.
InTime ==
    \A r \in SrcRefs :
        inbox # <<>> /\ Later(Head(inbox), r) => InTable(r) \/ ~HasObject(r)

LEMMA InTimeIsProper ==
  ASSUME TypeOK, Pointers, InTime, inbox # <<>>, Head(inbox) \in Recorded
  PROVE  Proper(View, Head(inbox))
<1> DEFINE m == Head(inbox)
           r == m.ref
<1> SUFFICES ASSUME m.type \in {"SRC_REMOVED", "SRC_DESC"}
             PROVE  View[r].known # "gone"
  BY DEF Proper
<1>1. r \in SrcRefs
  BY RecordedTypes DEF Notifications
<1>2. InTable(r) \/ ~HasObject(r)
  BY <1>1 DEF InTime, Later, About, Notifications
<1>3. PictureOf(r).known # "gone"
  BY <1>2 DEF PictureOf, Seen, Never
<1>4. QED BY <1>1, <1>3, ViewOf

LEMMA HeardIsInTime ==
  ASSUME ClientTypeOK, AllHeard
  PROVE  InTime
<1> SUFFICES ASSUME NEW r \in SrcRefs, inbox # <<>>, Later(Head(inbox), r)
             PROVE  InTable(r)
  BY DEF InTime
<1>1. 1 \in DOMAIN inbox /\ Head(inbox) = inbox[1] /\ \A k \in DOMAIN inbox : ~(k < 1)
  BY DEF ClientTypeOK
<1>2. KnownAt(r, 1)
  BY <1>1 DEF AllHeard, Heard
<1>3. QED BY <1>1, <1>2 DEF KnownAt

LEMMA OneLifeIsInTime ==
  ASSUME ClientTypeOK, LiveSourcesAreInTable, TypeOK, OneLives
  PROVE  InTime
<1> SUFFICES ASSUME NEW r \in SrcRefs, inbox # <<>>, Later(Head(inbox), r), HasObject(r)
             PROVE  InTable(r)
  BY DEF InTime
<1>1. Mentions(inbox, r)
  <2>1. 1 \in DOMAIN inbox /\ Head(inbox) = inbox[1]
    BY DEF ClientTypeOK
  <2>2. QED BY <2>1 DEF Mentions, Later
<1>2. PICK o \in DOMAIN heap : heap[o].srcRef = r
  BY DEF HasObject
<1>3. Live(o)
  BY <1>1, <1>2 DEF OneLives, OneLife, Gone
<1>4. QED BY <1>2, <1>3, Opened DEF LiveSourcesAreInTable, InTable

-----------------------------------------------------------------------------
LEMMA LiveStepRecords ==
  ASSUME IInv, ClientTypeOK, InTime, Recording, LiveStep
  PROVE  Recording'
<1> USE DEF IInv
<1>0. told' = Tell(told) /\ UNCHANGED <<retold, position>>
  BY DEF LiveStep
<1>1. CASE ReadNextMessage /\ file' = Append(file, Head(inbox))
  <2>1. inbox # <<>> /\ (HandleNotification(Head(inbox)) \/ HandleResponse(Head(inbox)))
    BY <1>1 DEF ReadNextMessage
  <2>2. Head(inbox) \in KernelMessage
    BY <2>1 DEF ClientTypeOK
  <2>3. Head(inbox) \in Recorded /\ Proper(View, Head(inbox))
    BY <2>1, <2>2, InTimeIsProper DEF Recorded
  <2>4. HandleResponse(Head(inbox)) => Head(inbox).type \notin Notifications /\ Ignored
    BY DEF HandleResponse, Notifications
  <2>5. ReadAs(Head(inbox))
    BY <2>1, <2>3, <2>4, RecordRead
  <2>6. QED BY <1>0, <1>1, <2>3, <2>5, RecordsOne
<1>2. CASE SendNextMsg /\ file' = file \o NextRequest
  <2>1. Unheard
    BY <1>2, PassesUnheard
  <2>2. CASE NextRequest = <<>>
    <3>1. file' = file
      BY <1>2, <2>2 DEF Recording
    <3>2. QED BY <1>0, <2>1, <3>1, RecordsNothing
  <2>3. ASSUME NEW req \in RequestMessage, NextRequest = <<req>> PROVE Recording'
    <3>1. req \in Recorded /\ Proper(View, req) /\ ReadAs(req)
      BY <2>1, RequestRead
    <3>2. file' = Append(file, req)
      BY <1>2, <2>3, <3>1, AppendIsConcat DEF Recording
    <3>3. QED BY <1>0, <3>1, <3>2, RecordsOne
  <2>4. QED BY <2>2, <2>3, NextRequestType
<1>3. CASE (StartRun \/ Cleanup \/ Update \/ Drained \/ KernelActs \/ Tick) /\ file' = file
  BY <1>0, <1>3, PassesUnheard, RecordsNothing
<1>4. QED BY <1>1, <1>2, <1>3 DEF LiveStep, Record

-----------------------------------------------------------------------------
\* What the replay may have told by any record, of the whole session.
Repeats(list) ==
    \/ IsPrefix(list, told)
    \/ unhandled /\ Len(list) = Len(told) + 1 /\ IsPrefix(told, list)

(* The replay has reached some chapter of an account of the file, of all of *)
(* it but a record cut short.  Whatever it tells from there on repeats the  *)
(* session, and by the last chapter it has told all of it.                  *)
Retells(n, views, calls) ==
    /\ \/ Len(file) = n
       \/ Len(file) = n + 1 /\ file[n + 1] = Cut
    /\ Account(file, n, views, calls)
    /\ position \in 0..n
    /\ views[position] = View
    /\ calls[position] = retold
    /\ \A i \in 0..n : Repeats(calls[i])
    /\ IsPrefix(told, calls[n])
    /\ mode = "done" => position = n

Retelling ==
    /\ mode \in {"replay", "done"}
    /\ told \in Seq(Entries)
    /\ \E n \in Nat : \E views, calls : Retells(n, views, calls)

LEMMA RetellingBegins ==
  ASSUME told \in Seq(Entries), told' = told, EndSession, retold = <<>>, position = 0,
         NEW n \in Nat, NEW views, NEW calls,
         Len(file') = n \/ (Len(file') = n + 1 /\ file'[n + 1] = Cut),
         Account(file', n, views, calls),
         \A i \in 0..n : Repeats(calls[i])',
         IsPrefix(told, calls[n])
  PROVE  Retelling'
<1>1. /\ mode' = "replay" /\ position' = 0 /\ retold' = <<>>
      /\ DOMAIN heap' = {} /\ \A r \in SrcRefs : map'[r] = NoObj
  BY DEF EndSession
<1>2. \A r \in SrcRefs : PictureOf(r)' = Never
  BY <1>1 DEF PictureOf, InTable, HasObject
<1>3. View' = views[0]
  BY <1>2 DEF View, Account
<1>4. retold' = calls[0]
  BY <1>1 DEF Account
<1>5. Retells(n, views, calls)'
  BY <1>1, <1>3, <1>4 DEF Retells
<1>6. QED BY <1>1, <1>5 DEF Retelling

LEMMA SessionEnds ==
  ASSUME IInv, ClientTypeOK, InTime, Recording, EndSession
  PROVE  Retelling'
<1>1. PICK views, calls :
         /\ Account(file, Len(file), views, calls)
         /\ views[Len(file)] = View
         /\ calls[Len(file)] = told
         /\ \A i \in 0..Len(file) : IsPrefix(calls[i], told)
  BY DEF Recording
<1>2. /\ file \in Seq(Recorded) /\ Len(file) \in Nat /\ told \in Seq(Entries) /\ told' = told
      /\ retold = <<>> /\ position = 0
  BY DEF Recording, EndSession
<1>3. IsPrefix(told, told)
  BY <1>2, PrefixOfItself
<1>4. CASE file' = file
  <2>1. \A i \in 0..Len(file) : Repeats(calls[i])'
    BY <1>1, <1>2 DEF Repeats
  <2>2. QED BY <1>1, <1>2, <1>3, <1>4, <2>1, RetellingBegins
<1>5. CASE file' = Append(file, Cut)
  <2>1. \A i \in 0..Len(file) : Repeats(calls[i])'
    BY <1>1, <1>2 DEF Repeats
  <2>2. /\ Len(file') = Len(file) + 1 /\ file'[Len(file) + 1] = Cut
        /\ \A i \in 1..Len(file) : file'[i] = file[i]
    BY <1>2, <1>5
  <2>3. Account(file', Len(file), views, calls)
    BY <1>1, <2>2 DEF Account
  <2>4. QED BY <1>1, <1>2, <1>3, <2>1, <2>2, <2>3, RetellingBegins
<1>6. ASSUME NEW m \in Recorded, Proper(View, m), file' = Append(file, m),
             Calls(View, m) = <<>> \/ (unhandled' /\ Len(Calls(View, m)) = 1)
      PROVE  Retelling'
  <2>0. PICK n \in Nat : n = Len(file)
    BY <1>2
  <2> Continued(file, m, views, calls)
    BY <1>1, <1>2, <1>6, NextChapter
  <2>1. PICK v, c :
           /\ Account(Append(file, m), n + 1, v, c)
           /\ \A i \in 0..n : v[i] = views[i] /\ c[i] = calls[i]
           /\ c[n + 1] = calls[n] \o Calls(views[n], m)
    <3>1. PICK v, c :
             /\ Account(Append(file, m), Len(file) + 1, v, c)
             /\ \A i \in 0..Len(file) : v[i] = views[i] /\ c[i] = calls[i]
             /\ c[Len(file) + 1] = calls[Len(file)] \o Calls(views[Len(file)], m)
      BY Zenon DEF Continued
    <3>2. /\ Account(Append(file, m), n + 1, v, c)
          /\ \A i \in 0..n : v[i] = views[i] /\ c[i] = calls[i]
          /\ c[n + 1] = calls[n] \o Calls(views[n], m)
      BY <2>0, <3>1
    <3>3. QED BY <3>2
  <2>2. Len(file') = n + 1
    BY <1>2, <1>6, <2>0
  <2>3. c[n + 1] = told \o Calls(View, m)
    BY <1>1, <2>0, <2>1
  <2>4. Calls(View, m) \in Seq(Entries)
    <3>1. View \in Views
      BY <1>1, <1>2 DEF Account
    <3>2. QED BY <3>1, AfterType
  <2>5. IsPrefix(told, c[n + 1])
    BY <1>2, <1>3, <2>3, <2>4, PrefixGrows
  <2>6. Repeats(c[n + 1])'
    <3>1. CASE Calls(View, m) = <<>>
      <4>1. c[n + 1] = told
        BY <1>2, <2>3, <3>1
      <4>2. QED BY <1>2, <1>3, <4>1 DEF Repeats
    <3>2. CASE unhandled' /\ Len(Calls(View, m)) = 1
      <4>0. PICK list \in Seq(Entries) : list = Calls(View, m)
        BY <2>4
      <4>1. Len(told \o list) = Len(told) + Len(list)
        BY <1>2
      <4>2. Len(c[n + 1]) = Len(told) + 1
        BY <2>3, <3>2, <4>0, <4>1
      <4>3. QED BY <1>2, <2>5, <3>2, <4>2 DEF Repeats
    <3>3. QED BY <1>6, <3>1, <3>2
  <2>7. \A i \in 0..n : Repeats(c[i])'
    BY <1>1, <1>2, <2>0, <2>1 DEF Repeats
  <2>8. \A i \in 0..(n + 1) : Repeats(c[i])'
    BY <2>6, <2>7
  <2>9. Account(file', n + 1, v, c)
    BY <1>6, <2>1
  <2>10. QED BY <1>2, <2>2, <2>5, <2>8, <2>9, RetellingBegins
<1>7. CASE file' = file \o NextRequest
  <2>1. CASE NextRequest = <<>>
    <3>1. file' = file
      BY <1>2, <1>7, <2>1
    <3>2. QED BY <1>4, <3>1
  <2>2. ASSUME NEW req \in RequestMessage, NextRequest = <<req>> PROVE Retelling'
    <3>1. req \in Recorded
      BY DEF Recorded
    <3>2. req.type \notin Notifications
      BY <3>1, RecordedTypes
    <3>3. Proper(View, req) /\ Calls(View, req) = <<>>
      BY <3>2 DEF Proper, Calls, Notifications
    <3>4. file' = Append(file, req)
      BY <1>2, <1>7, <2>2, <3>1, AppendIsConcat
    <3>5. QED BY <1>6, <3>1, <3>3, <3>4
  <2>3. QED BY <2>1, <2>2, NextRequestType
<1>8. CASE pc = "drain" /\ inbox # <<>> /\ file' = Append(file, Head(inbox))
  <2>1. Head(inbox) \in Recorded
    BY <1>8 DEF ClientTypeOK, Recorded
  <2>2. Proper(View, Head(inbox))
    BY <1>8, <2>1, InTimeIsProper DEF IInv
  <2>3. unhandled'
    BY <1>8 DEF EndSession
  <2>4. Calls(View, Head(inbox)) = <<>> \/ Len(Calls(View, Head(inbox))) = 1
    BY DEF Calls
  <2>5. QED BY <1>6, <1>8, <2>1, <2>2, <2>3, <2>4
<1>9. QED BY <1>4, <1>5, <1>7, <1>8 DEF EndSession, Ends
-----------------------------------------------------------------------------
(* The replay reads what the account is of, chapter after chapter, up to    *)
(* the end of it and no further.                                            *)
LEMMA NextRecordType ==
  ASSUME NEW n \in Nat, NEW views, NEW calls, Account(file, n, views, calls),
         Len(file) = n \/ (Len(file) = n + 1 /\ file[n + 1] = Cut),
         position \in 0..n
  PROVE  /\ NextRecord # Cut => /\ position + 1 \in 1..n
                                /\ NextRecord = file[position + 1]
                                /\ NextRecord \in Recorded
         /\ NextRecord = Cut => position = n
<1>1. \A i \in 1..n : file[i] \in Recorded /\ file[i] # Cut
  BY RecordedTypes DEF Account
<1>2. CASE position < n
  <2>1. position + 1 \in 1..n /\ position < Len(file)
    BY <1>2
  <2>2. QED BY <1>1, <1>2, <2>1 DEF NextRecord
<1>3. CASE position = n
  BY <1>3 DEF NextRecord
<1>4. QED BY <1>2, <1>3

LEMMA RecordHandled ==
  ASSUME TypeOK, Pointers, ReplayRecord, NextRecord \in Recorded, Proper(View, NextRecord)
  PROVE  ReadAs(NextRecord) /\ Next
<1> DEFINE m == NextRecord
<1>1. CASE ReplayRequest(m) \/ HandleResponse(m)
  <2>1. m.type \notin Notifications /\ Ignored
    BY <1>1 DEF ReplayRequest, HandleResponse, Notifications
  <2>2. QED BY <2>1, RecordRead DEF Next
<1>2. CASE HandleNotification(m)
  <2>1. ReadAs(m)
    BY <1>2, RecordRead
  <2>2. m.type \in Notifications
    BY <1>2 DEF HandleNotification, Notifications
  <2>3. m.ref \in SrcRefs /\ m.ports \in PortClass
    BY <2>2, RecordedTypes
  <2> HIDE DEF m
  <2>4. Next
    BY <1>2, <2>3 DEF HandleNotification, Next
  <2>5. QED BY <2>1, <2>4 DEF m
<1>3. QED BY <1>1, <1>2 DEF ReplayRecord

LEMMA RecordRetold ==
  ASSUME IInv, Retelling, ReplayRecord
  PROVE  Retelling' /\ Next
<1>0. PICK n \in Nat : \E views, calls : Retells(n, views, calls)
  BY DEF Retelling
<1>1. PICK views, calls : Retells(n, views, calls)
  BY <1>0
<1>2. /\ mode = "replay" /\ NextRecord # Cut /\ retold' = Tell(retold)
      /\ position' = position + 1 /\ UNCHANGED <<file, mode, told, unhandled>>
  BY DEF ReplayRecord
<1>3. /\ position + 1 \in 1..n /\ NextRecord = file[position + 1] /\ NextRecord \in Recorded
      /\ (position + 1) - 1 = position
  BY <1>1, <1>2, NextRecordType DEF Retells
<1>4. /\ Proper(View, NextRecord)
      /\ views[position + 1] = After(View, NextRecord)
      /\ calls[position + 1] = retold \o Calls(View, NextRecord)
  BY <1>1, <1>3 DEF Retells, Account
<1>5. ReadAs(NextRecord) /\ Next
  BY <1>3, <1>4, RecordHandled DEF IInv
<1>6. retold \in Seq(Entries)
  BY <1>1 DEF Retells, Account
<1>7. views[position'] = View' /\ calls[position'] = retold'
  BY <1>2, <1>4, <1>5, <1>6 DEF ReadAs
<1>8. \A i \in 0..n : Repeats(calls[i])'
  BY <1>1, <1>2 DEF Retells, Repeats
<1>9. Account(file', n, views, calls)
  BY <1>1, <1>2 DEF Retells
<1>10. position' \in 0..n /\ mode' = "replay" /\ told' \in Seq(Entries)
  BY <1>2, <1>3 DEF Retelling
<1>11. Retells(n, views, calls)'
  BY <1>1, <1>2, <1>7, <1>8, <1>9, <1>10 DEF Retells
<1>12. QED BY <1>5, <1>10, <1>11 DEF Retelling

LEMMA RetellingEnds ==
  ASSUME TypeOK, Retelling, ReplayEnds
  PROVE  Retelling'
<1>0. PICK n \in Nat : \E views, calls : Retells(n, views, calls)
  BY DEF Retelling
<1>1. PICK views, calls : Retells(n, views, calls)
  BY <1>0
<1>2. /\ NextRecord = Cut /\ mode' = "done" /\ Ignored
      /\ UNCHANGED <<file, position, told, retold, unhandled>>
  BY DEF ReplayEnds
<1>3. position = n
  BY <1>1, <1>2, NextRecordType DEF Retells
<1>4. View' = View
  BY <1>2, UnheardIgnored DEF Unheard
<1>5. \A i \in 0..n : Repeats(calls[i])'
  BY <1>1, <1>2 DEF Retells, Repeats
<1>6. Account(file', n, views, calls)
  BY <1>1, <1>2 DEF Retells
<1>7. Retells(n, views, calls)'
  BY <1>1, <1>2, <1>3, <1>4, <1>5, <1>6 DEF Retells
<1>8. QED BY <1>2, <1>7 DEF Retelling

-----------------------------------------------------------------------------
(* What the messages of a session rely on: every notification but an        *)
(* addition is about a source the table holds (AllHeard), or references are *)
(* not used twice (OneLives).  Where messages are lost and references used  *)
(* again neither is so, and the replay may tell what the session did not.   *)
LiveInv ==
    /\ ClientTypeOK
    /\ ~Lossy => AllHeard
    /\ MaxLives = 1 => OneLives
    /\ Recording

ReplayInv ==
    /\ IInv
    /\ mode \in {"live", "replay", "done"}
    /\ IF mode = "live" THEN LiveInv ELSE Retelling

LEMMA ReplayInvInit == ReplayInit => ReplayInv
<1> SUFFICES ASSUME ReplayInit PROVE ReplayInv
  OBVIOUS
<1>1. IInv /\ ClientTypeOK /\ AllHeard /\ OneLives
  BY InitIInv, ClientInitType, AllHeardInit, OneLivesInit DEF ReplayInit, ClientInit
<1>2. /\ mode = "live" /\ file = <<>> /\ told = <<>> /\ retold = <<>> /\ position = 0
      /\ DOMAIN heap = {} /\ \A r \in SrcRefs : map[r] = NoObj
  BY DEF ReplayInit, ClientInit, Init
<1>3. Recording
  <2> DEFINE views == [i \in 0..0 |-> [r \in SrcRefs |-> Never]]
             calls == [i \in 0..0 |-> <<>>]
  <2>1. 0..0 = {0} /\ 1..0 = {}
    OBVIOUS
  <2>2. views[0] = [r \in SrcRefs |-> Never] /\ calls[0] = <<>>
    BY <2>1
  <2>3. views \in [0..0 -> Views]
    BY PictureTypes DEF Views
  <2>4. <<>> \in Seq(Entries) /\ <<>> \in Seq(Recorded) /\ Len(<<>>) = 0
    OBVIOUS
  <2>5. calls \in [0..0 -> Seq(Entries)]
    BY <2>4
  <2>6. \A r \in SrcRefs : PictureOf(r) = Never
    BY <1>2 DEF PictureOf, InTable, HasObject
  <2>7. View = views[0]
    BY <2>2, <2>6 DEF View
  <2> HIDE DEF views, calls
  <2>8. Account(file, 0, views, calls)
    BY <2>1, <2>2, <2>3, <2>5 DEF Account
  <2>9. \A i \in 0..0 : IsPrefix(calls[i], told)
    BY <1>2, <2>1, <2>2, <2>4, PrefixOfItself
  <2>10. QED BY <1>2, <2>2, <2>4, <2>7, <2>8, <2>9 DEF Recording
<1>4. QED BY <1>1, <1>2, <1>3 DEF ReplayInv, LiveInv

LEMMA LiveIsInTime ==
  ASSUME ~Lossy \/ MaxLives = 1, IInv, LiveInv
  PROVE  InTime
BY HeardIsInTime, OneLifeIsInTime DEF LiveInv, IInv

LEMMA LiveInvStep ==
  ASSUME ~Lossy \/ MaxLives = 1, IInv, LiveInv, LiveStep
  PROVE  IInv' /\ LiveInv'
<1>1. [ClientNext]_vars
  BY DEF LiveStep, Record, ClientNext, RunLoop
<1>2. IInv'
  BY <1>1, TableStep, InvStep DEF LiveInv
<1>3. ClientTypeOK'
  BY <1>1, ClientTypeStep DEF LiveInv
<1>4. ~Lossy => AllHeard'
  BY <1>1, HeardStep DEF LiveInv, AllHeard
<1>5. MaxLives = 1 => OneLives'
  BY <1>1, OneLifeStep DEF LiveInv, OneLives
<1>6. Recording'
  BY LiveIsInTime, LiveStepRecords DEF LiveInv
<1>7. QED BY <1>2, <1>3, <1>4, <1>5, <1>6 DEF LiveInv

\* The replaying client starts with tables as empty as the first one's were.
LEMMA SessionEndsInv == ASSUME IInv, EndSession PROVE IInv'
<1>1. /\ heap' = [o \in {} |-> NoObj] /\ now' = now /\ callback' = NoCall
      /\ announced' = {} /\ withdrawn' = {}
      /\ map' = [r \in SrcRefs |-> NoObj]
      /\ mapWaitingForDesc' = [r \in SrcRefs |-> NoObj]
      /\ mapWaitingForCount' = [r \in SrcRefs |-> NoObj]
  BY DEF EndSession
<1>2. DOMAIN heap' = {}
  BY <1>1
<1>3. TypeOK'
  BY <1>1, <1>2 DEF IInv, TypeOK, Pointer, NoCall
<1>4. QED
  BY <1>1, <1>2, <1>3
  DEF IInv, Pointers, PointsHome, LiveSourcesAreInTable, Live, Keys,
      WaitingForDescIsCurrent, KeyMeansDesc, AwaitedCountsAreDescribed,
      AnnouncedIsFlagged

LEMMA ReplayInvStep ==
  ASSUME ~Lossy \/ MaxLives = 1, ReplayInv, [ReplayNext]_replayVars
  PROVE  ReplayInv'
<1>1. CASE LiveStep
  <2>1. mode = "live" /\ mode' = "live"
    BY <1>1 DEF LiveStep
  <2>2. IInv' /\ LiveInv'
    BY <1>1, <2>1, LiveInvStep DEF ReplayInv
  <2>3. QED BY <2>1, <2>2 DEF ReplayInv
<1>2. CASE EndSession
  <2>1. mode = "live" /\ mode' = "replay"
    BY <1>2 DEF EndSession
  <2>2. Retelling'
    BY <1>2, <2>1, LiveIsInTime, SessionEnds DEF ReplayInv, LiveInv
  <2>3. QED BY <1>2, <2>1, <2>2, SessionEndsInv DEF ReplayInv
<1>3. CASE ReplayRecord
  <2>1. mode = "replay" /\ mode' = "replay"
    BY <1>3 DEF ReplayRecord
  <2>2. Retelling' /\ Next
    BY <1>3, <2>1, RecordRetold DEF ReplayInv
  <2>3. QED BY <2>1, <2>2, InvStep DEF ReplayInv
<1>4. CASE ReplayEnds
  <2>1. mode = "replay" /\ mode' = "done" /\ Next
    BY <1>4 DEF ReplayEnds, Next
  <2>2. Retelling'
    BY <1>4, <2>1, RetellingEnds DEF ReplayInv, IInv
  <2>3. QED BY <2>1, <2>2, InvStep DEF ReplayInv
<1>5. CASE UNCHANGED replayVars
  <2>1. /\ UNCHANGED vars /\ UNCHANGED sourcesVars /\ UNCHANGED <<heap, map>>
        /\ UNCHANGED <<file, mode, position, told, retold, unhandled>>
    BY <1>5 DEF replayVars, sessionVars, vars, sourcesVars, tables
  <2>2. IInv'
    BY <2>1, InvStep DEF ReplayInv
  <2>3. View' = View
    BY <2>1 DEF View, PictureOf, InTable, HasObject, Live
  <2>4. CASE mode = "live"
    <3>1. ClientTypeOK' /\ (~Lossy => AllHeard') /\ (MaxLives = 1 => OneLives')
      BY <2>1, <2>4, ClientTypeStep, HeardStep, OneLifeStep
      DEF ReplayInv, LiveInv, AllHeard, OneLives
    <3>2. Recording'
      BY <2>1, <2>3, <2>4 DEF ReplayInv, LiveInv, Recording
    <3>3. QED BY <2>1, <2>2, <2>4, <3>1, <3>2 DEF ReplayInv, LiveInv
  <2>5. CASE mode # "live"
    <3>1. \A n, views, calls : Retells(n, views, calls)' = Retells(n, views, calls)
      BY <2>1, <2>3 DEF Retells, Repeats
    <3>2. Retelling'
      BY <2>1, <2>5, <3>1 DEF ReplayInv, Retelling
    <3>3. QED BY <2>1, <2>2, <2>5, <3>2 DEF ReplayInv
  <2>6. QED BY <2>4, <2>5
<1>6. QED BY <1>1, <1>2, <1>3, <1>4, <1>5 DEF ReplayNext

LEMMA ReplayInvariance ==
  ASSUME ~Lossy \/ MaxLives = 1
  PROVE  ReplaySpec => []ReplayInv
<1>1. QED BY ReplayInvInit, ReplayInvStep, PTL DEF ReplaySpec

(* A replay tells what the session told, in that order and nothing else,    *)
(* wherever in the file the session ended, unless messages are lost and     *)
(* references used again: the clean-ups, the requests and the objects of    *)
(* the first process, which the second lacks, make no difference.           *)
THEOREM ReplayRetells ==
  ASSUME ~Lossy \/ MaxLives = 1
  PROVE  ReplaySpec => []ReplayRepeatsSession
<1>1. ReplayInv => ReplayRepeatsSession
  <2> SUFFICES ASSUME ReplayInv PROVE ReplayRepeatsSession
    OBVIOUS
  <2>1. CASE mode = "live"
    BY <2>1, PrefixOfItself DEF ReplayInv, LiveInv, Recording, ReplayRepeatsSession
  <2>2. CASE mode # "live"
    <3>1. PICK n \in Nat : \E views, calls : Retells(n, views, calls)
      BY <2>2 DEF ReplayInv, Retelling
    <3>2. PICK views, calls : Retells(n, views, calls)
      BY <3>1
    <3>3. Repeats(retold)
      BY <3>2 DEF Retells
    <3>4. QED BY <3>3 DEF Repeats, ReplayRepeatsSession
  <2>3. QED BY <2>1, <2>2
<1>2. QED BY <1>1, ReplayInvariance, PTL

(* A replay leaves nothing out: whatever the session told is in the file by *)
(* then, for every message is recorded before it is handled.                *)
THEOREM ReplayTellsAll ==
  ASSUME ~Lossy \/ MaxLives = 1
  PROVE  ReplaySpec => []ReplayIsComplete
<1>1. ReplayInv => ReplayIsComplete
  <2> SUFFICES ASSUME ReplayInv, mode = "done" PROVE IsPrefix(told, retold)
    BY DEF ReplayIsComplete
  <2>1. PICK n \in Nat : \E views, calls : Retells(n, views, calls)
    BY DEF ReplayInv, Retelling
  <2>2. PICK views, calls : Retells(n, views, calls)
    BY <2>1
  <2>3. QED BY <2>2 DEF Retells
<1>2. QED BY <1>1, ReplayInvariance, PTL
=============================================================================
