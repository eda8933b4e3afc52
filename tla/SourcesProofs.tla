--------------------------- MODULE SourcesProofs ---------------------------
(***************************************************************************)
(* What the source table guarantees for every set of references, every     *)
(* number of objects, every constant and every order of notifications.     *)
(***************************************************************************)
EXTENDS Sources, TLAPS

\* A key is only ever filled in together with _haveDesc.
KeyMeansDesc ==
    \A o \in DOMAIN heap : heap[o].ports # "none" => heap[o].haveDesc

\* _haveNotifiedAdded remembers every onStreamAdded.
AnnouncedIsFlagged ==
    \A o \in announced : heap[o].haveNotifiedAdded

Pointers ==
    /\ PointsHome(map)
    /\ PointsHome(mapWaitingForDesc)
    /\ PointsHome(mapWaitingForCount)

(* The inductive invariant.  WaitingForDescIsCurrent and                    *)
(* LiveSourcesAreInTable need each other's pointers to be of the right key; *)
(* AwaitedCountsAreDescribed needs KeyMeansDesc, since the pass that sets   *)
(* requestedCount looks at the ports and not at _haveDesc.                  *)
IInv ==
    /\ TypeOK
    /\ Pointers
    /\ LiveSourcesAreInTable
    /\ WaitingForDescIsCurrent
    /\ KeyMeansDesc
    /\ AwaitedCountsAreDescribed
    /\ AnnouncedIsFlagged

-----------------------------------------------------------------------------
(* Type correctness: every pointer is an address or null, every recorded    *)
(* time a time, and the application is only told about allocated objects.   *)
LEMMA InitTypeOK == Init => TypeOK
  BY SourcesAssumption
  DEF Init, TypeOK, Source, Pointer, NoCall

\* An object's fields may be updated in place without leaving the type.
LEMMA TypeStep == TypeOK /\ [Next]_sourcesVars => TypeOK'
<1> SUFFICES ASSUME TypeOK, [Next]_sourcesVars PROVE TypeOK'
  OBVIOUS
<1> USE SourcesAssumption DEF TypeOK, Pointer, Silent, NoCall, Call
<1>1. ASSUME NEW r \in SrcRefs, SrcAddedKnown(r) PROVE TypeOK'
  BY <1>1 DEF SrcAddedKnown
<1>2. ASSUME NEW r \in SrcRefs, SrcAddedNew(r) PROVE TypeOK'
  <2>1. PICK o \in Obj \ DOMAIN heap :
           /\ heap' = [p \in DOMAIN heap \cup {o} |->
                          IF p = o THEN NewSource(r) ELSE heap[p]]
           /\ map' = [map EXCEPT ![r] = o]
           /\ mapWaitingForDesc' = [mapWaitingForDesc EXCEPT ![r] = o]
    BY <1>2 DEF SrcAddedNew
  <2>2. NewSource(r) \in Source
    BY DEF NewSource, Source, PortClass
  <2>3. QED BY <1>2, <2>1, <2>2 DEF SrcAddedNew
<1>3. ASSUME NEW r \in SrcRefs, SrcRemoved(r) PROVE TypeOK'
  BY <1>3 DEF SrcRemoved, Source
<1>4. ASSUME NEW r \in SrcRefs, NEW ports \in PortClass, SrcDesc(r, ports)
      PROVE TypeOK'
  <2>1. map[r] \in DOMAIN heap /\ heap[map[r]] \in Source
    BY <1>4 DEF SrcDesc
  <2>2. [heap[map[r]] EXCEPT !.ports = ports, !.haveDesc = TRUE,
                             !.haveNotifiedAdded = TRUE] \in Source
    BY <2>1 DEF Source
  <2>3. /\ DOMAIN heap' = DOMAIN heap
        /\ heap' \in [DOMAIN heap -> Source]
    BY <1>4, <2>1, <2>2 DEF SrcDesc
  <2>4. /\ callback' = NoCall \/ callback' = Call("added", map[r])
        /\ announced' \subseteq announced \cup {map[r]}
        /\ withdrawn' = withdrawn
    BY <1>4 DEF SrcDesc
  <2>5. QED BY <1>4, <2>1, <2>3, <2>4 DEF SrcDesc
<1>5. ASSUME NEW r \in SrcRefs, SrcDescRefused(r) PROVE TypeOK'
  BY <1>5 DEF SrcDescRefused
<1>6. ASSUME NEW r \in SrcRefs, NEW traffic \in BOOLEAN, SrcCounts(r, traffic)
      PROVE TypeOK'
  <2>1. map[r] \in DOMAIN heap /\ heap[map[r]] \in Source
    BY <1>6 DEF SrcCounts
  <2>2. [heap[map[r]] EXCEPT !.tsLastUpdate = now,
                             !.requestedCount = FALSE] \in Source
    BY <2>1 DEF Source
  <2>3. /\ DOMAIN heap' = DOMAIN heap
        /\ heap' \in [DOMAIN heap -> Source]
    BY <1>6, <2>1, <2>2 DEF SrcCounts
  <2>4. callback' = NoCall \/ callback' = Call("stats", map[r])
    BY <1>6 DEF SrcCounts
  <2>5. QED BY <1>6, <2>1, <2>3, <2>4 DEF SrcCounts
<1>7. ASSUME NEW r \in SrcRefs, TakeWaitingForDesc(r) PROVE TypeOK'
  BY <1>7 DEF TakeWaitingForDesc
<1>8. ASSUME NEW r \in SrcRefs, TakeWaitingForCount(r) PROVE TypeOK'
  BY <1>8 DEF TakeWaitingForCount
<1>9. CASE Ignored
  BY <1>9 DEF Ignored, tables
<1>10. CASE RemoveOldSources
  BY <1>10 DEF RemoveOldSources
<1>11. CASE UpdateWaitForCountsQueue
  <2>1. \A s \in Source : [s EXCEPT !.requestedCount = TRUE] \in Source
    BY DEF Source
  <2>2. /\ DOMAIN heap' = DOMAIN heap
        /\ heap' \in [DOMAIN heap -> Source]
    BY <1>11, <2>1 DEF UpdateWaitForCountsQueue
  <2>3. mapWaitingForCount' \in [SrcRefs -> Pointer]
    BY <1>11 DEF UpdateWaitForCountsQueue, Due
  <2>4. QED BY <1>11, <2>2, <2>3 DEF UpdateWaitForCountsQueue
<1>12. CASE ClockStep
  BY <1>12 DEF ClockStep, tables
<1>13. CASE UNCHANGED sourcesVars
  BY <1>13 DEF sourcesVars, tables
<1>14. QED
  BY <1>1, <1>2, <1>3, <1>4, <1>5, <1>6, <1>7, <1>8, <1>9, <1>10, <1>11,
     <1>12, <1>13 DEF Next, SrcAdded

(* The source table always has its type, whatever messages arrive.          *)
THEOREM TypeCorrect == Spec => []TypeOK
<1>1. QED BY InitTypeOK, TypeStep, PTL DEF Spec

-----------------------------------------------------------------------------
\* The table starts empty, so the invariant holds of nothing.
LEMMA InitIInv == Init => IInv
  BY InitTypeOK
  DEF Init, IInv, Pointers, PointsHome, LiveSourcesAreInTable, Live, Keys,
      WaitingForDescIsCurrent, KeyMeansDesc, AwaitedCountsAreDescribed,
      AnnouncedIsFlagged

\* The type, opened once for the steps below.
LEMMA Opened ==
  ASSUME TypeOK
  PROVE  /\ now > 0
         /\ \A o \in DOMAIN heap : heap[o] \in Source
         /\ \A r \in SrcRefs :
               /\ map[r] \in DOMAIN heap \cup {NoObj}
               /\ mapWaitingForDesc[r] \in DOMAIN heap \cup {NoObj}
               /\ mapWaitingForCount[r] \in DOMAIN heap \cup {NoObj}
         /\ NoObj \notin DOMAIN heap
         /\ announced \subseteq DOMAIN heap
  BY SourcesAssumption DEF TypeOK, Pointer

\* What an update in place of the object of r may change, and what it may not.
LEMMA SrcDescFields ==
  ASSUME TypeOK, NEW r \in SrcRefs, NEW ports \in PortClass, SrcDesc(r, ports)
  PROVE  /\ DOMAIN heap' = DOMAIN heap
         /\ map[r] \in DOMAIN heap
         /\ \A o \in DOMAIN heap :
               /\ heap'[o].srcRef = heap[o].srcRef
               /\ heap'[o].tsRemoved = heap[o].tsRemoved
               /\ heap'[o].requestedCount = heap[o].requestedCount
               /\ o # map[r] => heap'[o] = heap[o]
         /\ heap'[map[r]].haveDesc
         /\ heap'[map[r]].haveNotifiedAdded
<1> USE Opened
<1>1. map[r] \in DOMAIN heap /\ heap[map[r]] \in Source
  BY DEF SrcDesc
<1>2. /\ DOMAIN heap' = DOMAIN heap
      /\ heap'[map[r]] = [heap[map[r]] EXCEPT !.ports = ports, !.haveDesc = TRUE,
                                              !.haveNotifiedAdded = TRUE]
      /\ \A o \in DOMAIN heap : o # map[r] => heap'[o] = heap[o]
  BY <1>1 DEF SrcDesc, TypeOK
<1>3. heap'[map[r]].haveDesc = TRUE /\ heap'[map[r]].haveNotifiedAdded = TRUE
  BY <1>1, <1>2 DEF Source
<1>4. ASSUME NEW o \in DOMAIN heap
      PROVE  /\ heap'[o].srcRef = heap[o].srcRef
             /\ heap'[o].tsRemoved = heap[o].tsRemoved
             /\ heap'[o].requestedCount = heap[o].requestedCount
  <2>1. CASE o = map[r]
    BY <1>1, <1>2, <2>1 DEF Source
  <2>2. CASE o # map[r]
    BY <1>2, <2>2
  <2>3. QED BY <2>1, <2>2
<1>5. QED BY <1>1, <1>2, <1>3, <1>4

LEMMA SrcCountsFields ==
  ASSUME TypeOK, NEW r \in SrcRefs, NEW traffic \in BOOLEAN, SrcCounts(r, traffic)
  PROVE  /\ DOMAIN heap' = DOMAIN heap
         /\ map[r] \in DOMAIN heap
         /\ \A o \in DOMAIN heap :
               /\ heap'[o].srcRef = heap[o].srcRef
               /\ heap'[o].ports = heap[o].ports
               /\ heap'[o].tsRemoved = heap[o].tsRemoved
               /\ heap'[o].haveDesc = heap[o].haveDesc
               /\ heap'[o].haveNotifiedAdded = heap[o].haveNotifiedAdded
               /\ heap'[o].requestedCount => heap[o].requestedCount
<1> USE Opened
<1>1. map[r] \in DOMAIN heap /\ heap[map[r]] \in Source
  BY DEF SrcCounts
<1>2. /\ DOMAIN heap' = DOMAIN heap
      /\ heap'[map[r]] = [heap[map[r]] EXCEPT !.tsLastUpdate = now,
                                              !.requestedCount = FALSE]
      /\ \A o \in DOMAIN heap : o # map[r] => heap'[o] = heap[o]
  BY <1>1 DEF SrcCounts, TypeOK
<1>3. QED BY <1>1, <1>2, ZenonT(60) DEF Source

LEMMA SrcRemovedFields ==
  ASSUME TypeOK, NEW r \in SrcRefs, SrcRemoved(r)
  PROVE  /\ DOMAIN heap' = DOMAIN heap
         /\ map[r] \in DOMAIN heap
         /\ \A o \in DOMAIN heap :
               /\ heap'[o].srcRef = heap[o].srcRef
               /\ heap'[o].ports = heap[o].ports
               /\ heap'[o].haveDesc = heap[o].haveDesc
               /\ heap'[o].haveNotifiedAdded = heap[o].haveNotifiedAdded
               /\ heap'[o].requestedCount = heap[o].requestedCount
               /\ o # map[r] => heap'[o] = heap[o]
         /\ heap'[map[r]].tsRemoved = now
<1> USE Opened
<1>1. map[r] \in DOMAIN heap /\ heap[map[r]] \in Source
  BY DEF SrcRemoved
<1>2. /\ DOMAIN heap' = DOMAIN heap
      /\ heap'[map[r]] = [heap[map[r]] EXCEPT !.tsRemoved = now]
      /\ \A o \in DOMAIN heap : o # map[r] => heap'[o] = heap[o]
  BY <1>1 DEF SrcRemoved, TypeOK
<1>3. QED BY <1>1, <1>2 DEF Source

LEMMA UpdateFields ==
  ASSUME TypeOK, UpdateWaitForCountsQueue
  PROVE  /\ DOMAIN heap' = DOMAIN heap
         /\ \A o \in DOMAIN heap :
               /\ heap'[o].srcRef = heap[o].srcRef
               /\ heap'[o].ports = heap[o].ports
               /\ heap'[o].tsRemoved = heap[o].tsRemoved
               /\ heap'[o].haveDesc = heap[o].haveDesc
               /\ heap'[o].haveNotifiedAdded = heap[o].haveNotifiedAdded
               /\ heap'[o].requestedCount =>
                     \/ heap[o].requestedCount
                     \/ heap[o].ports = "conn"
<1> USE Opened
<1>1. DOMAIN heap' = DOMAIN heap
  BY DEF UpdateWaitForCountsQueue
<1>2. ASSUME NEW o \in DOMAIN heap
      PROVE  \/ heap'[o] = heap[o]
             \/ /\ heap'[o] = [heap[o] EXCEPT !.requestedCount = TRUE]
                /\ heap[o].ports = "conn"
  BY <1>2 DEF UpdateWaitForCountsQueue, Due
<1>3. QED BY <1>1, <1>2 DEF Source
-----------------------------------------------------------------------------
(* Each step keeps the invariant.  The type is TypeStep; the steps below    *)
(* are about the rest, which is given a name of its own.                    *)
Shape ==
    /\ Pointers
    /\ LiveSourcesAreInTable
    /\ WaitingForDescIsCurrent
    /\ KeyMeansDesc
    /\ AwaitedCountsAreDescribed
    /\ AnnouncedIsFlagged

\* The definitions a step without a change of objects is checked against.
LEMMA ShapeUnmoved ==
  ASSUME TypeOK, Shape,
         heap' = heap, map' = map, announced' = announced,
         \A r \in SrcRefs :
            /\ mapWaitingForDesc'[r] # NoObj =>
                  \/ mapWaitingForDesc'[r] = mapWaitingForDesc[r]
                  \/ /\ mapWaitingForDesc'[r] = map[r]
                     /\ Live(map[r])
                     /\ ~heap[map[r]].haveDesc
            /\ mapWaitingForCount'[r] # NoObj =>
                  mapWaitingForCount'[r] = mapWaitingForCount[r]
  PROVE  Shape'
<1>1. Pointers'
  BY DEF Shape, Pointers, PointsHome
<1>2. LiveSourcesAreInTable' /\ KeyMeansDesc' /\ AwaitedCountsAreDescribed'
      /\ AnnouncedIsFlagged'
  BY DEF Shape, LiveSourcesAreInTable, Live, KeyMeansDesc,
         AwaitedCountsAreDescribed, AnnouncedIsFlagged
<1>3. WaitingForDescIsCurrent'
  BY DEF Shape, WaitingForDescIsCurrent, Keys, Live
<1>4. QED BY <1>1, <1>2, <1>3 DEF Shape

\* A new object displaces only one already marked removed.
LEMMA ShapeAddedNew ==
  ASSUME TypeOK, Shape, NEW r \in SrcRefs, SrcAddedNew(r)
  PROVE  Shape'
<1> USE Opened
<1>1. PICK o \in Obj \ DOMAIN heap :
         /\ heap' = [p \in DOMAIN heap \cup {o} |->
                        IF p = o THEN NewSource(r) ELSE heap[p]]
         /\ map' = [map EXCEPT ![r] = o]
         /\ mapWaitingForDesc' = [mapWaitingForDesc EXCEPT ![r] = o]
  BY DEF SrcAddedNew
<1>2. /\ mapWaitingForCount' = mapWaitingForCount
      /\ announced' = announced
      /\ map[r] # NoObj => ~Live(map[r])
  BY DEF SrcAddedNew, Silent
<1>3. /\ DOMAIN heap' = DOMAIN heap \cup {o}
      /\ heap'[o] = NewSource(r)
      /\ \A p \in DOMAIN heap : p # o /\ heap'[p] = heap[p]
  BY <1>1
<1>4. /\ heap'[o].srcRef = r
      /\ heap'[o].ports = "none"
      /\ heap'[o].tsRemoved = 0
      /\ heap'[o].haveDesc = FALSE
      /\ heap'[o].requestedCount = FALSE
  BY <1>3 DEF NewSource
<1>5. \A q \in SrcRefs :
         /\ map'[q] = IF q = r THEN o ELSE map[q]
         /\ mapWaitingForDesc'[q] = IF q = r THEN o ELSE mapWaitingForDesc[q]
  BY <1>1 DEF TypeOK
<1>6. Pointers'
  BY <1>2, <1>3, <1>4, <1>5 DEF Shape, Pointers, PointsHome
<1>7. LiveSourcesAreInTable'
  <2>1. SUFFICES ASSUME NEW p \in DOMAIN heap', heap'[p].tsRemoved = 0
                 PROVE  map'[heap'[p].srcRef] = p
    BY DEF LiveSourcesAreInTable, Live
  <2>2. CASE p = o
    BY <2>2, <1>4, <1>5
  <2>3. CASE p # o
    <3>1. p \in DOMAIN heap /\ heap'[p] = heap[p]
      BY <2>3, <1>3
    <3>2. map[heap[p].srcRef] = p /\ heap[p].srcRef \in SrcRefs /\ Live(p)
      BY <2>1, <3>1 DEF Shape, LiveSourcesAreInTable, Live, Source
    <3>3. heap[p].srcRef # r
      BY <3>1, <3>2, <1>2
    <3>4. QED BY <3>1, <3>2, <3>3, <1>5
  <2>4. QED BY <2>2, <2>3
<1>8. WaitingForDescIsCurrent'
  <2>1. SUFFICES ASSUME NEW q \in SrcRefs, mapWaitingForDesc'[q] # NoObj
                 PROVE  /\ mapWaitingForDesc'[q] = map'[q]
                        /\ heap'[map'[q]].tsRemoved = 0
                        /\ ~heap'[map'[q]].haveDesc
    BY DEF WaitingForDescIsCurrent, Keys, Live
  <2>2. CASE q = r
    BY <2>2, <1>4, <1>5
  <2>3. CASE q # r
    <3>1. mapWaitingForDesc[q] # NoObj
      BY <2>1, <2>3, <1>5
    <3>2. /\ mapWaitingForDesc[q] = map[q]
          /\ heap[map[q]].tsRemoved = 0
          /\ ~heap[map[q]].haveDesc
      BY <3>1 DEF Shape, WaitingForDescIsCurrent, Keys, Live
    <3>3. map[q] \in DOMAIN heap
      BY <3>1, <3>2
    <3>4. QED BY <2>3, <3>2, <3>3, <1>3, <1>5
  <2>4. QED BY <2>2, <2>3
<1>9. KeyMeansDesc' /\ AwaitedCountsAreDescribed'
  BY <1>3, <1>4 DEF Shape, KeyMeansDesc, AwaitedCountsAreDescribed
<1>10. AnnouncedIsFlagged'
  BY <1>2, <1>3 DEF Shape, AnnouncedIsFlagged
<1>11. QED BY <1>6, <1>7, <1>8, <1>9, <1>10 DEF Shape

\* SRC_REMOVED takes the source out of the live ones and out of the waiting
\* map; every other reference finds another object.
LEMMA ShapeRemoved ==
  ASSUME TypeOK, Shape, NEW r \in SrcRefs, SrcRemoved(r)
  PROVE  Shape'
<1> USE Opened, SrcRemovedFields
<1>1. /\ map' = map
      /\ mapWaitingForCount' = mapWaitingForCount
      /\ announced' = announced
      /\ \A q \in SrcRefs :
            mapWaitingForDesc'[q] = IF q = r THEN NoObj ELSE mapWaitingForDesc[q]
  BY DEF SrcRemoved, TypeOK, Silent
<1>2. heap[map[r]].srcRef = r
  BY DEF Shape, Pointers, PointsHome, SrcRemoved
<1>3. Pointers'
  BY <1>1 DEF Shape, Pointers, PointsHome
<1>4. LiveSourcesAreInTable'
  BY <1>1 DEF Shape, LiveSourcesAreInTable, Live
<1>5. WaitingForDescIsCurrent'
  <2>1. SUFFICES ASSUME NEW q \in SrcRefs, mapWaitingForDesc'[q] # NoObj
                 PROVE  /\ mapWaitingForDesc'[q] = map'[q]
                        /\ heap'[map'[q]].tsRemoved = 0
                        /\ ~heap'[map'[q]].haveDesc
    BY DEF WaitingForDescIsCurrent, Keys, Live
  <2>2. q # r /\ mapWaitingForDesc[q] # NoObj
    BY <1>1, <2>1
  <2>3. /\ mapWaitingForDesc[q] = map[q]
        /\ heap[map[q]].tsRemoved = 0
        /\ ~heap[map[q]].haveDesc
    BY <2>2 DEF Shape, WaitingForDescIsCurrent, Keys, Live
  <2>4. map[q] \in DOMAIN heap /\ heap[map[q]].srcRef = q
    BY <2>2, <2>3 DEF Shape, Pointers, PointsHome
  <2>5. map[q] # map[r]
    BY <1>2, <2>2, <2>4
  <2>6. QED BY <1>1, <2>2, <2>3, <2>4, <2>5
<1>6. KeyMeansDesc' /\ AwaitedCountsAreDescribed' /\ AnnouncedIsFlagged'
  BY <1>1 DEF Shape, KeyMeansDesc, AwaitedCountsAreDescribed, AnnouncedIsFlagged
<1>7. QED BY <1>3, <1>4, <1>5, <1>6 DEF Shape

\* SRC_DESC describes one object and announces only that one.
LEMMA ShapeDesc ==
  ASSUME TypeOK, Shape, NEW r \in SrcRefs, NEW ports \in PortClass, SrcDesc(r, ports)
  PROVE  Shape'
<1> USE Opened, SrcDescFields
<1>1. /\ map' = map
      /\ mapWaitingForCount' = mapWaitingForCount
      /\ mapWaitingForDesc' = [mapWaitingForDesc EXCEPT ![r] = NoObj]
  BY DEF SrcDesc
<1>2. announced' = announced \/ announced' = announced \cup {map[r]}
  BY DEF SrcDesc, Silent
<1>3. /\ map' = map
      /\ mapWaitingForCount' = mapWaitingForCount
      /\ \A q \in SrcRefs :
            mapWaitingForDesc'[q] = IF q = r THEN NoObj ELSE mapWaitingForDesc[q]
  BY <1>1 DEF TypeOK
<1>4. heap[map[r]].srcRef = r
  BY DEF Shape, Pointers, PointsHome, SrcDesc
<1>5. Pointers'
  BY <1>3 DEF Shape, Pointers, PointsHome
<1>6. LiveSourcesAreInTable'
  BY <1>3 DEF Shape, LiveSourcesAreInTable, Live
<1>7. WaitingForDescIsCurrent'
  <2>1. SUFFICES ASSUME NEW q \in SrcRefs, mapWaitingForDesc'[q] # NoObj
                 PROVE  /\ mapWaitingForDesc'[q] = map'[q]
                        /\ heap'[map'[q]].tsRemoved = 0
                        /\ ~heap'[map'[q]].haveDesc
    BY DEF WaitingForDescIsCurrent, Keys, Live
  <2>2. q # r /\ mapWaitingForDesc[q] # NoObj
    BY <1>3, <2>1
  <2>3. /\ mapWaitingForDesc[q] = map[q]
        /\ heap[map[q]].tsRemoved = 0
        /\ ~heap[map[q]].haveDesc
    BY <2>2 DEF Shape, WaitingForDescIsCurrent, Keys, Live
  <2>4. map[q] \in DOMAIN heap /\ heap[map[q]].srcRef = q
    BY <2>2, <2>3 DEF Shape, Pointers, PointsHome
  <2>5. map[q] # map[r]
    BY <1>4, <2>2, <2>4
  <2>6. QED BY <1>3, <2>2, <2>3, <2>4, <2>5
<1>8. KeyMeansDesc' /\ AwaitedCountsAreDescribed'
  BY DEF Shape, KeyMeansDesc, AwaitedCountsAreDescribed
<1>9. AnnouncedIsFlagged'
  BY <1>2 DEF Shape, AnnouncedIsFlagged
<1>10. QED BY <1>5, <1>6, <1>7, <1>8, <1>9 DEF Shape
\* SRC_COUNTS only ever clears requestedCount.
LEMMA ShapeCounts ==
  ASSUME TypeOK, Shape, NEW r \in SrcRefs, NEW traffic \in BOOLEAN,
         SrcCounts(r, traffic)
  PROVE  Shape'
<1> USE Opened, SrcCountsFields
<1>1. /\ map' = map
      /\ mapWaitingForDesc' = mapWaitingForDesc
      /\ mapWaitingForCount' = mapWaitingForCount
      /\ announced' = announced
  BY DEF SrcCounts
<1>2. Pointers'
  BY <1>1 DEF Shape, Pointers, PointsHome
<1>3. LiveSourcesAreInTable' /\ WaitingForDescIsCurrent'
  BY <1>1 DEF Shape, LiveSourcesAreInTable, WaitingForDescIsCurrent, Keys, Live
<1>4. KeyMeansDesc' /\ AwaitedCountsAreDescribed' /\ AnnouncedIsFlagged'
  BY <1>1 DEF Shape, KeyMeansDesc, AwaitedCountsAreDescribed, AnnouncedIsFlagged
<1>5. QED BY <1>2, <1>3, <1>4 DEF Shape

\* The update pass asks for the counts of sources that have a key.
LEMMA ShapeUpdate ==
  ASSUME TypeOK, Shape, UpdateWaitForCountsQueue
  PROVE  Shape'
<1> USE Opened, UpdateFields
<1>1. /\ map' = map
      /\ mapWaitingForDesc' = mapWaitingForDesc
      /\ announced' = announced
      /\ \A r \in SrcRefs :
            mapWaitingForCount'[r] = map[r]
              \/ mapWaitingForCount'[r] = mapWaitingForCount[r]
  BY DEF UpdateWaitForCountsQueue, Silent
<1>2. Pointers'
  BY <1>1 DEF Shape, Pointers, PointsHome
<1>3. LiveSourcesAreInTable' /\ WaitingForDescIsCurrent'
  BY <1>1 DEF Shape, LiveSourcesAreInTable, WaitingForDescIsCurrent, Keys, Live
<1>4. KeyMeansDesc' /\ AwaitedCountsAreDescribed' /\ AnnouncedIsFlagged'
  BY <1>1 DEF Shape, KeyMeansDesc, AwaitedCountsAreDescribed, AnnouncedIsFlagged
<1>5. QED BY <1>2, <1>3, <1>4 DEF Shape

\* The clean-up drops entries of removed sources only, and those are in no
\* waiting entry.
LEMMA ShapeRemoveOld ==
  ASSUME TypeOK, Shape, RemoveOldSources
  PROVE  Shape'
<1> USE Opened
<1>1. /\ heap' = heap
      /\ mapWaitingForDesc' = mapWaitingForDesc
      /\ mapWaitingForCount' = mapWaitingForCount
      /\ announced' = announced
      /\ \A r \in SrcRefs :
            map'[r] = IF map[r] # NoObj /\ Expired(map[r]) THEN NoObj ELSE map[r]
  BY DEF RemoveOldSources, Silent
<1>2. \A r \in SrcRefs : map[r] # NoObj /\ Live(map[r]) => map'[r] = map[r]
  BY <1>1 DEF Expired, Live
<1>3. Pointers'
  BY <1>1 DEF Shape, Pointers, PointsHome
<1>4. LiveSourcesAreInTable'
  <2>1. SUFFICES ASSUME NEW o \in DOMAIN heap, Live(o)
                 PROVE  map'[heap[o].srcRef] = o
    BY <1>1 DEF LiveSourcesAreInTable, Live
  <2>2. heap[o].srcRef \in SrcRefs /\ map[heap[o].srcRef] = o /\ o # NoObj
    BY <2>1 DEF Shape, LiveSourcesAreInTable, Source
  <2>3. QED BY <1>2, <2>1, <2>2
<1>5. WaitingForDescIsCurrent'
  BY <1>1, <1>2 DEF Shape, WaitingForDescIsCurrent, Keys, Live
<1>6. KeyMeansDesc' /\ AwaitedCountsAreDescribed' /\ AnnouncedIsFlagged'
  BY <1>1 DEF Shape, KeyMeansDesc, AwaitedCountsAreDescribed, AnnouncedIsFlagged
<1>7. QED BY <1>3, <1>4, <1>5, <1>6 DEF Shape

LEMMA ShapeStep == TypeOK /\ Shape /\ [Next]_sourcesVars => Shape'
<1> SUFFICES ASSUME TypeOK, Shape, [Next]_sourcesVars PROVE Shape'
  OBVIOUS
<1> USE Opened
<1>1. ASSUME NEW r \in SrcRefs, SrcAddedKnown(r) PROVE Shape'
  <2>1. \A q \in SrcRefs :
           \/ mapWaitingForDesc'[q] = mapWaitingForDesc[q]
           \/ q = r /\ mapWaitingForDesc'[q] = map[q] /\ ~heap[map[q]].haveDesc
    BY <1>1 DEF SrcAddedKnown, TypeOK
  <2>2. QED BY <1>1, <2>1, ShapeUnmoved DEF SrcAddedKnown, Silent
<1>2. ASSUME NEW r \in SrcRefs, SrcDescRefused(r) PROVE Shape'
  <2>1. \A q \in SrcRefs : mapWaitingForDesc'[q] \in {NoObj, mapWaitingForDesc[q]}
    BY <1>2 DEF SrcDescRefused, TypeOK
  <2>2. QED BY <1>2, <2>1, ShapeUnmoved DEF SrcDescRefused, Silent
<1>3. ASSUME NEW r \in SrcRefs, TakeWaitingForDesc(r) PROVE Shape'
  <2>1. \A q \in SrcRefs : mapWaitingForDesc'[q] \in {NoObj, mapWaitingForDesc[q]}
    BY <1>3 DEF TakeWaitingForDesc, TypeOK
  <2>2. QED BY <1>3, <2>1, ShapeUnmoved DEF TakeWaitingForDesc, Silent
<1>4. ASSUME NEW r \in SrcRefs, TakeWaitingForCount(r) PROVE Shape'
  <2>1. \A q \in SrcRefs : mapWaitingForCount'[q] \in {NoObj, mapWaitingForCount[q]}
    BY <1>4 DEF TakeWaitingForCount, TypeOK
  <2>2. QED BY <1>4, <2>1, ShapeUnmoved DEF TakeWaitingForCount, Silent
<1>5. CASE Ignored \/ ClockStep \/ UNCHANGED sourcesVars
  BY <1>5, ShapeUnmoved DEF Ignored, ClockStep, sourcesVars, tables, Silent
<1>6. QED
  BY <1>1, <1>2, <1>3, <1>4, <1>5, ShapeAddedNew, ShapeRemoved, ShapeDesc,
     ShapeCounts, ShapeUpdate, ShapeRemoveOld DEF Next, SrcAdded

LEMMA InvStep == IInv /\ [Next]_sourcesVars => IInv'
BY TypeStep, ShapeStep DEF IInv, Shape

LEMMA Invariance == Spec => []IInv
BY InitIInv, InvStep, PTL DEF Spec

-----------------------------------------------------------------------------
(* Whatever the kernel sends, a live object is the one its reference finds  *)
(* in _map: no reference has two live objects, no live object is dropped.   *)
THEOREM TableOwnsLiveSources == Spec => []LiveSourcesAreInTable
<1>1. IInv => LiveSourcesAreInTable
  BY DEF IInv
<1>2. QED BY Invariance, <1>1, PTL

(* _mapWaitingForDesc never holds a pointer to a source that was removed,   *)
(* replaced, cleaned up or already described.                               *)
THEOREM DescRequestsAreCurrent == Spec => []WaitingForDescIsCurrent
<1>1. IInv => WaitingForDescIsCurrent
  BY DEF IInv
<1>2. QED BY Invariance, <1>1, PTL

(* The stale pointers _mapWaitingForCount may hold never pass the test of   *)
(* sendNextMsg: a QUERY_SRC goes out only for the table's current object.   *)
THEOREM CountRequestsAreCurrent == Spec => []QueriesAreForCurrentSources
<1>1. IInv => QueriesAreForCurrentSources
  BY Opened DEF IInv, LiveSourcesAreInTable, Pointers, PointsHome, Keys,
     QueriesAreForCurrentSources, StillWanted
<1>2. QED BY Invariance, <1>1, PTL

(* Counts are only awaited for streams that have been described.            *)
THEOREM AwaitedIsDescribed == Spec => []AwaitedCountsAreDescribed
<1>1. IInv => AwaitedCountsAreDescribed
  BY DEF IInv
<1>2. QED BY Invariance, <1>1, PTL

(* No object is announced to the application twice, however often SRC_ADDED *)
(* and SRC_DESC are repeated.                                               *)
THEOREM AnnouncedOnce == Spec => AddedOnce
<1>1. IInv /\ [Next]_sourcesVars
         => [callback'.kind = "added" => callback'.obj \notin announced]_sourcesVars
  <2> SUFFICES ASSUME IInv, Next, callback'.kind = "added"
               PROVE  callback'.obj \notin announced
    OBVIOUS
  <2>1. callback' # NoCall
    BY DEF NoCall
  <2>2. ~\E r \in SrcRefs : SrcAdded(r) \/ SrcDescRefused(r)
                               \/ TakeWaitingForDesc(r) \/ TakeWaitingForCount(r)
    BY <2>1 DEF SrcAdded, SrcAddedKnown, SrcAddedNew, SrcDescRefused,
                TakeWaitingForDesc, TakeWaitingForCount, Silent
  <2>3. ~(Ignored \/ RemoveOldSources \/ UpdateWaitForCountsQueue \/ ClockStep)
    BY <2>1 DEF Ignored, RemoveOldSources, UpdateWaitForCountsQueue, ClockStep, Silent
  <2>4. ASSUME NEW r \in SrcRefs, SrcRemoved(r) PROVE FALSE
    <3>1. callback' = Call("removed", map[r])
      BY <2>1, <2>4 DEF SrcRemoved, Silent
    <3>2. callback'.kind = "removed"
      BY <3>1 DEF Call
    <3>3. QED BY <3>2
  <2>5. ASSUME NEW r \in SrcRefs, NEW traffic \in BOOLEAN, SrcCounts(r, traffic)
        PROVE  FALSE
    <3>1. callback' = Call("stats", map[r])
      BY <2>1, <2>5 DEF SrcCounts
    <3>2. callback'.kind = "stats"
      BY <3>1 DEF Call
    <3>3. QED BY <3>2
  <2>6. PICK r \in SrcRefs, ports \in PortClass : SrcDesc(r, ports)
    BY <2>2, <2>3, <2>4, <2>5 DEF Next
  <2>7. callback' = Call("added", map[r]) /\ ~heap[map[r]].haveNotifiedAdded
    BY <2>1, <2>6 DEF SrcDesc, Silent
  <2>8. QED BY <2>7 DEF IInv, AnnouncedIsFlagged, Call
<1>2. QED BY Invariance, <1>1, PTL DEF Spec, AddedOnce
=============================================================================
