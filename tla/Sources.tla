------------------------------ MODULE Sources ------------------------------
(***************************************************************************)
(* The source table of NetworkStatisticsClientImpl: the NetstatSource      *)
(* objects, the three maps that point at them (_map, _mapWaitingForDesc,   *)
(* _mapWaitingForCount), the four notification handlers of                 *)
(* _handleResponseMessage, the two periodic passes of run() and the two    *)
(* queues sendNextMsg takes its requests from.                             *)
(*                                                                         *)
(* The environment of this module is open: any notification may arrive at  *)
(* any time, about any source, in any order, and the wall clock may be set *)
(* to any value.  What holds here holds whatever the kernel sends.  The    *)
(* module Client closes the environment with the kernel and the run loop.  *)
(***************************************************************************)
EXTENDS Integers

CONSTANTS
    SrcRefs,       \* the kernel's source references; std::map orders them
    Obj,           \* addresses of NetstatSource objects: bounds the number of `new`
    NoObj,         \* the null pointer: no entry in a map
    KeepSeconds,   \* REMOVED_SOURCE_KEEP_SECONDS
    QuietSeconds,  \* the 15 seconds of _updateWaitForCountsQueue
    MaxTime        \* bound on the clock

ASSUME SourcesAssumption ==
    /\ SrcRefs \subseteq Nat
    /\ NoObj \notin Obj
    /\ KeepSeconds \in Nat
    /\ QuietSeconds \in Nat
    /\ MaxTime \in Nat \ {0}

VARIABLES
    heap,                \* address -> NetstatSource, for every object ever allocated
    map,                 \* _map
    mapWaitingForDesc,   \* _mapWaitingForDesc
    mapWaitingForCount,  \* _mapWaitingForCount
    now,                 \* time(NULL)
    callback,            \* the listener call the last step made, or NoCall
    announced,           \* history: the objects onStreamAdded was called with
    withdrawn            \* history: the objects onStreamRemoved was called with

tables == <<heap, map, mapWaitingForDesc, mapWaitingForCount>>
sourcesVars == <<tables, now, callback, announced, withdrawn>>

-----------------------------------------------------------------------------
(* What the code can tell apart of a port pair: "none" is lport = rport = 0 *)
(* (the streams the library ignores), "listen" is IS_LISTEN_PORT with a     *)
(* local port, "conn" has a remote port.                                    *)
PortClass == {"none", "listen", "conn"}

Source ==
    [srcRef : SrcRefs, ports : PortClass,
     haveDesc : BOOLEAN, haveNotifiedAdded : BOOLEAN, requestedCount : BOOLEAN,
     tsAdded : Nat, tsRemoved : Nat, tsLastUpdate : Nat]

\* NetstatSource::NetstatSource, with the _tsAdded that _resetSource fills in.
NewSource(r) ==
    [srcRef |-> r, ports |-> "none",
     haveDesc |-> FALSE, haveNotifiedAdded |-> FALSE, requestedCount |-> FALSE,
     tsAdded |-> now, tsRemoved |-> 0, tsLastUpdate |-> 0]

NoCall == [kind |-> "none", obj |-> NoObj]
Call(kind, o) == [kind |-> kind, obj |-> o]

Keys(f) == {r \in SrcRefs : f[r] # NoObj}
\* std::map::begin
First(f) == CHOOSE r \in Keys(f) : \A q \in Keys(f) : r <= q

Live(o) == heap[o].tsRemoved = 0

-----------------------------------------------------------------------------
Init ==
    /\ heap = [o \in {} |-> NoObj]
    /\ map = [r \in SrcRefs |-> NoObj]
    /\ mapWaitingForDesc = [r \in SrcRefs |-> NoObj]
    /\ mapWaitingForCount = [r \in SrcRefs |-> NoObj]
    /\ now = 1
    /\ callback = NoCall
    /\ announced = {}
    /\ withdrawn = {}

Silent ==
    /\ callback' = NoCall
    /\ UNCHANGED <<announced, withdrawn>>

\* Mutant: an entry already marked removed is taken for the new source's.
SrcAddedKnownAny(r) ==
    /\ map[r] # NoObj
    /\ mapWaitingForDesc' =
          IF heap[map[r]].haveDesc THEN mapWaitingForDesc
          ELSE [mapWaitingForDesc EXCEPT ![r] = map[r]]
    /\ Silent
    /\ UNCHANGED <<heap, map, mapWaitingForCount, now>>

(* SRC_ADDED.  _resetSource keeps a source that is still live and drops the *)
(* entry of one already marked removed; the old object is never deleted.    *)
SrcAddedKnown(r) ==
    /\ map[r] # NoObj
    /\ Live(map[r])
    /\ mapWaitingForDesc' =
          IF heap[map[r]].haveDesc THEN mapWaitingForDesc
          ELSE [mapWaitingForDesc EXCEPT ![r] = map[r]]
    /\ Silent
    /\ UNCHANGED <<heap, map, mapWaitingForCount, now>>

\* Mutants: a live source is replaced; the new source is not put in the queue.
SrcAddedReplacing(r) ==
    /\ \E o \in Obj \ DOMAIN heap :
          /\ heap' = [p \in DOMAIN heap \cup {o} |->
                         IF p = o THEN NewSource(r) ELSE heap[p]]
          /\ map' = [map EXCEPT ![r] = o]
          /\ mapWaitingForDesc' = [mapWaitingForDesc EXCEPT ![r] = o]
    /\ Silent
    /\ UNCHANGED <<mapWaitingForCount, now>>

SrcAddedUnqueued(r) ==
    /\ map[r] # NoObj => ~Live(map[r])
    /\ \E o \in Obj \ DOMAIN heap :
          /\ heap' = [p \in DOMAIN heap \cup {o} |->
                         IF p = o THEN NewSource(r) ELSE heap[p]]
          /\ map' = [map EXCEPT ![r] = o]
    /\ Silent
    /\ UNCHANGED <<mapWaitingForDesc, mapWaitingForCount, now>>

SrcAddedNew(r) ==
    /\ map[r] # NoObj => ~Live(map[r])
    /\ \E o \in Obj \ DOMAIN heap :
          /\ heap' = [p \in DOMAIN heap \cup {o} |->
                         IF p = o THEN NewSource(r) ELSE heap[p]]
          /\ map' = [map EXCEPT ![r] = o]
          /\ mapWaitingForDesc' = [mapWaitingForDesc EXCEPT ![r] = o]
    /\ Silent
    /\ UNCHANGED <<mapWaitingForCount, now>>

SrcAdded(r) == SrcAddedKnown(r) \/ SrcAddedNew(r)

\* Mutants: the waiting entry stays; only connections are reported; every
\* source is reported.
SrcRemovedStillWaiting(r) ==
    /\ map[r] # NoObj
    /\ heap' = [heap EXCEPT ![map[r]].tsRemoved = now]
    /\ IF heap[map[r]].ports = "none"
       THEN Silent
       ELSE /\ callback' = Call("removed", map[r])
            /\ withdrawn' = withdrawn \cup {map[r]}
            /\ UNCHANGED announced
    /\ UNCHANGED <<map, mapWaitingForDesc, mapWaitingForCount, now>>

SrcRemovedConnOnly(r) ==
    /\ map[r] # NoObj
    /\ heap' = [heap EXCEPT ![map[r]].tsRemoved = now]
    /\ mapWaitingForDesc' = [mapWaitingForDesc EXCEPT ![r] = NoObj]
    /\ IF heap[map[r]].ports # "conn"
       THEN Silent
       ELSE /\ callback' = Call("removed", map[r])
            /\ withdrawn' = withdrawn \cup {map[r]}
            /\ UNCHANGED announced
    /\ UNCHANGED <<map, mapWaitingForCount, now>>

SrcRemovedAlwaysTold(r) ==
    /\ map[r] # NoObj
    /\ heap' = [heap EXCEPT ![map[r]].tsRemoved = now]
    /\ mapWaitingForDesc' = [mapWaitingForDesc EXCEPT ![r] = NoObj]
    /\ callback' = Call("removed", map[r])
    /\ withdrawn' = withdrawn \cup {map[r]}
    /\ UNCHANGED announced
    /\ UNCHANGED <<map, mapWaitingForCount, now>>

(* SRC_REMOVED.  The source is marked and kept; the application hears of it *)
(* unless both its ports are zero.                                          *)
SrcRemoved(r) ==
    /\ map[r] # NoObj
    /\ heap' = [heap EXCEPT ![map[r]].tsRemoved = now]
    /\ mapWaitingForDesc' = [mapWaitingForDesc EXCEPT ![r] = NoObj]
    /\ IF heap[map[r]].ports = "none"
       THEN Silent
       ELSE /\ callback' = Call("removed", map[r])
            /\ withdrawn' = withdrawn \cup {map[r]}
            /\ UNCHANGED announced
    /\ UNCHANGED <<map, mapWaitingForCount, now>>

\* Mutant: the flag is not set.
SrcDescUnflagged(r, ports) ==
    /\ map[r] # NoObj
    /\ mapWaitingForDesc' = [mapWaitingForDesc EXCEPT ![r] = NoObj]
    /\ heap' = [heap EXCEPT ![map[r]].ports = ports,
                            ![map[r]].haveDesc = TRUE]
    /\ IF heap[map[r]].haveNotifiedAdded \/ ports = "none"
       THEN Silent
       ELSE /\ callback' = Call("added", map[r])
            /\ announced' = announced \cup {map[r]}
            /\ UNCHANGED withdrawn
    /\ UNCHANGED <<map, mapWaitingForCount, now>>

(* SRC_DESC whose provider readSrcDesc recognises: fills in the key, and    *)
(* announces the stream the first time unless both its ports are zero.  The *)
(* flag _haveNotifiedAdded is set in either case.                           *)
SrcDesc(r, ports) ==
    /\ map[r] # NoObj
    /\ mapWaitingForDesc' = [mapWaitingForDesc EXCEPT ![r] = NoObj]
    /\ heap' = [heap EXCEPT ![map[r]].ports = ports,
                            ![map[r]].haveDesc = TRUE,
                            ![map[r]].haveNotifiedAdded = TRUE]
    /\ IF heap[map[r]].haveNotifiedAdded \/ ports = "none"
       THEN Silent
       ELSE /\ callback' = Call("added", map[r])
            /\ announced' = announced \cup {map[r]}
            /\ UNCHANGED withdrawn
    /\ UNCHANGED <<map, mapWaitingForCount, now>>

\* SRC_DESC that readSrcDesc refuses: only the waiting entry goes.
SrcDescRefused(r) ==
    /\ map[r] # NoObj
    /\ mapWaitingForDesc' = [mapWaitingForDesc EXCEPT ![r] = NoObj]
    /\ Silent
    /\ UNCHANGED <<heap, map, mapWaitingForCount, now>>

\* Mutants: the request stays open; counts nobody asked for are reported.
SrcCountsStillAwaited(r, traffic) ==
    /\ map[r] # NoObj
    /\ heap' = [heap EXCEPT ![map[r]].tsLastUpdate = now]
    /\ callback' = IF /\ heap[map[r]].haveDesc
                      /\ heap[map[r]].requestedCount
                      /\ traffic
                   THEN Call("stats", map[r]) ELSE NoCall
    /\ UNCHANGED <<map, mapWaitingForDesc, mapWaitingForCount, now,
                   announced, withdrawn>>

SrcCountsAlwaysTold(r, traffic) ==
    /\ map[r] # NoObj
    /\ heap' = [heap EXCEPT ![map[r]].tsLastUpdate = now,
                            ![map[r]].requestedCount = FALSE]
    /\ callback' = IF traffic THEN Call("stats", map[r]) ELSE NoCall
    /\ UNCHANGED <<map, mapWaitingForDesc, mapWaitingForCount, now,
                   announced, withdrawn>>

(* SRC_COUNTS; traffic says whether either packet counter is non-zero.      *)
SrcCounts(r, traffic) ==
    /\ map[r] # NoObj
    /\ heap' = [heap EXCEPT ![map[r]].tsLastUpdate = now,
                            ![map[r]].requestedCount = FALSE]
    /\ callback' = IF /\ heap[map[r]].haveDesc
                      /\ heap[map[r]].requestedCount
                      /\ traffic
                   THEN Call("stats", map[r]) ELSE NoCall
    /\ UNCHANGED <<map, mapWaitingForDesc, mapWaitingForCount, now,
                   announced, withdrawn>>

\* A notification about a source the table does not hold, or one of no type
\* the table cares about: logged and dropped.
Ignored ==
    /\ Silent
    /\ UNCHANGED <<tables, now>>

-----------------------------------------------------------------------------
\* _removeOldSources: the entry goes, the object stays allocated.
Expired(o) ==
    /\ heap[o].tsRemoved > 0
    /\ now - heap[o].tsRemoved > KeepSeconds

\* Mutant: the object goes with its entry.
RemoveOldSourcesFreeing ==
    /\ map' = [r \in SrcRefs |->
                  IF map[r] # NoObj /\ Expired(map[r]) THEN NoObj ELSE map[r]]
    /\ heap' = [o \in {p \in DOMAIN heap :
                         ~\E r \in SrcRefs : map[r] = p /\ Expired(p)} |-> heap[o]]
    /\ Silent
    /\ UNCHANGED <<mapWaitingForDesc, mapWaitingForCount, now>>

RemoveOldSources ==
    /\ map' = [r \in SrcRefs |->
                  IF map[r] # NoObj /\ Expired(map[r]) THEN NoObj ELSE map[r]]
    /\ Silent
    /\ UNCHANGED <<heap, mapWaitingForDesc, mapWaitingForCount, now>>

\* _updateWaitForCountsQueue: the connected live sources not heard of lately.
LastHeard(o) ==
    IF heap[o].tsLastUpdate = 0 THEN heap[o].tsAdded ELSE heap[o].tsLastUpdate

\* Mutant: sources without ports are asked for counts too.
DueWithoutPorts(r) ==
    /\ map[r] # NoObj
    /\ Live(map[r])
    /\ heap[map[r]].ports # "listen"
    /\ now - LastHeard(map[r]) >= QuietSeconds

Due(r) ==
    /\ map[r] # NoObj
    /\ Live(map[r])
    /\ heap[map[r]].ports = "conn"
    /\ now - LastHeard(map[r]) >= QuietSeconds

UpdateWaitForCountsQueue ==
    /\ heap' = [o \in DOMAIN heap |->
                  IF \E r \in SrcRefs : map[r] = o /\ Due(r)
                  THEN [heap[o] EXCEPT !.requestedCount = TRUE] ELSE heap[o]]
    /\ mapWaitingForCount' =
          [r \in SrcRefs |-> IF Due(r) THEN map[r] ELSE mapWaitingForCount[r]]
    /\ Silent
    /\ UNCHANGED <<map, mapWaitingForDesc, now>>

\* sendNextMsg, first test: the next GET_SRC_DESC is for source r.
TakeWaitingForDesc(r) ==
    /\ Keys(mapWaitingForDesc) # {}
    /\ r = First(mapWaitingForDesc)
    /\ mapWaitingForDesc' = [mapWaitingForDesc EXCEPT ![r] = NoObj]
    /\ Silent
    /\ UNCHANGED <<heap, map, mapWaitingForCount, now>>

\* sendNextMsg, second test: the next source to query, and whether it still is.
\* Mutants: tsRemoved is not looked at; a source heard of once is not asked.
StillWantedAnyhow(o) == heap[o].requestedCount

StillWantedFirst(o) ==
    Live(o) /\ heap[o].requestedCount /\ heap[o].tsLastUpdate = 0

StillWanted(o) == Live(o) /\ heap[o].requestedCount

TakeWaitingForCount(r) ==
    /\ Keys(mapWaitingForCount) # {}
    /\ r = First(mapWaitingForCount)
    /\ mapWaitingForCount' = [mapWaitingForCount EXCEPT ![r] = NoObj]
    /\ Silent
    /\ UNCHANGED <<heap, map, mapWaitingForDesc, now>>

\* The clock moves, or is set: time(NULL) is the wall clock.
ClockStep ==
    /\ now' \in 1..MaxTime
    /\ Silent
    /\ UNCHANGED tables

Next ==
    \/ \E r \in SrcRefs :
          \/ SrcAdded(r)
          \/ SrcRemoved(r)
          \/ \E ports \in PortClass : SrcDesc(r, ports)
          \/ SrcDescRefused(r)
          \/ \E traffic \in BOOLEAN : SrcCounts(r, traffic)
          \/ TakeWaitingForDesc(r)
          \/ TakeWaitingForCount(r)
    \/ Ignored
    \/ RemoveOldSources
    \/ UpdateWaitForCountsQueue
    \/ ClockStep

Spec == Init /\ [][Next]_sourcesVars

-----------------------------------------------------------------------------
(* Every map points at allocated objects of its own key, and every recorded *)
(* value is one the C++ types can hold.                                     *)
Pointer == DOMAIN heap \cup {NoObj}

TypeOK ==
    /\ DOMAIN heap \subseteq Obj
    /\ heap \in [DOMAIN heap -> Source]
    /\ map \in [SrcRefs -> Pointer]
    /\ mapWaitingForDesc \in [SrcRefs -> Pointer]
    /\ mapWaitingForCount \in [SrcRefs -> Pointer]
    /\ now \in Nat \ {0}
    /\ callback \in [kind : {"none", "added", "stats", "removed"}, obj : Pointer]
    /\ announced \subseteq DOMAIN heap
    /\ withdrawn \subseteq DOMAIN heap

PointsHome(f) ==
    \A r \in SrcRefs : f[r] # NoObj => heap[f[r]].srcRef = r

(* The table is the only owner of live sources: an object not marked        *)
(* removed is the one its reference finds in _map.  So a reference never    *)
(* has two live objects, whatever the kernel resends or reuses, and no live *)
(* source drops out of the table when old ones are cleaned up.              *)
LiveSourcesAreInTable ==
    \A o \in DOMAIN heap : Live(o) => map[heap[o].srcRef] = o

(* A description is only ever requested for the table's current, live and   *)
(* still undescribed object: _mapWaitingForDesc holds no pointer to a       *)
(* source that was removed, replaced or cleaned up meanwhile.               *)
WaitingForDescIsCurrent ==
    \A r \in Keys(mapWaitingForDesc) :
        /\ mapWaitingForDesc[r] = map[r]
        /\ Live(map[r])
        /\ ~heap[map[r]].haveDesc

(* _mapWaitingForCount is not purged when a source is removed, replaced or  *)
(* cleaned up, so it may hold pointers to old objects; each of those is     *)
(* marked removed, which is what sendNextMsg's test relies on.  No QUERY_SRC *)
(* goes out on behalf of an object that the table has replaced.             *)
QueriesAreForCurrentSources ==
    \A r \in Keys(mapWaitingForCount) :
        StillWanted(mapWaitingForCount[r]) => mapWaitingForCount[r] = map[r]

(* Counts are asked only for described streams, so an awaited SRC_COUNTS    *)
(* always finds a key to report the stream under.                           *)
AwaitedCountsAreDescribed ==
    \A o \in DOMAIN heap : heap[o].requestedCount => heap[o].haveDesc

(* onStreamAdded is called at most once for an object, whatever repeats of  *)
(* SRC_ADDED and SRC_DESC the kernel sends ("notify application (it not     *)
(* already done)").                                                         *)
AddedOnce ==
    [][callback'.kind = "added" => callback'.obj \notin announced]_sourcesVars
=============================================================================
