# libntstat in TLA+

libntstat is a C++ client of the Darwin kernel control
`com.apple.network.statistics`. An application connects, calls `run()` on a
thread of its own and is told of TCP and UDP streams through three callbacks:
`onStreamAdded`, `onStreamStatsUpdate`, `onStreamRemoved`. Behind these the
library subscribes to *sources*, asks the kernel for the description and the
counts of each, and keeps a table of the sources it has heard of.

This directory holds specifications of that machinery, TLC configurations that
check them on small instances, and proofs that TLAPS checks for all instances.
Source paths below are relative to the repository; `Impl.cpp` is
`src/NetworkStatisticsClientImpl.cpp`.

## Inventory

| Component | State | Operations | Interacts with |
|---|---|---|---|
| Source table (`Impl.cpp` 95-111, 281-304, 388-533, 743-899) | `_map`, `_mapWaitingForDesc`, `_mapWaitingForCount`, one `NetstatSource` per source ever reported | handlers of SRC_ADDED, SRC_REMOVED, SRC_DESC, SRC_COUNTS; `_removeOldSources`; `_updateWaitForCountsQueue`; the two queues `sendNextMsg` takes from | calls the listener; its queues decide what is requested |
| Run loop (155-161, 309-437, 553-594, 652-738) | `_state`, `_outq`, `_wantTcp`, `_wantUdp`, `_updateIntervalSeconds`, two local times | handshake, clean-up, update pass, one request a round, drain of the socket | reads and writes the control socket |
| Listener (`include/NetworkStatisticsClient.hpp` 21-29) | what the application knows | three callbacks | called from the run loop's thread |
| Kernel control (external; `docs/protocol.md`) | sources, subscriptions, the 2 KB buffer towards the client | answers requests inside `write()`, reports sources, drops what does not fit | the other end of the socket |
| Connection and life cycle (196-257, 309-351, 917) | `_fd`, `_keepRunning` | `connectToKernel`, `isConnected`, `run`, `stop` | the process's descriptor table, other threads |
| Request tracking (147-189, 361-381, 611-646, 765-773) | `_seqnum`, `_qmsgMap`, `_numDrops`, `_numErrors` | `send`, `SEND`, look-up of the request an answer belongs to | run loop |
| Recording and replay (553-579, 922-1027) | `_recordFd`, `_recordEnabled`, the file | `enableRecording`, `RECORD`, `runRecording` | feeds the table from a file |
| Struct handlers (`NTStatKernelStructHandler.hpp`, `ntstat_kernel_*.cpp`) | none | one implementation per kernel version of the messages' layout | chosen by `_loadStructHandler` |
| Stream key order (1171-1204) | none | `operator<` | applications' maps |

Hard behaviours: the kernel reports and repeats sources in an order the client
does not choose, uses references again, drops messages; raw pointers wait in
two maps for many rounds while a third decides which object is current; the
handshake goes by the first answer it sees; `stop()` comes from another thread;
a descriptor number survives the descriptor. PROJECT.json lists them as
hazards, each at its line.

What makes each component correct:

- **Source table.** One live object per reference, and the table finds it; the
  two queues never ask on behalf of an object that was replaced; a stream is
  announced once.
- **Run loop.** The table follows the kernel; no source is left undescribed;
  removed sources leave; every reported stream is announced and withdrawn; the
  handshake ends; counts asked for arrive.
- **Listener.** Added, then updated, then removed, and one id names one stream
  at a time.
- **Connection.** `run()` uses and closes its own socket and no other; nothing
  leaks; `stop()` ends the loop.
- **Struct handlers and key order.** Requests mean to the kernel what they mean
  to the library; a stream shows its last report; `std::map` tells streams
  apart.
- **Requests.** An answer is matched to its own request or to none, however
  often the numbers have come round; what was answered is forgotten; no drop
  goes uncounted.
- **Recording and replay.** A replay tells what the session told, in that
  order, wherever the recording process ended.

## Modules

| Module | Role |
|---|---|
| `Sources` | the source table in an open environment: any notification, at any time |
| `Kernel` | the kernel control (external) |
| `Client` | `run()` composed with `Sources` (EXTENDS) and `Kernel` (INSTANCE) |
| `StreamListener` | abstract specification: the calls an application may expect |
| `Lifecycle` | connect, run, stop and the descriptor |
| `StreamKey` | `NTStatStreamKey` and its `operator<` |
| `StructHandlers` | the handlers of all kernel versions, one stream read by them, a map of keys |
| `Requests` | the numbers of requests, `_qmsgMap`, the counters of errors and drops |
| `Replay` | a recorded session (EXTENDS `Client`), the end of its process, and the replay |
| `MC*` | instances for TLC |
| `*Proofs` | theorems |

### How they correspond to the code

**Sources.** `heap` is every `NetstatSource` ever allocated: `_resetSource` and
`_removeOldSources` erase entries and never delete objects, which is what keeps
the raw pointers in `_mapWaitingForCount` readable. `map`, `mapWaitingForDesc`
and `mapWaitingForCount` are the three `std::map`s, total functions with
`NoObj` for "no entry". Of a description only the class of its ports matters to
the code: both zero (such a stream is not reported), a listening port
(`IS_LISTEN_PORT`, not polled) or a connection. Of counts, whether a packet
counter is non-zero. Each `case` of the switch in `_handleResponseMessage` is an
action, with the queue and listener calls it makes; `SrcDescRefused` is a
description the struct handler does not recognise. The two passes of `run()` and
the two takes of `sendNextMsg` are actions as well. The environment is open:
every action is enabled whenever its guard on the tables holds, and the clock
may be set to any value, as `time(NULL)` is the wall clock. `announced` and
`withdrawn` are history variables.

**Client, one run and several.** `EndRun` is a `stop()` that the loop has seen:
the connection ends (`Disconnect`: its queue is lost, its subscriptions are gone,
and any source may close unheard of) and the application connects and calls
`run()` again, up to `MaxRuns` times. As in the code nothing else is reset: the
tables, `_outq` and `_state` go into the next run as they are, so a request
queued by a handshake that was stopped is sent before the new run's own. `runs`
and `started` are history: how many runs there were and when the last began. The
clock may also move between two runs.

**Client, within a run.** `pc` follows `run()`: prelude, clean-up test, update test,
`sendNextMsg`, inner read loop. `_handleState` is `HandleState`; `SUCCESS`,
`ENOBUFS` (which `_handleState` treats like success) and any other error are the
answers the kernel gives it. Of an error `_handleState` only asks whether it is
`NOT_FATAL`, which an errno of 0 is too: `MayBeFatal` leaves that open. A request is answered inside `Serve`, because
the kernel handles it within `write()`. `Tick` moves the clock while the client
reads: the code reads the clock nowhere else where it could make a difference.
`UpdateInterval` is what `configure()` makes of the interval asked for.

**Kernel.** From `docs/protocol.md`, the comments of the handlers ("it's possible
to get SRC_ADDED for one that you already have", "typically we receive
ADDED,COUNTS,DESC,REMOVED") and the messages the library reads. The list that
`ADD_ALL_SRCS` produces comes in any order; an answer may or may not end with
SUCCESS; a full buffer may drop any part of what is sent, in which case ENOBUFS
may be reported; a reference may be used again ("Can rollover at uint32_t, so id
can be reused", `include/NetworkStatisticsClient.hpp:156`).

**Requests.** `send()` gives a request the number `_seqnum`, both as the context
in its header and as its key in `_qmsgMap` (`Enqueue`); `SEND` files it after the
write, whether that succeeded or not (`Send`); every message read takes the
request with its context out of the map (`Lookup`) and, when it is an error, is
counted (`GetAndLogError`). `_seqnum` is a `uint16_t`: numbers are modulo
`SeqLimit` and 0, which notifications carry, comes round as any other. A request
carries an `id` the code does not have, so that the model can say which request
an answer belongs to. The kernel answers with data under the request's context
or under none, an ending or not, an error too short to hold a number, an ENOBUFS
under the request's context or under none. Whether an error is fatal to the
handshake depends on its errno and is left open (`Fatal`). Of the handshake only how many
answers it waits for is kept, since it makes requests of its own; what makes
`sendNextMsg` ask is left to `Client`.

**Replay.** `Record` adds to the steps of `Client` what `RECORD` appends: a request
before it is written, a message before it is handled. `EndSession` may come at
any point; `Ends` lists what the file can then hold: all that was done, the record
of one thing that was not done any more, or a record cut short. The replaying
process starts with empty tables; `ReplayRecord` gives each message to the
handlers of `Client` and lets each request only do what `runRecording` has it do,
which is nothing unless it is the first record. Clean-ups and update passes
belong to `run()` and do not happen in a replay.

**Lifecycle.** `owner` is the process's descriptor table, which the rest of the
process uses too. `connected` is what `connectToKernel` returned; `fd` is `_fd`,
which keeps its number when `ioctl` or `connect` fails. `run` is where the
thread is; between `CallRun` and `Prelude` lies the window before
`_keepRunning = true`. A round of the loop is reduced to what decides when it
ends. One call of `connectToKernel` is one step: the application does not touch
the client from elsewhere meanwhile. The guards of `ConnectToKernel` and `CallRun`
are the application's behaviour and not the code's: it connects when it is not
connected as far as it can tell, by `connectToKernel`'s result or by
`isConnected()` (`ChecksResult`). The code refuses no second `connectToKernel`,
which would overwrite `_fd` and leak the first socket; `NoSocketLeaks` says
nothing of an application that does that.

**StructHandlers, StreamKey.** A handler is a record of what tells the five
classes apart: the providers it recognises and subscribes to, whether it casts
references to 32 bits, and the header it was compiled with. A header is a record
too (`Header2422` to `Header4570`): for each struct the library exchanges, the
version that last moved a field the library uses, and whether the counts have
wired counters. Handler and kernel understand each other in a message when their
headers agree about it, and otherwise anything may be read (`AsRead`). Every two
neighbours differ, 2422 and 2782 in the TCP descriptor, 2782 and 3248 in
ADD_ALL_SRCS, so each threshold of `_loadStructHandler` matters. `source` is the kernel's truth, `stream` the `NTStatStream` filled in,
field by field as `readTcpSrcDesc`/`readUdpSrcDesc` do, the address unions
included: an IPv4 address is the `head`, the other twelve bytes are the `tail`
and stay as they were. `states` stands for a TCP connection's windows and state,
which `readUdpSrcDesc` leaves alone. For a provider that is neither TCP nor UDP the
4570 handler returns true and the others false, without having read anything;
no such provider is subscribed. `Words` lists what `operator<` compares, in its order.

## Runs

`NarrowRefs = 4` stands for 2^32, `SeqLimit = 4` for 65536, seconds for 30 s and
60 s; the code only compares times with these.

| Run | Question | Instance |
|---|---|---|
| `sources` | do the three maps ever disagree, whatever arrives? | 2 references, 2 objects, 2 clock values |
| `client_reuse` | does the table follow the kernel, and the listener hear a sensible story, when a reference is used twice? | 1 run, 1 reference used twice, 6 seconds, UDP refused |
| `client_live` | does everything that must happen happen? | 1 run, a TCP and a UDP source, both providers |
| `client_lossy` | what survives lost messages and a second run? | 2 runs, 1 reference, any message may be dropped |
| `requests` | is an answer ever matched to another's request? | 5 queued requests and more in the handshake, numbers modulo 4 |
| `replay` | does a replay tell what the session told? | 1 reference used twice, the process ends anywhere |
| `lifecycle` | descriptor and stop | 3 descriptors, 3 messages, reconnecting for ever |
| `streams` | handlers of all versions, descriptions of both families | 5 versions, 2 references, 12 descriptions, 2 keys kept |
| `client_late_ports`, `client_rerun`, `lifecycle_stale`, `lifecycle_stop` | violations, see Findings | minimal |

What they show:

- `sources`: `LiveSourcesAreInTable`, `WaitingForDescIsCurrent`,
  `QueriesAreForCurrentSources`, `AwaitedCountsAreDescribed`, `AddedOnce` hold
  for any order of notifications, requests and passes, with a clock that jumps
  both ways. Two references give `First` and the sweep of `_removeOldSources`
  something to choose; two objects allow one replacement; the proofs below
  cover all other instances. `TableView` leaves out the last callback and the
  withdrawn streams, which no invariant but the type reads.
- `client_reuse`: when the socket is empty the table's live sources are exactly
  the kernel's (`TableMatchesKernelWhenDrained`); a source without a description
  is still queued or its answer is on the way (`NoSourceForgotten`), and so are
  counts that were asked for, even of a source that closes before the kernel
  sees the request (`NoCountForgotten`); a removed
  source is gone after at most the time it is kept plus one clean-up period
  (`RemovedLeaveInTime`); the library's calls refine `StreamListener`
  (`ListenerContract`). Six seconds let a removed source of the first life stay
  through two clean-ups, expire, and the second life be polled.
- `client_live`: `HandshakeCompletes`, `StreamsAreAnnounced`,
  `ClosedStreamsAreWithdrawn`, `CountsAreAnswered`, under fairness of the
  client's thread alone. Traffic is bounded by `MaxLives` and the clock.
  `ClosedStreamsAreWithdrawn` is about a single run (see `client_rerun`).
- `client_lossy`: the listener's contract does not depend on the messages that
  are lost, nor on what a first run left behind, as long as references are not
  used again. Removed sources leave in time in the second run too
  (`RemovedLeaveInTime` does not count the time between two runs), and
  `RequestsDoNotPileUp`: no more requests are queued than runs were begun. With
  loss *and* reuse the contract fails (a lost SRC_REMOVED leaves the old object
  live for the new stream, a lost SRC_ADDED has the old one removed twice);
  nothing in the documentation rules that out, so it is a hazard and not a
  finding. What remains of it then is `AddedComesFirst` below.
- `requests`: five requests go round the four numbers and past 0, so that a number
  is given again while an old request that was never answered is filed under it.
  `AnswersFindTheirRequest` holds for every number but the notifications' own: the
  one request in 65536 that is given 0 may be taken out of the map by any
  notification. The map is only used to tell what an error was about, so that
  costs a log line. `KeptAreUnanswered` and `DropsAreCounted` hold for all.
- `replay`: `ReplayRepeatsSession` and `ReplayIsComplete` together: the additions
  and removals of the replay are those of the session, and one more at most, of a
  message that was recorded and no longer handled. That the replay makes no
  clean-ups, allocates objects of its own and is only half as busy makes no
  difference. Updates are not compared: `_requestedCount` is only set by the
  update pass, so a replay reports none. TLC does not look for deadlock here,
  since a replay ends with its file.
- `lifecycle`: an application that goes by `connectToKernel`'s result never has
  a foreign descriptor read or closed and leaks none, over any number of
  connections; `stop()` ends a loop that has started unless the kernel hung up.
- `streams`: for every version requests are written in the kernel's own structs
  and name its providers and references (move any one threshold over a header's
  version and the run fails); a stream shows its last description whichever family
  was there before, and its last counts, the wired ones where they are specified;
  keys collected in a map are told apart exactly when they are keys of
  different streams.

Every property has a mutant of the code that breaks it, defined just before the
definition it changes (comments `Mutant:`); PROJECT.json lists them.

### Fairness

`FairClientSpec` and `FairSpec` assume weak fairness of the thread `run()` was
called on (`RunLoop`, `RunThread`) and of nothing else: the documentation has
the application dedicate a thread to it, and every step of it is enabled as soon
as `select` returns or its 50 ms pass. Nothing is assumed of the kernel, the
clock, the application or the thread that calls `stop()`: nobody need end a run
or begin another, so `client_rerun` fails in a second run that goes on for ever. Two limits of the
code show in the statements: the inner loop does not look at `_keepRunning`, so
`StopEndsLoop` excepts a kernel that hung up and needs traffic that pauses
(`MaxMessages`); `HandshakeCompletes` needs a kernel that answers, so it is
checked without loss and refusal.

## Findings

| Run | What the code does | What is said |
|---|---|---|
| `client_late_ports` | a stream first described without ports is withdrawn without ever being announced | README: "Receive Add, Stats, Remove on every TCP connection." |
| `client_rerun` | a stream that closes between two runs is never withdrawn: the second run keeps the table and looks for nothing in it | README: the same |
| `lifecycle_stale` | `isConnected()` is true after a failed connect | header: "returns true if connectToKernel() was called and was successful." |
| `lifecycle_stop` | a `stop()` before `_keepRunning = true` is overwritten | header: "Will set the stop flag, so run() will exit." |

More differences show in a single line and need no run. Three are between the
header and the code: an update interval of 0 becomes 30 (`configure`; "If zero, this
feature is turned off."); UDP is subscribed when neither provider is wanted
(`StartRun`; "If true, include UDP streams. Default: false."); and a later
description rewrites the key of a known stream (`SrcDesc`; "these are constant
once we see the stream"). One is between two documents: `docs/protocol.md:38` has
"prior to XNU version 3789, the *wired* counters were not specified", while
`include/NetworkStatisticsClient.hpp:125` lets them be missing for "XNU v2422 and
earlier" only. The structs of 2782 and 3248 have them
(`ntstat_kernel_2782.h:46-47`) and their handlers pass them on
(`ntstat_kernel_2782.cpp:222-223`, `ntstat_kernel_3248.cpp:234-235`).
`StreamIsAsReported` claims what both agree on: none with 2422, the kernel's
from 3789.

## Proofs

All constants are arbitrary, within the assumptions their modules name:
`SourcesAssumption` (references are naturals, null is not an address),
`ClientAssumption` (finitely many references; port classes; settings are
naturals), `RequestsAssumption` (at least two numbers), `ReplayAssumption` (a record cut
short is told from a whole one), `LifecycleAssumption`
(descriptors are positive: `isConnected` tests `_fd > 0`) and
`HandlersAssumption` (the versions have headers and handlers). A theorem that
needs more of the constants says so in its own `ASSUME`.

| Module | Theorems | Assumed besides |
|---|---|---|
| `SourcesProofs` | `TypeCorrect`, `TableOwnsLiveSources`, `DescRequestsAreCurrent`, `CountRequestsAreCurrent`, `AwaitedIsDescribed`, `AnnouncedOnce` | |
| `ClientProofs` | `ClientTypeCorrect`, `ClientImplementsSources`, `ClientPointersAreCurrent`, `QueueIsBounded`, `RemovedSourcesLeave` | |
| `ClientSessionProofs` | `TableFollowsKernel`, `EverySourceIsDescribed`, `EveryCountIsAwaited` | `~Lossy`, `MaxRuns <= 1` |
| `ClientListenerProofs` | `ListenerIsServed` | `MaxLives = 1`, `HavePorts` |
| | `ReuseIsServed` | `~Lossy`, `HavePorts` |
| | `AddedComesFirst` | `HavePorts` |
| `ReplayProofs` | `ReplayRetells`, `ReplayTellsAll` | `~Lossy` or `MaxLives = 1` |
| `RequestsProofs` | `RequestsTypeCorrect`, `AnswersAreMatched`, `OnlyUnansweredAreKept`, `EveryDropIsCounted` | |
| `LifecycleProofs` | `LifecycleTypeCorrect`, `RunIsSafe`, `NothingLeaks` | `ChecksResult` for all three |
| `StructHandlersProofs` | `KeyOrderIsStrict`, `EquivalentKeysAreOneStream`, `RequestsAreUnderstood`, `StreamShowsLastReport`, `MapTellsStreamsApart` | |

**SourcesProofs.** `TypeCorrect`, then `IInv`: the type, the table's pointers
lead to objects of their own reference (`Pointers`), `LiveSourcesAreInTable`,
`WaitingForDescIsCurrent`, `KeyMeansDesc` (ports only come from a description),
`AwaitedCountsAreDescribed` and `AnnouncedIsFlagged` (announced objects carry
`_haveNotifiedAdded`). `QueriesAreForCurrentSources` is not inductive by itself:
a stale pointer in `_mapWaitingForCount` is harmless only because every object
that left the table is marked removed, which is `LiveSourcesAreInTable` read
backwards, and because that pointer leads to an object of its own reference,
which is `Pointers`. `AwaitedCountsAreDescribed` needs `KeyMeansDesc`, since the
update pass looks at the ports and not at `_haveDesc`; `AddedOnce` needs
`AnnouncedIsFlagged`.

**ClientProofs.** `ClientTypeCorrect`, and `ClientImplementsSources`
(`ClientSpec => Spec`): each step of run loop, kernel and clock is a step of the
open table or leaves it alone. What is proved of the table therefore holds of
the client with any kernel of module `Kernel`, however lossy
(`ClientPointersAreCurrent`). Two more invariants are about the loop itself.
`QueueInv` adds to `RequestsDoNotPileUp` that while the loop reads and the
second provider is still to be requested, one request fewer is queued: the
handshake's second request takes the place of the first, because the socket is
only read after a request was sent. `TimeInv` adds to `RemovedLeaveInTime` that
what the last clean-up left was not yet too old then (`LeftByCleanup`), and that
past the clean-up test no clean-up is due; the age of an entry is the sum of the
two.

**ClientSessionProofs.** What the table will hold once the socket is drained is
`Believed`: the last SRC_ADDED that waits has no SRC_REMOVED after it, or the
table holds the source and no SRC_REMOVED waits. `Session` says that a source is
believed exactly when the kernel has it open and reports it; on an empty socket
that is `TableMatchesKernelWhenDrained`. `NoSourceForgotten` needs more: a
request for a source that has closed meanwhile is answered by an error and its
entry is gone, so it must be known that the description is on its way already.
`Believed` tells that SRC_REMOVED waits, `RemovedWithDesc` that a description
stands right before it; `Remembered` then says that a source without a
description waits in the queue or has its answer among the messages.
`NoCountForgotten` goes the same way, by an invariant of its own (`Counting`):
the counts stand two messages before SRC_REMOVED, and once they have been read
`_requestedCount` is down and stays down while the socket is drained, since only
the update pass sets it (`RemovedWithCounts`). So when `sendNextMsg` asks for
the counts of a closed source with the flag up, they wait in the socket. All
three theorems are about one run and a kernel that drops nothing: a dropped message
breaks them, and after `EndRun` sources close unheard of (`client_rerun`).

**ClientListenerProofs.** `ClientSpec` implements `StreamListener`. `Story`
relates the table to what the application knows: an object was announced when
it is described, and withdrawn when it was announced and removed. It is kept by
every step that reads no message too late, that is, no description, counts or
removal for an object the table keeps as removed (`NotTooLate`). `HavePorts`
makes the first description announce: without it the contract fails, as
`client_late_ports` shows. `NotTooLate` has two sources. With references that
are used once, `OneLife`: nothing follows SRC_REMOVED, and a source kept as
removed is neither open nor mentioned in the socket; that holds whatever is
dropped and however often `run()` is called (`ListenerIsServed`). With references
used again and nothing dropped, `Heard`: every other message about a source
comes after a SRC_ADDED, or while the table holds the source, and no
SRC_REMOVED in between. What the kernel tells by itself does because the source
is open and reported, what it answers does because the table asked; in both
cases it is `Believed`, which of `Session` is the half that survives the end of a
run. Removals are lost with a connection and the next run inherits its tables,
but the stale object then stands for the new stream, which is not announced
again: the contract holds (`ReuseIsServed`, again for any number of runs).
`LeastElement`, which `FirstIsKey` needs, gets the least element of a finite set
from the well-foundedness of strict inclusion, as induction proper is out of
reach (see below). `AddedComesFirst` is what remains of the contract when
messages are lost and references used again: an update or a removal only names
an object that was announced in an earlier step. Its invariant `Introduced` says
that having a description, having been announced and having ports are one and
the same, which is where `HavePorts` comes in.

**ReplayProofs.** The session and its replay never run side by side, so no
invariant relates their tables directly. What the calls depend on is less than
the table, a `View` of it: for each reference whether a live source, a removed one
or none was heard of, its ports, and whether it was announced. Clean-ups, update
passes and the choice of objects do not change it, and what a message makes of it
(`After`) and brings about (`Calls`) is the same in both processes. The account of
a file (`Account`) is a view and a list of calls for each record. While the
session is live, one exists that ends in the view and the calls of now
(`Recording`): each step extends it by a chapter. When the process ends it may
gain one more, for the message recorded and not handled; from there the account
stays as it is and the replay moves through it (`Retelling`). That takes the place
of an induction over the file. One thing is needed of the messages (`Proper`):
nothing is said of a source that was removed before it is added again, since the
session may have cleaned that source up while the replay keeps it. With nothing
dropped that is `Heard`, with references used once it is `OneLife`. The hypothesis
cannot be left out: TLC finds, with loss and a reference used twice, a session in
which the SRC_ADDED of the second life is lost after a clean-up. Its SRC_REMOVED
is then dropped by the session, and withdraws the first stream a second time in
the replay.

**RequestsProofs.** That what is queued and filed was made is part of the type.
`IInv` adds to it and to `KeptAreUnanswered` that nothing answered is yet to be
made (`NoneFromTheFuture`), that
a queued request is queued once and neither filed nor answered (`QueuedAreNew`),
and that a request's answers only wait while the socket is drained, when nothing
is sent that could take its entry: under their number the map holds that request
or nothing, and then it was answered or has the notifications' number
(`WaitingAreAccounted`). `AnswersAreMatched` and `OnlyUnansweredAreKept` follow for
any number of numbers from two up; `EveryDropIsCounted` needs only the type.

**LifecycleProofs.** `IInv` adds to the type that a client that is connected
owns the descriptor in `_fd`, and that `run()` is only entered when connected,
which is where `ChecksResult` comes in: all three theorems are stated for an
application that checks the result of `connectToKernel`.

**StructHandlersProofs.** `operator<` compares nine words in order; the
lexicographic order of vectors is irreflexive, transitive and total up to
equality, so `KeyOrderIsStrict`, and `EquivalentKeysAreOneStream`: two keys are
equivalent exactly if they agree on protocol, family, interface, ports and the
bytes of the addresses that their family has. `RequestsAreUnderstood`,
`StreamShowsLastReport` and `MapTellsStreamsApart` follow from `IInv`: the stream
shows the last description field by field, and the client's reference is the
kernel's. `HandlerFits` is where the thresholds of `_loadStructHandler` meet the
headers.

Model-checked only: the liveness properties (`HandshakeCompletes`,
`StreamsAreAnnounced`, `ClosedStreamsAreWithdrawn`, `CountsAreAnswered`,
`StopEndsLoop`), as liveness under fairness is beyond the provers, and
`ListenerContract` of a kernel that reports sources without ports, as
`client_reuse` has it: its theorems assume `HavePorts`. Every other invariant and
action property that a passing run checks is the statement of a theorem. Induction over data is out of reach too, for the library's induction
theorems take an operator as a parameter, which the installed provers cannot
instantiate; the proofs go by invariants instead.

## Not modelled

- `NSTAT_PROVIDER_IFNET`: requesting interfaces is commented out in the code,
  and `STATE_REQUEST_IFNET_SRC` is never entered.
- The bytes of the kernel structs: that two versions of a struct differ in a field
  the library uses is in the model, where the field lies is not. With them go the headers' fields the library does not
  read, the whole of the 2050 header, which has no handler, among them.
- TCP state and window sizes beyond who fills them in, process names beyond
  where they come from, logging, and what the demo and replay programs print:
  data the code copies or formats.
- Of the record file: a recording that goes on over several calls of `run()`
  (`Record` has no `EndRun`: a session is one run), `write()` and `read()` that fail, the three writes a record
  is made of (a record is whole or cut short), the delays of a replay, and `run()`
  on an object after `runRecording()`, which no program does.
- A replay tells no updates, so those of the session are not compared.
- What the listener hears when messages are lost *and* references are used again,
  beyond `AddedComesFirst`: the contract fails there (see `client_lossy`), and
  nothing is said of which part of it should remain.

## Plan

Done, in this order: `Sources`, `Kernel` and `Client` with `StreamListener`,
`Lifecycle`, their proofs, `StreamKey` and `StructHandlers`; then `Requests`,
`Client` over several calls of `run()`, `Replay`, and the proofs about the
queue, the clean-up, the session, the listener, the requests and the replay.

What would come next:

1. What remains of the listener's contract when messages are dropped and
   references are used again, beyond `AddedComesFirst`: a weaker abstract
   specification, in which a stream may be withdrawn twice or stand for two.
2. The record file as bytes, if it is ever decided what a replay of a damaged
   file should do.
