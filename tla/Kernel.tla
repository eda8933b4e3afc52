------------------------------- MODULE Kernel -------------------------------
(***************************************************************************)
(* The com.apple.network.statistics control as the library uses it: the    *)
(* sockets it reports on, the subscriptions it grants and the receive      *)
(* queue of the one client connected to it.  It is external code, modelled *)
(* from docs/protocol.md, the message types the library sends and reads,   *)
(* and the comments in _handleResponseMessage about what to expect.        *)
(***************************************************************************)
EXTENDS Naturals, Sequences, FiniteSets

CONSTANTS
    SrcRefs,     \* the references the kernel hands out
    PortClass,   \* what the library can tell apart of a source's ports
    ProviderOf,  \* SrcRefs -> {"tcp", "udp"}
    OpenPorts,   \* the port classes a source may be opened with
    PortMoves,   \* the pairs of classes a source's ports may move between
    MaxLives,    \* how often one reference is used: more than once if it rolls over
    InboxCap,    \* bound: nothing happens of itself while this many messages wait
    Refused,     \* the providers ADD_ALL_SRCS is answered with an error for
    Lossy        \* whether a full buffer may drop messages

VARIABLES
    socket,      \* the ports of each source, or "closed"
    lives,       \* how many times each reference was opened
    subscribed,  \* the providers ADD_ALL_SRCS succeeded for
    inbox        \* the client's receive queue

Message(type, r, ports) == [type |-> type, ref |-> r, ports |-> ports]
Added(r) == Message("SRC_ADDED", r, "none")
Removed(r) == Message("SRC_REMOVED", r, "none")
Desc(r, ports) == Message("SRC_DESC", r, ports)
Counts(r) == Message("SRC_COUNTS", r, "none")
Success == Message("SUCCESS", 0, "none")
Error == Message("ERROR", 0, "none")      \* any errno but ENOBUFS
NoBuffers == Message("ENOBUFS", 0, "none")

Open(r) == socket[r] # "closed"
Reported(r) == ProviderOf[r] \in subscribed

KernelInit ==
    /\ socket \in [SrcRefs -> OpenPorts \cup {"closed"}]
    /\ lives = [r \in SrcRefs |-> IF socket[r] = "closed" THEN 0 ELSE 1]
    /\ subscribed = {}
    /\ inbox = <<>>

-----------------------------------------------------------------------------
\* What reaches the queue: every message, or some of them when buffers are
\* full.  Never another order.
Picks(n, m) ==
    {pick \in [1..n -> 1..m] : \A i, j \in 1..n : i < j => pick[i] < pick[j]}

Arriving(msgs) ==
    IF Lossy
    THEN UNION {{[i \in 1..n |-> msgs[pick[i]]] : pick \in Picks(n, Len(msgs))} :
                   n \in 0..Len(msgs)}
    ELSE {msgs}

Deliver(msgs) == \E arrived \in Arriving(msgs) : inbox' = inbox \o arrived

\* An answer that does not fit may be reported as ENOBUFS.
Answer(msgs) ==
    \/ Deliver(msgs)
    \/ Lossy /\ Deliver(msgs \o <<NoBuffers>>)

\* A new source: reported at once to a client subscribed to its provider.
OpenSource(r) ==
    /\ ~Open(r)
    /\ lives[r] < MaxLives
    /\ Len(inbox) < InboxCap
    /\ \E ports \in OpenPorts : socket' = [socket EXCEPT ![r] = ports]
    /\ lives' = [lives EXCEPT ![r] = @ + 1]
    /\ IF Reported(r) THEN Deliver(<<Added(r)>>) ELSE UNCHANGED inbox
    /\ UNCHANGED subscribed

\* bind, listen, connect: no message of its own.
MovePorts(r) ==
    /\ \E move \in PortMoves :
          /\ socket[r] = move[1]
          /\ socket' = [socket EXCEPT ![r] = move[2]]
    /\ UNCHANGED <<lives, subscribed, inbox>>

\* The last report of a source; SRC_ADDED may be repeated before it.
CloseSource(r) ==
    /\ Open(r)
    /\ Len(inbox) < InboxCap
    /\ socket' = [socket EXCEPT ![r] = "closed"]
    /\ IF Reported(r)
       THEN LET goodbye == <<Counts(r), Desc(r, socket[r]), Removed(r)>>
            IN  Deliver(goodbye) \/ Deliver(<<Added(r)>> \o goodbye)
       ELSE UNCHANGED inbox
    /\ UNCHANGED <<lives, subscribed>>

\* The connection ends, and its queue with it.  A source may end unheard of.
Disconnect ==
    /\ \E ended \in SUBSET SrcRefs :
          socket' = [r \in SrcRefs |-> IF r \in ended THEN "closed" ELSE socket[r]]
    /\ subscribed' = {}
    /\ inbox' = <<>>
    /\ UNCHANGED lives

KernelStep == \E r \in SrcRefs : OpenSource(r) \/ MovePorts(r) \/ CloseSource(r)

-----------------------------------------------------------------------------
(* A request is answered inside the write() that sends it.                  *)
Request(type, r, provider) == [type |-> type, ref |-> r, provider |-> provider]
AddAllSrcs(provider) == Request("ADD_ALL_SRCS", 0, provider)
GetSrcDesc(r) == Request("GET_SRC_DESC", r, ProviderOf[r])
QuerySrc(r) == Request("QUERY_SRC", r, ProviderOf[r])

\* One SRC_ADDED for every source of the provider that is open already.
Existing(provider) == {r \in SrcRefs : Open(r) /\ ProviderOf[r] = provider}

Listings(refs) ==
    {list \in [1..Cardinality(refs) -> refs] :
        \A i, j \in 1..Cardinality(refs) : list[i] = list[j] => i = j}

\* A second subscription is refused, or has the open sources listed again.
Subscribe(provider) ==
    \/ /\ provider \in Refused \cup subscribed
       /\ Answer(<<Error>>)
       /\ UNCHANGED subscribed
    \/ /\ provider \notin Refused
       /\ \E list \in Listings(Existing(provider)) :
             Answer([i \in DOMAIN list |-> Added(list[i])] \o <<Success>>)
       /\ subscribed' = subscribed \cup {provider}

\* The data of one source, with or without a SUCCESS to end the answer.
Data(m) == Answer(<<m>>) \/ Answer(<<m, Success>>)

Describe(r) ==
    /\ IF Open(r) THEN Data(Desc(r, socket[r])) ELSE Answer(<<Error>>)
    /\ UNCHANGED subscribed

Count(r) ==
    /\ IF Open(r) THEN Data(Counts(r)) ELSE Answer(<<Error>>)
    /\ UNCHANGED subscribed

Serve(req) ==
    /\ \/ req.type = "ADD_ALL_SRCS" /\ Subscribe(req.provider)
       \/ req.type = "GET_SRC_DESC" /\ Describe(req.ref)
       \/ req.type = "QUERY_SRC" /\ Count(req.ref)
       \/ Lossy /\ UNCHANGED <<subscribed, inbox>>
    /\ UNCHANGED <<socket, lives>>
=============================================================================
