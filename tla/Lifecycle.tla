----------------------------- MODULE Lifecycle -----------------------------
(***************************************************************************)
(* The life of a client: connectToKernel, isConnected, run on its own      *)
(* thread, stop from another, and the file descriptor they share with the  *)
(* rest of the process.  What run does in its loop is module Client; here  *)
(* a round is only what decides when the loop ends.                        *)
(***************************************************************************)
EXTENDS Integers

CONSTANTS
    Fds,          \* the descriptors the process may be given
    MaxMessages,  \* bound on the messages the kernel sends
    ChecksResult  \* the application goes by connectToKernel's result, or else
                  \* by isConnected()

ASSUME LifecycleAssumption ==
    /\ Fds \subseteq Nat \ {0}
    /\ MaxMessages \in Nat
    /\ ChecksResult \in BOOLEAN

VARIABLES
    fd,           \* _fd
    owner,        \* whose each descriptor is: "free", "client" or "other"
    connected,    \* what the last connectToKernel returned
    run,          \* where run() is: "idle", "prelude", "loop", "drain", "close"
    keepRunning,  \* _keepRunning
    stopping,     \* history: stop() was called since the last call of run()
    pending,      \* messages waiting in the socket
    sent,         \* how many the kernel has sent
    hungUp        \* the kernel has closed its end

vars == <<fd, owner, connected, run, keepRunning, stopping, pending, sent, hungUp>>

Init ==
    /\ fd = 0
    /\ owner = [n \in Fds |-> "free"]
    /\ connected = FALSE
    /\ run = "idle"
    /\ keepRunning = FALSE
    /\ stopping = FALSE
    /\ pending = 0
    /\ sent = 0
    /\ hungUp = FALSE

IsConnected == fd > 0

Free == {n \in Fds : owner[n] = "free"}

-----------------------------------------------------------------------------
(* connectToKernel, called while run() is not.                              *)
ConnectOk ==
    /\ \E n \in Free :
          /\ fd' = n
          /\ owner' = [owner EXCEPT ![n] = "client"]
    /\ connected' = TRUE
    /\ pending' = 0
    /\ hungUp' = FALSE

\* Mutant: the failure is not returned.
ConnectFailsSilently ==
    /\ \E n \in Free : fd' = n
    /\ connected' = TRUE
    /\ UNCHANGED <<owner, pending, hungUp>>

\* ioctl or connect fails: the descriptor is closed again, its number kept.
ConnectFailsLate ==
    /\ \E n \in Free : fd' = n
    /\ connected' = FALSE
    /\ UNCHANGED <<owner, pending, hungUp>>

\* Mutant: _fd = socket(..) == -1, which keeps the comparison's result.
ConnectFailsEarlyCompared ==
    /\ fd' = 1
    /\ connected' = FALSE
    /\ UNCHANGED <<owner, pending, hungUp>>

\* socket fails.
ConnectFailsEarly ==
    /\ fd' = -1
    /\ connected' = FALSE
    /\ UNCHANGED <<owner, pending, hungUp>>

\* An application connects when it is not, as far as it can tell.
ConnectToKernel ==
    /\ run = "idle"
    /\ IF ChecksResult THEN ~connected ELSE ~IsConnected
    /\ ConnectOk \/ ConnectFailsLate \/ ConnectFailsEarly
    /\ UNCHANGED <<run, keepRunning, stopping, sent>>

-----------------------------------------------------------------------------
(* run, entered by its thread; the flag is set only after the test.         *)
CallRun ==
    /\ run = "idle"
    /\ IF ChecksResult THEN connected ELSE TRUE
    /\ run' = IF IsConnected THEN "prelude" ELSE "idle"
    /\ stopping' = FALSE
    /\ UNCHANGED <<fd, owner, connected, keepRunning, pending, sent, hungUp>>

Prelude ==
    /\ run = "prelude"
    /\ run' = "loop"
    /\ keepRunning' = TRUE
    /\ UNCHANGED <<fd, owner, connected, stopping, pending, sent, hungUp>>

\* Mutant: the loop runs for ever.
LoopTestIgnoringStop ==
    /\ run = "loop"
    /\ run' = "drain"
    /\ UNCHANGED <<fd, owner, connected, keepRunning, stopping, pending, sent, hungUp>>

LoopTest ==
    /\ run = "loop"
    /\ run' = IF keepRunning THEN "drain" ELSE "close"
    /\ UNCHANGED <<fd, owner, connected, keepRunning, stopping, pending, sent, hungUp>>

(* The inner loop reads while select says there is something to read, which *)
(* it says of a closed socket too; it does not look at the flag.            *)
ReadOne ==
    /\ run = "drain"
    /\ pending > 0 \/ hungUp
    /\ pending' = IF pending > 0 THEN pending - 1 ELSE 0
    /\ UNCHANGED <<fd, owner, connected, run, keepRunning, stopping, sent, hungUp>>

DrainEnds ==
    /\ run = "drain"
    /\ pending = 0
    /\ ~hungUp
    /\ run' = "loop"
    /\ UNCHANGED <<fd, owner, connected, keepRunning, stopping, pending, sent, hungUp>>

\* Mutant: the descriptor is forgotten, not closed.
CloseFdForgotten ==
    /\ run = "close"
    /\ run' = "idle"
    /\ fd' = 0
    /\ connected' = FALSE
    /\ pending' = 0
    /\ UNCHANGED <<owner, keepRunning, stopping, sent, hungUp>>

\* close(_fd) closes whatever has that number now.
CloseFd ==
    /\ run = "close"
    /\ run' = "idle"
    /\ owner' = [owner EXCEPT ![fd] = "free"]
    /\ fd' = 0
    /\ connected' = FALSE
    /\ pending' = 0
    /\ UNCHANGED <<keepRunning, stopping, sent, hungUp>>

RunThread == Prelude \/ LoopTest \/ ReadOne \/ DrainEnds \/ CloseFd

-----------------------------------------------------------------------------
\* stop, from any thread.
Stop ==
    /\ keepRunning' = FALSE
    /\ stopping' = (run # "idle")
    /\ UNCHANGED <<fd, owner, connected, run, pending, sent, hungUp>>

\* The rest of the process opens and closes descriptors of its own.
OtherOpens ==
    /\ \E n \in Free : owner' = [owner EXCEPT ![n] = "other"]
    /\ UNCHANGED <<fd, connected, run, keepRunning, stopping, pending, sent, hungUp>>

OtherCloses ==
    /\ \E n \in Fds : owner[n] = "other" /\ owner' = [owner EXCEPT ![n] = "free"]
    /\ UNCHANGED <<fd, connected, run, keepRunning, stopping, pending, sent, hungUp>>

\* The kernel sends, or hangs up.
KernelSends ==
    /\ connected
    /\ ~hungUp
    /\ sent < MaxMessages
    /\ pending' = pending + 1
    /\ sent' = sent + 1
    /\ UNCHANGED <<fd, owner, connected, run, keepRunning, stopping, hungUp>>

KernelHangsUp ==
    /\ connected
    /\ hungUp' = TRUE
    /\ UNCHANGED <<fd, owner, connected, run, keepRunning, stopping, pending, sent>>

Next ==
    \/ ConnectToKernel
    \/ CallRun
    \/ RunThread
    \/ Stop
    \/ OtherOpens
    \/ OtherCloses
    \/ KernelSends
    \/ KernelHangsUp

Spec == Init /\ [][Next]_vars

\* The thread run() was called on keeps running.
FairSpec == Spec /\ WF_vars(RunThread)

-----------------------------------------------------------------------------
(* _fd is no descriptor at all or one that was given for a socket, and what *)
(* waits in the socket was sent.                                            *)
TypeOK ==
    /\ fd \in Fds \cup {0, -1}
    /\ owner \in [Fds -> {"free", "client", "other"}]
    /\ connected \in BOOLEAN
    /\ run \in {"idle", "prelude", "loop", "drain", "close"}
    /\ keepRunning \in BOOLEAN
    /\ stopping \in BOOLEAN
    /\ pending \in 0..sent
    /\ sent \in 0..MaxMessages
    /\ hungUp \in BOOLEAN

(* The descriptor run() reads, writes and in the end closes is the client's *)
(* own socket, never one the process has given to somebody else since.      *)
RunUsesItsOwnSocket == run # "idle" => fd \in Fds /\ owner[fd] = "client"

(* The client has no other socket than the one in _fd: reconnecting and     *)
(* running again leaks no descriptor ("The connection to the kernel will be *)
(* disconnected when run() exits").                                         *)
NoSocketLeaks == \A n \in Fds : owner[n] = "client" => n = fd /\ connected

(* stop() ends a run whose loop has started, whatever messages still wait,  *)
(* unless the kernel has hung up: then the inner loop, which never looks at *)
(* the flag, reads nothing for ever.                                        *)
StopEndsLoop ==
    (run \in {"loop", "drain"} /\ ~keepRunning) ~> (run = "idle" \/ hungUp)

(* stop() ends the run ("Will set the stop flag, so run() will exit"), also *)
(* when it comes while the thread is still on its way to the loop.          *)
StopEndsRun == stopping ~> (run = "idle" \/ hungUp)

(* isConnected() "returns true if connectToKernel() was called and was      *)
(* successful".                                                             *)
ConnectedMeansConnected == IsConnected => connected
=============================================================================
