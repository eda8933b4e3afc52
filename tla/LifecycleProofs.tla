-------------------------- MODULE LifecycleProofs --------------------------
(***************************************************************************)
(* The descriptor discipline of Lifecycle, for any number of descriptors   *)
(* and messages, of an application that goes by connectToKernel's result.  *)
(***************************************************************************)
EXTENDS Lifecycle, TLAPS

(* The inductive invariant: _fd is the client's socket exactly while the    *)
(* last connect succeeded, and run() is only entered then.  NoSocketLeaks   *)
(* is what makes closing _fd enough.                                        *)
Socket ==
    /\ connected => fd \in Fds /\ owner[fd] = "client"
    /\ run # "idle" => connected

IInv == TypeOK /\ Socket /\ NoSocketLeaks

LEMMA InitIInv == Init => IInv
<1> SUFFICES ASSUME Init PROVE IInv
  OBVIOUS
<1>1. TypeOK
  <2>1. sent \in 0..MaxMessages /\ pending \in 0..sent
    BY LifecycleAssumption DEF Init
  <2>2. /\ connected \in BOOLEAN
        /\ keepRunning \in BOOLEAN
        /\ stopping \in BOOLEAN
        /\ hungUp \in BOOLEAN
    BY DEF Init
  <2>3. /\ fd \in Fds \cup {0, -1}
        /\ owner \in [Fds -> {"free", "client", "other"}]
        /\ run \in {"idle", "prelude", "loop", "drain", "close"}
    BY DEF Init
  <2>4. QED BY <2>1, <2>2, <2>3 DEF TypeOK
<1>2. Socket
  BY DEF Init, Socket
<1>3. NoSocketLeaks
  BY DEF Init, NoSocketLeaks
<1>4. QED BY <1>1, <1>2, <1>3 DEF IInv

\* Connecting takes a free descriptor, or takes none.
LEMMA ConnectStep ==
  ASSUME ChecksResult, IInv, ConnectToKernel
  PROVE  Socket' /\ NoSocketLeaks' /\ fd' \in Fds \cup {0, -1}
         /\ owner' \in [Fds -> {"free", "client", "other"}] /\ connected' \in BOOLEAN
         /\ pending' \in {pending, 0} /\ hungUp' \in BOOLEAN
<1> USE DEF IInv, TypeOK, Socket, NoSocketLeaks, ConnectToKernel
<1>1. run = "idle" /\ run' = "idle" /\ ~connected
  OBVIOUS
<1>2. \A n \in Fds : owner[n] # "client"
  BY <1>1
<1>3. CASE ConnectOk
  <2>1. PICK n \in Free : fd' = n /\ owner' = [owner EXCEPT ![n] = "client"]
    BY <1>3 DEF ConnectOk
  <2>2. n \in Fds
    BY DEF Free
  <2>3. QED BY <1>1, <1>2, <1>3, <2>1, <2>2 DEF ConnectOk
<1>4. CASE ConnectFailsLate
  <2>1. PICK n \in Free : fd' = n
    BY <1>4 DEF ConnectFailsLate
  <2>2. n \in Fds
    BY DEF Free
  <2>3. QED BY <1>1, <1>2, <1>4, <2>1, <2>2 DEF ConnectFailsLate
<1>5. CASE ConnectFailsEarly
  BY <1>1, <1>2, <1>5 DEF ConnectFailsEarly
<1>6. QED BY <1>3, <1>4, <1>5

\* The rest of the process takes free descriptors and gives back its own.
LEMMA OtherStep ==
  ASSUME IInv, OtherOpens \/ OtherCloses
  PROVE  IInv'
<1> USE DEF IInv, TypeOK, Socket, NoSocketLeaks
<1>1. PICK n \in Fds : /\ owner[n] # "client"
                       /\ \/ owner' = [owner EXCEPT ![n] = "other"]
                          \/ owner' = [owner EXCEPT ![n] = "free"]
  BY DEF OtherOpens, OtherCloses, Free
<1>2. UNCHANGED <<fd, connected, run, keepRunning, stopping, pending, sent, hungUp>>
  BY DEF OtherOpens, OtherCloses
<1>3. owner' \in [Fds -> {"free", "client", "other"}]
  BY <1>1
<1>4. \A m \in Fds : owner'[m] = "client" <=> owner[m] = "client"
  BY <1>1
<1>5. QED BY <1>2, <1>3, <1>4

LEMMA Step == ChecksResult /\ IInv /\ [Next]_vars => IInv'
<1> SUFFICES ASSUME ChecksResult, IInv, [Next]_vars PROVE IInv'
  OBVIOUS
<1> USE LifecycleAssumption DEF IInv, TypeOK, Socket, NoSocketLeaks
<1>1. CASE ConnectToKernel
  BY <1>1, ConnectStep DEF ConnectToKernel
<1>2. CASE CallRun
  BY <1>2 DEF CallRun, IsConnected
<1>3. CASE Prelude
  BY <1>3 DEF Prelude
<1>4. CASE LoopTest
  BY <1>4 DEF LoopTest
<1>5. CASE ReadOne
  BY <1>5 DEF ReadOne
<1>6. CASE DrainEnds
  BY <1>6 DEF DrainEnds
<1>7. CASE CloseFd
  <2>1. fd \in Fds /\ owner[fd] = "client"
    BY <1>7 DEF CloseFd
  <2>2. \A n \in Fds : owner'[n] # "client"
    BY <1>7, <2>1 DEF CloseFd
  <2>3. owner' \in [Fds -> {"free", "client", "other"}] /\ fd' = 0 /\ pending' = 0
    BY <1>7, <2>1 DEF CloseFd
  <2>4. /\ UNCHANGED <<keepRunning, stopping, sent, hungUp>>
        /\ run' = "idle"
        /\ connected' = FALSE
    BY <1>7 DEF CloseFd
  <2>5. sent' \in 0..MaxMessages /\ pending' \in 0..sent'
    <3>1. sent \in 0..MaxMessages
      OBVIOUS
    <3>2. sent' = sent /\ pending' = 0
      BY <2>3, <2>4
    <3>3. QED BY <3>1, <3>2, LifecycleAssumption
  <2>6. TypeOK'
    <3>1. connected' \in BOOLEAN
      BY <2>4
    <3>2. QED BY <2>3, <2>4, <2>5, <3>1
  <2>7. Socket' /\ NoSocketLeaks'
    BY <2>2, <2>4
  <2>8. QED BY <2>6, <2>7
<1>8. CASE Stop
  BY <1>8 DEF Stop
<1>9. CASE OtherOpens \/ OtherCloses
  BY <1>9, OtherStep
<1>10. CASE KernelSends
  BY <1>10 DEF KernelSends
<1>11. CASE KernelHangsUp
  BY <1>11 DEF KernelHangsUp
<1>12. CASE UNCHANGED vars
  BY <1>12 DEF vars
<1>13. QED
  BY <1>1, <1>2, <1>3, <1>4, <1>5, <1>6, <1>7, <1>8, <1>9, <1>10, <1>11, <1>12
  DEF Next, RunThread

(* While run() is active, _fd is the client's own socket: an application    *)
(* that goes by the result of connectToKernel never has it read, write or   *)
(* close a descriptor of another part of the process.                       *)
THEOREM RunIsSafe == ASSUME ChecksResult PROVE Spec => []RunUsesItsOwnSocket
<1>1. IInv => RunUsesItsOwnSocket
  BY DEF IInv, Socket, RunUsesItsOwnSocket
<1>2. IInv /\ [Next]_vars => IInv'
  BY Step
<1>3. QED BY InitIInv, <1>1, <1>2, PTL DEF Spec

(* No socket but the one in _fd stays open, over any number of connects and *)
(* runs.                                                                    *)
THEOREM NothingLeaks == ASSUME ChecksResult PROVE Spec => []NoSocketLeaks
<1>1. IInv => NoSocketLeaks
  BY DEF IInv
<1>2. IInv /\ [Next]_vars => IInv'
  BY Step
<1>3. QED BY InitIInv, <1>1, <1>2, PTL DEF Spec

(* Every state of a client connected, run and stopped in any order has its  *)
(* type; of the messages waiting there are never more than were sent.       *)
THEOREM LifecycleTypeCorrect == ASSUME ChecksResult PROVE Spec => []TypeOK
<1>1. IInv => TypeOK
  BY DEF IInv
<1>2. IInv /\ [Next]_vars => IInv'
  BY Step
<1>3. QED BY InitIInv, <1>1, <1>2, PTL DEF Spec
=============================================================================
