------------------------------- MODULE Replay -------------------------------
(***************************************************************************)
(* A session that is recorded and told again.  enableRecording() was       *)
(* called before run(): SEND and _socketRead append what they send and     *)
(* read to a file.  The process ends, in order or in the middle of         *)
(* anything, the writing of a record included; another process replays the *)
(* file with runRecording(), which passes the messages read to the same    *)
(* handlers but sends nothing and makes none of run()'s periodic passes.   *)
(***************************************************************************)
EXTENDS Client, SequencesExt

CONSTANT Cut   \* a record of which some bytes are missing

\* What SEND sends.
RequestMessage ==
    {AddAllSrcs("tcp"), AddAllSrcs("udp")}
        \cup {GetSrcDesc(r) : r \in SrcRefs} \cup {QuerySrc(r) : r \in SrcRefs}

ASSUME ReplayAssumption == Cut \notin KernelMessage \cup RequestMessage

VARIABLES
    file,      \* what RECORD wrote
    mode,      \* "live", "replay" or "done"
    position,  \* replayMsgCount: how many records were read back
    told,      \* history: the calls onStreamAdded and onStreamRemoved of the session
    retold,    \* history: the same of the replay
    unhandled  \* history: the session ended between the record and the handling

sessionVars == <<file, mode, position, told, retold, unhandled>>
replayVars == <<vars, sessionVars>>

ReplayInit ==
    /\ ClientInit
    /\ file = <<>>
    /\ mode = "live"
    /\ position = 0
    /\ told = <<>>
    /\ retold = <<>>
    /\ unhandled = FALSE

-----------------------------------------------------------------------------
\* The calls of a session that its replay is compared by.
Tell(story) ==
    IF callback'.kind \in {"added", "removed"}
    THEN Append(story, LastEvent') ELSE story

\* What sendNextMsg is about to send, if anything.
NextRequest ==
    IF outq # <<>> THEN <<Head(outq)>>
    ELSE IF Keys(mapWaitingForDesc) # {}
    THEN <<GetSrcDesc(First(mapWaitingForDesc))>>
    ELSE IF Keys(mapWaitingForCount) # {}
            /\ StillWanted(mapWaitingForCount[First(mapWaitingForCount)])
    THEN <<QuerySrc(First(mapWaitingForCount))>>
    ELSE <<>>

(* RECORD, in SEND and in _socketRead: before the request is written, and   *)
(* before the message is handled.                                           *)
Record ==
    \/ SendNextMsg /\ file' = file \o NextRequest
    \/ ReadNextMessage /\ file' = Append(file, Head(inbox))
    \/ (StartRun \/ Cleanup \/ Update \/ Drained \/ KernelActs \/ Tick) /\ UNCHANGED file

LiveStep ==
    /\ mode = "live"
    /\ Record
    /\ told' = Tell(told)
    /\ UNCHANGED <<mode, position, retold, unhandled>>

\* Mutant: a message is recorded once it has been handled.
EndsLate ==
    {file} \cup (IF file # <<>> THEN {Append(Front(file), Cut)} ELSE {})

\* How the file may end: with the last thing done, in the middle of the next
\* record, or with the record of something that was not done any more.
Ends ==
    {file, Append(file, Cut)}
        \cup (IF pc = "send" THEN {file \o NextRequest} ELSE {})
        \cup (IF pc = "drain" /\ inbox # <<>> THEN {Append(file, Head(inbox))} ELSE {})

(* The recording process ends.  The one that replays has a client of its    *)
(* own, no connection and the state runRecording begins with.               *)
EndSession ==
    /\ mode = "live"
    /\ mode' = "replay"
    /\ file' \in Ends
    /\ unhandled' = (pc = "drain" /\ inbox # <<>> /\ file' = Append(file, Head(inbox)))
    /\ Disconnect
    /\ heap' = [o \in {} |-> NoObj]
    /\ map' = [r \in SrcRefs |-> NoObj]
    /\ mapWaitingForDesc' = [r \in SrcRefs |-> NoObj]
    /\ mapWaitingForCount' = [r \in SrcRefs |-> NoObj]
    /\ callback' = NoCall
    /\ announced' = {}
    /\ withdrawn' = {}
    /\ pc' = "drain"
    /\ state' = "RUNNING"
    /\ outq' = <<>>
    /\ UNCHANGED <<now, tLastCleanup, tLastUpdate, callVars, position, told, retold>>

-----------------------------------------------------------------------------
\* At the end of the file there is as little to read as of a record cut short.
NextRecord == IF position < Len(file) THEN file[position + 1] ELSE Cut

\* runRecording: a request only matters if it is the first record.
ReplayRequest(req) ==
    /\ req.type \in {"ADD_ALL_SRCS", "GET_SRC_DESC", "QUERY_SRC"}
    /\ state' = IF position = 0 /\ req.type = "ADD_ALL_SRCS" THEN "START" ELSE state
    /\ Ignored
    /\ UNCHANGED outq

ReplayRecord ==
    /\ mode = "replay"
    /\ NextRecord # Cut
    /\ \/ ReplayRequest(NextRecord)
       \/ HandleNotification(NextRecord)
       \/ HandleResponse(NextRecord)
    /\ position' = position + 1
    /\ retold' = Tell(retold)
    /\ UNCHANGED <<kernelVars, pc, tLastCleanup, tLastUpdate, callVars,
                   file, mode, told, unhandled>>

ReplayEnds ==
    /\ mode = "replay"
    /\ NextRecord = Cut
    /\ mode' = "done"
    /\ Ignored
    /\ UNCHANGED <<kernelVars, runVars, file, position, told, retold, unhandled>>

ReplayNext == LiveStep \/ EndSession \/ ReplayRecord \/ ReplayEnds

ReplaySpec == ReplayInit /\ [][ReplayNext]_replayVars
-----------------------------------------------------------------------------
(* The replay tells what the session told, in that order and nothing else:  *)
(* the clean-ups it does not make, the objects a first process had and the  *)
(* requests it does not send make no difference.  Only a message recorded   *)
(* and not handled any more is told of in the replay alone.                 *)
ReplayRepeatsSession ==
    \/ IsPrefix(retold, told)
    \/ unhandled /\ Len(retold) = Len(told) + 1 /\ IsPrefix(told, retold)

(* The replay leaves nothing out: every call the session made is in the     *)
(* file by then, wherever the process ended.                                *)
ReplayIsComplete == mode = "done" => IsPrefix(told, retold)
=============================================================================
