--------------------------- MODULE StreamListener ---------------------------
(***************************************************************************)
(* What an application that implements NetworkStatisticsListener may rely  *)
(* on: a stream is added, then updated any number of times, then removed;  *)
(* and one id names one stream at a time.  Whether a stream the kernel     *)
(* reports is ever added is a matter of liveness, stated where the kernel  *)
(* is known (module Client).                                               *)
(***************************************************************************)
CONSTANT SrcRefs

VARIABLES
    up,     \* the ids of the streams the application knows
    event   \* the call just made

Quiet == [kind |-> "none"]
Event(kind, r) == [kind |-> kind, id |-> r]

Init ==
    /\ up = {}
    /\ event = Quiet

OnStreamAdded(r) ==
    /\ r \notin up
    /\ up' = up \cup {r}
    /\ event' = Event("added", r)

OnStreamStatsUpdate(r) ==
    /\ r \in up
    /\ event' = Event("stats", r)
    /\ UNCHANGED up

OnStreamRemoved(r) ==
    /\ r \in up
    /\ up' = up \ {r}
    /\ event' = Event("removed", r)

NoCallback ==
    /\ event' = Quiet
    /\ UNCHANGED up

Next ==
    \/ \E r \in SrcRefs :
          OnStreamAdded(r) \/ OnStreamStatsUpdate(r) \/ OnStreamRemoved(r)
    \/ NoCallback

Spec == Init /\ [][Next]_<<up, event>>
=============================================================================
