------------------------------- MODULE SoftLimit -------------------------------
(***************************************************************************)
(* ClientOutput with the moment since which the client has really been     *)
(* above its soft limit without a break, to compare it with the moment     *)
(* that the code keeps.                                                    *)
(***************************************************************************)
EXTENDS ClientOutput

VARIABLE aboveSince     (* history: 0 while the client is below the limit *)

hvars == <<vars, aboveSince>>

HInit == Init /\ aboveSince = 0

HNext ==
  /\ Next
  /\ aboveSince' = IF getClientOutputBufferMemoryUsage' < SoftLimit THEN 0
                   ELSE IF aboveSince = 0 THEN now ELSE aboveSince

HSpec == HInit /\ [][HNext]_hvars

(* networking.c:914-917 and 2117 say that a client below the hard limit is *)
(* closed when it has been above the soft limit continuously for longer    *)
(* than the configured time, and not if it was below in between.           *)
SoftLimitContinuous ==
  [][closeAsap' /\ ~closeAsap =>
       \/ getClientOutputBufferMemoryUsage' >= HardLimit
       \/ aboveSince # 0 /\ now - aboveSince > SoftSeconds]_hvars
===============================================================================
