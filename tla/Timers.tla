-------------------------------- MODULE Timers --------------------------------
(***************************************************************************)
(* The time events of ae.c: aeMain computes how long epoll may sleep from  *)
(* the nearest timer, and after the poll processTimeEvents walks through   *)
(* the list of timers.  Callbacks create and delete timers while the walk  *)
(* is under way, time passes between any two steps, and the system clock   *)
(* may be set back.                                                        *)
(***************************************************************************)
EXTENDS Integers, FiniteSets

CONSTANTS
  MaxIds,    (* bound: timers created in one behaviour                      *)
  MaxNow,    (* bound: the clock stands still when it shows this            *)
  MaxSkews,  (* bound: how often the clock is set back                      *)
  Second,    (* units of time in a second (1000 in the code)                *)
  Delays     (* delays that callers ask for: the arguments of               *)
             (* aeCreateTimeEvent and the values that callbacks return      *)

ASSUME TimersAssumption ==
  /\ MaxIds \in Nat \ {0}
  /\ MaxNow \in Nat
  /\ MaxSkews \in Nat
  /\ Second \in Nat \ {0}
  /\ Delays \subseteq Nat \ {0}

Ids == 0 .. (MaxIds - 1)
Nil == -1              \* the end of the list
AE_NOMORE == -1        \* what a callback returns to have its timer deleted
Forever == -1          \* epoll_wait's timeout for "no limit"

VARIABLES
  now,       (* the clock: gettimeofday                                       *)
  skews,     (* how often it was set back                                     *)
  live,      (* the timers in the list.  A new timer is put at the head, so   *)
             (* the list runs from the highest id to the lowest               *)
  when,      (* when_sec and when_ms of each timer                            *)
  asked,     (* history: the time each timer was asked for, 0 after a reset   *)
  nextId,    (* timeEventNextId                                               *)
  lastTime,  (* the second of the last processTimeEvents                      *)
  stage,     (* "sleep" before and "wait" in the poll, "pass" in              *)
             (* processTimeEvents, "callback" while a timeProc runs           *)
  left,      (* how long the poll will still sleep                            *)
  te,        (* the timer that processTimeEvents stands at, or Nil            *)
  maxId,     (* the highest id this pass may run                              *)
  born       (* history: timers created since the pass began                  *)

listVars == <<live, when, asked, nextId>>
timersVars == <<now, skews, listVars, lastTime, stage, left, te, maxId, born>>

Moment == [sec : Nat, ms : 0 .. (Second - 1)]
Unset == [sec |-> 0, ms |-> 0]

\* aeGetTime
Sec(t) == t \div Second
Ms(t) == t % Second
Instant(m) == m.sec * Second + m.ms

\* Mutant: the carry into the seconds is forgotten.
aeAddMillisecondsToNowNoCarry(d) ==
  [sec |-> Sec(now) + d \div Second, ms |-> (Ms(now) + d) % Second]

\* aeAddMillisecondsToNow: the parts are added one by one, with a carry.
aeAddMillisecondsToNow(d) ==
  LET ms == Ms(now) + (d % Second)
      carry == ms >= Second
  IN [sec |-> Sec(now) + d \div Second + (IF carry THEN 1 ELSE 0),
      ms |-> IF carry THEN ms - Second ELSE ms]

\* The first node of the list among ids.
First(ids) == IF ids = {} THEN Nil ELSE CHOOSE i \in ids : \A j \in ids : j <= i
NextOf(i) == First({j \in live : j < i})

Due(i) ==
  \/ Sec(now) > when[i].sec
  \/ Sec(now) = when[i].sec /\ Ms(now) >= when[i].ms

\* aeSearchNearestTimer: the first of those with the smallest time.
Nearest ==
  First({i \in live : \A j \in live : Instant(when[i]) <= Instant(when[j])})

\* main creates a timer of one millisecond before it enters the loop.
TimersInit ==
  /\ now = Second
  /\ skews = 0
  /\ live = {0}
  /\ when = [i \in Ids |-> IF i = 0 THEN aeAddMillisecondsToNow(1) ELSE Unset]
  /\ asked = [i \in Ids |-> IF i = 0 THEN Second + 1 ELSE 0]
  /\ nextId = 1
  /\ lastTime = 1
  /\ stage = "sleep"
  /\ left = 0
  /\ te = Nil
  /\ maxId = Nil
  /\ born = {}

-------------------------------------------------------------------------------
(* Time.                                                                   *)

Tick ==
  /\ now < MaxNow \/ (stage = "wait" /\ left > 0)
  /\ now' = IF now < MaxNow THEN now + 1 ELSE now
  /\ left' = IF stage = "wait" /\ left > 0 THEN left - 1 ELSE left
  /\ UNCHANGED <<skews, listVars, lastTime, stage, te, maxId, born>>

SetClockBack ==
  /\ skews < MaxSkews
  /\ skews' = skews + 1
  /\ now' \in Second .. (now - 1)
  /\ UNCHANGED <<listVars, lastTime, stage, left, te, maxId, born>>

-------------------------------------------------------------------------------
(* aeProcessEvents up to the poll and after it.                            *)

\* Mutant: the whole second is not taken off again.
DistanceNoBorrow(m) ==
  LET borrow == m.ms < Ms(now)
      sec == m.sec - Sec(now)
      ms == m.ms - Ms(now) + (IF borrow THEN Second ELSE 0)
  IN (IF sec < 0 THEN 0 ELSE sec) * Second + ms

\* The distance to the nearest timer, by parts; each part that is negative
\* counts as zero.
Distance(m) ==
  LET borrow == m.ms < Ms(now)
      sec == m.sec - Sec(now) - (IF borrow THEN 1 ELSE 0)
      ms == m.ms - Ms(now) + (IF borrow THEN Second ELSE 0)
  IN (IF sec < 0 THEN 0 ELSE sec) * Second + ms

\* Reading the clock and falling asleep are one step.
PrepareToSleep ==
  /\ stage = "sleep"
  /\ left' = IF live = {} THEN Forever ELSE Distance(when[Nearest])
  /\ stage' = "wait"
  /\ UNCHANGED <<now, skews, listVars, lastTime, te, maxId, born>>

\* Mutant: off by one.
NewestIdMissed == nextId - 2
\* Timers created from now on are not run in this pass.
NewestId == nextId - 1

\* The start of processTimeEvents.  If the clock has gone back by a second or
\* more since the last pass, every timer is made due.
StartPass ==
  /\ stage' = "pass"
  /\ left' = 0
  /\ IF Sec(now) < lastTime
     THEN /\ when' = [i \in Ids |-> IF i \in live THEN [when[i] EXCEPT !.sec = 0] ELSE when[i]]
          /\ asked' = [i \in Ids |-> 0]
     ELSE UNCHANGED <<when, asked>>
  /\ lastTime' = Sec(now)
  /\ te' = First(live)
  /\ maxId' = NewestId
  /\ born' = {}
  /\ UNCHANGED <<now, skews, live, nextId>>

TimedOut ==
  /\ stage = "wait"
  /\ left = 0
  /\ StartPass

\* File events end the sleep early; their callbacks run and the pass begins.
FileEvents ==
  /\ stage = "wait"
  /\ StartPass

-------------------------------------------------------------------------------
(* processTimeEvents.                                                      *)

\* The list is walked past timers that are new in this pass or not due.
StepOver ==
  /\ stage = "pass"
  /\ te # Nil
  /\ te > maxId \/ ~Due(te)
  /\ te' = NextOf(te)
  /\ UNCHANGED <<now, skews, listVars, lastTime, stage, left, maxId, born>>

Fire ==
  /\ stage = "pass"
  /\ te # Nil
  /\ te <= maxId /\ Due(te)
  /\ stage' = "callback"
  /\ UNCHANGED <<now, skews, listVars, lastTime, left, te, maxId, born>>

EndPass ==
  /\ stage = "pass"
  /\ te = Nil
  /\ stage' = "sleep"
  /\ maxId' = Nil
  /\ born' = {}
  /\ UNCHANGED <<now, skews, listVars, lastTime, left, te>>

\* aeCreateTimeEvent, called by the callback
aeCreateTimeEvent(d) ==
  /\ stage = "callback"
  /\ nextId < MaxIds
  /\ live' = live \union {nextId}
  /\ when' = [when EXCEPT ![nextId] = aeAddMillisecondsToNow(d)]
  /\ asked' = [asked EXCEPT ![nextId] = now + d]
  /\ nextId' = nextId + 1
  /\ born' = born \union {nextId}
  /\ UNCHANGED <<now, skews, lastTime, stage, left, te, maxId>>

Drop(i) ==
  /\ live' = live \ {i}
  /\ when' = [when EXCEPT ![i] = Unset]
  /\ asked' = [asked EXCEPT ![i] = 0]

\* aeDeleteTimeEvent, called by the callback
aeDeleteTimeEvent(i) ==
  /\ stage = "callback"
  /\ i \in live
  /\ Drop(i)
  /\ UNCHANGED <<now, skews, nextId, lastTime, stage, left, te, maxId, born>>

\* Mutant: the walk does not go back to the head.
ReturnStays(r) ==
  /\ stage = "callback"
  /\ r # AE_NOMORE => te \in live
  /\ IF r = AE_NOMORE
     THEN Drop(te)
     ELSE /\ when' = [when EXCEPT ![te] = aeAddMillisecondsToNow(r)]
          /\ asked' = [asked EXCEPT ![te] = now + r]
          /\ UNCHANGED live
  /\ stage' = "pass"
  /\ UNCHANGED <<now, skews, nextId, lastTime, left, te, maxId, born>>

\* The callback returns: its timer is armed again or deleted, and the walk
\* starts again at the head.  A callback that deleted its own timer has to
\* return AE_NOMORE, which then deletes nothing.
Return(r) ==
  /\ stage = "callback"
  /\ r # AE_NOMORE => te \in live
  /\ IF r = AE_NOMORE
     THEN Drop(te)
     ELSE /\ when' = [when EXCEPT ![te] = aeAddMillisecondsToNow(r)]
          /\ asked' = [asked EXCEPT ![te] = now + r]
          /\ UNCHANGED live
  /\ te' = First(live')
  /\ stage' = "pass"
  /\ UNCHANGED <<now, skews, nextId, lastTime, left, maxId, born>>

-------------------------------------------------------------------------------
Callback ==
  \/ \E d \in Delays : aeCreateTimeEvent(d)
  \/ \E i \in Ids : aeDeleteTimeEvent(i)

Loop ==
  \/ PrepareToSleep
  \/ TimedOut
  \/ StepOver
  \/ Fire
  \/ EndPass
  \/ \E r \in Delays \union {AE_NOMORE} : Return(r)

TimersNext ==
  \/ Tick
  \/ SetClockBack
  \/ FileEvents
  \/ Callback
  \/ Loop

TimersSpec == TimersInit /\ [][TimersNext]_timersVars

(* The loop does not stop, callbacks return, and time goes by.             *)
TimersFairSpec == TimersSpec /\ WF_timersVars(Loop) /\ WF_timersVars(Tick)

-------------------------------------------------------------------------------
TimersTypeOK ==
  /\ now \in Nat
  /\ skews \in 0 .. MaxSkews
  /\ live \subseteq Ids
  /\ when \in [Ids -> Moment]
  /\ asked \in [Ids -> Nat]
  /\ nextId \in 0 .. MaxIds
  /\ lastTime \in Nat
  /\ stage \in {"sleep", "wait", "pass", "callback"}
  /\ left \in Nat \union {Forever}
  /\ te \in Ids \union {Nil}
  /\ maxId \in Ids \union {Nil}
  /\ born \subseteq Ids

(* processTimeEvents never touches a timer that was freed, whatever timers *)
(* the callbacks have created and deleted: the timer it stands at is in    *)
(* the list whenever it looks at it.  No callback keeps the loop from      *)
(* ending by creating timers: a timer that was created in a pass is not    *)
(* run in it (ae.c:427-429).                                               *)
CursorInv ==
  /\ TimersTypeOK
  /\ stage = "pass" => te \in live \union {Nil}
  /\ stage = "callback" => te \notin born
  /\ \A i \in born : i > maxId /\ i < nextId

(* A timer is not run before the time it was asked for, unless the clock   *)
(* was set back and all timers were made due.                              *)
NeverEarly == [][stage = "pass" /\ stage' = "callback" => now >= asked[te]]_timersVars

(* With a clock that was never set back, the sleep ends when the first     *)
(* timer becomes due, and no timer is overslept.  The one exception: if a  *)
(* timer is overdue already, the loop may still sleep for less than a      *)
(* second, and so delay every timer that becomes due in it (ae.c:537).     *)
NotOverslept ==
  stage = "wait" /\ skews = 0 /\ live # {} =>
    /\ left # Forever
    /\ \/ \A i \in live : now + left <= asked[i]
       \/ left < Second /\ \E i \in live : asked[i] < now

(* A timer that is due is run or deleted in the end, or the clock is set   *)
(* back.                                                                   *)
DueTimersRun == \A i \in Ids : i \in live /\ Due(i) ~> ~(i \in live /\ Due(i))
===============================================================================
