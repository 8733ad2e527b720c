--------------------------- MODULE ScheduleProofs ---------------------------
(***************************************************************************)
(* Schedule for any devices, any periods, any second and any bound on how  *)
(* long the loop is busy.                                                  *)
(***************************************************************************)
EXTENDS Schedule, TLAPS

\* The assumptions one by one; the provers do not look into a named ASSUME.
LEMMA Constants ==
  /\ Periods \subseteq Nat \ {0} /\ Second \in Nat \ {0}
  /\ MaxBusy \in Nat /\ MaxTime \in Nat /\ None \notin Nat
BY ScheduleAssumption, Zenon DEF ScheduleAssumption

LEMMA PeriodsArePositive ==
  ASSUME NEW p \in Schedules, NEW d \in DOMAIN p
  PROVE  DOMAIN p \subseteq Ids /\ p[d] \in Nat /\ p[d] > 0
<1>1. PICK S \in SUBSET Ids : p \in [S -> Periods]
  BY DEF Schedules
<1>2. DOMAIN p \subseteq Ids /\ p[d] \in Periods
  BY <1>1
<1>3. p[d] \in Nat \ {0}
  BY <1>2, Constants
<1> QED BY <1>2, <1>3

-----------------------------------------------------------------------------

\* The loop is never busy for longer than its bound, and the ticker never more
\* than a second ahead.
ClockInv ==
  /\ since <= clock /\ clock <= since + MaxBusy
  /\ clock < fires /\ fires <= clock + Second /\ now <= clock

\* A tick that waits fired since the last one was taken up, and at most a second
\* after that; the next one is as near while none waits.
ChannelInv ==
  IF channel = None THEN fires <= now + MaxBusy + Second
  ELSE /\ since <= channel /\ channel <= clock
       /\ now < channel /\ channel <= now + MaxBusy + Second

\* How late a tick is taken up, and how late the loop is after it.
LateInv ==
  /\ since <= now + MaxBusy + Second
  /\ pc \in {"reload", "tick"} => since <= now + MaxBusy

\* No time of reading is of a tick to come, and that of a device still to be read
\* is of an earlier tick.
StampInv ==
  \A d \in Ids : /\ lastRead[d] <= now
                 /\ pc = "reload" \/ d \in todo => lastRead[d] < now

\* A device is due no later than it was promised; after a tick it is not due, and
\* before one it is not overdue by more than it takes until a tick is taken up.
DueInv ==
  \A d \in DOMAIN period :
    /\ nextDue[d] <= owed[d]
    /\ IF d \in todo THEN owed[d] # 0 => now < owed[d] + MaxBusy + Second
       ELSE IF pc = "reload"
            THEN nextDue[d] > 0 /\ now < nextDue[d] + MaxBusy + Second
            ELSE now < nextDue[d]

IInv ==
  /\ TypeOK /\ ClockInv /\ ChannelInv /\ LateInv /\ StampInv /\ DueInv
  /\ pc # "tick" => todo = {}

LEMMA InitHolds == Init => IInv
<1> SUFFICES ASSUME Init PROVE IInv
  OBVIOUS
<1>1. DOMAIN period \subseteq Ids
  BY DEF Init, Schedules
<1>2. TypeOK
  BY <1>1, Constants DEF Init, TypeOK
<1> QED BY <1>1, <1>2, Constants
        DEF Init, IInv, ClockInv, ChannelInv, LateInv, StampInv, DueInv

LEMMA PassHolds ==
  ASSUME IInv, Pass
  PROVE  IInv'
<1> USE Constants
<1>1. TypeOK' /\ ClockInv' /\ ChannelInv' /\ LateInv'
  <2>1. clock' = clock + 1 /\ clock \in Nat /\ since \in Nat /\ fires \in Nat /\ now \in Nat
    BY DEF IInv, TypeOK, Pass
  <2>2. /\ since' = IF pc = "idle" THEN clock' ELSE since
        /\ IF pc = "idle" THEN channel = None ELSE clock < since + MaxBusy
        /\ UNCHANGED <<pc, now, todo, plan>>
    BY DEF Pass
  <2>3. /\ clock' < fires' /\ fires' <= clock' + Second /\ fires' \in Nat
        /\ channel' \in Nat \cup {None}
    BY <2>1 DEF IInv, ClockInv, TypeOK, Pass, Fire
  <2>4. TypeOK'
    BY <2>1, <2>2, <2>3 DEF IInv, TypeOK, plan
  <2>5. ClockInv'
    BY <2>1, <2>2, <2>3 DEF IInv, ClockInv
  <2>6. LateInv'
    BY <2>1, <2>2 DEF IInv, ClockInv, ChannelInv, LateInv
  <2>7. ChannelInv'
    <3>1. CASE channel = None /\ clock' = fires
      <4>1. channel' = clock' /\ channel' # None
        BY <2>1, <3>1 DEF Pass, Fire
      <4>2. clock' <= now + MaxBusy + Second /\ now < clock'
        BY <2>1, <3>1 DEF IInv, ClockInv, ChannelInv
      <4>3. since' <= clock' /\ now' = now
        BY <2>2, <2>5 DEF ClockInv
      <4> QED BY <2>1, <4>1, <4>2, <4>3 DEF ChannelInv
    <3>2. CASE channel = None /\ clock' # fires
      <4>1. channel' = None /\ fires' = fires
        BY <3>2 DEF Pass, Fire
      <4> QED BY <2>2, <3>2, <4>1 DEF IInv, ChannelInv
    <3>3. CASE channel # None
      <4>1. channel' = channel /\ since' = since /\ channel \in Nat
        BY <2>2, <3>3 DEF Pass, Fire, IInv, TypeOK
      <4> QED BY <2>1, <2>2, <3>3, <4>1 DEF IInv, ChannelInv
    <3> QED BY <3>1, <3>2, <3>3
  <2> QED BY <2>4, <2>5, <2>6, <2>7
<1>2. UNCHANGED <<pc, now, todo, plan>>
  BY DEF Pass
<1>3. StampInv' /\ DueInv' /\ (pc' # "tick" => todo' = {})
  BY <1>2 DEF IInv, StampInv, DueInv, plan
<1> QED BY <1>1, <1>3 DEF IInv

LEMMA TakeTickHolds ==
  ASSUME IInv, TakeTick
  PROVE  IInv'
<1> USE Constants
<1>1. /\ pc = "idle" /\ channel \in Nat /\ now' = channel /\ channel' = None
      /\ since' = clock /\ pc' = "reload" /\ UNCHANGED <<clock, fires, todo, plan>>
      /\ todo = {}
  BY DEF TakeTick, IInv, TypeOK
<1>2. /\ {clock, fires, now, since} \subseteq Nat /\ channel # None
  BY DEF TakeTick, IInv, TypeOK
<1>3. TypeOK'
  BY <1>1, <1>2 DEF IInv, TypeOK, plan
<1>4. ClockInv' /\ ChannelInv' /\ LateInv'
  BY <1>1, <1>2 DEF IInv, ClockInv, ChannelInv, LateInv
<1>5. StampInv'
  BY <1>1, <1>2 DEF IInv, ChannelInv, StampInv, plan, TypeOK
<1>6. DueInv'
  <2>1. ASSUME NEW d \in DOMAIN period
        PROVE  nextDue[d] <= owed[d] /\ nextDue[d] > 0 /\ now' < nextDue[d] + MaxBusy + Second
    <3>1. now < nextDue[d] /\ nextDue[d] <= owed[d] /\ nextDue[d] \in Nat
      BY <1>1 DEF IInv, DueInv, TypeOK
    <3> QED BY <1>1, <1>2, <3>1 DEF IInv, ChannelInv
  <2> QED BY <1>1, <2>1 DEF DueInv, plan
<1> QED BY <1>1, <1>3, <1>4, <1>5, <1>6 DEF IInv

\* A flush and its end, the end of a tick and the shutdown change nothing else.
LEMMA QuietHolds ==
  ASSUME IInv, Flush \/ EndFlush \/ EndTick \/ Shutdown
  PROVE  IInv'
<1> USE Constants
<1>1. /\ UNCHANGED <<time, now, todo, plan>> /\ pc # "reload"
      /\ pc' \in {"idle", "flush", "stopped"} /\ todo = {}
      /\ \/ since' = since
         \/ since' = clock /\ channel = None
  <2>1. CASE Flush
    BY <2>1 DEF Flush, IInv
  <2>2. CASE EndFlush \/ EndTick \/ Shutdown
    BY <2>2 DEF EndFlush, EndTick, Shutdown, IInv
  <2> QED BY <2>1, <2>2
<1>2. {clock, fires, now, since} \subseteq Nat /\ channel \in Nat \cup {None}
  BY DEF IInv, TypeOK
<1>3. TypeOK'
  BY <1>1, <1>2 DEF IInv, TypeOK, plan, time
<1>4. ClockInv' /\ ChannelInv' /\ LateInv'
  BY <1>1, <1>2 DEF IInv, ClockInv, ChannelInv, LateInv, time
<1>5. StampInv' /\ DueInv'
  BY <1>1 DEF IInv, StampInv, DueInv, plan
<1> QED BY <1>1, <1>3, <1>4, <1>5 DEF IInv

LEMMA ReloadHolds ==
  ASSUME IInv, Reload
  PROVE  IInv'
<1> USE Constants
<1>1. PICK p \in Schedules, afresh \in SUBSET Ids, gone \in SUBSET Ids :
        /\ period' = p /\ nextDue' = DueAfter(p, afresh)
        /\ lastRead' = [d \in Ids |-> IF d \in gone THEN 0 ELSE lastRead[d]]
        /\ owed' = [d \in DOMAIN p |-> IF d \in DOMAIN owed THEN owed[d] ELSE 0]
  BY DEF Reload
<1>2. /\ pc = "reload" /\ pc' = "tick" /\ UNCHANGED <<time, now, since>>
      /\ todo' = {d \in DOMAIN nextDue' : nextDue'[d] <= now} /\ todo = {}
  BY DEF Reload, IInv
<1>3. /\ {clock, fires, now, since} \subseteq Nat /\ channel \in Nat \cup {None}
      /\ nextDue \in [DOMAIN period -> Nat] /\ owed \in [DOMAIN period -> Nat]
      /\ lastRead \in [Ids -> Nat]
  BY DEF IInv, TypeOK
<1>4. /\ nextDue' \in [DOMAIN p -> Nat] /\ owed' \in [DOMAIN p -> Nat]
      /\ \A d \in DOMAIN p : /\ nextDue'[d] = IF d \in DOMAIN period \ afresh THEN nextDue[d] ELSE 0
                             /\ owed'[d] = IF d \in DOMAIN period THEN owed[d] ELSE 0
  BY <1>1, <1>3 DEF DueAfter
<1>5. TypeOK'
  BY <1>1, <1>2, <1>3, <1>4 DEF TypeOK, time
<1>6. ClockInv' /\ ChannelInv' /\ LateInv'
  BY <1>2, <1>3 DEF IInv, ClockInv, ChannelInv, LateInv, time
<1>7. StampInv'
  <2>1. \A d \in Ids : lastRead[d] < now /\ lastRead[d] \in Nat
    BY <1>2, <1>3 DEF IInv, StampInv
  <2>2. \A d \in Ids : lastRead'[d] = 0 \/ lastRead'[d] = lastRead[d]
    BY <1>1
  <2>3. \A d \in Ids : lastRead'[d] < now
    BY <1>3, <2>1, <2>2
  <2> QED BY <1>2, <1>3, <1>5, <2>3 DEF StampInv, TypeOK
<1>8. DueInv'
  <2>1. ASSUME NEW d \in DOMAIN p
        PROVE  /\ nextDue'[d] <= owed'[d]
               /\ owed'[d] # 0 => now < owed'[d] + MaxBusy + Second
    <3>1. CASE d \in DOMAIN period
      <4>1. /\ nextDue[d] <= owed[d] /\ now < nextDue[d] + MaxBusy + Second
            /\ nextDue[d] \in Nat /\ owed[d] \in Nat
        BY <1>2, <1>3, <3>1 DEF IInv, DueInv
      <4> QED BY <1>3, <1>4, <3>1, <4>1
    <3>2. CASE d \notin DOMAIN period
      BY <1>4, <3>2
    <3> QED BY <3>1, <3>2
  <2>2. \A d \in DOMAIN p : d \notin todo' => now < nextDue'[d]
    BY <1>2, <1>3, <1>4
  <2> QED BY <1>1, <1>2, <2>1, <2>2 DEF DueInv
<1> QED BY <1>2, <1>5, <1>6, <1>7, <1>8 DEF IInv

LEMMA ReadHolds ==
  ASSUME IInv, NEW d \in Ids, ReadDevice(d)
  PROVE  IInv'
<1> USE Constants
<1>1. /\ pc = "tick" /\ d \in todo /\ todo' = todo \ {d}
      /\ nextDue' = [nextDue EXCEPT ![d] = now + period[d]]
      /\ owed' = [owed EXCEPT ![d] = now + period[d]]
      /\ lastRead' \in {lastRead, [lastRead EXCEPT ![d] = now]}
      /\ UNCHANGED <<time, pc, now, since, period>>
  BY DEF ReadDevice, Stamp
<1>2. /\ {clock, fires, now, since} \subseteq Nat /\ channel \in Nat \cup {None}
      /\ nextDue \in [DOMAIN period -> Nat] /\ owed \in [DOMAIN period -> Nat]
      /\ lastRead \in [Ids -> Nat] /\ todo \subseteq DOMAIN period
  BY DEF IInv, TypeOK
<1>3. d \in DOMAIN period /\ period[d] \in Nat /\ period[d] > 0
  BY <1>1, <1>2, PeriodsArePositive DEF IInv, TypeOK
<1>4. TypeOK'
  BY <1>1, <1>2, <1>3 DEF IInv, TypeOK, time
<1>5. ClockInv' /\ ChannelInv' /\ LateInv'
  BY <1>1 DEF IInv, ClockInv, ChannelInv, LateInv, time
<1>6. StampInv'
  <2>1. \A e \in Ids : lastRead'[e] = lastRead[e] \/ (e = d /\ lastRead'[e] = now)
    <3>1. CASE lastRead' = lastRead
      BY <3>1
    <3>2. CASE lastRead' = [lastRead EXCEPT ![d] = now]
      BY <1>2, <3>2
    <3> QED BY <1>1, <3>1, <3>2
  <2> QED BY <1>1, <1>2, <2>1 DEF IInv, StampInv
<1>7. DueInv'
  <2>1. nextDue'[d] = now + period[d] /\ owed'[d] = now + period[d]
    BY <1>1, <1>2, <1>3
  <2>2. \A e \in DOMAIN period \ {d} : nextDue'[e] = nextDue[e] /\ owed'[e] = owed[e]
    BY <1>1, <1>2
  <2> QED BY <1>1, <1>2, <1>3, <2>1, <2>2 DEF IInv, DueInv
<1> QED BY <1>1, <1>4, <1>5, <1>6, <1>7 DEF IInv

LEMMA IInvKept == IInv /\ [Next]_vars => IInv'
<1> SUFFICES ASSUME IInv, [Next]_vars PROVE IInv'
  OBVIOUS
<1>1. CASE Pass
  BY <1>1, PassHolds
<1>2. CASE TakeTick
  BY <1>2, TakeTickHolds
<1>3. CASE Flush \/ EndFlush \/ EndTick \/ Shutdown
  BY <1>3, QuietHolds
<1>4. CASE Reload
  BY <1>4, ReloadHolds
<1>5. ASSUME NEW d \in Ids, ReadDevice(d) PROVE IInv'
  BY <1>5, ReadHolds
<1>6. CASE UNCHANGED vars
  BY <1>6 DEF vars, IInv, TypeOK, ClockInv, ChannelInv, LateInv, StampInv, DueInv
<1> QED BY <1>1, <1>2, <1>3, <1>4, <1>5, <1>6 DEF Next

\* The inductive invariant holds throughout.
THEOREM Invariance == Spec => []IInv
BY InitHolds, IInvKept, PTL DEF Spec

\* Times, periods and the devices of a tick have their types in every state.
THEOREM TypeCorrect == Spec => []TypeOK
<1>1. IInv => TypeOK
  BY DEF IInv
<1> QED BY <1>1, Invariance, PTL

\* No device is forgotten, for any number of devices, any periods and any limit
\* on how long the loop is busy, whatever reloads do to the schedule: a device
\* is read within a second and three busy stretches of when it is owed to be.
THEOREM NobodyIsForgotten == Spec => []NeverForgotten
<1>1. ASSUME IInv, NEW d \in DOMAIN owed
      PROVE  IF owed[d] = 0 THEN pc = "tick" /\ d \in todo
             ELSE clock < owed[d] + Second + 3 * MaxBusy
  <2> USE Constants
  <2>1. /\ {clock, now, since} \subseteq Nat /\ d \in DOMAIN period
        /\ nextDue[d] \in Nat /\ owed[d] \in Nat
    BY <1>1 DEF IInv, TypeOK
  <2>2. nextDue[d] <= owed[d] /\ clock <= since + MaxBusy
    BY <1>1, <2>1 DEF IInv, DueInv, ClockInv
  <2>3. CASE d \in todo
    <3>1. pc = "tick" /\ since <= now + MaxBusy
      BY <1>1, <2>3 DEF IInv, LateInv
    <3>2. owed[d] # 0 => now < owed[d] + MaxBusy + Second
      BY <1>1, <2>1, <2>3 DEF IInv, DueInv
    <3> QED BY <2>1, <2>2, <2>3, <3>1, <3>2
  <2>4. CASE d \notin todo /\ pc = "reload"
    <3>1. /\ nextDue[d] > 0 /\ now < nextDue[d] + MaxBusy + Second
          /\ since <= now + MaxBusy
      BY <1>1, <2>1, <2>4 DEF IInv, DueInv, LateInv
    <3> QED BY <2>1, <2>2, <3>1
  <2>5. CASE d \notin todo /\ pc # "reload"
    <3>1. now < nextDue[d] /\ since <= now + MaxBusy + Second
      BY <1>1, <2>1, <2>5 DEF IInv, DueInv, LateInv
    <3> QED BY <2>1, <2>2, <3>1
  <2> QED BY <2>3, <2>4, <2>5
<1>2. IInv => NeverForgotten
  BY <1>1 DEF NeverForgotten
<1> QED BY <1>2, Invariance, PTL

\* Every new time of last reading is later than the one before, not in the
\* future, and at most two busy stretches old.
THEOREM ReadingTimesAreTrue == Spec => StampsAreTrue
<1>1. ASSUME IInv, Next, NEW d \in Ids, lastRead'[d] \notin {0, lastRead[d]}
      PROVE  /\ lastRead[d] < lastRead'[d]
             /\ clock \in lastRead'[d] .. lastRead'[d] + 2 * MaxBusy
  <2> USE Constants
  <2>1. {clock, now, since} \subseteq Nat /\ lastRead \in [Ids -> Nat]
    BY <1>1 DEF IInv, TypeOK
  <2>2. ReadDevice(d) /\ lastRead'[d] = now
    <3>1. CASE Reload
      BY <1>1, <3>1 DEF Reload
    <3>2. ASSUME NEW e \in Ids, ReadDevice(e) PROVE ReadDevice(d) /\ lastRead'[d] = now
      BY <1>1, <2>1, <3>2 DEF ReadDevice, Stamp
    <3>3. CASE Pass \/ TakeTick \/ Flush \/ EndFlush \/ Shutdown \/ EndTick
      BY <1>1, <3>3 DEF Pass, TakeTick, Flush, EndFlush, Shutdown, EndTick, plan
    <3> QED BY <1>1, <3>1, <3>2, <3>3 DEF Next
  <2>3. /\ lastRead[d] < now /\ now <= clock
        /\ since <= now + MaxBusy /\ clock <= since + MaxBusy
    BY <1>1, <2>2 DEF ReadDevice, IInv, StampInv, ClockInv, LateInv
  <2> QED BY <2>1, <2>2, <2>3
<1>2. IInv /\ [Next]_vars => [NewStampsAreTrue]_vars
  BY <1>1 DEF NewStampsAreTrue
<1> QED BY <1>2, Invariance, PTL DEF Spec, StampsAreTrue

-----------------------------------------------------------------------------
(* What Poller makes of time.                                              *)

\* The time a device still waits, as Poller has it, and how it ages there.
Wait(d) == IF now < nextDue[d] THEN nextDue[d] - now ELSE 0
WaitLeft(wait, e) == IF e < wait THEN wait - e ELSE 0

\* Each tick is some time after the one before it, and each device waits that much
\* less; a device is to be read when it waits no longer, and waits a period then.
TicksOfPoller ==
  /\ now' # now =>
       \E e \in Nat \ {0} : \A d \in DOMAIN period : Wait(d)' = WaitLeft(Wait(d), e)
  /\ Reload => todo' = {d \in DOMAIN period' : Wait(d)' = 0}
  /\ \A d \in Ids : ReadDevice(d) => Wait(d)' = period[d]

LEMMA Aging ==
  ASSUME NEW t \in Nat, NEW e \in Nat, NEW due \in Nat
  PROVE  (IF t + e < due THEN due - (t + e) ELSE 0)
           = WaitLeft(IF t < due THEN due - t ELSE 0, e)
BY DEF WaitLeft

\* Poller counts in ticks, and leaves out that they come late: in real time too,
\* the time a device waits goes down by what passed between two ticks, whatever
\* ticks were lost in between, and the devices of a tick are those whose wait is
\* over (Poller's StartTick and ReadDevice with Elapsed).
THEOREM PollerLeavesOutTime == Spec => [][TicksOfPoller]_vars
<1> USE Constants
<1>1. ASSUME IInv, Next, now' # now
      PROVE  \E e \in Nat \ {0} : \A d \in DOMAIN period : Wait(d)' = WaitLeft(Wait(d), e)
  <2>1. TakeTick
    BY <1>1 DEF Next, Pass, Flush, EndFlush, Shutdown, Reload, EndTick, ReadDevice
  <2>2. /\ {now, channel} \subseteq Nat /\ now' = channel /\ now < channel
        /\ UNCHANGED <<period, nextDue>> /\ nextDue \in [DOMAIN period -> Nat]
    BY <1>1, <2>1 DEF TakeTick, IInv, TypeOK, ChannelInv, plan
  <2>3. PICK e \in Nat \ {0} : now' = now + e
    <3>1. channel - now \in Nat \ {0} /\ channel = now + (channel - now)
      BY <2>2
    <3> QED BY <2>2, <3>1
  <2>4. ASSUME NEW d \in DOMAIN period PROVE Wait(d)' = WaitLeft(Wait(d), e)
    <3>1. Wait(d)' = IF now + e < nextDue[d] THEN nextDue[d] - (now + e) ELSE 0
      BY <2>2, <2>3 DEF Wait
    <3> QED BY <2>2, <2>3, <3>1, Aging DEF Wait
  <2> QED BY <2>4
<1>2. ASSUME IInv, Reload PROVE todo' = {d \in DOMAIN period' : Wait(d)' = 0}
  <2>1. /\ now' = now /\ now \in Nat /\ TypeOK'
        /\ todo' = {d \in DOMAIN nextDue' : nextDue'[d] <= now}
    BY <1>2, ReloadHolds DEF Reload, IInv, TypeOK
  <2>2. nextDue' \in [DOMAIN period' -> Nat]
    BY <2>1 DEF TypeOK
  <2>3. \A d \in DOMAIN period' : nextDue'[d] <= now <=> Wait(d)' = 0
    BY <2>1, <2>2 DEF Wait
  <2> QED BY <2>1, <2>2, <2>3
<1>3. ASSUME IInv, NEW d \in Ids, ReadDevice(d) PROVE Wait(d)' = period[d]
  <2>1. /\ d \in DOMAIN period /\ now \in Nat /\ now' = now
        /\ nextDue \in [DOMAIN period -> Nat] /\ period \in Schedules
        /\ nextDue' = [nextDue EXCEPT ![d] = now + period[d]]
    BY <1>3 DEF ReadDevice, IInv, TypeOK
  <2>2. period[d] \in Nat /\ period[d] > 0 /\ nextDue'[d] = now + period[d]
    BY <2>1, PeriodsArePositive
  <2> QED BY <2>1, <2>2 DEF Wait
<1>4. IInv /\ [Next]_vars => [TicksOfPoller]_vars
  BY <1>1, <1>2, <1>3 DEF TicksOfPoller
<1> QED BY <1>4, Invariance, PTL DEF Spec
=============================================================================
