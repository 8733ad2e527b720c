------------------------------ MODULE Schedule ------------------------------
(***************************************************************************)
(* When the poll loop reads its devices, in real time: the base ticker of  *)
(* main.go with its channel, the select that takes up a tick, a flush or   *)
(* the shutdown, and the nextDue of poller.go.  A tick that fires while    *)
(* the loop is busy waits in the channel, and the ones after it are lost;  *)
(* the loop takes it up late and reads with the time at which it fired.    *)
(* Only reads, flushes and reloads take time.  Poller has what a read does *)
(* and what a reload makes of a configuration.                             *)
(***************************************************************************)
EXTENDS Integers

CONSTANTS
  Ids,
  Periods,   \* poll periods, in units of the clock
  Second,    \* from one tick of the base ticker to the next
  MaxBusy,   \* bound: the longest the loop is busy, see Pass
  MaxTime,   \* bound: the last reading of the clock
  None

ASSUME ScheduleAssumption ==
  /\ Periods \subseteq Nat \ {0} /\ Second \in Nat \ {0}
  /\ MaxBusy \in Nat /\ MaxTime \in Nat /\ None \notin Nat

VARIABLES
  clock,     \* real time; 0 is Go's zero time, before any other
  fires,     \* when the base ticker fires next
  channel,   \* the tick that waits in its channel, or None
  pc,        \* where the main loop is
  now,       \* the time of the tick that is or was handled last
  since,     \* history: when the loop last waited, or took up what it does
  period,    \* scheduled device -> its period
  nextDue,   \* scheduled device -> when it is due, 0 at once
  todo,      \* devices the running tick still has to read
  lastRead,  \* the store: the time of the last good reading, 0 for none
  owed       \* history: scheduled device -> when its last reading promised the
             \* next, 0 for a device never read since it was scheduled

vars == <<clock, fires, channel, pc, now, since, period, nextDue, todo,
          lastRead, owed>>

time == <<clock, fires, channel>>
plan == <<period, nextDue, lastRead, owed>>

Schedules == UNION {[S -> Periods] : S \in SUBSET Ids}

\* The initial poll comes right after the ticker was made.
Init ==
  /\ clock = 1 /\ fires = 1 + Second /\ channel = None
  /\ pc = "tick" /\ now = 1 /\ since = 1
  /\ period \in Schedules
  /\ nextDue = [d \in DOMAIN period |-> 0]
  /\ todo = DOMAIN period
  /\ lastRead = [d \in Ids |-> 0]
  /\ owed = nextDue

-----------------------------------------------------------------------------
(* Time.                                                                   *)

\* The ticker drops a tick while an earlier one waits.
Fire ==
  /\ fires' = IF clock' = fires THEN fires + Second ELSE fires
  /\ channel' = IF clock' = fires /\ channel = None THEN clock' ELSE channel

\* While the loop waits it takes up a tick at once.  What keeps it from doing so
\* ends: a request times out after a second and a tick makes a limited number
\* of them, and between two ticks there are at most two flushes.
Pass ==
  /\ pc # "stopped" /\ clock < MaxTime
  /\ IF pc = "idle" THEN channel = None ELSE clock < since + MaxBusy
  /\ clock' = clock + 1
  /\ since' = IF pc = "idle" THEN clock' ELSE since
  /\ Fire
  /\ UNCHANGED <<pc, now, todo, plan>>

-----------------------------------------------------------------------------
(* The select of run.                                                      *)

TakeTick ==
  /\ pc = "idle" /\ channel # None
  /\ now' = channel /\ channel' = None
  /\ since' = clock /\ pc' = "reload"
  /\ UNCHANGED <<clock, fires, todo, plan>>

\* The ticker of the flush may be ready as well, and the select picks any.
Flush ==
  /\ pc = "idle" /\ pc' = "flush"
  /\ since' = IF channel = None THEN clock ELSE since
  /\ UNCHANGED <<time, now, todo, plan>>

EndFlush ==
  /\ pc = "flush" /\ pc' = "idle"
  /\ UNCHANGED <<time, now, since, todo, plan>>

Shutdown ==
  /\ pc = "idle" /\ pc' = "stopped"
  /\ UNCHANGED <<time, now, since, todo, plan>>

-----------------------------------------------------------------------------
(* maybeReload and tick.                                                   *)

\* Fault: a reload starts every period anew.
PeriodsStartAnew(p, afresh) == [d \in DOMAIN p |-> now + p[d]]

\* Fault: the devices that left stay on the schedule.
LeaversStay(p, afresh) ==
  [d \in DOMAIN p \cup DOMAIN nextDue |->
     IF d \in DOMAIN nextDue \ afresh THEN nextDue[d] ELSE 0]

\* A device that stays keeps its nextDue, whatever its new period.
DueAfter(p, afresh) ==
  [d \in DOMAIN p |-> IF d \in DOMAIN nextDue \ afresh THEN nextDue[d] ELSE 0]

\* maybeReload, whether or not the file has changed.  An id that is given twice
\* may be scheduled afresh; of a device that is no longer scheduled, the store
\* keeps a record only while the configuration names it.
Reload ==
  /\ pc = "reload" /\ pc' = "tick"
  /\ \E p \in Schedules, afresh \in SUBSET Ids, gone \in SUBSET Ids :
       /\ gone \cap DOMAIN p = {}
       /\ period' = p /\ nextDue' = DueAfter(p, afresh)
       /\ lastRead' = [d \in Ids |-> IF d \in gone THEN 0 ELSE lastRead[d]]
       /\ owed' = [d \in DOMAIN p |-> IF d \in DOMAIN owed THEN owed[d] ELSE 0]
  /\ todo' = {d \in DOMAIN nextDue' : nextDue'[d] <= now}
  /\ UNCHANGED <<time, now, since>>

\* Fault: a reading is stamped with the time it was due.
WhenDue(d) == nextDue[d]

\* RecordSuccess is given the time of the tick.
Stamp(d) == now

\* A read ends, good or bad; its nextDue was set before it began.
ReadDevice(d) ==
  /\ pc = "tick" /\ d \in todo
  /\ todo' = todo \ {d}
  /\ nextDue' = [nextDue EXCEPT ![d] = now + period[d]]
  /\ owed' = [owed EXCEPT ![d] = now + period[d]]
  /\ lastRead' \in {lastRead, [lastRead EXCEPT ![d] = Stamp(d)]}
  /\ UNCHANGED <<time, pc, now, since, period>>

EndTick ==
  /\ pc = "tick" /\ todo = {} /\ pc' = "idle"
  /\ UNCHANGED <<time, now, since, todo, plan>>

Next ==
  \/ Pass \/ TakeTick \/ Flush \/ EndFlush \/ Shutdown \/ Reload \/ EndTick
  \/ \E d \in Ids : ReadDevice(d)

Spec == Init /\ [][Next]_vars

-----------------------------------------------------------------------------

\* Types of the variables: each scheduled device has a period, a time it is due
\* and a promise, and only scheduled devices are read.
TypeOK ==
  /\ {clock, fires, now, since} \subseteq Nat /\ channel \in Nat \cup {None}
  /\ pc \in {"idle", "reload", "tick", "flush", "stopped"}
  /\ period \in Schedules
  /\ nextDue \in [DOMAIN period -> Nat] /\ owed \in [DOMAIN period -> Nat]
  /\ todo \subseteq DOMAIN period /\ lastRead \in [Ids -> Nat]

\* However long reads take and however often the configuration changes, no device
\* is forgotten: one that was read is read again within a second and three busy
\* stretches of the time its last reading promised (the tick before ended late,
\* this one was taken up late, others are read first), and a new one is read by
\* the tick after the reload (tick, reconcile and the ticker's channel).
NeverForgotten ==
  \A d \in DOMAIN owed :
    IF owed[d] = 0 THEN pc = "tick" /\ d \in todo
    ELSE clock < owed[d] + Second + 3 * MaxBusy

NewStampsAreTrue ==
  \A d \in Ids : lastRead'[d] \notin {0, lastRead[d]} =>
    lastRead[d] < lastRead'[d] /\ clock \in lastRead'[d] .. lastRead'[d] + 2 * MaxBusy

\* A device's new time of last reading is later than the one before, never in the
\* future, and at most two busy stretches old: a tick that waited in the channel
\* fired after the one before it was taken up (tick, RecordSuccess).
StampsAreTrue == [][NewStampsAreTrue]_vars
=============================================================================
