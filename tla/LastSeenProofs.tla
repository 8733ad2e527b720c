--------------------------- MODULE LastSeenProofs ---------------------------
(***************************************************************************)
(* What madbus keeps of the last readings across restarts, crashes and     *)
(* power failures: for every set of devices, every resolution of the saved *)
(* times, any faults and however long it runs.                             *)
(***************************************************************************)
EXTENDS LastSeen, TLAPS

-----------------------------------------------------------------------------
(* Times as RFC3339 keeps them.                                            *)

\* The resolution and the bound are positive.
LEMMA Constants ==
  Second \in Nat \ {0} /\ MaxTime \in Nat /\ Second <= MaxTime
BY LastSeenAssumption

\* Dropping what is below a second gives an earlier time, which is not zero
\* once a second has passed, and which dropping leaves alone.
LEMMA TruncatedFacts ==
  ASSUME NEW t \in Nat
  PROVE  /\ Truncated(t) \in Nat /\ Truncated(t) <= t
         /\ t >= Second => Truncated(t) > 0
         /\ Truncated(Truncated(t)) = Truncated(t)
<1>1. Second \in Nat \ {0}
  BY Constants
<1>2. t % Second \in 0..Second - 1 /\ t % Second <= t
  BY <1>1
<1>3. Truncated(t) \in Nat /\ Truncated(t) <= t /\ (t >= Second => Truncated(t) > 0)
  BY <1>1, <1>2 DEF Truncated
<1>4. Truncated(t) % Second = 0
  <2>1. t = Second * (t \div Second) + (t % Second) /\ t \div Second \in Nat
    BY <1>1
  <2>2. Truncated(t) = Second * (t \div Second) + 0
    BY <1>1, <1>2, <2>1 DEF Truncated
  <2> HIDE DEF Truncated
  <2>3. ASSUME NEW m \in Nat, NEW q \in Nat, m = Second * q + 0 PROVE m % Second = 0
    BY <1>1, <2>3
  <2> QED BY <1>3, <2>1, <2>2, <2>3
<1>5. Truncated(Truncated(t)) = Truncated(t)
  <2>1. Truncated(Truncated(t)) = Truncated(t) - (Truncated(t) % Second)
    BY DEF Truncated
  <2> HIDE DEF Truncated
  <2> QED BY <1>3, <1>4, <2>1
<1> QED BY <1>3, <1>5

-----------------------------------------------------------------------------
(* The inductive invariant.                                                *)

\* What Save wrote: times after zero, whole seconds.
Written(times) ==
  /\ times \in SavedTimes
  /\ \A id \in DOMAIN times : times[id] > 0 /\ Truncated(times[id]) = times[id]

\* A time the store holds survives being saved.
Lasting(t) == t # 0 => Truncated(t) > 0

MemoryTyped ==
  /\ clock \in Second..MaxTime
  /\ pc \in Running \cup Down
  /\ registered \subseteq Ids
  /\ lastRead \in Times /\ truth \in Times /\ persisted \in Times
  /\ \A id \in Ids : Lasting(lastRead[id])
  /\ PartialTimes(lastWritten)

\* Files are written, synced and only then renamed.
FilesTyped ==
  /\ Saving <=> temp # None
  /\ temp # None =>
       temp \in [times : SavedTimes, synced : BOOLEAN] /\ Written(temp.times)
  /\ disk # Missing => Written(disk)
  /\ stable # Missing => Written(stable)
  /\ synced = TRUE

TypeInv == MemoryTyped /\ FilesTyped

\* Every file holds times of readings that were made.
Past(times) == \A id \in DOMAIN times : times[id] <= truth[id]

HeldReadings == NeverInvented /\ \A id \in Ids : truth[id] <= clock

SavedReadings ==
  /\ temp # None => Past(temp.times)
  /\ disk # Missing => Past(disk)
  /\ stable # Missing => Past(stable)

\* The file holds what is promised of a device.
PromisesKept ==
  \A id \in Ids : persisted[id] # 0 =>
    /\ id \in registered
    /\ disk # Missing /\ id \in DOMAIN disk /\ persisted[id] <= disk[id]

\* While Save runs nothing is read, so it saves what the store holds.
SavesWhatIsHeld == Saving => temp.times = Formatted(LastOnline)

\* The loop's memory of its last flush is what the file holds.
FlushOnDisk ==
  pc \in Running => \A id \in DOMAIN lastWritten :
    disk # Missing /\ id \in DOMAIN disk /\ disk[id] = Truncated(lastWritten[id])

IInv ==
  /\ TypeInv /\ HeldReadings /\ SavedReadings /\ PromisesKept /\ SavesWhatIsHeld
  /\ FlushOnDisk /\ RestartRemembers /\ ShutdownSavesAll

-----------------------------------------------------------------------------
(* What a save writes and what a start reads.                              *)

\* Times by device are times the file may hold.
LEMMA TimesAreSaved ==
  ASSUME NEW S \in SUBSET Ids, NEW f \in [S -> 0..MaxTime]
  PROVE  f \in SavedTimes
BY DEF SavedTimes

LEMMA SavedAreTimes ==
  ASSUME NEW f \in SavedTimes
  PROVE  DOMAIN f \subseteq Ids /\ f \in [DOMAIN f -> 0..MaxTime]
BY DEF SavedTimes

\* Save writes the time of each device that was read, as RFC3339 keeps it.
LEMMA FormattedFacts ==
  ASSUME TypeInv
  PROVE  /\ DOMAIN LastOnline = {id \in registered : lastRead[id] # 0}
         /\ DOMAIN Formatted(LastOnline) = DOMAIN LastOnline
         /\ \A id \in DOMAIN LastOnline :
              /\ LastOnline[id] = lastRead[id]
              /\ Formatted(LastOnline)[id] = Truncated(lastRead[id])
              /\ Formatted(LastOnline)[id] <= lastRead[id]
         /\ Formatted(LastOnline) \in SavedTimes /\ Written(Formatted(LastOnline))
<1>1. /\ registered \subseteq Ids /\ MaxTime \in Nat
      /\ \A id \in Ids : lastRead[id] \in 0..MaxTime /\ Lasting(lastRead[id])
  BY Constants DEF TypeInv, MemoryTyped, Times
<1>2. /\ DOMAIN LastOnline = {id \in registered : lastRead[id] # 0}
      /\ \A id \in DOMAIN LastOnline : LastOnline[id] = lastRead[id]
  BY DEF LastOnline
<1>3. /\ DOMAIN Formatted(LastOnline) = DOMAIN LastOnline
      /\ \A id \in DOMAIN LastOnline :
           Formatted(LastOnline)[id] = Truncated(lastRead[id])
  BY <1>2 DEF Formatted
<1>4. ASSUME NEW id \in DOMAIN LastOnline
      PROVE  LET t == Truncated(lastRead[id])
             IN t \in 0..MaxTime /\ t <= lastRead[id] /\ t > 0 /\ Truncated(t) = t
  <2>1. lastRead[id] \in 0..MaxTime /\ Lasting(lastRead[id]) /\ lastRead[id] # 0
    BY <1>1, <1>2
  <2>2. lastRead[id] \in Nat /\ lastRead[id] <= MaxTime
    BY <2>1, Constants
  <2> QED BY <2>1, <2>2, Constants, TruncatedFacts DEF Lasting
<1>5. Formatted(LastOnline) \in [DOMAIN LastOnline -> 0..MaxTime]
  BY <1>3, <1>4 DEF Formatted
<1>6. Formatted(LastOnline) \in SavedTimes
  BY <1>1, <1>2, <1>5, TimesAreSaved
<1> QED BY <1>2, <1>3, <1>4, <1>6 DEF Written

\* What a new process knows of a device is what the file holds of it.
LEMMA SeededFacts ==
  ASSUME TypeInv
  PROVE  LET seeded == Seeded(Loaded)
         IN  /\ seeded \in Times
             /\ \A id \in Ids :
                  /\ Lasting(seeded[id])
                  /\ id \in registered /\ disk # Missing /\ id \in DOMAIN disk =>
                       seeded[id] = disk[id] /\ seeded[id] # 0
                  /\ seeded[id] # 0 =>
                       /\ id \in registered
                       /\ disk # Missing /\ id \in DOMAIN disk
                       /\ seeded[id] = disk[id] /\ Truncated(disk[id]) = disk[id]
<1>1. disk # Missing => /\ disk \notin {Missing, Garbage} /\ Written(disk)
                        /\ DOMAIN disk \subseteq Ids
                        /\ \A id \in DOMAIN disk : disk[id] \in 0..MaxTime
  BY NamesAssumption, SavedAreTimes DEF TypeInv, FilesTyped, Written
<1>2. DOMAIN Loaded = IF disk = Missing THEN {} ELSE DOMAIN disk
  BY <1>1 DEF Loaded
<1>3. disk # Missing => Loaded = disk
  BY <1>1 DEF Loaded
<1>4. \A id \in Ids : Seeded(Loaded)[id] =
        IF id \in registered /\ disk # Missing /\ id \in DOMAIN disk
          THEN disk[id] ELSE 0
  BY <1>2, <1>3 DEF Seeded
<1>5. 0 \in 0..MaxTime
  BY Constants
<1>6. Seeded(Loaded) \in Times
  BY <1>1, <1>4, <1>5 DEF Seeded, Times
<1> QED BY <1>1, <1>4, <1>6 DEF Written, Lasting

-----------------------------------------------------------------------------
(* The steps, one part of the invariant after the other.                   *)

\* Times by device, all of them after zero.
LEMMA SavedArePartial ==
  ASSUME NEW f \in SavedTimes, Written(f)
  PROVE  PartialTimes(f) /\ f # Missing /\ f # Garbage
<1>1. DOMAIN f \subseteq Ids /\ \A id \in DOMAIN f : f[id] \in 0..MaxTime
  BY SavedAreTimes
<1>2. \A id \in DOMAIN f : f[id] \in 1..MaxTime
  BY <1>1, Constants DEF Written
<1> QED BY <1>1, <1>2, NamesAssumption DEF PartialTimes

\* The type invariant implies what the runs check.
LEMMA TypesFollow == TypeInv => FileTypeOK
<1> SUFFICES ASSUME TypeInv PROVE FileTypeOK
  OBVIOUS
<1>1. clock \in 0..MaxTime
  BY Constants DEF TypeInv, MemoryTyped
<1>2. disk = Missing \/ (disk # Garbage /\ PartialTimes(disk))
  BY SavedArePartial DEF TypeInv, FilesTyped, Written
<1> QED BY <1>1, <1>2 DEF TypeInv, MemoryTyped, FilesTyped, FileTypeOK

\* Times that are held, as a partial function of the devices.
LEMMA HeldIsPartial ==
  ASSUME NEW times \in Times, NEW S \in SUBSET Ids
  PROVE  PartialTimes([id \in {i \in S : times[i] # 0} |-> times[id]])
<1>1. \A id \in S : times[id] # 0 => times[id] \in 1..MaxTime
  BY Constants DEF Times
<1> QED BY <1>1 DEF PartialTimes

\* Every step keeps the types of what the process holds.
LEMMA MemoryStep ==
  ASSUME TypeInv, [Next]_vars PROVE MemoryTyped'
<1> USE Constants DEF TypeInv, MemoryTyped, Times
<1>1. ASSUME NEW id \in Ids, Read(id) PROVE MemoryTyped'
  <2>1. clock \in 0..MaxTime /\ Lasting(clock)
    BY TruncatedFacts DEF Lasting
  <2> QED BY <1>1, <2>1 DEF Read
<1>2. ASSUME NEW id \in Ids, Add(id) \/ Drop(id) PROVE MemoryTyped'
  <2>1. Lasting(0) /\ 0 \in 0..MaxTime
    BY DEF Lasting
  <2> QED BY <1>2, <2>1 DEF Add, Drop, memory, history
<1>3. CASE FlushInterval \/ FlushAtShutdown
  BY <1>3 DEF FlushInterval, FlushAtShutdown, StartSave, memory, history, Running, Down
<1>4. CASE Rename
  <2>1. PartialTimes(LastOnline)
    BY HeldIsPartial DEF LastOnline
  <2>2. \A id \in DOMAIN temp.times : temp.times[id] \in 0..MaxTime
    BY <1>4, SavedAreTimes DEF Rename, ReadyToRename, FilesTyped
  <2> QED BY <1>4, <2>1, <2>2 DEF Rename, AfterSave, Running, Down
<1>5. CASE Sync \/ SaveFails \/ Settle \/ Crash
  BY <1>5 DEF Sync, SaveFails, AfterSave, Settle, Crash, memory, history, Running, Down
<1>6. CASE PowerLoss
  <2>1. \A id \in Ids : Settled(id) \in 0..MaxTime
    BY SavedAreTimes DEF Settled, FilesTyped, Written
  <2> QED BY <1>6, <2>1 DEF PowerLoss, memory, Running, Down
<1>7. CASE Boot
  <2>1. lastRead' \in Times /\ \A id \in Ids : Lasting(lastRead'[id])
    BY <1>7, SeededFacts DEF Boot
  <2>2. PartialTimes(lastWritten')
    BY <1>7, <2>1, HeldIsPartial DEF Boot
  <2> QED BY <1>7, <2>1, <2>2 DEF Boot, history, Running
<1>8. CASE Tick \/ UNCHANGED vars
  BY <1>8 DEF Tick, vars, memory, history
<1> QED BY <1>1, <1>2, <1>3, <1>4, <1>5, <1>6, <1>7, <1>8 DEF Next, Flush

\* Every step leaves files that can be parsed: the one that replaces
\* last_seen.json was synced before.
LEMMA FilesStep ==
  ASSUME TypeInv, [Next]_vars PROVE FilesTyped'
<1> USE DEF TypeInv, FilesTyped, Saving, Running, Down
<1>1. CASE \E id \in Ids : Read(id) \/ Add(id) \/ Drop(id)
  BY <1>1 DEF Read, Add, Drop, medium
<1>2. CASE FlushInterval \/ FlushAtShutdown
  <2>1. CASE \E where \in {"saving", "saving at shutdown"} : StartSave(where)
    <3>1. PICK where \in {"saving", "saving at shutdown"} : StartSave(where)
      BY <2>1
    <3>2. temp' = [times |-> Formatted(LastOnline), synced |-> FALSE]
      BY <3>1 DEF StartSave
    <3>3. /\ temp' \in [times : SavedTimes, synced : BOOLEAN]
          /\ Written(temp'.times)
      BY <3>2, FormattedFacts
    <3>4. temp' # None
      BY <3>3, NamesAssumption
    <3> QED BY <3>1, <3>3, <3>4 DEF StartSave, medium
  <2>2. CASE pc = "up" /\ pc' = "stopped" /\ UNCHANGED <<temp, medium>>
    BY <2>2 DEF medium
  <2> QED BY <1>2, <2>1, <2>2 DEF FlushInterval, FlushAtShutdown
<1>3. CASE Sync
  <2>1. /\ temp # None /\ temp' = [temp EXCEPT !.synced = TRUE]
        /\ UNCHANGED <<pc, medium>>
    BY <1>3 DEF Sync
  <2>2. temp' \in [times : SavedTimes, synced : BOOLEAN] /\ temp'.times = temp.times
    BY <2>1
  <2>3. temp' # None
    BY <2>2, NamesAssumption
  <2> QED BY <2>1, <2>2, <2>3 DEF medium
<1>4. CASE Rename
  BY <1>4 DEF Rename, ReadyToRename, AfterSave
<1>5. CASE SaveFails \/ Settle \/ Crash
  BY <1>5 DEF SaveFails, AfterSave, Settle, Crash, medium
<1>6. CASE PowerLoss
  BY <1>6 DEF PowerLoss
<1>7. CASE Boot \/ Tick \/ UNCHANGED vars
  BY <1>7 DEF Boot, Tick, vars, medium
<1> QED BY <1>1, <1>2, <1>3, <1>4, <1>5, <1>6, <1>7 DEF Next, Flush

\* The store holds times at which the device was read.
LEMMA HeldReadingsStep ==
  ASSUME TypeInv, HeldReadings, SavedReadings, [Next]_vars PROVE HeldReadings'
<1> USE Constants DEF TypeInv, MemoryTyped, Times, HeldReadings, NeverInvented
<1>1. ASSUME NEW id \in Ids, Read(id) PROVE HeldReadings'
  BY <1>1 DEF Read
<1>2. ASSUME NEW id \in Ids, Add(id) PROVE HeldReadings'
  BY <1>2 DEF Add, history
<1>3. ASSUME NEW id \in Ids, Drop(id) PROVE HeldReadings'
  BY <1>3 DEF Drop
<1>4. CASE UNCHANGED <<clock, lastRead, truth>>
  BY <1>4
<1>5. CASE Boot
  <2>1. \A id \in Ids : Seeded(Loaded)[id] # 0 => Seeded(Loaded)[id] <= truth[id]
    BY SeededFacts DEF SavedReadings, Past
  <2>2. \A id \in Ids : Seeded(Loaded)[id] <= truth[id]
    BY <2>1
  <2> QED BY <1>5, <2>2 DEF Boot, history
<1>6. CASE Tick
  BY <1>6 DEF Tick, memory, history
<1>7. CASE \/ FlushInterval \/ FlushAtShutdown \/ Sync \/ Rename \/ SaveFails
           \/ Settle \/ Crash \/ PowerLoss \/ UNCHANGED vars
  BY <1>4, <1>7 DEF FlushInterval, FlushAtShutdown, StartSave, Sync, Rename, SaveFails,
                    Settle, Crash, PowerLoss, vars, memory, history
<1> QED BY <1>1, <1>2, <1>3, <1>5, <1>6, <1>7 DEF Next, Flush

\* A file that holds past times goes on doing so.
LEMMA PastStaysPast ==
  ASSUME TypeInv, HeldReadings, NEW f \in SavedTimes, Past(f), [Next]_vars
  PROVE  \A id \in DOMAIN f : f[id] <= truth'[id]
<1> USE Constants DEF TypeInv, MemoryTyped, Times
<1>1. \A id \in DOMAIN f : id \in Ids /\ f[id] \in Nat /\ f[id] <= truth[id]
  BY SavedAreTimes DEF Past
<1>2. \A id \in Ids : truth'[id] = truth[id] \/ truth'[id] = clock
  BY DEF Next, vars, Read, Add, Drop, Flush, FlushInterval, FlushAtShutdown, StartSave,
         Sync, Rename, SaveFails, Settle, Crash, PowerLoss, Boot, Tick, history
<1>3. \A id \in Ids : truth[id] \in Nat /\ truth[id] <= truth'[id] /\ truth'[id] \in Nat
  BY <1>2 DEF HeldReadings
<1> QED BY <1>1, <1>3

\* Every file holds times at which the device was read.
LEMMA SavedReadingsStep ==
  ASSUME TypeInv, HeldReadings, SavedReadings, SavesWhatIsHeld, [Next]_vars
  PROVE  SavedReadings'
<1>1. Past(Formatted(LastOnline))
  <2>1. ASSUME NEW id \in DOMAIN Formatted(LastOnline)
        PROVE  Formatted(LastOnline)[id] <= truth[id]
    <3>1. /\ id \in Ids /\ Formatted(LastOnline)[id] = Truncated(lastRead[id])
          /\ lastRead[id] \in Nat /\ truth[id] \in Nat /\ lastRead[id] <= truth[id]
      BY FormattedFacts, Constants
         DEF TypeInv, MemoryTyped, Times, HeldReadings, NeverInvented
    <3> QED BY <3>1, TruncatedFacts
  <2> QED BY <2>1 DEF Past
<1> DEFINE Good(f) == f \in SavedTimes /\ Past(f)
<1>2. /\ Good(Formatted(LastOnline))
      /\ temp # None => Good(temp.times)
      /\ disk # Missing => Good(disk)
      /\ stable # Missing => Good(stable)
  BY <1>1, FormattedFacts DEF SavedReadings, TypeInv, FilesTyped, Written
<1>3. /\ temp' # None => Good(temp'.times)
      /\ disk' # Missing => Good(disk')
      /\ stable' # Missing => Good(stable')
  <2> HIDE DEF Good
  <2>1. CASE \E id \in Ids : Read(id) \/ Add(id) \/ Drop(id)
    BY <1>2, <2>1 DEF Read, Add, Drop, medium
  <2>2. CASE FlushInterval \/ FlushAtShutdown
    <3>1. \/ temp' = [times |-> Formatted(LastOnline), synced |-> FALSE]
          \/ temp' = temp
      BY <2>2 DEF FlushInterval, FlushAtShutdown, StartSave
    <3>2. disk' = disk /\ stable' = stable
      BY <2>2 DEF FlushInterval, FlushAtShutdown, StartSave, medium
    <3>3. temp' # None => Good(temp'.times)
      BY <1>2, <3>1
    <3> QED BY <1>2, <3>2, <3>3
  <2>3. CASE Sync
    <3>1. temp # None /\ temp'.times = temp.times
      BY <2>3 DEF Sync, TypeInv, FilesTyped
    <3> QED BY <1>2, <2>3, <3>1 DEF Sync, medium
  <2>4. CASE Rename
    BY <1>2, <2>4 DEF Rename, ReadyToRename, TypeInv, FilesTyped
  <2>5. CASE SaveFails \/ Settle \/ Crash \/ PowerLoss
    BY <1>2, <2>5 DEF SaveFails, Settle, Crash, PowerLoss, medium, TypeInv, FilesTyped
  <2>6. CASE Boot \/ Tick \/ UNCHANGED vars
    BY <1>2, <2>6 DEF Boot, Tick, vars, medium
  <2> QED BY <2>1, <2>2, <2>3, <2>4, <2>5, <2>6 DEF Next, Flush
<1>4. ASSUME NEW f, Good(f) PROVE \A id \in DOMAIN f : f[id] <= truth'[id]
  BY <1>4, PastStaysPast
<1> QED BY <1>3, <1>4 DEF SavedReadings, Past

\* What is promised of a device stays in the file until the device goes or a
\* power failure takes the promise back.
LEMMA PromisesStep ==
  ASSUME TypeInv, PromisesKept, SavesWhatIsHeld, RestartRemembers, [Next]_vars
  PROVE  PromisesKept'
<1> USE Constants DEF TypeInv, MemoryTyped, FilesTyped, Times, PromisesKept
<1>1. CASE \E id \in Ids : Read(id) \/ Add(id) \/ Drop(id)
  BY <1>1 DEF Read, Add, Drop, medium, history
<1>2. CASE FlushInterval \/ FlushAtShutdown \/ Sync \/ SaveFails \/ Crash \/ Boot
  BY <1>2 DEF FlushInterval, FlushAtShutdown, StartSave, Sync, SaveFails, Crash, Boot,
              medium, history
<1>3. CASE Rename
  <2>1. /\ temp # None /\ temp.times = Formatted(LastOnline)
        /\ disk' = temp.times /\ disk' # Missing /\ registered' = registered
        /\ \A id \in Ids : persisted'[id] = IF id \in DOMAIN temp.times
                                              THEN temp.times[id] ELSE persisted[id]
    BY <1>3, NamesAssumption DEF Rename, ReadyToRename, SavesWhatIsHeld, Written
  <2>2. DOMAIN temp.times = {id \in registered : lastRead[id] # 0}
    BY <2>1, FormattedFacts
  <2>3. ASSUME NEW id \in Ids, persisted'[id] # 0
        PROVE  id \in registered /\ id \in DOMAIN disk' /\ persisted'[id] <= disk'[id]
    <3>1. CASE id \in DOMAIN temp.times
      <4>1. temp.times[id] \in Nat
        BY <3>1, SavedAreTimes, <2>1
      <4> QED BY <2>1, <2>2, <3>1, <4>1
    <3>2. CASE id \notin DOMAIN temp.times
      <4>1. id \in registered /\ persisted[id] # 0 /\ lastRead[id] = 0
        BY <2>1, <2>2, <2>3, <3>2
      <4>2. pc \in Running
        BY <1>3 DEF Rename, ReadyToRename, Saving, Running
      <4>3. lastRead[id] >= persisted[id] /\ persisted[id] \in 0..MaxTime
        BY <4>1, <4>2 DEF RestartRemembers
      <4> QED BY <4>1, <4>3
    <3> QED BY <3>1, <3>2
  <2> QED BY <2>1, <2>3
<1>4. CASE Settle \/ Tick \/ UNCHANGED vars
  BY <1>4 DEF Settle, Tick, vars, memory, medium, history
<1>5. CASE PowerLoss
  <2>1. /\ disk' \in {stable, disk} /\ registered' = registered
        /\ \A id \in Ids : persisted'[id] = IF Settled(id) < persisted[id]
                                              THEN Settled(id) ELSE persisted[id]
    BY <1>5 DEF PowerLoss
  <2>2. ASSUME NEW id \in Ids, persisted'[id] # 0
        PROVE  /\ id \in registered /\ disk' # Missing /\ id \in DOMAIN disk'
               /\ persisted'[id] <= disk'[id]
    <3>1. Settled(id) \in Nat /\ persisted[id] \in Nat
      BY SavedAreTimes DEF Settled, Written
    <3>2. /\ Settled(id) # 0 /\ persisted[id] # 0
          /\ persisted'[id] <= Settled(id) /\ persisted'[id] <= persisted[id]
      BY <2>1, <2>2, <3>1
    <3>3. stable # Missing /\ id \in DOMAIN stable /\ stable[id] = Settled(id)
      BY <3>2 DEF Settled
    <3>4. /\ id \in registered /\ disk # Missing /\ id \in DOMAIN disk
          /\ persisted[id] <= disk[id] /\ disk[id] \in Nat
      BY <3>2, SavedAreTimes DEF Written
    <3>5. persisted'[id] \in Nat
      BY <2>1, <3>1
    <3> QED BY <2>1, <3>1, <3>2, <3>3, <3>4, <3>5
  <2> QED BY <2>1, <2>2
<1> QED BY <1>1, <1>2, <1>3, <1>4, <1>5 DEF Next, Flush

\* Nothing is read, added or dropped while Save runs.
LEMMA SavesWhatIsHeldStep ==
  ASSUME TypeInv, SavesWhatIsHeld, [Next]_vars PROVE SavesWhatIsHeld'
<1>1. ASSUME UNCHANGED <<registered, lastRead>>
      PROVE  Formatted(LastOnline)' = Formatted(LastOnline)
  BY <1>1 DEF Formatted, LastOnline
<1> USE DEF TypeInv, FilesTyped, SavesWhatIsHeld, Saving, Down
<1>2. CASE \E id \in Ids : Read(id) \/ Add(id) \/ Drop(id)
  BY <1>2 DEF Read, Add, Drop
<1>3. CASE FlushInterval \/ FlushAtShutdown
  <2>1. CASE \E where \in {"saving", "saving at shutdown"} : StartSave(where)
    <3>1. /\ temp' = [times |-> Formatted(LastOnline), synced |-> FALSE]
          /\ UNCHANGED <<registered, lastRead>>
      BY <2>1 DEF StartSave, memory
    <3> QED BY <1>1, <3>1
  <2>2. CASE pc' = "stopped"
    BY <2>2
  <2> QED BY <1>3, <2>1, <2>2 DEF FlushInterval, FlushAtShutdown
<1>4. CASE Sync
  <2>1. temp'.times = temp.times /\ Saving
    BY <1>4 DEF Sync
  <2> QED BY <1>4, <1>1, <2>1 DEF Sync, memory
<1>5. CASE Rename \/ SaveFails \/ Crash \/ PowerLoss \/ Boot
  BY <1>5 DEF Rename, ReadyToRename, SaveFails, AfterSave, Crash, PowerLoss, Boot
<1>6. CASE Settle \/ Tick \/ UNCHANGED vars
  BY <1>6, <1>1 DEF Settle, Tick, vars, memory
<1> QED BY <1>2, <1>3, <1>4, <1>5, <1>6 DEF Next, Flush

\* A completed flush and a start leave lastWritten and the file in accord.
LEMMA FlushOnDiskStep ==
  ASSUME TypeInv, FlushOnDisk, SavesWhatIsHeld, [Next]_vars PROVE FlushOnDisk'
<1> USE DEF FlushOnDisk
<1>1. CASE \E id \in Ids : Read(id) \/ Add(id) \/ Drop(id)
  BY <1>1 DEF Read, Add, Drop, medium
<1>2. CASE FlushInterval \/ FlushAtShutdown \/ Sync \/ SaveFails
  BY <1>2 DEF FlushInterval, FlushAtShutdown, StartSave, Sync, SaveFails, Saving,
              AfterSave, Running, memory, medium
<1>3. CASE Rename
  <2>1. disk' = Formatted(LastOnline) /\ lastWritten' = LastOnline
    BY <1>3 DEF Rename, ReadyToRename, SavesWhatIsHeld
  <2>2. disk' # Missing
    BY <2>1, FormattedFacts, NamesAssumption
  <2> QED BY <2>1, <2>2, FormattedFacts
<1>4. CASE Boot
  <2>1. /\ lastRead' = Seeded(Loaded) /\ disk' = disk
        /\ lastWritten' = [id \in {i \in registered : lastRead'[i] # 0} |-> lastRead'[id]]
    BY <1>4 DEF Boot, medium
  <2>2. registered \subseteq Ids
    BY DEF TypeInv, MemoryTyped
  <2>3. ASSUME NEW id \in DOMAIN lastWritten'
        PROVE  /\ disk' # Missing /\ id \in DOMAIN disk'
               /\ disk'[id] = Truncated(lastWritten'[id])
    <3>1. id \in Ids /\ lastWritten'[id] = Seeded(Loaded)[id] /\ Seeded(Loaded)[id] # 0
      BY <2>1, <2>2
    <3> QED BY <2>1, <3>1, SeededFacts
  <2> QED BY <2>3
<1>5. CASE Crash \/ PowerLoss
  BY <1>5 DEF Crash, PowerLoss, Running
<1>6. CASE Settle \/ Tick \/ UNCHANGED vars
  BY <1>6 DEF Settle, Tick, vars, memory, medium
<1> QED BY <1>1, <1>2, <1>3, <1>4, <1>5, <1>6 DEF Next, Flush

\* A running process knows what was promised, and a start learns it again.
LEMMA RestartRemembersStep ==
  ASSUME TypeInv, HeldReadings, PromisesKept, SavesWhatIsHeld, RestartRemembers,
         [Next]_vars
  PROVE  RestartRemembers'
<1> USE Constants DEF TypeInv, MemoryTyped, Times, RestartRemembers
<1>1. ASSUME NEW id \in Ids, Read(id) PROVE RestartRemembers'
  <2>1. clock >= lastRead[id]
    BY DEF HeldReadings, NeverInvented
  <2>2. pc \in Running /\ lastRead[id] >= persisted[id]
    BY <1>1 DEF Read, Running
  <2> QED BY <1>1, <2>1, <2>2 DEF Read
<1>2. ASSUME NEW id \in Ids, Add(id) PROVE RestartRemembers'
  <2>1. persisted[id] = 0
    BY <1>2 DEF Add, PromisesKept
  <2> QED BY <1>2, <2>1 DEF Add, history
<1>3. ASSUME NEW id \in Ids, Drop(id) PROVE RestartRemembers'
  BY <1>3 DEF Drop
<1>4. CASE FlushInterval \/ FlushAtShutdown \/ Sync \/ SaveFails
  BY <1>4 DEF FlushInterval, FlushAtShutdown, StartSave, Sync, SaveFails, Saving,
              AfterSave, Running, memory, history
<1>5. CASE Rename
  <2>1. /\ temp.times = Formatted(LastOnline) /\ pc \in Running
        /\ registered' = registered /\ lastRead' = lastRead
        /\ \A id \in Ids : persisted'[id] = IF id \in DOMAIN temp.times
                                              THEN temp.times[id] ELSE persisted[id]
    BY <1>5 DEF Rename, ReadyToRename, Saving, SavesWhatIsHeld, Running
  <2>2. \A id \in DOMAIN temp.times : lastRead[id] >= temp.times[id]
    BY <2>1, FormattedFacts
  <2> QED BY <2>1, <2>2
<1>6. CASE Boot
  <2>1. /\ lastRead' = Seeded(Loaded) /\ registered' = registered
        /\ persisted' = persisted
    BY <1>6 DEF Boot, history
  <2>2. ASSUME NEW id \in registered PROVE lastRead'[id] >= persisted[id]
    <3>1. CASE persisted[id] = 0
      BY <2>1, <3>1, SeededFacts
    <3>2. CASE persisted[id] # 0
      <4>1. disk # Missing /\ id \in DOMAIN disk /\ persisted[id] <= disk[id]
        BY <3>2 DEF PromisesKept
      <4>2. Seeded(Loaded)[id] = disk[id] /\ Seeded(Loaded)[id] \in 0..MaxTime
        BY <4>1, SeededFacts
      <4> QED BY <2>1, <4>1, <4>2
    <3> QED BY <3>1, <3>2
  <2> QED BY <2>1, <2>2
<1>7. CASE Crash \/ PowerLoss
  BY <1>7 DEF Crash, PowerLoss, Running
<1>8. CASE Settle \/ Tick \/ UNCHANGED vars
  BY <1>8 DEF Settle, Tick, vars, memory, history
<1> QED BY <1>1, <1>2, <1>3, <1>4, <1>5, <1>6, <1>7, <1>8 DEF Next, Flush

\* The last flush saves what the store holds, or the file holds it already.
LEMMA ShutdownStep ==
  ASSUME TypeInv, FlushOnDisk, SavesWhatIsHeld, ShutdownSavesAll, [Next]_vars
  PROVE  ShutdownSavesAll'
<1> USE DEF ShutdownSavesAll, Saved
<1>1. ASSUME NEW id \in Ids, Read(id) PROVE ShutdownSavesAll'
  BY <1>1 DEF Read
<1>2. ASSUME NEW id \in Ids, Add(id) \/ Drop(id) PROVE ShutdownSavesAll'
  BY <1>2 DEF Add, Drop, medium, TypeInv, MemoryTyped, Times
<1>3. CASE FlushInterval
  BY <1>3 DEF FlushInterval, StartSave
<1>4. CASE FlushAtShutdown
  <2>1. CASE pc' # "stopped"
    BY <2>1
  <2>2. CASE SameTimes /\ pc = "up" /\ UNCHANGED <<registered, memory, medium>>
    <3>1. \A id \in DOMAIN LastOnline :
            disk # Missing /\ id \in DOMAIN disk /\ disk[id] = Truncated(lastRead[id])
      BY <2>2, FormattedFacts DEF SameTimes, FlushOnDisk, Running
    <3>2. \A id \in registered : lastRead[id] # 0 => id \in DOMAIN LastOnline
      BY DEF LastOnline
    <3> QED BY <2>2, <3>1, <3>2 DEF memory, medium
  <2> QED BY <1>4, <2>1, <2>2 DEF FlushAtShutdown, StartSave
<1>5. CASE Rename
  <2>1. /\ disk' = Formatted(LastOnline) /\ registered' = registered
        /\ lastRead' = lastRead
    BY <1>5 DEF Rename, ReadyToRename, SavesWhatIsHeld
  <2>2. disk' # Missing
    BY <2>1, FormattedFacts, NamesAssumption
  <2> QED BY <2>1, <2>2, FormattedFacts
<1>6. CASE Sync \/ SaveFails \/ Crash \/ PowerLoss \/ Boot
  BY <1>6 DEF Sync, SaveFails, AfterSave, Saving, Crash, PowerLoss, Boot
<1>7. CASE Settle \/ Tick \/ UNCHANGED vars
  BY <1>7 DEF Settle, Tick, vars, memory, medium
<1> QED BY <1>1, <1>2, <1>3, <1>4, <1>5, <1>6, <1>7 DEF Next, Flush

-----------------------------------------------------------------------------
(* The theorems.                                                           *)

\* The inductive invariant holds in every reachable state.
THEOREM Invariance == Spec => []IInv
<1>1. Init => IInv
  <2> SUFFICES ASSUME Init PROVE IInv
    OBVIOUS
  <2> USE Constants DEF Init, Zero
  <2>1. MemoryTyped
    BY DEF MemoryTyped, Times, Down, Lasting, PartialTimes
  <2>2. FilesTyped /\ SavesWhatIsHeld
    BY DEF FilesTyped, Saving, SavesWhatIsHeld
  <2>3. HeldReadings /\ SavedReadings
    BY DEF HeldReadings, SavedReadings, NeverInvented
  <2>4. PromisesKept /\ FlushOnDisk /\ RestartRemembers /\ ShutdownSavesAll
    BY DEF PromisesKept, FlushOnDisk, RestartRemembers, ShutdownSavesAll, Saved, Running
  <2> QED BY <2>1, <2>2, <2>3, <2>4 DEF IInv, TypeInv
<1>2. IInv /\ [Next]_vars => IInv'
  BY MemoryStep, FilesStep, HeldReadingsStep, SavedReadingsStep, PromisesStep,
     SavesWhatIsHeldStep, FlushOnDiskStep, RestartRemembersStep, ShutdownStep
     DEF IInv, TypeInv
<1> QED BY <1>1, <1>2, PTL DEF Spec

\* Every variable keeps its type, and last_seen.json can always be parsed.
THEOREM TypeCorrect == Spec => []FileTypeOK
<1>1. IInv => FileTypeOK
  BY TypesFollow DEF IInv
<1> QED BY <1>1, Invariance, PTL

\* What a completed flush saved of a device, a process knows after a crash, and
\* after a power failure if it had settled, until the device is removed.
THEOREM NothingForgotten == Spec => []RestartRemembers
<1>1. IInv => RestartRemembers
  BY DEF IInv
<1> QED BY <1>1, Invariance, PTL

\* A time that is shown was a real read.
THEOREM NothingInvented == Spec => []NeverInvented
<1>1. IInv => NeverInvented
  BY DEF IInv, HeldReadings
<1> QED BY <1>1, Invariance, PTL

\* An orderly shutdown whose last flush did not fail loses nothing.
THEOREM NothingLostAtShutdown == Spec => []ShutdownSavesAll
<1>1. IInv => ShutdownSavesAll
  BY DEF IInv
<1> QED BY <1>1, Invariance, PTL
=============================================================================
