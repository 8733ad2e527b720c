------------------------------ MODULE LastSeen ------------------------------
(***************************************************************************)
(* The one thing madbus keeps across restarts: when each device was last   *)
(* read.  The main loop flushes the times it holds in the telemetry store  *)
(* to last_seen.json (main.go, internal/state/state.go), and a new process *)
(* seeds its store from that file.  The process may crash at any step and  *)
(* the power may fail.                                                     *)
(***************************************************************************)
EXTENDS Naturals

CONSTANTS
  Ids,
  Second,     \* clock ticks in a second: RFC3339 keeps whole seconds
  MaxTime,    \* bound: the last clock reading
  Faults,     \* which of "save fails" and "power loss" happen
  Missing,    \* last_seen.json is not there
  Garbage,    \* last_seen.json cannot be parsed
  None

ASSUME LastSeenAssumption ==
  /\ Second \in Nat \ {0} /\ MaxTime \in Nat /\ Second <= MaxTime
  /\ Faults \subseteq {"save fails", "power loss"}

\* What the file may hold: times of some of the devices.
SavedTimes == UNION {[S -> 0..MaxTime] : S \in SUBSET Ids}

\* A file that holds times is there and can be parsed.
ASSUME NamesAssumption ==
  /\ {Missing, Garbage} \cap SavedTimes = {}
  /\ None \notin [times : SavedTimes, synced : BOOLEAN]

VARIABLES
  clock,
  pc,           \* where the main loop is
  registered,   \* devices of the configuration, and of the store while it is up
  lastRead,     \* the store: time of the last successful read, 0 for none
  lastWritten,  \* the times of the last flush, id -> time
  temp,         \* the temporary file of the running Save, or None
  disk,         \* last_seen.json as a process reads it
  synced,       \* whether its content reached the medium
  stable,       \* last_seen.json as it is after a power failure
  truth,        \* history: when a device was really read last
  persisted     \* history: the newest time a completed flush has saved

vars == <<clock, pc, registered, lastRead, lastWritten, temp, disk, synced,
          stable, truth, persisted>>

memory == <<lastRead, lastWritten>>
medium == <<disk, synced, stable>>
history == <<truth, persisted>>

Running == {"up", "saving", "saving at shutdown"}
Down    == {"stopped", "unsaved", "crashed"}

Zero == [id \in Ids |-> 0]

\* LastOnline: registered devices that were read at all.
LastOnline == [id \in {i \in registered : lastRead[i] # 0} |-> lastRead[id]]

\* Fault: the time is rounded up to the next second.
RoundedUp(t) == IF t % Second = 0 THEN t ELSE (t - (t % Second)) + Second

\* state.Save formats with RFC3339, which drops what is below a second.
Truncated(t) == t - (t % Second)

Formatted(times) == [id \in DOMAIN times |-> Truncated(times[id])]

\* Fault: only the ids are compared.
SameIds == DOMAIN LastOnline = DOMAIN lastWritten

SameTimes == LastOnline = lastWritten

-----------------------------------------------------------------------------
\* RecordSuccess with the time of the tick.
Read(id) ==
  /\ pc = "up" /\ id \in registered
  /\ lastRead' = [lastRead EXCEPT ![id] = clock]
  /\ truth' = [truth EXCEPT ![id] = clock]
  /\ UNCHANGED <<clock, pc, registered, lastWritten, temp, medium, persisted>>

\* A device enters the configuration: Register gives it no last read.
Add(id) ==
  /\ pc \in {"up"} \cup Down /\ id \notin registered
  /\ registered' = registered \cup {id}
  /\ lastRead' = [lastRead EXCEPT ![id] = 0]
  /\ UNCHANGED <<clock, pc, lastWritten, temp, medium, history>>

\* A device leaves the configuration and the store: it may be forgotten.
Drop(id) ==
  /\ pc \in {"up"} \cup Down /\ id \in registered
  /\ registered' = registered \ {id}
  /\ lastRead' = [lastRead EXCEPT ![id] = 0]
  /\ persisted' = [persisted EXCEPT ![id] = 0]
  /\ UNCHANGED <<clock, pc, lastWritten, temp, medium, truth>>

-----------------------------------------------------------------------------
(* flush and state.Save.                                                   *)

StartSave(where) ==
  /\ temp' = [times |-> Formatted(LastOnline), synced |-> FALSE]
  /\ pc' = where
  /\ UNCHANGED <<clock, registered, memory, medium, history>>

FlushInterval == pc = "up" /\ ~SameTimes /\ StartSave("saving")

\* The flush of a shutdown comes before everything else that ends.
FlushAtShutdown ==
  /\ pc = "up"
  /\ \/ ~SameTimes /\ StartSave("saving at shutdown")
     \/ /\ SameTimes /\ pc' = "stopped"
        /\ UNCHANGED <<clock, registered, memory, temp, medium, history>>

Saving == pc \in {"saving", "saving at shutdown"}

\* The loop goes on after a flush of the ticker, and ends after the last one.
AfterSave(end) == pc' = IF pc = "saving" THEN "up" ELSE end

Sync ==
  /\ Saving /\ ~temp.synced
  /\ temp' = [temp EXCEPT !.synced = TRUE]
  /\ UNCHANGED <<clock, pc, registered, memory, medium, history>>

\* Fault: the file is renamed as soon as it is written.
ReadyUnsynced == Saving

ReadyToRename == Saving /\ temp.synced

Rename ==
  /\ ReadyToRename
  /\ disk' = temp.times /\ synced' = temp.synced
  /\ temp' = None
  /\ lastWritten' = LastOnline
  /\ persisted' = [id \in Ids |-> IF id \in DOMAIN temp.times
                                    THEN temp.times[id] ELSE persisted[id]]
  /\ AfterSave("stopped")
  /\ UNCHANGED <<clock, registered, lastRead, stable, truth>>

\* Any error of Save removes the temporary file; the next flush tries again.
SaveFails ==
  /\ "save fails" \in Faults /\ Saving
  /\ temp' = None
  /\ AfterSave("unsaved")
  /\ UNCHANGED <<clock, registered, memory, medium, history>>

-----------------------------------------------------------------------------
(* The end and the start of a process.                                     *)

\* The directory is not synced: the rename reaches the medium some time later.
Settle ==
  /\ synced /\ stable # disk
  /\ stable' = disk
  /\ UNCHANGED <<clock, pc, registered, memory, temp, disk, synced, history>>

\* A temporary file that is left behind is never read.
Crash ==
  /\ pc \in Running
  /\ pc' = "crashed" /\ temp' = None
  /\ UNCHANGED <<clock, registered, memory, medium, history>>

\* What had not settled by then may be lost, and is promised no longer.
Settled(id) == IF stable # Missing /\ id \in DOMAIN stable THEN stable[id] ELSE 0

PowerLoss ==
  /\ "power loss" \in Faults
  /\ pc' = "crashed" /\ temp' = None
  /\ \/ disk' = stable
     \/ disk' = IF synced THEN disk ELSE Garbage
  /\ stable' = disk' /\ synced' = TRUE
  /\ persisted' = [id \in Ids |-> IF Settled(id) < persisted[id]
                                    THEN Settled(id) ELSE persisted[id]]
  /\ UNCHANGED <<clock, registered, memory, truth>>

\* state.Load: a missing file is empty, and one that cannot be parsed only
\* costs the times.
Loaded == IF disk \in {Missing, Garbage} THEN <<>> ELSE disk

\* Fault: what the file holds is not restored.
SeededBlank(seen) == Zero

\* SeedLastOnline, into a store that knows the registered devices only.
Seeded(seen) ==
  [id \in Ids |-> IF id \in registered \cap DOMAIN seen THEN seen[id] ELSE 0]

Boot ==
  /\ pc \in Down
  /\ lastRead' = Seeded(Loaded)
  /\ lastWritten' = [id \in {i \in registered : lastRead'[i] # 0} |-> lastRead'[id]]
  /\ pc' = "up"
  /\ UNCHANGED <<clock, registered, temp, medium, history>>

Tick ==
  /\ clock < MaxTime
  /\ clock' = clock + 1
  /\ UNCHANGED <<pc, registered, memory, temp, medium, history>>

Init ==
  /\ clock = Second /\ pc = "stopped" /\ registered = Ids
  /\ lastRead = Zero /\ lastWritten = <<>> /\ temp = None
  /\ disk = Missing /\ synced = TRUE /\ stable = Missing
  /\ truth = Zero /\ persisted = Zero

Flush == FlushInterval \/ Sync \/ Rename

Next ==
  \/ \E id \in Ids : Read(id) \/ Add(id) \/ Drop(id)
  \/ Flush \/ FlushAtShutdown \/ SaveFails
  \/ Settle \/ Crash \/ PowerLoss \/ Boot \/ Tick

Spec == Init /\ [][Next]_vars

\* The state ticker fires every minute, and Save does not hang.
FairSpec == Spec /\ WF_vars(Flush)

-----------------------------------------------------------------------------
(* Properties.                                                             *)

Times == [Ids -> 0..MaxTime]

PartialTimes(t) == DOMAIN t \subseteq Ids /\ \A id \in DOMAIN t : t[id] \in 1..MaxTime

\* Every variable has its type, and last_seen.json can always be parsed: "a
\* crash mid-write can't corrupt the file" (state.Save), nor can a power cut.
FileTypeOK ==
  /\ clock \in 0..MaxTime
  /\ pc \in Running \cup Down
  /\ registered \subseteq Ids
  /\ lastRead \in Times /\ truth \in Times /\ persisted \in Times
  /\ PartialTimes(lastWritten)
  /\ Saving <=> temp # None
  /\ disk = Missing \/ (disk # Garbage /\ PartialTimes(disk))
  /\ synced \in BOOLEAN

\* What a completed flush has saved of a device is known again after a crash,
\* and what had settled after a power failure, for as long as the device stays
\* in the configuration.
RestartRemembers ==
  pc \in Running => \A id \in registered : lastRead[id] >= persisted[id]

\* A time that is shown was a real read: never later than the last one.
NeverInvented == \A id \in Ids : lastRead[id] <= truth[id]

Saved(id) ==
  id \in registered /\ lastRead[id] # 0 =>
    disk # Missing /\ id \in DOMAIN disk /\ disk[id] = Truncated(lastRead[id])

\* An orderly shutdown whose last flush did not fail loses nothing.
ShutdownSavesAll == pc = "stopped" => \A id \in Ids : Saved(id)

\* While the process stays up and saves do not fail, what it reads gets to the
\* file again and again; an earlier failure is made up for.
KeepsSaving ==
  <>[](pc \in {"up", "saving"}) /\ <>[][~SaveFails]_vars
    => []<>(\A id \in Ids : Saved(id))
=============================================================================
