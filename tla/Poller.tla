------------------------------- MODULE Poller -------------------------------
(***************************************************************************)
(* The poll loop of madbus: Poller (poller.go), the loop of main.go that   *)
(* drives it, and the serial buses it owns (internal/rtu/reader.go).       *)
(*                                                                         *)
(* The loop is one goroutine.  What it races with is its environment: an   *)
(* operator or an API handler replaces config.json, USB adapters come and  *)
(* go, devices stop answering, the process crashes and is started again.   *)
(* reconcile is one atomic step here: every structure it touches is        *)
(* private to the loop except the telemetry store, whose locking is the    *)
(* subject of TelemetryStore.                                              *)
(***************************************************************************)
EXTENDS Integers, Sequences

CONSTANTS
  Ids,              \* device ids
  Ports,            \* serial ports a bus can be opened on
  Mock,             \* the port name "mock": no bus, synthetic readings
  Lines,            \* line settings: baud, data bits, parity, stop bits
  ValidLines,       \* those whose parity ParseParity accepts
  Profiles,         \* profile names a device may refer to
  KnownProfiles,    \* the profiles loaded at startup
  Undecodable,      \* loaded profiles that Decode rejects (an unvalidated flag bit)
  Periods,          \* poll periods, in ticks
  Configs,          \* the configurations the file is ever given
  DefaultConfig,    \* the one Load writes when the file is missing
  Elapsed,          \* ticks from one poll to the next (a slow poll skips some)
  MaxEdits,         \* bound: how often the environment rewrites config.json
  Disturbances,     \* which rare faults of the file are let happen
  Garbage, Missing, \* what Load can find instead of a configuration
  None              \* absence of a value

\* A configured device: its period is 0 when it inherits the default.
Entry == [id : Ids, profile : Profiles, port : Ports \cup {Mock},
          line : Lines, period : Periods \cup {0}]

Config == [period : Periods, devices : Seq(Entry)]

ASSUME ConfigAssumption ==
  /\ Configs \subseteq Config
  /\ DefaultConfig \in Configs
  /\ Garbage \notin Configs /\ Missing \notin Configs

ASSUME ConstantsAssumption ==
  /\ ValidLines \subseteq Lines
  /\ KnownProfiles \subseteq Profiles
  /\ Undecodable \subseteq KnownProfiles
  /\ Mock \notin Ports /\ None \notin Ports \cup KnownProfiles
  /\ Periods \subseteq Nat \ {0}
  /\ Elapsed \subseteq Nat \ {0}
  /\ MaxEdits \in Nat
  /\ Disturbances \subseteq {"edit during boot", "unreadable file"}

\* A serial bus object; `made' is the config version it was created for, which
\* tells apart two objects with the same parameters.
Bus == [port : Ports, line : ValidLines, made : Nat]

\* NoBus is the nil bus of a mock device and of a device without a usable line.
NoBus == [port |-> None, line |-> None, made |-> 0]

VARIABLES
  file,       \* config.json: content, modification time, whether it can be read
  pc,         \* where the main loop is
  cfg,        \* the configuration in force
  lastMod,    \* modification time of the file at the last stat
  buses,      \* port -> bus object
  open,       \* bus objects that hold an open client
  broken,     \* open clients whose adapter went away since they were opened
  sched,      \* scheduled devices; wait is the time left to nextDue
  store,      \* the telemetry store, by device id
  todo,       \* devices the running tick still has to read
  plugged,    \* ports whose adapter is present
  answering   \* devices that answer requests

vars == <<file, pc, cfg, lastMod, buses, open, broken, sched, store, todo,
          plugged, answering>>

loopVars  == <<cfg, lastMod, buses, open, broken, sched, store>>
wireVars  == <<plugged, answering>>

Down == {"stopped", "failed", "start"}
Up   == {"due", "tick", "idle", "reload"}

-----------------------------------------------------------------------------
(* The telemetry store: one device's record, and the four calls on it.     *)

NoError == "none"
Errors  == {NoError, "unknown profile", "no bus", "open failed",
            "read failed", "decode failed"}

\* The last readings: the profile they were read with, and the stale flag.
NoMetrics == [of |-> None, stale |-> FALSE]
Metrics   == {NoMetrics} \cup [of : KnownProfiles, stale : BOOLEAN]

Status == [profile : Profiles, online : BOOLEAN, error : Errors,
           metrics : Metrics]

\* Register: a new device is offline; an existing one keeps its runtime state.
Registered(id, profile) ==
  IF id \in DOMAIN store
    THEN [store[id] EXCEPT !.profile = profile]
    ELSE [profile |-> profile, online |-> FALSE, error |-> NoError,
          metrics |-> NoMetrics]

RecordSuccess(s, profile) ==
  [s EXCEPT !.online = TRUE, !.error = NoError,
            !.metrics = [of |-> profile, stale |-> FALSE]]

\* Fault: the last-known values keep looking fresh.
FailKeepsFresh(s, reason) == [s EXCEPT !.online = FALSE, !.error = reason]

\* Last-known values are kept, every one flagged stale.
RecordFailure(s, reason) ==
  [s EXCEPT !.online = FALSE, !.error = reason,
            !.metrics = IF @ = NoMetrics THEN @ ELSE [@ EXCEPT !.stale = TRUE]]

-----------------------------------------------------------------------------
(* Reconcile, as the result its loops compute for a configuration c.       *)

Configured(c) == {c.devices[k].id : k \in DOMAIN c.devices}

EntriesOf(c, id) == {k \in DOMAIN c.devices : c.devices[k].id = id}

\* An id given twice in a hand-written file is configured by its last entry.
LastEntry(c, id) ==
  c.devices[CHOOSE k \in EntriesOf(c, id) : \A j \in EntriesOf(c, id) : j <= k]

Known(entry) == entry.profile \in KnownProfiles

MeetsUnknown(c, id) == \E k \in EntriesOf(c, id) : ~Known(c.devices[k])

\* Entries that can define the bus on a port, in file order.
Candidates(c, port) ==
  {k \in DOMAIN c.devices : /\ c.devices[k].port = port
                            /\ c.devices[k].line \in ValidLines}

WantedPorts(c) == {port \in Ports : Candidates(c, port) # {}}

\* Devices sharing a port share a bus: the first usable entry's settings win.
WantedLine(c, port) ==
  c.devices[CHOOSE k \in Candidates(c, port) :
              \A j \in Candidates(c, port) : k <= j].line

\* Fault: a bus is kept whatever its new parameters are.
KeptOnSamePort(c) == DOMAIN buses \cap WantedPorts(c)

\* Ports whose bus survives: still wanted, with the same parameters.
KeptPorts(c) ==
  {port \in DOMAIN buses \cap WantedPorts(c) :
     buses[port].line = WantedLine(c, port)}

\* made is the modification time the file had when c was loaded.
NextBuses(c, made) ==
  [port \in WantedPorts(c) |->
     IF port \in KeptPorts(c)
       THEN buses[port]
       ELSE [port |-> port, line |-> WantedLine(c, port), made |-> made]]

\* Fault: a bus is dropped from the table without being closed.
NoneClosed(c) == {}

\* The bus objects reconcile closes before it forgets them.
ClosedBuses(c) == {buses[port] : port \in DOMAIN buses \ KeptPorts(c)}

BusFor(entry, table) ==
  IF entry.port # Mock /\ entry.port \in DOMAIN table
    THEN table[entry.port]
    ELSE NoBus

PeriodOf(c, entry) == IF entry.period > 0 THEN entry.period ELSE c.period

\* Fault: a new device waits out its period first.
FullPeriodFirst(c, id) ==
  IF id \in DOMAIN sched THEN sched[id].wait
                         ELSE PeriodOf(c, LastEntry(c, id))

\* nextDue survives a reconcile; a device that is new, or that one of its
\* entries took off the schedule on the way, is due immediately.
NextWait(c, id) ==
  IF id \in DOMAIN sched /\ ~MeetsUnknown(c, id) THEN sched[id].wait ELSE 0

NextSched(c, table) ==
  [id \in {i \in Configured(c) : Known(LastEntry(c, i))} |->
     LET entry == LastEntry(c, id)
     IN  [profile |-> entry.profile, mock |-> entry.port = Mock,
          period |-> PeriodOf(c, entry), bus |-> BusFor(entry, table),
          wait |-> NextWait(c, id)]]

\* Fault: no failure is recorded for an unknown profile.
RegisteredOnly(c, id) == Registered(id, LastEntry(c, id).profile)

\* What the store holds of a configured device after its entries are handled.
NextStatus(c, id) ==
  LET known == Registered(id, LastEntry(c, id).profile)
  IN  IF MeetsUnknown(c, id) THEN RecordFailure(known, "unknown profile")
                             ELSE known

\* Fault: a device whose profile is unknown is skipped altogether.
PollableVisible(c) ==
  (DOMAIN store \ (DOMAIN sched \ Configured(c)))
    \cup {i \in Configured(c) : Known(LastEntry(c, i))}

\* Registered devices after a reconcile.  Only *scheduled* devices that left
\* the configuration are removed.
NextVisible(c) ==
  (DOMAIN store \ (DOMAIN sched \ Configured(c))) \cup Configured(c)

NextStore(c) ==
  [id \in NextVisible(c) |->
     IF id \in Configured(c) THEN NextStatus(c, id) ELSE store[id]]

Reconcile(c, made) ==
  /\ cfg' = c
  /\ buses' = NextBuses(c, made)
  /\ open' = open \ ClosedBuses(c)
  /\ broken' = broken \ ClosedBuses(c)
  /\ sched' = NextSched(c, NextBuses(c, made))
  /\ store' = NextStore(c)

-----------------------------------------------------------------------------
(* config.json and config.Load.                                            *)

Loadable == file.readable /\ file.content \in Configs

\* Load of a missing file saves the default configuration and returns it.
WriteDefault ==
  file' = [content |-> DefaultConfig, mtime |-> file.mtime + 1,
           readable |-> TRUE]

\* An operator or an API handler replaces the file; every edit has a
\* modification time of its own.
EditConfig ==
  /\ file.mtime < MaxEdits
  /\ pc = "loaded" => "edit during boot" \in Disturbances
  /\ \E content \in Configs \cup {Garbage, Missing}, readable \in BOOLEAN :
       /\ ~readable => "unreadable file" \in Disturbances /\ content # Missing
       /\ file' = [content |-> content, mtime |-> file.mtime + 1,
                   readable |-> readable]
  /\ UNCHANGED <<pc, todo, loopVars, wireVars>>

\* chmod or chown: the content and the modification time stay as they are.
FixPermissions ==
  /\ ~file.readable
  /\ file' = [file EXCEPT !.readable = TRUE]
  /\ UNCHANGED <<pc, todo, loopVars, wireVars>>

-----------------------------------------------------------------------------
(* Startup and the end of the process.                                     *)

EmptyMemory ==
  /\ cfg = DefaultConfig /\ lastMod = 0 /\ buses = <<>>
  /\ open = {} /\ broken = {} /\ sched = <<>> /\ store = <<>> /\ todo = {}

BootLoad ==
  /\ pc = "start"
  /\ \/ /\ Loadable
        /\ cfg' = file.content
        /\ UNCHANGED file
     \/ /\ file.content = Missing
        /\ cfg' = DefaultConfig
        /\ WriteDefault
  /\ pc' = "loaded"
  /\ UNCHANGED <<lastMod, buses, open, broken, sched, store, todo, wireVars>>

\* run returns the error of Load, which may also be that the default cannot be
\* written, and the process exits with status 1.
BootFail ==
  /\ pc = "start"
  /\ ~Loadable
  /\ pc' = "failed"
  /\ UNCHANGED <<file, todo, loopVars, wireVars>>

\* newPoller: stat the file, then reconcile with the configuration that main
\* had already loaded.
BootReconcile ==
  /\ pc = "loaded"
  /\ lastMod' = IF file.content = Missing THEN 0 ELSE file.mtime
  /\ Reconcile(cfg, lastMod')
  /\ pc' = "due"
  /\ UNCHANGED <<file, todo, wireVars>>

ForgetEverything ==
  /\ cfg' = DefaultConfig /\ lastMod' = 0 /\ buses' = <<>>
  /\ open' = {} /\ broken' = {} /\ sched' = <<>> /\ store' = <<>>
  /\ todo' = {}

\* SIGINT or SIGTERM is seen by the select only: poller.close closes every bus
\* of the table.  The process ends with the store still in memory.
Stop ==
  /\ pc = "idle"
  /\ open' = open \ {buses[port] : port \in DOMAIN buses}
  /\ broken' = broken \ {buses[port] : port \in DOMAIN buses}
  /\ pc' = "stopped"
  /\ UNCHANGED <<file, cfg, lastMod, buses, sched, store, todo, wireVars>>

\* A panic, a kill or a power cut at any point.
Crash ==
  /\ pc \in Up \cup {"loaded"}
  /\ ForgetEverything
  /\ pc' = "failed"
  /\ UNCHANGED <<file, wireVars>>

\* systemd starts a failed process again; a stopped one is started by hand.
Restart(from) ==
  /\ pc = from
  /\ ForgetEverything
  /\ pc' = "start"
  /\ UNCHANGED <<file, wireVars>>

-----------------------------------------------------------------------------
(* maybeReload.                                                            *)

\* Fault: modification times are compared with a tolerance.
NewerByTwo == file.mtime > lastMod + 1

Changed == file.mtime # lastMod

ConfigUnchanged ==
  /\ pc = "idle"
  /\ file.content = Missing \/ ~Changed
  /\ pc' = "due"
  /\ UNCHANGED <<file, todo, loopVars, wireVars>>

\* The new modification time is remembered before the file is read.
ConfigChanged ==
  /\ pc = "idle"
  /\ file.content # Missing /\ Changed
  /\ lastMod' = file.mtime
  /\ pc' = "reload"
  /\ UNCHANGED <<file, cfg, buses, open, broken, sched, store, todo, wireVars>>

\* The file may have changed again since the stat.  When it cannot be loaded, or
\* is gone and the default cannot be written, the configuration stays.
Reload ==
  /\ pc = "reload"
  /\ \/ Loadable /\ Reconcile(file.content, lastMod) /\ UNCHANGED file
     \/ /\ file.content = Missing
        /\ Reconcile(DefaultConfig, lastMod)
        /\ WriteDefault
     \/ /\ ~Loadable
        /\ UNCHANGED <<file, cfg, buses, open, broken, sched, store>>
  /\ pc' = "due"
  /\ UNCHANGED <<lastMod, todo, wireVars>>

-----------------------------------------------------------------------------
(* tick and read.                                                          *)

\* Fault: the time left may go below zero.
PlainMinus(wait, e) == wait - e

WaitLeft(wait, e) == IF e < wait THEN wait - e ELSE 0

\* One value of now for the whole tick decides who is due.
StartTick ==
  /\ pc = "due"
  /\ \E e \in Elapsed :
       LET aged == [id \in DOMAIN sched |->
                      [sched[id] EXCEPT !.wait = WaitLeft(@, e)]]
       IN  /\ sched' = aged
           /\ todo' = {id \in DOMAIN sched : aged[id].wait = 0}
  /\ pc' = "tick"
  /\ UNCHANGED <<file, cfg, lastMod, buses, open, broken, store, wireVars>>

\* Fault: a read error leaves the client in place.
LeftOpen(handles, bus) == handles

\* markClosed: the client is closed and dropped, so the next read reopens.
MarkClosed(handles, bus) == handles \ {bus}

\* Bus.Read as its outcomes.  CanUse: ensureOpen has a client, old or new.
CanUse(bus) == bus \in open \/ bus.port \in plugged

Answered(id) == sched[id].bus \notin broken /\ id \in answering

Outcome(id) ==
  IF sched[id].mock THEN NoError
  ELSE IF sched[id].bus = NoBus THEN "no bus"
  ELSE IF ~CanUse(sched[id].bus) THEN "open failed"
  ELSE IF ~Answered(id) THEN "read failed"
  ELSE IF sched[id].profile \in Undecodable THEN "decode failed"
  ELSE NoError

\* A read error drops the client; a decode error leaves it open.
OpenAfter(id) ==
  CASE Outcome(id) \in {"no bus", "open failed"} \/ sched[id].mock -> open
    [] Outcome(id) = "read failed" -> MarkClosed(open, sched[id].bus)
    [] OTHER -> open \cup {sched[id].bus}

ReadDevice(id) ==
  /\ pc = "tick" /\ id \in todo
  /\ todo' = todo \ {id}
  /\ sched' = [sched EXCEPT ![id].wait = sched[id].period]
  /\ open' = OpenAfter(id)
  /\ broken' = broken \cap open'
  /\ store' = [store EXCEPT ![id] =
       IF Outcome(id) = NoError THEN RecordSuccess(@, sched[id].profile)
                                ELSE RecordFailure(@, Outcome(id))]
  /\ UNCHANGED <<file, pc, cfg, lastMod, buses, wireVars>>

EndTick ==
  /\ pc = "tick" /\ todo = {}
  /\ pc' = "idle"
  /\ UNCHANGED <<file, todo, loopVars, wireVars>>

-----------------------------------------------------------------------------
(* The wire.                                                               *)

Unplug(port) ==
  /\ port \in plugged
  /\ plugged' = plugged \ {port}
  /\ broken' = broken \cup {bus \in open : bus.port = port}
  /\ UNCHANGED <<file, pc, cfg, lastMod, buses, open, sched, store, todo,
                 answering>>

Plug(port) ==
  /\ port \notin plugged
  /\ plugged' = plugged \cup {port}
  /\ UNCHANGED <<file, pc, todo, loopVars, answering>>

GoSilent(id) ==
  /\ id \in answering
  /\ answering' = answering \ {id}
  /\ UNCHANGED <<file, pc, todo, loopVars, plugged>>

Answer(id) ==
  /\ id \notin answering
  /\ answering' = answering \cup {id}
  /\ UNCHANGED <<file, pc, todo, loopVars, plugged>>

-----------------------------------------------------------------------------
Init ==
  /\ \E content \in Configs \cup {Garbage, Missing} :
       file = [content |-> content, mtime |-> 1, readable |-> TRUE]
  /\ pc = "start"
  /\ EmptyMemory
  /\ plugged = Ports
  /\ answering = Ids

\* The steps of the main goroutine, which nothing but a crash prevents.
LoopStep ==
  \/ BootLoad \/ BootFail \/ BootReconcile
  \/ ConfigUnchanged \/ ConfigChanged \/ Reload
  \/ StartTick \/ EndTick
  \/ \E id \in Ids : ReadDevice(id)

Environment ==
  \/ EditConfig \/ FixPermissions
  \/ \E port \in Ports : Plug(port) \/ Unplug(port)
  \/ \E id \in Ids : Answer(id) \/ GoSilent(id)

Next ==
  \/ LoopStep
  \/ Environment
  \/ Stop \/ Crash
  \/ Restart("failed") \/ Restart("stopped")

Spec == Init /\ [][Next]_vars

\* Every read returns within its timeout and both tickers keep firing, so the
\* loop goes on; systemd restarts the process after a failure.
FairSpec == Spec /\ WF_vars(LoopStep) /\ WF_vars(Restart("failed"))

-----------------------------------------------------------------------------
(* Properties.                                                             *)

\* Every variable has its type; in particular no wait is negative.
TypeOK ==
  /\ file \in [content : Configs \cup {Garbage, Missing}, mtime : Nat \ {0},
               readable : BOOLEAN]
  /\ pc \in Down \cup Up \cup {"loaded"}
  /\ cfg \in Configs
  /\ lastMod \in Nat
  /\ DOMAIN buses \subseteq Ports
  /\ \A port \in DOMAIN buses : buses[port] \in Bus
  /\ open \subseteq Bus
  /\ broken \subseteq open
  /\ DOMAIN sched \subseteq Ids
  /\ \A id \in DOMAIN sched :
       sched[id] \in [profile : KnownProfiles, mock : BOOLEAN,
                      period : Periods, bus : Bus \cup {NoBus}, wait : Nat]
  /\ DOMAIN store \subseteq Ids
  /\ \A id \in DOMAIN store : store[id] \in Status
  /\ todo \subseteq DOMAIN sched
  /\ plugged \subseteq Ports
  /\ answering \subseteq Ids

\* "A changed serial config triggers a rebuild rather than a stale connection"
\* (busEntry): a device polls through the table's bus for the port its entry
\* names, or through none; and the table has the settings the config asks for.
NoStaleConnection ==
  pc \in Up =>
    /\ \A port \in DOMAIN buses :
         /\ buses[port].port = port
         /\ buses[port].line = WantedLine(cfg, port)
    /\ \A id \in DOMAIN sched :
         sched[id].bus = BusFor(LastEntry(cfg, id), buses)

\* No client is left open behind the table's back, so a port is never held by
\* two clients, and none is held once the process has shut down.
OneClientPerPort ==
  /\ \A bus \in open : bus.port \in DOMAIN buses /\ buses[bus.port] = bus
  /\ pc \in Down => open = {}

\* An online device has fresh values and no error; the values of an offline
\* device are all marked stale (docs/api.md, RecordSuccess and RecordFailure).
FreshOrStale ==
  \A id \in DOMAIN store :
    LET s == store[id]
    IN  IF s.online
          THEN s.error = NoError /\ s.metrics # NoMetrics /\ ~s.metrics.stale
          ELSE s.metrics # NoMetrics => s.metrics.stale

\* Nobody polls a device that is not scheduled: it is shown offline, and for
\* the reason that its profile is unknown.
OnlineIsPolled ==
  \A id \in DOMAIN store \ DOMAIN sched :
    ~store[id].online /\ store[id].error = "unknown profile"

\* "An offline device is never dropped from a response": each device of the
\* configuration in force has a record, and so has each scheduled one.
StoreCoversConfig ==
  pc \in Up => Configured(cfg) \cup DOMAIN sched \subseteq DOMAIN store

\* Offline without a reason means not tried yet: the device is scheduled and
\* due in the coming or the running tick.
SilentOffline ==
  \A id \in DOMAIN store :
    ~store[id].online /\ store[id].error = NoError =>
      /\ store[id].metrics = NoMetrics
      /\ id \in DOMAIN sched /\ sched[id].wait = 0
      /\ pc = "tick" => id \in todo

\* config.json is the source of truth: once the file stays readable and the
\* process stays up, the configuration in force is the one in the file.
ConfigConverges ==
  <>[](Loadable /\ pc \in Up) => <>[](cfg = file.content)

\* A scheduled device whose adapter is present, which answers, and whose profile
\* decodes.
Reachable(id) ==
  /\ pc \in Up /\ id \in DOMAIN sched
  /\ sched[id].mock \/ /\ sched[id].bus # NoBus
                       /\ sched[id].bus.port \in plugged
                       /\ id \in answering
                       /\ sched[id].profile \notin Undecodable

\* "A communication error closes the link so the next call transparently
\* reconnects" (Bus.Read): a reachable device comes back online and stays there,
\* whatever its neighbours on the bus do.
LinkHeals ==
  \A id \in Ids :
    <>[]Reachable(id) => <>[](id \in DOMAIN store /\ store[id].online)

-----------------------------------------------------------------------------
(* What docs and comments say and the code does not do.                    *)

\* poller.go: "reconcile makes the running device/bus set match cfg".
StoreHoldsOnlyConfigured ==
  pc \in Up => DOMAIN store \subseteq Configured(cfg)
=============================================================================
