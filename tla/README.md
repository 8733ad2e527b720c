# madbus in TLA+

madbus reads Modbus RTU devices over USB serial adapters, normalizes what they
answer with device profiles, and serves the result over HTTP.  This directory
holds models of its moving parts, the TLC runs that check them and proofs of
their safety properties.  Paths below are relative to the repository (`src/`).

## The system

| component | source | state | operations | hard behaviour |
|---|---|---|---|---|
| Main loop | `main.go` | tickers, `lastWritten` | start, base tick, state tick, shutdown | one goroutine, so a slow poll delays the flush and the reload, and ticks are late or lost; crash at any point |
| Poller | `poller.go` | `buses`, `devices`, `cfg`, `lastModTime` | `newPoller`, `reconcile`, `maybeReload`, `tick`, `read`, `close` | the file changes at any time; long sequences of reloads |
| Serial bus | `internal/rtu/reader.go` | client, `open` | `Read`, `Close`, `ensureOpen`, `markClosed` | adapters that vanish under an open client |
| Telemetry store | `internal/telemetry/telemetry.go` | devices, order, RWMutex | `Register`, `Remove`, `RecordSuccess`, `RecordFailure`, `Snapshot`, `Get`, `LastOnline`, `SeedLastOnline` | poll loop against handlers; maps are references |
| Config file | `internal/config/config.go` | `config.json` | `Load` (which may write), `Save` | handlers, poll loop and operator share it without a lock |
| Config endpoints | `internal/api/server.go` | `writeMu` | create, update, delete, settings, lists | concurrent requests, early returns |
| Measurement endpoints | `internal/api/server.go` | none | one device, batch, health | read copies of the store; values JSON has no form for |
| Last-seen state | `internal/state/state.go`, `main.go` | `last_seen.json` | `Load`, `Save`, flush | crash and power failure inside `Save` |
| Profiles | `internal/profile/profile.go` | none after startup | `Load`, `validate`, `applyDefaults`, `RegisterCount`, `Decode` | 16-bit arithmetic, widths, arrays, bit flags; accepted and yet undecodable profiles |
| Web UI | `web/app.js`, `web/settings.js` | page state | refresh, edit dialog | answers out of order |
| Port discovery | `internal/rtu/ports.go` | none | list | pure input |
| Deployment | `deploy/madbus.service` | none | restart on failure | |

The main loop owns the poller, and the poller the buses.  The poller is the only
writer of the telemetry store, apart from the seeding at startup; the handlers
read it.  Handlers and poller do not call each other: a handler saves
`config.json`, and the poller notices that its modification time has changed.

What makes each one correct: the *poller* runs exactly what the configuration
says, over the buses it says, and recovers when a link does; the *main loop*
forgets no device, however late it is; the *store* never
shows half an update; the *config endpoints* neither lose an update nor corrupt
the file; *last-seen* remembers what it has saved and invents nothing; a *reading* shows what
the device held, whole or not at all; the *page* saves what it shows.

## Modules

| module | models | how it corresponds |
|---|---|---|
| `Poller` | `poller.go`, `internal/rtu/reader.go`, the loop of `main.go` | `pc` is where the loop is: `start`, `loaded` (after `config.Load`), `due` (about to tick), `tick`, `idle` (in the select), `reload` (between `Stat` and `Load`), `stopped`, `failed`. `buses`, `sched` and `store` are the maps of the code; `sched[id].wait` is the time left to `nextDue` |
| `MCPoller` | | six configurations that put the cases of `reconcile` side by side: shared port, changed speed, unusable parity, one beside a usable one, unknown profile, an id twice |
| `Schedule` | the loop of `main.go`, `maybeReload` and `tick` of `poller.go` | the same loop in real time: `fires` and `channel` are the base ticker, `now` is the time of the tick at work, `nextDue` and `period` the fields of `schedDevice`; `since` and `owed` are history variables |
| `PollerProofs`, `ScheduleProofs`, `TelemetryStoreProofs`, `ConfigApiProofs`, `LastSeenProofs`, `ReadingsProofs`, `WebUiProofs` | | theorems about the module named; those of `ReadingsProofs` also about the decoder of `Profile` |
| `IndexLemmas` | | lemmas they share: least and greatest index, a sequence without one entry |
| `StoreSpec` | what the store promises | every call takes effect at once |
| `TelemetryStore` | `internal/telemetry/telemetry.go` | the lock, one step per copied device, one step per value that `RecordFailure` marks, and a heap of metrics maps, so that sharing a map would show |
| `ConfigSpec` | what the write endpoints promise | requests carried out one at a time |
| `ConfigApi` | `internal/api/server.go`, `internal/config/config.go`, the start of `main.go`, `deploy/madbus.service` | `req[r].pc` follows a handler through validate, lock, read file, checks, rename, unlock; `proc` and `bound` are the process and the address it could bind, `Start` and `FailToStart` what systemd's next attempt comes to |
| `Profile` | `internal/profile/profile.go` | one operator per function, on records with the fields of `Register` and `Profile`; `Decode` gives the set of outcomes, one per order in which Go may walk a map of flags |
| `Readings` | `internal/rtu/reader.go`, `Poller.read`, `mockRead`, `RecordSuccess` and `RecordFailure`, the measurement endpoints | `reading` is `Bus.Read` between two requests; `store` is what the API answers from; `answer` the last response; `basis` is a history variable |
| `WebUi` | `web/app.js` | `dialog` is the form with `editingId` and the options of both drop-downs, `loads` the awaits of `openDialog` and of Rescan, `save` the request of the form |
| `LastSeen` | `internal/state/state.go`, flush and restore in `main.go` | `disk` is what a process reads, `stable` what survives a power failure; `truth` and `persisted` are history variables |

Each `MC*` module holds the values of the constants; each `.cfg` is one run.
Definitions that a comment marks as a *fault* are not used by the
specification: each is a plausible bug of the definition below it, and
replacing the one by the other breaks a property.

Choices that a reader should know:

- `Reconcile` is one step, and its loops are written as the result they
  compute.  Everything it touches but the store is private to the loop, and the
  store's locking is the subject of `TelemetryStore`.  The order of its parts
  still matters, and is kept: an id that an entry with an unknown profile has
  taken off the schedule is due at once when a later entry puts it back.
- A bus object carries the version of the file it was made for (`made`), which
  tells a rebuilt bus from the old one.  This is what lets `NoStaleConnection`
  see a stale connection even when port and settings are the same.
- A client whose adapter was unplugged stays broken when the adapter is back:
  only dropping it and opening a new one helps.
- In `Poller` periods and elapsed time are small numbers of ticks.  `Elapsed` is
  how many pass between two polls, more than one when a poll was slow.
  `PollerLeavesOutTime` shows that in `Schedule`, where time is real, the wait of
  a device goes down by what passed between two ticks and a device is read when
  it is over, as `Poller` has it.
- In `Schedule` a unit of the clock is as short as one likes, and only reads,
  flushes and reloads take time.  The ticker is Go's: its channel holds one tick,
  and it drops those that fire while one waits.  A busy stretch, from waiting to
  waiting again, lasts `MaxBusy` at most: every request of a tick times out, and
  their number is that of the profile entries.  A reload takes any set of devices
  with any periods; what a configuration makes of them is the subject of `Poller`.
- In `ConfigApi` `PortOf` gives the port of an address, and `Unbindable` the
  addresses `net.Listen` refuses although no madbus listens there: a port of
  another program, a host of another machine.  Whether a directory of profiles
  loads (`Unloadable`) and what it offers (`Offers`) are constants there; `Profile`
  says when it does.
- In `Poller` and `ConfigApi` device data, profiles and line settings are names.
  In `Profile` a profile has all its fields but the texts; the parts of a metric
  name that the code joins with dots stay apart, a scale is an integer, and a
  float is its bit pattern.
- A word has `WordBits` bits, 16 in the code and 4 in the runs.  All bounds of the
  code that come from the word size are written with it, and the library's limit
  of 125 registers per request is `MaxQuantity`, so that an array can be longer
  than a request and a register count can wrap.
- The words of one request are read together, those of two requests are not: a
  device may change in between, which `DeviceChanges` does at any time.
- What is right in `Readings` is said by encoding: `Means` asks whether a device
  that holds the value would hold these words, in plain integers, and shares only
  the naming of metrics and the first index with the decoder.
- What a batch asks for, and what it reports as unmatched, are sets in `Readings`,
  and the parts of its answer are indexed by the selectors they answer: the order
  of the metrics in the answer's lists is left out.
- In `WebUi` a handler runs from one await to the next.  `Refresh` shows any list
  at all: answers of two refreshes may cross, and other clients may have had any
  devices in between.
- A missing file whose default cannot be written is a file that does not load, for
  `BootFail` and `Reload` of `Poller` as for the code.  A profiles directory that
  does not load at startup is in `ConfigApi` (`FailToStart`); `Poller` has it as a
  `Crash` only, and its profiles are a constant.

## Runs

Passing runs:

| run | bounds | shows |
|---|---|---|
| `PollerSafety` | 2 devices, 2 ports, 6 configurations, 3 versions of the file, all faults; 3.0 M states | the safety properties of the poll loop, with crash and restart anywhere |
| `PollerLiveness` | 2 devices, 1 shared port, 3 configurations, 3 versions; 0.15 M | the file is taken over in the end, and a reachable device comes back online |
| `StoreCalls` | 2 devices, 1 reader, 2 metrics; 0.66 M | copies are private while devices come and go under `Snapshot`, which meets none that is gone; refinement of `StoreSpec` |
| `StoreProgress` | 1 device, 2 readers, 2 metrics, 2 poll times; 0.19 M | no copy mixes two polls or the marks of two calls, and nobody starves at the lock |
| `ScheduleTime` | 2 devices, periods of 1 and 5, a tick every 2, busy for up to 3, clock up to 16; 1.0 M | no device is forgotten, and the times of reading are true, whatever ticks are late or lost |
| `ConfigWrites` | 2 requests, 2 devices, 3 kinds of data, 3 addresses of which one is in use and one is none, 2 profiles directories of which one does not load, 1 edit from outside; 0.50 M | a write has the mutex, every request is answered, no id twice; refinement of `ConfigSpec` until the edit; nothing but a `PUT` of a bad `profiles_dir` makes a file the next start fails on |
| `LastSeenFlush` | 2 devices, clock up to 4, 2 ticks a second, failing saves and power failures; 0.11 M | nothing saved is forgotten or invented, the file can always be parsed, and what is read is saved |
| `Readings` | 11 profiles directories, 3 devices of which one is a mock, 2 contents of the registers, 4-bit words; 0.19 M | every value shown is what the device held, a reading is stored whole or not at all and outlives failures, sound profiles fail through the wire only, a batch accounts for all it asks, also one that names a device twice |
| `WebUi` | 1 device, 2 profiles of which one is offered, 1 adapter, 2 loads and 1 save under way; 1.5 M | the saved port of an untouched edit stays selectable, also when rescans overlap, and is the one shown when they do not; the profile is kept |

Why the bounds are enough.  The hazards of `reconcile` are about two devices
that share, leave or take over a port, and about an id that changes between two
configurations, so two devices and two ports show all of them; three versions of
the file allow a reload on top of a reload.  The store's races need one reader
in the middle of a copy and one writer; two readers that overlap are what could
starve the poll loop.  A lost update takes two requests.  In
`ScheduleTime` the loop can be busy for longer than a tick, so that ticks wait and
are dropped; one period is shorter than that and the other longer; and 16 units of
time leave room for either bound to be reached.  Both are exact: with one unit less,
TLC finds a device that is read later, and a stamp that is older.  In `LastSeen` two
ticks per second make a saved time differ from the one that was read.  In
`Readings` each directory puts value types side by side with one special case:
both word orders, signs, a name used twice, two flags of one name, strides wider
than an element and left out, a first index, an entry that cannot be read, and
four directories that do not load; two contents of the registers show a reading
torn between two requests.  In `WebUi` two loads are what it takes to overlap, and
a saved profile or port may or may not be among those offered.

Runs that end in a violation each quote a sentence of the repository and show
that the code does something else:

| run | what happens |
|---|---|
| `PollerGhost` | a device with an unknown profile leaves the configuration; the store keeps it, because only scheduled devices are removed (`poller.go:77`) |
| `ConfigRestart` | a new host with the old port is saved untried; after the next restart the process runs without an API (`server.go:451`, `main.go:104`) |
| `ReadingsNaN` | one float register without a number, and a batch answers 200 with no body at all (`server.go:532`) |

Further differences between code and text that the models contain and no run
is spent on:

- a device with an invalid parity is polled with the settings of its neighbour
  on the port, and is not "surfaced per-device" (`poller.go:97`);
- a shorter interval waits for the old one to run out (`poller.go:148`; `DueAfter`
  of `Schedule`), where `TODO.md:97` says it applies live: what `NeverForgotten`
  bounds is the time the last reading promised, with the period of then;
- two edits within the resolution of the modification time look like one
  (`poller.go:164`): `Poller` gives each edit a time of its own;
- a change that cannot be read at the first attempt is not tried again
  (`poller.go:167`): adding `"unreadable file"` to `Disturbances` of
  `PollerLiveness` breaks `ConfigConverges`;
- an edit between `Load` and `Stat` at startup is never noticed (`poller.go:55`):
  adding `"edit during boot"` to `Disturbances` of `PollerLiveness` shows it;
- after a change of profile the values read with the old one stay fresh under the
  new one until the next reading (`telemetry.go:49`);
- the default configuration, which `Load` writes when the file is missing, may
  replace one that was saved between its two steps (`config.go:84`);
- after one change of the listen port, changing it back to the one in use is
  refused until a restart (`server.go:451`: `Free` and `Verdict`);
- a `profiles_dir` is saved unchecked, and a process that cannot load it is
  restarted for ever (`server.go:441`: `FailToStart`);
- a device may be given a profile that was added after the start: the API accepts
  it, the poller does not know it until a restart (`main.go:66`);
- a profile whose flag bits do not exist, whose array is longer than a request,
  or whose register count wraps is accepted; the device is then offline for ever,
  or the process panics at every poll (`profile.go:316`: the directories `BadFlag`,
  `LongArray` and `Wrapping` of `MCReadings`);
- a stride of 65536 or more is taken modulo the size of a word, so that elements
  are read where others lie (`profile.go:152`);
- a mock device shows one number for each profile entry, also where the profile
  describes labels, flags or an array (`main.go:190`);
- in a batch that names a device twice, the metrics missing of the earlier
  selector are not reported (`server.go:388`);
- a device that was never read has no metrics at all (`telemetry.go:60`), where
  `docs/api.md:35` and `:46`, `telemetry.go:11` and `server.go:64` have each metric
  with the value `null`; a batch lists the device's own metrics as unmatched, which
  `docs/api.md:185` says of metrics it does not expose.  `AllOrNothing` leaves open
  what such a device shows, and `BatchAccounts` asks only that what is not shown is
  listed;
- a second Rescan during the first may show, and so save, another port than the one
  of an unplugged adapter, which is still among the options; two dialogs opened at
  once may lose it (`web/app.js:182`), where the comment at `web/app.js:172` says
  that editing does not drop it;
- a profile that is no longer offered is replaced by the first one in the form
  (`web/app.js:120`);
- the late answer to a save closes whichever dialog is open (`web/app.js:217`);
- a hand edit between `Load` and `Save` of a handler is overwritten
  (`server.go:457`);
- the id of a deleted device is accepted again (`server.go:200`), where
  `docs/api.md` says never.

`PollerLiveness` therefore leaves the unreadable file and the edit during startup
out (`Disturbances`), `AtomicRequests` and `OnlyProfilesDirWedges` promise nothing
after an edit from outside, `OnlyTheWireFails` is about profiles that are `Sound`,
`BatchAccounts` asks of a device named twice only for what is missing of the last
selector, and `UntouchedIsKept` asks of rescans that overlap only that the saved port stays
selectable, and nothing of two dialogs opened at once.

Deadlock is checked in every run but `ScheduleTime`, where a shutdown ends the
process and nothing starts it again.

### Fairness

- `Poller`: weak fairness of the loop's steps.  A read returns within the
  one-second timeout of the client, both tickers keep firing, and nothing in the
  loop waits for anyone else for ever (the store's lock: `StoreProgress`).  Weak
  fairness of the restart after a failure: `Restart=on-failure`.  The
  environment has none, and no restart is assumed after an orderly stop.
- `TelemetryStore`: weak fairness of the writer and of each reader.  The RWMutex
  is modelled with Go's rule that a waiting writer keeps later readers out and
  lets in, when it unlocks, those that queued.  For a
  reader that encodes its copy this assumes a client that takes the answer, as the
  server sets no timeout for writing; one that does not keeps only its own
  handler waiting, since the lock is released by then.
- `ConfigApi`: weak fairness of each handler, strong fairness of taking the
  mutex, which Go's starvation mode gives.
- `LastSeen`: weak fairness of the flush.  `KeepsSaving` assumes a process that
  stays up and saves that do not fail.

## Proofs

Each `*Proofs` module proves, by TLAPS and for every value of the constants, what
the runs check on one.  In every module `Invariance` states the inductive
invariant, `IInv`, and `TypeCorrect` the type invariant; the others are:

| module | theorem | property |
|---|---|---|
| `PollerProofs` | `BusesFollowConfig` | `NoStaleConnection` |
| | `OneClientOnly` | `OneClientPerPort` |
| | `ReadingsAreHonest` | `FreshOrStale` |
| | `EveryDeviceIsShown` | `StoreCoversConfig` |
| | `OnlineMeansPolled` | `OnlineIsPolled` |
| | `NoSilentFailure` | `SilentOffline` |
| `TelemetryStoreProofs` | `NoCopyIsTorn` | `NoTornReading` |
| | `EveryIdIsThere` | `NoNilDereference` |
| | `CopiesArePrivate` | `CopyIsPrivate`, an action property |
| | `CallsAreAtomic` | `Linearizable`, the refinement of `StoreSpec` |
| `ConfigApiProofs` | `WritesAreExclusive` | `OneWriter` |
| | `IdsStayUnique` | `NoDuplicateIds` |
| | `OnlySettingsWedge` | `OnlyProfilesDirWedges`, an action property |
| | `RequestsAreAtomic` | `AtomicRequests`, the refinement of `ConfigSpec` |
| `LastSeenProofs` | `NothingForgotten` | `RestartRemembers` |
| | `NothingInvented` | `NeverInvented` |
| | `NothingLostAtShutdown` | `ShutdownSavesAll` |
| `ReadingsProofs` | `ReadingsAreWhole` | `AllOrNothing` |
| | `SoundProfilesAreReadable` | `OnlyTheWireFails` |
| | `ValuesAreHonest` | `HonestValues` |
| | `BatchesAreAccounted` | `BatchAccounts` |
| `ScheduleProofs` | `NobodyIsForgotten` | `NeverForgotten` |
| | `ReadingTimesAreTrue` | `StampsAreTrue`, an action property |
| | `PollerLeavesOutTime` | `TicksOfPoller`: what `Poller` makes of time is right |
| `WebUiProofs` | `EditsKeepWhatTheyShow` | `UntouchedIsKept` |

### What is assumed

The named assumptions of the modules, which TLC evaluates in every run: constants
have their types, names of different kinds do not overlap, periods and elapsed
times are positive, a file is the default one or has times in it but is not both
missing and there.  `ReadingsAssumption` says that a file that can be parsed has
fields of the types of the Go structs, that the selectors of a batch are a list,
and that the Modbus library's limit (125) is below the number of addresses (65536).
`ScheduleAssumption` says nothing but the types of its constants: the loop may be
busy for any time.

`PowersOfTwo` is arithmetic: the provers know nothing of powers but that they are
numbers.

Three theorems have a hypothesis of their own.  `IdsStayUnique` supposes that the
file at the start, the default one and what is edited by hand name no id twice,
and `RequestsAreAtomic` that the file at the start does not.  Neither is checked
by `config.Load`, and without it a handler keeps what it was given: an update
changes the first of two entries, a delete removes one of them.
`ValuesAreHonest` supposes that no array has a stride of 65536 registers or more
(`StridesFit`), which the code would take modulo the size of a word.

### How the arguments go

*Poller.*  None of the safety properties is inductive alone.  `TypeInv` adds to
`TypeOK` that outside a tick no device is left to read, without which a
`reconcile` could take away a device that `todo` still names.  `Wired` says that
the table maps a port to a bus on this port, and that a device polls through a
bus of the table or through none; without it `ReadDevice` could open a client
behind the table's back.  `Recorded` says that every device on the schedule has
a record; without it `ReadDevice` would record for a device that is not there,
and that is what `OnlineIsPolled` and `SilentOffline` rest on.  The argument goes
by the kinds of step (`StepKinds`): those that run `Reconcile`, those that forget
everything, those that load or pass, a tick, a read.

*Telemetry store.*  `Exclusion` is the lock: no reader copies while the poll loop
is inside.  `NoAliases` says that no two devices, and no device and no copy,
share a metrics map, and it is what makes `MapKept` true, the lemma on which most
others rest: a step writes into no map that somebody else can see.  `Marking`
says how far `RecordFailure` has got, `Consistent` that all values of a map come
from the device's last poll, and are flagged exactly when it is offline but for
those still to be marked, and
`CopiesCurrent` that what a reader has copied so far is still what the store
holds.  The refinement mapping takes a device's map together with the marks
still to come, so that a call takes effect in its first step; a reader's answer
is the store at the moment it has copied everything.  `Simulates` has a lemma
for each step of the lock, the calls and the copies.

*Config endpoints.*  `HasMutex` says that a handler past the lock holds the mutex,
alone, and `Undisturbed` that what it loaded is what the file still holds as
long as nobody edits it from outside; together they make the save of a handler a
step of `ConfigSpec`.  Ids need both files and the configurations in the
handlers' hands (`IdsUnique`, and `EarlyUnique` until the first edit).

*Last-seen.*  `HeldReadings` and `SavedReadings` say that what the store shows, and
what the file, its temporary copy and its last synced contents hold, is no later
than the device's last answer.  `PromisesKept` keeps the file at or above
`persisted`, what a completed save has promised, across crashes, for which
`FilesTyped` records that a file is synced before it is renamed.  Two facts about
the loop are needed for a shutdown: nothing is read while `Save` runs
(`SavesWhatIsHeld`), and what `lastWritten` remembers is what the file holds, in
whole seconds (`FlushOnDisk`).

*Readings.*  `ReadingSound` says that the samples of a reading in progress are
those of the entries it is past, by name, and `MetricsWhole` that what is shown
of a serial device is what its profile describes once it was read.  Below them
are lemmas about the decoder: `DecodedNames`, that an entry gives a sample for
every metric it describes (for flags that takes a counting argument, as Go walks
the map in any order); `NothingWraps` and `CountIsExtent`, that for an entry that
fits neither stride nor count nor their product wraps around the word;
`SoundIsDecoded`, that nothing is then sliced beyond what was asked for.

*Decoding.*  The invariant, `Honest`, says of a reading in progress that each of
its samples is meant by words the device held since the reading began, and that
those it holds now are among them; `HonestValues` follows when the samples are
stored.  The arithmetic is in `NumberDecoded` (two's complement and the halves of
wide numbers, in both orders), `BitsAreSet` (shifting and masking finds the bits
the word is the sum of) and `ElementsMean` (the slice for an element is what lies
at its place).  `OneMeans` and `FlagsMean` are the other kinds of entry.

*Batches.*  `AskAccounts` shows of one answer, for any store and any list of
selectors, what `BatchAccounts` says of it.  The last selector of a device is the
one whose missing metrics are reported (`LastIsReported`); and for each device
those shown and those missing make up what was asked.

*Schedule.*  `NeverForgotten` rests on a chain that runs once around the loop.
`ClockInv` bounds the loop by `MaxBusy`, and the ticker by a second;
`ChannelInv` says that a tick that waits fired after the last one was taken up,
and no more than a busy stretch and a second after it; `LateInv` what this makes
of the moment a tick is taken up; `DueInv` that outside a tick every device is due
after the tick before, and that one about to be read is not overdue by more than
that.  `StampInv` says that a device still to be read was last read in an earlier
tick, which is why a stored time is always later than the one before it.

*Page.*  `Tracked` follows the loads under way while nobody chose anything.
`Opening`: the load of the dialog itself is alone as long as the dialog is not
open.  `Selectable`: the saved port is among the options or some load carries it, and
while the drop-down shows nothing one that carries it is under way, so that a rescan
that empties it just then does no harm; it is why the options are emptied when a
load begins and only added to when it is answered.  `Alone`: while no load has overlapped another the one
that is under way carries the port, and with none under way the drop-down shows it.

The lemmas of `IndexLemmas` rest on the library's theorem on well-founded
relations: "the first entry with this id" chooses one that exists.

### What is only model-checked

- Liveness (`ConfigConverges` and the other properties of `PollerLiveness`,
  `PollLoopNotStarved`, `HandlersAnswered`, `RequestsAnswered`, `KeepsSaving`):
  fairness and `ENABLED` are out of the prover's reach.

## What is not modelled, and what comes next

Not modelled: the listing of serial ports and their descriptions (input from
`/dev` and `/sys`; `WebUi` takes any set of ports), the validators and defaults of
device fields (`Valid` in `ConfigApi`), the settings page (a form with one
request), a system clock that is set back (then a restored time of last reading
stays ahead of what is read, `telemetry.go:140`), logging, the wire types, and the
deploy script, which runs on another machine.

Worth adding, in this order:

1. `LastSeen` composed with the poller's reloads, and a clock that is set back;
   `ConfigApi` composed with `Poller`, with the profiles loaded at startup.
2. Modification times with a resolution.
3. `Reconcile` again as a fold over the entries, one at a time, shown to compute
   what `Poller` states.
