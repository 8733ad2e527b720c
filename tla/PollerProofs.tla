---------------------------- MODULE PollerProofs ----------------------------
(***************************************************************************)
(* What holds of the poll loop for every set of devices, ports, profiles   *)
(* and configurations.                                                     *)
(***************************************************************************)
EXTENDS Poller, IndexLemmas

-----------------------------------------------------------------------------
(* The entries a configuration gives.                                      *)

\* The entry that configures an id is one of the configuration's entries.
LEMMA LastEntryIsEntry ==
  ASSUME NEW c \in Config, NEW id \in Configured(c)
  PROVE  LastEntry(c, id) \in Entry /\ LastEntry(c, id).id = id
<1> DEFINE K == EntriesOf(c, id)
<1>1. K \subseteq 0..Len(c.devices) /\ K # {} /\ Len(c.devices) \in Nat
  BY DEF EntriesOf, Configured, Config
<1>2. \E k \in K : \A j \in K : j <= k
  BY <1>1, Greatest
<1>3. PICK k \in K : LastEntry(c, id) = c.devices[k]
  BY <1>2 DEF LastEntry
<1>4. k \in DOMAIN c.devices /\ c.devices[k].id = id
  BY DEF EntriesOf
<1> QED BY <1>3, <1>4 DEF Config

\* A wanted port has usable line settings.
LEMMA WantedLineIsValid ==
  ASSUME NEW c \in Config, NEW port \in WantedPorts(c)
  PROVE  port \in Ports /\ WantedLine(c, port) \in ValidLines
<1> DEFINE K == Candidates(c, port)
<1>1. K \subseteq Nat /\ K # {} /\ port \in Ports
  BY DEF Candidates, WantedPorts, Config
<1>2. \E k \in K : \A j \in K : k <= j
  BY <1>1, Least
<1>3. PICK k \in K : WantedLine(c, port) = c.devices[k].line
  BY <1>2 DEF WantedLine
<1> QED BY <1>1, <1>3 DEF Candidates

-----------------------------------------------------------------------------
(* Type correctness.                                                       *)

\* A period in force is a period, inherited or not.
LEMMA PeriodTyped ==
  ASSUME NEW c \in Config, NEW entry \in Entry
  PROVE  PeriodOf(c, entry) \in Periods
<1>1. c.period \in Periods
  BY DEF Config
<1>2. entry.period \in Periods \cup {0}
  BY DEF Entry
<1>3. ~(0 > 0)
  OBVIOUS
<1> QED BY <1>1, <1>2, <1>3 DEF PeriodOf

\* The bus table reconcile builds holds buses, one per wanted port.
LEMMA NextBusesTyped ==
  ASSUME TypeOK, NEW c \in Configs, NEW made \in Nat
  PROVE  /\ DOMAIN NextBuses(c, made) = WantedPorts(c)
         /\ \A port \in WantedPorts(c) :
              NextBuses(c, made)[port] \in Bus
<1>1. c \in Config
  BY ConfigAssumption
<1>2. ASSUME NEW port \in WantedPorts(c) PROVE NextBuses(c, made)[port] \in Bus
  <2>1. port \in Ports /\ WantedLine(c, port) \in ValidLines
    BY <1>1, WantedLineIsValid
  <2>2. CASE port \in KeptPorts(c)
    BY <2>2 DEF NextBuses, KeptPorts, TypeOK
  <2>3. CASE port \notin KeptPorts(c)
    BY <2>1, <2>3 DEF NextBuses, Bus
  <2> QED BY <2>2, <2>3
<1> QED BY <1>2 DEF NextBuses

SchedType ==
  [profile : KnownProfiles, mock : BOOLEAN, period : Periods,
   bus : Bus \cup {NoBus}, wait : Nat]

\* What reconcile schedules is typed.
LEMMA NextSchedTyped ==
  ASSUME TypeOK, NEW c \in Configs, NEW table,
         \A port \in DOMAIN table : table[port] \in Bus
  PROVE  /\ DOMAIN NextSched(c, table) \subseteq Ids
         /\ \A id \in DOMAIN NextSched(c, table) :
              NextSched(c, table)[id] \in SchedType
<1>1. c \in Config
  BY ConfigAssumption
<1>2. ASSUME NEW id \in DOMAIN NextSched(c, table)
      PROVE  id \in Ids /\ NextSched(c, table)[id] \in SchedType
  <2> DEFINE entry == LastEntry(c, id)
  <2>1. id \in Configured(c) /\ Known(entry)
    BY <1>2 DEF NextSched
  <2>2. entry \in Entry /\ entry.id = id
    BY <1>1, <2>1, LastEntryIsEntry
  <2>3. entry.profile \in KnownProfiles /\ id \in Ids
    BY <2>1, <2>2 DEF Known, Entry
  <2>4. PeriodOf(c, entry) \in Periods
    BY <1>1, <2>2, PeriodTyped
  <2>5. BusFor(entry, table) \in Bus \cup {NoBus}
    BY DEF BusFor
  <2>6. NextWait(c, id) \in Nat
    BY DEF NextWait, TypeOK
  <2>7. NextSched(c, table)[id] =
          [profile |-> entry.profile, mock |-> entry.port = Mock,
           period |-> PeriodOf(c, entry), bus |-> BusFor(entry, table),
           wait |-> NextWait(c, id)]
    BY <2>1 DEF NextSched
  <2>8. (entry.port = Mock) \in BOOLEAN
    OBVIOUS
  <2> HIDE DEF entry
  <2> QED BY <2>3, <2>4, <2>5, <2>6, <2>7, <2>8 DEF SchedType
<1> QED BY <1>2

\* Recording a failure keeps a status a status.
LEMMA RecordFailureTyped ==
  ASSUME NEW s \in Status, NEW reason \in Errors
  PROVE  RecordFailure(s, reason) \in Status
<1>1. CASE s.metrics = NoMetrics
  BY <1>1 DEF RecordFailure, Status
<1>2. CASE s.metrics # NoMetrics
  <2>1. s.metrics \in [of : KnownProfiles, stale : BOOLEAN]
    BY <1>2 DEF Status, Metrics
  <2>2. [s.metrics EXCEPT !.stale = TRUE] \in Metrics
    BY <2>1 DEF Metrics
  <2> QED BY <1>2, <2>2 DEF RecordFailure, Status
<1> QED BY <1>1, <1>2

\* So does registering a device.
LEMMA RegisteredTyped ==
  ASSUME TypeOK, NEW id, NEW profile \in Profiles
  PROVE  Registered(id, profile) \in Status
BY DEF Registered, TypeOK, Status, Errors, NoError, Metrics

\* The store after a reconcile is typed.
LEMMA NextStoreTyped ==
  ASSUME TypeOK, NEW c \in Configs
  PROVE  /\ DOMAIN NextStore(c) \subseteq Ids
         /\ \A id \in DOMAIN NextStore(c) : NextStore(c)[id] \in Status
<1>1. c \in Config
  BY ConfigAssumption
<1>2. ASSUME NEW id \in DOMAIN NextStore(c)
      PROVE  id \in Ids /\ NextStore(c)[id] \in Status
  <2>1. id \in NextVisible(c)
    BY <1>2 DEF NextStore
  <2>2. CASE id \in Configured(c)
    <3>1. LastEntry(c, id) \in Entry /\ LastEntry(c, id).id = id
      BY <1>1, <2>2, LastEntryIsEntry
    <3>2. Registered(id, LastEntry(c, id).profile) \in Status
      BY <3>1, RegisteredTyped DEF Entry
    <3>3. NextStatus(c, id) \in Status
      BY <3>2, RecordFailureTyped DEF NextStatus, Errors
    <3> QED BY <2>1, <2>2, <3>1, <3>3 DEF NextStore, Entry
  <2>3. CASE id \notin Configured(c)
    <3>1. id \in DOMAIN store
      BY <2>1, <2>3 DEF NextVisible
    <3> QED BY <2>1, <2>3, <3>1 DEF NextStore, TypeOK
  <2> QED BY <2>2, <2>3
<1> QED BY <1>2
\* Only a tick has devices left to read.
Quiet == pc # "tick" => todo = {}

TypeInv == TypeOK /\ Quiet

\* A reconcile leaves everything it writes typed.
LEMMA ReconcileTyped ==
  ASSUME TypeOK, NEW c \in Configs, NEW made \in Nat, Reconcile(c, made)
  PROVE  /\ cfg' \in Configs
         /\ DOMAIN buses' \subseteq Ports
         /\ \A port \in DOMAIN buses' : buses'[port] \in Bus
         /\ open' \subseteq Bus /\ broken' \subseteq open'
         /\ DOMAIN sched' \subseteq Ids
         /\ \A id \in DOMAIN sched' : sched'[id] \in SchedType
         /\ DOMAIN store' \subseteq Ids
         /\ \A id \in DOMAIN store' : store'[id] \in Status
<1>1. /\ DOMAIN buses' \subseteq Ports
      /\ \A port \in DOMAIN buses' : buses'[port] \in Bus
  BY NextBusesTyped DEF Reconcile, WantedPorts
<1>2. /\ DOMAIN sched' \subseteq Ids
      /\ \A id \in DOMAIN sched' : sched'[id] \in SchedType
  BY <1>1, NextSchedTyped DEF Reconcile
<1>3. /\ DOMAIN store' \subseteq Ids
      /\ \A id \in DOMAIN store' : store'[id] \in Status
  BY NextStoreTyped DEF Reconcile
<1>4. open' \subseteq Bus /\ broken' \subseteq open'
  BY DEF Reconcile, TypeOK
<1> QED BY <1>1, <1>2, <1>3, <1>4 DEF Reconcile

\* The initial states are typed.
LEMMA InitTyped == Init => TypeInv
<1> SUFFICES ASSUME Init PROVE TypeInv
  OBVIOUS
<1>1. file \in [content : Configs \cup {Garbage, Missing}, mtime : Nat \ {0},
               readable : BOOLEAN]
  BY DEF Init
<1>2. DOMAIN buses = {} /\ DOMAIN sched = {} /\ DOMAIN store = {}
  BY DEF Init, EmptyMemory
<1> QED BY <1>1, <1>2, ConfigAssumption
        DEF Init, EmptyMemory, TypeInv, TypeOK, Quiet, Down, Up

FileType ==
  [content : Configs \cup {Garbage, Missing}, mtime : Nat \ {0},
   readable : BOOLEAN]

\* Writing the default configuration leaves the file typed.
LEMMA WriteDefaultTyped ==
  ASSUME file \in FileType, WriteDefault
  PROVE  file' \in FileType
BY ConfigAssumption DEF FileType, WriteDefault

\* Forgetting everything leaves memory typed.
LEMMA ForgetTyped ==
  ASSUME ForgetEverything
  PROVE  /\ cfg' \in Configs /\ lastMod' \in Nat
         /\ DOMAIN buses' = {} /\ open' = {} /\ broken' = {}
         /\ DOMAIN sched' = {} /\ DOMAIN store' = {} /\ todo' = {}
BY ConfigAssumption DEF ForgetEverything

\* Every step of the main loop preserves the types.
LEMMA LoopTyped ==
  ASSUME TypeInv, LoopStep
  PROVE  TypeInv'
<1> USE DEF TypeInv, Quiet, Down, Up
<1>1. CASE BootLoad
  <2>1. file' \in FileType
    BY <1>1, WriteDefaultTyped DEF BootLoad, TypeOK, FileType
  <2>2. cfg' \in Configs
    BY <1>1, ConfigAssumption DEF BootLoad, Loadable
  <2> QED BY <1>1, <2>1, <2>2 DEF BootLoad, TypeOK, FileType, wireVars
<1>2. CASE BootFail
  BY <1>2 DEF BootFail, TypeOK, loopVars, wireVars
<1>3. CASE BootReconcile
  <2>1. lastMod' \in Nat
    BY <1>3 DEF BootReconcile, TypeOK
  <2>2. cfg \in Configs /\ Reconcile(cfg, lastMod')
    BY <1>3 DEF BootReconcile, TypeOK
  <2> QED BY <1>3, <2>1, <2>2, ReconcileTyped
          DEF BootReconcile, TypeOK, SchedType, wireVars
<1>4. CASE ConfigUnchanged
  BY <1>4 DEF ConfigUnchanged, TypeOK, loopVars, wireVars
<1>5. CASE ConfigChanged
  BY <1>5 DEF ConfigChanged, TypeOK, wireVars
<1>6. CASE Reload
  <2>0. todo = {} /\ lastMod \in Nat /\ todo' = {} /\ lastMod' \in Nat
    BY <1>6 DEF Reload, TypeOK
  <2>1. CASE Loadable /\ Reconcile(file.content, lastMod) /\ UNCHANGED file
    <3>1. file.content \in Configs
      BY <2>1 DEF Loadable
    <3> QED BY <1>6, <2>0, <2>1, <3>1, ReconcileTyped
            DEF Reload, TypeOK, SchedType, wireVars
  <2>2. CASE Reconcile(DefaultConfig, lastMod) /\ WriteDefault
    <3>1. file' \in FileType
      BY <2>2, WriteDefaultTyped DEF TypeOK, FileType
    <3> QED BY <1>6, <2>0, <2>2, <3>1, ReconcileTyped, ConfigAssumption
            DEF Reload, TypeOK, FileType, SchedType, wireVars
  <2>3. CASE UNCHANGED <<file, cfg, buses, open, broken, sched, store>>
    BY <1>6, <2>0, <2>3 DEF Reload, TypeOK, wireVars
  <2> QED BY <1>6, <2>1, <2>2, <2>3 DEF Reload
<1>7. CASE StartTick
  <2>1. PICK e \in Elapsed :
          /\ sched' = [id \in DOMAIN sched |->
                         [sched[id] EXCEPT !.wait = WaitLeft(@, e)]]
          /\ todo' = {id \in DOMAIN sched : sched'[id].wait = 0}
    BY <1>7 DEF StartTick
  <2>2. \A id \in DOMAIN sched : WaitLeft(sched[id].wait, e) \in Nat
    <3>1. e \in Nat
      BY ConstantsAssumption
    <3>2. \A id \in DOMAIN sched : sched[id].wait \in Nat
      BY DEF TypeOK
    <3>3. ASSUME NEW w \in Nat PROVE WaitLeft(w, e) \in Nat
      BY <3>1 DEF WaitLeft
    <3> QED BY <3>2, <3>3
  <2>3. DOMAIN sched' = DOMAIN sched
    BY <2>1
  <2>4. \A id \in DOMAIN sched' : sched'[id] \in SchedType
    BY <2>1, <2>2 DEF TypeOK, SchedType
  <2>5. todo' \subseteq DOMAIN sched'
    BY <2>1
  <2> QED BY <1>7, <2>3, <2>4, <2>5 DEF StartTick, TypeOK, SchedType, wireVars
<1>8. CASE EndTick
  BY <1>8 DEF EndTick, TypeOK, loopVars, wireVars
<1>9. CASE \E id \in Ids : ReadDevice(id)
  <2>1. PICK id \in Ids : ReadDevice(id)
    BY <1>9
  <2>2. id \in DOMAIN sched /\ sched[id] \in SchedType
    BY <2>1 DEF ReadDevice, TypeOK, SchedType
  <2>3. DOMAIN sched' = DOMAIN sched
        /\ \A i \in DOMAIN sched' : sched'[i] \in SchedType
    BY <2>1, <2>2, ConstantsAssumption DEF ReadDevice, TypeOK, SchedType
  <2>4. Outcome(id) \in Errors
    BY DEF Outcome, Errors, NoError
  <2>5. DOMAIN store' = DOMAIN store
        /\ \A i \in DOMAIN store' : store'[i] \in Status
    <3>1. ASSUME id \in DOMAIN store
          PROVE  /\ RecordSuccess(store[id], sched[id].profile) \in Status
                 /\ RecordFailure(store[id], Outcome(id)) \in Status
      <4>1. store[id] \in Status
        BY <3>1 DEF TypeOK
      <4>2. [of |-> sched[id].profile, stale |-> FALSE] \in Metrics
        BY <2>2 DEF SchedType, Metrics
      <4>3. RecordSuccess(store[id], sched[id].profile) \in Status
        BY <4>1, <4>2 DEF RecordSuccess, Status, Errors, NoError
      <4> QED BY <4>1, <4>3, <2>4, RecordFailureTyped
    <3> QED BY <2>1, <3>1 DEF ReadDevice, TypeOK
  <2>6. open' \subseteq Bus /\ broken' \subseteq open'
    <3>1. ASSUME Outcome(id) \notin {"no bus", "open failed"}, ~sched[id].mock
          PROVE  sched[id].bus \in Bus
      BY <2>2, <3>1 DEF Outcome, SchedType
    <3>2. OpenAfter(id) \subseteq Bus
      BY <3>1 DEF OpenAfter, MarkClosed, TypeOK
    <3> QED BY <2>1, <3>2 DEF ReadDevice
  <2> QED BY <2>1, <2>3, <2>5, <2>6 DEF ReadDevice, TypeOK, SchedType, wireVars
<1> QED BY <1>1, <1>2, <1>3, <1>4, <1>5, <1>6, <1>7, <1>8, <1>9 DEF LoopStep

\* So does every step of the environment and of the process as a whole.
LEMMA OtherStepsTyped ==
  ASSUME TypeInv,
         Environment \/ Stop \/ Crash \/ Restart("failed") \/ Restart("stopped")
  PROVE  TypeInv'
<1> USE DEF TypeInv, Quiet, Down, Up
<1>1. CASE EditConfig
  <2>1. PICK content \in Configs \cup {Garbage, Missing}, readable \in BOOLEAN :
          file' = [content |-> content, mtime |-> file.mtime + 1,
                   readable |-> readable]
    BY <1>1 DEF EditConfig
  <2>2. file.mtime + 1 \in Nat \ {0}
    BY DEF TypeOK
  <2>3. file' \in FileType
    BY <2>1, <2>2 DEF FileType
  <2> QED BY <1>1, <2>3 DEF EditConfig, TypeOK, FileType, loopVars, wireVars
<1>2. CASE FixPermissions
  BY <1>2 DEF FixPermissions, TypeOK, loopVars, wireVars
<1>3. CASE \E port \in Ports : Plug(port) \/ Unplug(port)
  BY <1>3 DEF Plug, Unplug, TypeOK, loopVars
<1>4. CASE \E id \in Ids : Answer(id) \/ GoSilent(id)
  BY <1>4 DEF Answer, GoSilent, TypeOK, loopVars
<1>5. CASE Stop
  BY <1>5 DEF Stop, TypeOK, wireVars
<1>6. CASE Crash
  BY <1>6, ForgetTyped DEF Crash, TypeOK, wireVars
<1>7. CASE Restart("failed") \/ Restart("stopped")
  BY <1>7, ForgetTyped DEF Restart, TypeOK, wireVars
<1> QED BY <1>1, <1>2, <1>3, <1>4, <1>5, <1>6, <1>7 DEF Environment

-----------------------------------------------------------------------------
(* The inductive invariant.  OneClientPerPort is not inductive alone: a     *)
(* read opens the bus its device holds, so that bus must be the table's.   *)
(* SilentOffline rests on every scheduled device having a record.          *)

\* A device polls through a bus of the table, or through none.
Wired ==
  /\ \A port \in DOMAIN buses : buses[port].port = port
  /\ \A id \in DOMAIN sched :
       sched[id].bus # NoBus =>
         /\ sched[id].bus.port \in DOMAIN buses
         /\ buses[sched[id].bus.port] = sched[id].bus

Recorded == DOMAIN sched \subseteq DOMAIN store

\* The kinds of steps the proofs tell apart.
Reconciles ==
  /\ pc \in {"loaded", "reload"} /\ pc' = "due" /\ todo' = {}
  /\ \E c \in Configs, made \in Nat : Reconcile(c, made)

Forgets == ForgetEverything /\ pc' \in {"failed", "start"}

Loads ==
  /\ pc = "start" /\ pc' = "loaded"
  /\ UNCHANGED <<buses, open, sched, store, todo>>

Passes ==
  /\ UNCHANGED <<cfg, buses, open, sched, store, todo>>
  /\ pc' \in Up => pc \in Up
  /\ pc' \in Down => pc \in Down
  /\ pc' = "tick" => pc = "tick"

\* Every step is of one of these kinds.
LEMMA StepKinds ==
  ASSUME TypeInv, [Next]_vars
  PROVE  \/ Reconciles \/ Forgets \/ Loads \/ Passes
         \/ StartTick \/ Stop \/ \E id \in Ids : ReadDevice(id)
<1> USE DEF Up, Down
<1>1. CASE BootLoad
  BY <1>1 DEF BootLoad, Loads
<1>2. CASE BootFail \/ ConfigUnchanged \/ ConfigChanged \/ EndTick
  BY <1>2 DEF BootFail, ConfigUnchanged, ConfigChanged, EndTick, Passes, loopVars
<1>3. CASE BootReconcile
  <2>1. lastMod' \in Nat /\ cfg \in Configs
    BY <1>3 DEF BootReconcile, TypeInv, TypeOK
  <2> QED BY <1>3, <2>1 DEF BootReconcile, Reconciles, TypeInv, Quiet
<1>4. CASE Reload
  <2>1. lastMod \in Nat /\ DefaultConfig \in Configs
    BY ConfigAssumption DEF TypeInv, TypeOK
  <2>2. pc = "reload" /\ pc' = "due" /\ todo = {} /\ todo' = todo
    BY <1>4 DEF Reload, TypeInv, Quiet
  <2>3. CASE Loadable /\ Reconcile(file.content, lastMod)
    BY <2>1, <2>2, <2>3 DEF Loadable, Reconciles
  <2>4. CASE Reconcile(DefaultConfig, lastMod)
    BY <2>1, <2>2, <2>4 DEF Reconciles
  <2>5. CASE UNCHANGED <<file, cfg, buses, open, broken, sched, store>>
    BY <2>2, <2>5 DEF Passes
  <2> QED BY <1>4, <2>3, <2>4, <2>5 DEF Reload
<1>5. CASE Environment
  <2>1. CASE EditConfig \/ FixPermissions
    BY <2>1 DEF EditConfig, FixPermissions, Passes, loopVars
  <2>2. CASE \E port \in Ports : Plug(port) \/ Unplug(port)
    BY <2>2 DEF Plug, Unplug, Passes, loopVars
  <2>3. CASE \E id \in Ids : Answer(id) \/ GoSilent(id)
    BY <2>3 DEF Answer, GoSilent, Passes, loopVars
  <2> QED BY <1>5, <2>1, <2>2, <2>3 DEF Environment
<1>6. CASE Crash \/ Restart("failed") \/ Restart("stopped")
  BY <1>6 DEF Crash, Restart, Forgets
<1>7. CASE UNCHANGED vars
  BY <1>7 DEF vars, Passes
<1>8. CASE StartTick \/ Stop \/ \E id \in Ids : ReadDevice(id)
  BY <1>8
<1> QED
  BY <1>1, <1>2, <1>3, <1>4, <1>5, <1>6, <1>7, <1>8 DEF Next, LoopStep

\* What a reconcile makes of the bus table and of the devices' buses.
LEMMA ReconcileWires ==
  ASSUME TypeInv, Wired, NEW c \in Configs, NEW made \in Nat,
         Reconcile(c, made)
  PROVE  /\ Wired'
         /\ DOMAIN buses' = WantedPorts(c)
         /\ \A port \in DOMAIN buses' :
              /\ buses'[port].port = port
              /\ buses'[port].line = WantedLine(c, port)
         /\ \A id \in DOMAIN sched' :
              sched'[id].bus = BusFor(LastEntry(c, id), buses')
<1>1. DOMAIN buses' = WantedPorts(c)
  BY DEF Reconcile, NextBuses
<1>2. ASSUME NEW port \in DOMAIN buses'
      PROVE  /\ buses'[port].port = port
             /\ buses'[port].line = WantedLine(c, port)
  <2>1. CASE port \in KeptPorts(c)
    <3>1. buses'[port] = buses[port] /\ port \in DOMAIN buses
      BY <1>1, <2>1 DEF Reconcile, NextBuses, KeptPorts
    <3> QED BY <2>1, <3>1 DEF KeptPorts, Wired
  <2>2. CASE port \notin KeptPorts(c)
    BY <1>1, <2>2 DEF Reconcile, NextBuses
  <2> QED BY <2>1, <2>2
<1>3. ASSUME NEW id \in DOMAIN sched'
      PROVE  sched'[id].bus = BusFor(LastEntry(c, id), buses')
  BY <1>3 DEF Reconcile, NextSched
<1>4. \A id \in DOMAIN sched' :
        sched'[id].bus # NoBus =>
          /\ sched'[id].bus.port \in DOMAIN buses'
          /\ buses'[sched'[id].bus.port] = sched'[id].bus
  BY <1>2, <1>3 DEF BusFor
<1> QED BY <1>1, <1>2, <1>3, <1>4 DEF Wired

\* Ticks move no device to another bus.
LEMMA TicksKeepWires ==
  ASSUME TypeInv, StartTick \/ \E id \in Ids : ReadDevice(id)
  PROVE  /\ UNCHANGED <<cfg, buses>> /\ pc \in Up /\ pc' \in Up
         /\ DOMAIN sched' = DOMAIN sched
         /\ \A id \in DOMAIN sched : sched'[id].bus = sched[id].bus
<1> USE DEF Up
<1>1. CASE StartTick
  <2>1. PICK e \in Elapsed :
          sched' = [id \in DOMAIN sched |->
                      [sched[id] EXCEPT !.wait = WaitLeft(@, e)]]
    BY <1>1 DEF StartTick
  <2>2. \A id \in DOMAIN sched : sched[id] \in SchedType
    BY DEF TypeInv, TypeOK, SchedType
  <2>3. \A id \in DOMAIN sched : sched'[id].bus = sched[id].bus
    BY <2>1, <2>2 DEF SchedType
  <2> QED BY <1>1, <2>1, <2>3 DEF StartTick
<1>2. ASSUME NEW id \in Ids, ReadDevice(id)
      PROVE  /\ DOMAIN sched' = DOMAIN sched
             /\ \A i \in DOMAIN sched : sched'[i].bus = sched[i].bus
  <2>1. sched' = [sched EXCEPT ![id].wait = sched[id].period]
    BY <1>2 DEF ReadDevice
  <2>2. \A i \in DOMAIN sched : sched[i] \in SchedType
    BY DEF TypeInv, TypeOK, SchedType
  <2> QED BY <2>1, <2>2 DEF SchedType
<1> QED BY <1>1, <1>2 DEF ReadDevice

\* Wired is preserved.
LEMMA WiredStep ==
  ASSUME TypeInv, Wired, [Next]_vars
  PROVE  Wired'
<1>1. CASE Reconciles
  BY <1>1, ReconcileWires DEF Reconciles
<1>2. CASE Forgets
  BY <1>2, ForgetTyped DEF Forgets, Wired
<1>3. CASE Loads \/ Passes \/ Stop
  BY <1>3 DEF Loads, Passes, Stop, Wired
<1>4. CASE StartTick \/ \E id \in Ids : ReadDevice(id)
  BY <1>4, TicksKeepWires DEF Wired
<1> QED BY <1>1, <1>2, <1>3, <1>4, StepKinds

\* A device never polls through a bus the configuration has replaced.
LEMMA NoStaleConnectionStep ==
  ASSUME TypeInv, Wired, NoStaleConnection, [Next]_vars
  PROVE  NoStaleConnection'
<1>1. CASE Reconciles
  <2>1. PICK c \in Configs, made \in Nat : Reconcile(c, made)
    BY <1>1 DEF Reconciles
  <2>2. cfg' = c
    BY <2>1 DEF Reconcile
  <2> QED BY <2>1, <2>2, ReconcileWires DEF NoStaleConnection
<1>2. CASE Forgets \/ Loads \/ Stop
  BY <1>2 DEF Forgets, Loads, Stop, NoStaleConnection, Up
<1>3. CASE Passes
  BY <1>3 DEF Passes, NoStaleConnection
<1>4. CASE StartTick \/ \E id \in Ids : ReadDevice(id)
  BY <1>4, TicksKeepWires DEF NoStaleConnection
<1> QED BY <1>1, <1>2, <1>3, <1>4, StepKinds

\* Open clients stay within the table.
LEMMA OneClientStep ==
  ASSUME TypeInv, Wired, OneClientPerPort, [Next]_vars
  PROVE  OneClientPerPort'
<1>1. CASE Reconciles
  <2>1. PICK c \in Configs, made \in Nat : Reconcile(c, made)
    BY <1>1 DEF Reconciles
  <2>2. ASSUME NEW bus \in open'
        PROVE  bus.port \in DOMAIN buses' /\ buses'[bus.port] = bus
    <3>1. bus \in open /\ bus \notin ClosedBuses(c)
      BY <2>1, <2>2 DEF Reconcile
    <3>2. bus.port \in DOMAIN buses /\ buses[bus.port] = bus
      BY <3>1 DEF OneClientPerPort
    <3>3. bus.port \in KeptPorts(c)
      BY <3>1, <3>2 DEF ClosedBuses
    <3>4. bus.port \in WantedPorts(c)
      BY <3>3 DEF KeptPorts
    <3> QED BY <2>1, <3>2, <3>3, <3>4 DEF Reconcile, NextBuses
  <2> QED BY <1>1, <2>2 DEF Reconciles, OneClientPerPort, Down
<1>2. CASE Forgets
  BY <1>2 DEF Forgets, ForgetEverything, OneClientPerPort
<1>3. CASE Loads \/ Passes
  BY <1>3 DEF Loads, Passes, OneClientPerPort, Down
<1>4. CASE StartTick
  BY <1>4 DEF StartTick, OneClientPerPort, Down
<1>5. CASE Stop
  <2>1. open \subseteq {buses[port] : port \in DOMAIN buses}
    BY DEF OneClientPerPort
  <2>2. open' = {}
    BY <1>5, <2>1 DEF Stop
  <2> QED BY <2>2 DEF OneClientPerPort
<1>6. CASE \E id \in Ids : ReadDevice(id)
  <2>1. PICK id \in Ids : ReadDevice(id)
    BY <1>6
  <2>2. id \in DOMAIN sched /\ UNCHANGED buses /\ pc' = "tick"
    BY <2>1 DEF ReadDevice, TypeInv, TypeOK
  <2>3. open' \subseteq open \cup {sched[id].bus}
    BY <2>1 DEF ReadDevice, OpenAfter, MarkClosed
  <2>4. sched[id].bus \in open' => sched[id].bus # NoBus \/ sched[id].bus \in open
    BY <2>1 DEF ReadDevice, OpenAfter, MarkClosed, Outcome
  <2> QED BY <2>2, <2>3, <2>4 DEF OneClientPerPort, Wired, Down
<1> QED BY <1>1, <1>2, <1>3, <1>4, <1>5, <1>6, StepKinds
\* What FreshOrStale asks of one record.
Honest(s) ==
  IF s.online
    THEN s.error = NoError /\ s.metrics # NoMetrics /\ ~s.metrics.stale
    ELSE s.metrics # NoMetrics => s.metrics.stale

\* A recorded failure leaves the device offline, for that reason, with no fresh
\* value.
LEMMA FailureIsHonest ==
  ASSUME NEW s \in Status, NEW reason
  PROVE  LET f == RecordFailure(s, reason)
         IN  ~f.online /\ f.error = reason /\ Honest(f)
<1>1. CASE s.metrics = NoMetrics
  BY <1>1 DEF RecordFailure, Status, Honest
<1>2. CASE s.metrics # NoMetrics
  <2>1. s.metrics \in [of : KnownProfiles, stale : BOOLEAN]
    BY <1>2 DEF Status, Metrics
  <2>2. [s.metrics EXCEPT !.stale = TRUE].stale = TRUE
    BY <2>1
  <2> QED BY <1>2, <2>2 DEF RecordFailure, Status, Honest
<1> QED BY <1>1, <1>2

\* A recorded success leaves the device online with fresh values.
LEMMA SuccessIsHonest ==
  ASSUME NEW s \in Status, NEW profile \in KnownProfiles
  PROVE  LET f == RecordSuccess(s, profile)
         IN  f.online /\ Honest(f)
<1>1. [of |-> profile, stale |-> FALSE] # NoMetrics
  BY ConstantsAssumption DEF NoMetrics
<1> QED BY <1>1 DEF RecordSuccess, Status, Honest

\* What reconcile does to one record.  A device that meets no unknown profile
\* keeps its runtime state; a new one is offline without a reason.
LEMMA NextStoreRecords ==
  ASSUME TypeInv, FreshOrStale, NEW c \in Configs, NEW id \in NextVisible(c)
  PROVE  /\ Honest(NextStore(c)[id])
         /\ id \notin Configured(c) =>
              id \in DOMAIN store /\ id \notin DOMAIN sched
                /\ NextStore(c)[id] = store[id]
         /\ id \in Configured(c) /\ MeetsUnknown(c, id) =>
              /\ ~NextStore(c)[id].online
              /\ NextStore(c)[id].error = "unknown profile"
         /\ id \in Configured(c) /\ ~MeetsUnknown(c, id) /\ id \in DOMAIN store =>
              /\ NextStore(c)[id].online = store[id].online
              /\ NextStore(c)[id].error = store[id].error
              /\ NextStore(c)[id].metrics = store[id].metrics
         /\ id \in Configured(c) /\ id \notin DOMAIN store =>
              NextStore(c)[id].metrics = NoMetrics
<1>1. CASE id \notin Configured(c)
  <2>1. id \in DOMAIN store /\ id \notin DOMAIN sched
    BY <1>1 DEF NextVisible
  <2> QED BY <1>1, <2>1 DEF NextStore, FreshOrStale, Honest
<1>2. CASE id \in Configured(c)
  <2> DEFINE known == Registered(id, LastEntry(c, id).profile)
  <2>1. NextStore(c)[id] = NextStatus(c, id)
    BY <1>2 DEF NextStore
  <2>2. known \in Status
    <3>1. LastEntry(c, id) \in Entry
      BY <1>2, LastEntryIsEntry, ConfigAssumption
    <3> QED BY <3>1, RegisteredTyped DEF Entry, TypeInv
  <2>3. CASE id \in DOMAIN store
    <3>1. /\ known.online = store[id].online
          /\ known.error = store[id].error
          /\ known.metrics = store[id].metrics
      BY <2>3 DEF Registered, TypeInv, TypeOK, Status
    <3>2. Honest(known)
      BY <2>3, <3>1 DEF FreshOrStale, Honest
    <3> HIDE DEF known
    <3>3. CASE MeetsUnknown(c, id)
      <4>1. NextStore(c)[id] = RecordFailure(known, "unknown profile")
        BY <2>1, <3>3 DEF NextStatus, known
      <4> QED BY <1>2, <2>2, <2>3, <3>3, <4>1, FailureIsHonest
    <3>4. CASE ~MeetsUnknown(c, id)
      <4>1. NextStore(c)[id] = known
        BY <2>1, <3>4 DEF NextStatus, known
      <4> QED BY <1>2, <2>3, <3>1, <3>2, <3>4, <4>1
    <3> QED BY <3>3, <3>4
  <2>4. CASE id \notin DOMAIN store
    <3>1. ~known.online /\ known.metrics = NoMetrics /\ Honest(known)
      BY <2>4 DEF Registered, Honest
    <3> HIDE DEF known
    <3>2. CASE MeetsUnknown(c, id)
      <4>1. NextStore(c)[id] = RecordFailure(known, "unknown profile")
        BY <2>1, <3>2 DEF NextStatus, known
      <4>2. NextStore(c)[id].metrics = NoMetrics
        BY <2>2, <3>1, <4>1 DEF RecordFailure, Status
      <4> QED BY <1>2, <2>2, <2>4, <3>2, <4>1, <4>2, FailureIsHonest
    <3>3. CASE ~MeetsUnknown(c, id)
      <4>1. NextStore(c)[id] = known
        BY <2>1, <3>3 DEF NextStatus, known
      <4> QED BY <1>2, <2>4, <3>1, <3>3, <4>1
    <3> QED BY <3>2, <3>3
  <2> QED BY <2>3, <2>4
<1> QED BY <1>1, <1>2

\* A read leaves its device online without an error, or offline with one, and
\* no other record changes.
LEMMA ReadRecords ==
  ASSUME TypeInv, NEW id \in Ids, ReadDevice(id)
  PROVE  /\ DOMAIN store' = DOMAIN store
         /\ \A i \in DOMAIN store \ {id} : store'[i] = store[i]
         /\ id \in DOMAIN store =>
              /\ Honest(store'[id])
              /\ store'[id].online \/ store'[id].error # NoError
<1>1. /\ DOMAIN store' = DOMAIN store
      /\ \A i \in DOMAIN store \ {id} : store'[i] = store[i]
  BY DEF ReadDevice
<1>2. ASSUME id \in DOMAIN store
      PROVE  /\ Honest(store'[id])
             /\ store'[id].online \/ store'[id].error # NoError
  <2>1. store[id] \in Status
    BY <1>2 DEF TypeInv, TypeOK
  <2>2. sched[id].profile \in KnownProfiles
    BY DEF ReadDevice, TypeInv, TypeOK
  <2>3. CASE Outcome(id) = NoError
    <3>1. store'[id] = RecordSuccess(store[id], sched[id].profile)
      BY <1>2, <2>3 DEF ReadDevice
    <3> QED BY <2>1, <2>2, <3>1, SuccessIsHonest
  <2>4. CASE Outcome(id) # NoError
    <3>1. store'[id] = RecordFailure(store[id], Outcome(id))
      BY <1>2, <2>4 DEF ReadDevice
    <3> QED BY <2>1, <2>4, <3>1, FailureIsHonest
  <2> QED BY <2>3, <2>4
<1> QED BY <1>1, <1>2

\* Honesty of the records is preserved.
LEMMA FreshOrStaleStep ==
  ASSUME TypeInv, FreshOrStale, [Next]_vars
  PROVE  FreshOrStale'
<1>0. FreshOrStale' <=> \A id \in DOMAIN store' : Honest(store'[id])
  BY DEF FreshOrStale, Honest
<1>1. CASE Reconciles
  <2>1. PICK c \in Configs, made \in Nat : Reconcile(c, made)
    BY <1>1 DEF Reconciles
  <2>2. store' = NextStore(c) /\ DOMAIN store' = NextVisible(c)
    BY <2>1 DEF Reconcile, NextStore
  <2> QED BY <1>0, <2>2, NextStoreRecords
<1>2. CASE Forgets
  BY <1>0, <1>2, ForgetTyped DEF Forgets
<1>3. CASE Loads \/ Passes \/ Stop \/ StartTick
  BY <1>3 DEF Loads, Passes, Stop, StartTick, FreshOrStale
<1>4. CASE \E id \in Ids : ReadDevice(id)
  BY <1>0, <1>4, ReadRecords DEF FreshOrStale, Honest
<1> QED BY <1>1, <1>2, <1>3, <1>4, StepKinds

\* Every scheduled device keeps its record.
LEMMA RecordedStep ==
  ASSUME TypeInv, Recorded, [Next]_vars
  PROVE  Recorded'
<1>1. CASE Reconciles
  BY <1>1 DEF Reconciles, Reconcile, NextSched, NextStore, NextVisible, Recorded
<1>2. CASE Forgets
  BY <1>2, ForgetTyped DEF Forgets, Recorded
<1>3. CASE Loads \/ Passes \/ Stop
  BY <1>3 DEF Loads, Passes, Stop, Recorded
<1>4. CASE StartTick
  BY <1>4, TicksKeepWires DEF StartTick, Recorded
<1>5. CASE \E id \in Ids : ReadDevice(id)
  BY <1>5, TicksKeepWires, ReadRecords DEF Recorded
<1> QED BY <1>1, <1>2, <1>3, <1>4, <1>5, StepKinds

\* Every configured device keeps its record.
LEMMA StoreCoversStep ==
  ASSUME TypeInv, Recorded, Recorded', StoreCoversConfig, [Next]_vars
  PROVE  StoreCoversConfig'
<1>1. CASE Reconciles
  <2>1. PICK c \in Configs, made \in Nat : Reconcile(c, made)
    BY <1>1 DEF Reconciles
  <2>2. Configured(c) \subseteq DOMAIN store' /\ cfg' = c
    BY <2>1 DEF Reconcile, NextStore, NextVisible
  <2> QED BY <2>2 DEF StoreCoversConfig, Recorded
<1>2. CASE Forgets \/ Loads \/ Stop
  BY <1>2 DEF Forgets, Loads, Stop, StoreCoversConfig, Up
<1>3. CASE Passes
  BY <1>3 DEF Passes, StoreCoversConfig
<1>4. CASE StartTick
  BY <1>4, TicksKeepWires DEF StartTick, StoreCoversConfig
<1>5. CASE \E id \in Ids : ReadDevice(id)
  BY <1>5, TicksKeepWires, ReadRecords DEF StoreCoversConfig
<1> QED BY <1>1, <1>2, <1>3, <1>4, <1>5, StepKinds

\* An entry with an unknown profile is met if it is the last one.
LEMMA LastUnknownIsMet ==
  ASSUME NEW c \in Configs, NEW id \in Configured(c), ~MeetsUnknown(c, id)
  PROVE  Known(LastEntry(c, id))
<1> DEFINE K == EntriesOf(c, id)
<1>1. K \subseteq 0..Len(c.devices) /\ K # {} /\ Len(c.devices) \in Nat
  BY ConfigAssumption DEF EntriesOf, Configured, Config
<1>2. \E k \in K : \A j \in K : j <= k
  BY <1>1, Greatest
<1>3. PICK k \in K : LastEntry(c, id) = c.devices[k]
  BY <1>2 DEF LastEntry
<1> QED BY <1>3 DEF MeetsUnknown

\* Whoever is not polled is offline because of an unknown profile.
LEMMA OnlineIsPolledStep ==
  ASSUME TypeInv, FreshOrStale, OnlineIsPolled, [Next]_vars
  PROVE  OnlineIsPolled'
<1>1. CASE Reconciles
  <2>1. PICK c \in Configs, made \in Nat : Reconcile(c, made)
    BY <1>1 DEF Reconciles
  <2>2. /\ store' = NextStore(c) /\ DOMAIN store' = NextVisible(c)
        /\ DOMAIN sched' = {i \in Configured(c) : Known(LastEntry(c, i))}
    BY <2>1 DEF Reconcile, NextStore, NextSched
  <2>3. ASSUME NEW id \in DOMAIN store' \ DOMAIN sched'
        PROVE  ~store'[id].online /\ store'[id].error = "unknown profile"
    <3>1. CASE id \in Configured(c)
      <4>1. MeetsUnknown(c, id)
        BY <2>2, <2>3, <3>1, LastUnknownIsMet
      <4> QED BY <2>2, <2>3, <3>1, <4>1, NextStoreRecords
    <3>2. CASE id \notin Configured(c)
      BY <2>2, <2>3, <3>2, NextStoreRecords DEF OnlineIsPolled
    <3> QED BY <3>1, <3>2
  <2> QED BY <2>3 DEF OnlineIsPolled
<1>2. CASE Forgets
  BY <1>2, ForgetTyped DEF Forgets, OnlineIsPolled
<1>3. CASE Loads \/ Passes \/ Stop
  BY <1>3 DEF Loads, Passes, Stop, OnlineIsPolled
<1>4. CASE StartTick
  BY <1>4, TicksKeepWires DEF StartTick, OnlineIsPolled
<1>5. CASE \E id \in Ids : ReadDevice(id)
  <2>1. PICK id \in Ids : ReadDevice(id)
    BY <1>5
  <2>2. id \in DOMAIN sched
    BY <2>1 DEF ReadDevice, TypeInv, TypeOK
  <2> QED BY <2>1, <2>2, TicksKeepWires, ReadRecords DEF OnlineIsPolled
<1> QED BY <1>1, <1>2, <1>3, <1>4, <1>5, StepKinds

\* Whoever is offline without a reason is about to be read.
LEMMA SilentOfflineStep ==
  ASSUME TypeInv, Recorded, FreshOrStale, SilentOffline, [Next]_vars
  PROVE  SilentOffline'
<1>1. CASE Reconciles
  <2>1. PICK c \in Configs, made \in Nat : Reconcile(c, made)
    BY <1>1 DEF Reconciles
  <2>2. /\ store' = NextStore(c) /\ DOMAIN store' = NextVisible(c)
        /\ DOMAIN sched' = {i \in Configured(c) : Known(LastEntry(c, i))}
        /\ \A id \in DOMAIN sched' : sched'[id].wait = NextWait(c, id)
        /\ pc' = "due"
    BY <1>1, <2>1 DEF Reconciles, Reconcile, NextStore, NextSched
  <2>3. ASSUME NEW id \in DOMAIN store',
               ~store'[id].online, store'[id].error = NoError
        PROVE  /\ store'[id].metrics = NoMetrics
               /\ id \in DOMAIN sched' /\ sched'[id].wait = 0
    <3>1. CASE id \notin Configured(c)
      BY <2>2, <2>3, <3>1, NextStoreRecords DEF SilentOffline
    <3>2. CASE id \in Configured(c)
      <4>1. ~MeetsUnknown(c, id)
        BY <2>2, <2>3, <3>2, NextStoreRecords DEF NoError
      <4>2. id \in DOMAIN sched'
        BY <2>2, <3>2, <4>1, LastUnknownIsMet
      <4>3. CASE id \in DOMAIN store
        <5>1. store[id].metrics = NoMetrics /\ sched[id].wait = 0
          BY <2>2, <2>3, <3>2, <4>1, <4>3, NextStoreRecords DEF SilentOffline
        <5> QED
          BY <2>2, <2>3, <3>2, <4>1, <4>2, <4>3, <5>1, NextStoreRecords
             DEF NextWait
      <4>4. CASE id \notin DOMAIN store
        BY <2>2, <2>3, <3>2, <4>2, <4>4, NextStoreRecords DEF NextWait, Recorded
      <4> QED BY <4>3, <4>4
    <3> QED BY <3>1, <3>2
  <2> QED BY <2>2, <2>3 DEF SilentOffline
<1>2. CASE Forgets
  BY <1>2, ForgetTyped DEF Forgets, SilentOffline
<1>3. CASE Loads \/ Passes \/ Stop
  BY <1>3 DEF Loads, Passes, Stop, SilentOffline
<1>4. CASE StartTick
  <2>1. PICK e \in Elapsed :
          /\ sched' = [id \in DOMAIN sched |->
                         [sched[id] EXCEPT !.wait = WaitLeft(@, e)]]
          /\ todo' = {id \in DOMAIN sched : sched'[id].wait = 0}
    BY <1>4 DEF StartTick
  <2>2. \A id \in DOMAIN sched :
          sched[id].wait = 0 => sched'[id].wait = 0 /\ id \in todo'
    <3>1. WaitLeft(0, e) = 0
      <4>1. e \in Nat
        BY ConstantsAssumption
      <4> QED BY <4>1 DEF WaitLeft
    <3>2. \A id \in DOMAIN sched : sched[id] \in SchedType
      BY DEF TypeInv, TypeOK, SchedType
    <3>3. \A id \in DOMAIN sched : sched'[id].wait = WaitLeft(sched[id].wait, e)
      BY <2>1, <3>2 DEF SchedType
    <3> QED BY <2>1, <3>1, <3>3
  <2> QED BY <1>4, <2>1, <2>2 DEF StartTick, SilentOffline
<1>5. CASE \E id \in Ids : ReadDevice(id)
  <2>1. PICK id \in Ids : ReadDevice(id)
    BY <1>5
  <2>2. \A i \in DOMAIN sched \ {id} : sched'[i] = sched[i]
    BY <2>1 DEF ReadDevice
  <2>3. todo' = todo \ {id} /\ pc = "tick" /\ pc' = "tick"
    BY <2>1 DEF ReadDevice
  <2> QED BY <2>1, <2>2, <2>3, TicksKeepWires, ReadRecords DEF SilentOffline
<1> QED BY <1>1, <1>2, <1>3, <1>4, <1>5, StepKinds

-----------------------------------------------------------------------------
(* The theorems.                                                           *)

IInv ==
  /\ TypeInv /\ Wired /\ OneClientPerPort /\ NoStaleConnection
  /\ Recorded /\ FreshOrStale /\ StoreCoversConfig /\ OnlineIsPolled
  /\ SilentOffline

\* The inductive invariant of the poll loop holds in every reachable state.
THEOREM Invariance == Spec => []IInv
<1>1. Init => IInv
  <2> SUFFICES ASSUME Init PROVE IInv
    OBVIOUS
  <2>1. TypeInv
    BY InitTyped
  <2>2. /\ DOMAIN buses = {} /\ DOMAIN sched = {} /\ DOMAIN store = {}
        /\ open = {} /\ pc = "start"
    BY DEF Init, EmptyMemory
  <2> QED BY <2>1, <2>2
          DEF IInv, Wired, OneClientPerPort, NoStaleConnection, Recorded,
              FreshOrStale, StoreCoversConfig, OnlineIsPolled, SilentOffline, Up
<1>2. IInv /\ [Next]_vars => IInv'
  <2> SUFFICES ASSUME IInv, [Next]_vars PROVE IInv'
    OBVIOUS
  <2>1. TypeInv'
    <3>1. CASE Next
      BY <3>1, LoopTyped, OtherStepsTyped DEF Next, IInv
    <3>2. CASE UNCHANGED vars
      BY <3>2 DEF vars, TypeInv, TypeOK, Quiet, IInv
    <3> QED BY <3>1, <3>2
  <2>2. Recorded'
    BY RecordedStep DEF IInv
  <2> QED
    BY <2>1, <2>2, WiredStep, OneClientStep, NoStaleConnectionStep,
       FreshOrStaleStep, StoreCoversStep, OnlineIsPolledStep, SilentOfflineStep
       DEF IInv
<1> QED BY <1>1, <1>2, PTL DEF Spec

\* Every variable of the poll loop keeps its type.
THEOREM TypeCorrect == Spec => []TypeOK
<1>1. IInv => TypeOK
  BY DEF IInv, TypeInv
<1> QED BY <1>1, Invariance, PTL

\* A device is never polled over a bus the configuration has replaced.
THEOREM BusesFollowConfig == Spec => []NoStaleConnection
<1>1. IInv => NoStaleConnection
  BY DEF IInv
<1> QED BY <1>1, Invariance, PTL

\* A port never has two clients, and none is left over that no bus owns.
THEOREM OneClientOnly == Spec => []OneClientPerPort
<1>1. IInv => OneClientPerPort
  BY DEF IInv
<1> QED BY <1>1, Invariance, PTL

\* What the API shows of a device is fresh, or marked stale.
THEOREM ReadingsAreHonest == Spec => []FreshOrStale
<1>1. IInv => FreshOrStale
  BY DEF IInv
<1> QED BY <1>1, Invariance, PTL

\* Every configured device is shown.
THEOREM EveryDeviceIsShown == Spec => []StoreCoversConfig
<1>1. IInv => StoreCoversConfig
  BY DEF IInv
<1> QED BY <1>1, Invariance, PTL

\* A device that is shown online is one the poll loop polls.
THEOREM OnlineMeansPolled == Spec => []OnlineIsPolled
<1>1. IInv => OnlineIsPolled
  BY DEF IInv
<1> QED BY <1>1, Invariance, PTL

\* A device shown offline without a reason has not been tried yet, and is due.
THEOREM NoSilentFailure == Spec => []SilentOffline
<1>1. IInv => SilentOffline
  BY DEF IInv
<1> QED BY <1>1, Invariance, PTL
=============================================================================
