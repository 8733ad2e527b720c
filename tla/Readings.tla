------------------------------ MODULE Readings ------------------------------
(***************************************************************************)
(* A reading from the wire to the API: the poll loop reads a device one    *)
(* profile entry at a time (internal/rtu/reader.go), decodes it (Profile), *)
(* and stores the outcome (poller.go, internal/telemetry/telemetry.go);    *)
(* the measurement endpoints answer from the store                         *)
(* (internal/api/server.go).  The devices change their registers           *)
(* meanwhile.  One poll loop; scheduling and configuration changes are the *)
(* subject of Poller, the store's locking that of TelemetryStore.          *)
(***************************************************************************)
EXTENDS Profile

CONSTANTS
  Directories,   \* profiles directories: sequences of files
  DeviceOrder,   \* the configured devices, in order of registration
  ProfileOf,     \* device -> profile id
  Mock,          \* devices with the port "mock"
  Memories,      \* what a device's registers may hold
  MaxQuantity,   \* registers the Modbus library reads at once (125)
  Unencodable,   \* float32 bit patterns JSON has no number for
  Requests       \* what clients ask of the measurement endpoints

Devices == {DeviceOrder[k] : k \in DOMAIN DeviceOrder}

\* A file that can be parsed has fields of the types of Profile and Register.
Parsed(file) ==
  /\ "registers" \in DOMAIN file
  /\ Len(file.registers) \in Nat /\ DOMAIN file.registers = 1 .. Len(file.registers)
  /\ \A k \in DOMAIN file.registers :
       LET r == file.registers[k]
       IN /\ r.address \in 0 .. Base - 1 /\ {r.count, r.stride, r.start} \subseteq Int
          /\ IsFiniteSet(r.flags)

\* The library's words are numbers, its maps are indexed by register type; its
\* limit is far below the number of addresses.  A batch is a list of selectors.
ASSUME ReadingsAssumption ==
  /\ Mock \subseteq Devices /\ DOMAIN ProfileOf = Devices
  /\ MaxQuantity \in Nat /\ MaxQuantity < Base
  /\ \A files \in Directories : \A k \in DOMAIN files :
       files[k] # Unreadable => Parsed(files[k])
  /\ \A m \in Memories : \A t \in {"input", "holding"} :
       m[t] \in [0 .. Base - 1 -> 0 .. Base - 1]
  /\ \A request \in Requests : request.op = "batch" /\ request.selectors # None =>
       /\ Len(request.selectors) \in Nat
       /\ DOMAIN request.selectors = 1 .. Len(request.selectors)

VARIABLES
  directory,  \* the profiles directory
  proc,       \* the process: "up", "down", or "panicked" until restarted
  profiles,   \* what it loaded
  memory,     \* serial device -> what its registers hold
  reading,    \* the reading in progress, or None
  store,      \* device -> its DeviceState, as far as the API answers from it
  basis,      \* history: device -> memories held during its last good reading
  answer      \* the answer just given, or None

vars == <<directory, proc, profiles, memory, reading, store, basis, answer>>

Fresh == [online |-> FALSE, error |-> "", metrics |-> <<>>]

Known(d) == ProfileOf[d] \in DOMAIN profiles
ProfileFor(d) == profiles[ProfileOf[d]]

Init ==
  /\ directory \in Directories /\ proc = "down" /\ profiles = <<>>
  /\ memory \in [Devices \ Mock -> Memories]
  /\ reading = None /\ store = <<>> /\ basis = <<>> /\ answer = None

\* Fault: a directory that does not load leaves the process without profiles.
LoadedOrNothing == IF Load(directory) = None THEN <<>> ELSE Load(directory)

Loaded == Load(directory)

\* systemd starts the process; a directory that does not load ends it again.
Start ==
  /\ proc # "up" /\ Loaded # None
  /\ proc' = "up" /\ profiles' = Loaded
  /\ store' = [d \in Devices |-> [Fresh EXCEPT
       !.error = IF ProfileOf[d] \in DOMAIN profiles' THEN "" ELSE "unknown profile"]]
  /\ basis' = [d \in Devices |-> {}]
  /\ reading' = None /\ answer' = None
  /\ UNCHANGED <<directory, memory>>

-----------------------------------------------------------------------------
(* The store.                                                              *)

RecordSuccess(d, metrics) == [online |-> TRUE, error |-> "", metrics |-> metrics]

\* One map entry per metric name; a later sample replaces an earlier one.
Collapsed(samples) ==
  LET At(m) == {k \in DOMAIN samples : samples[k].metric = m}
      Latest(m) == CHOOSE k \in At(m) : \A j \in At(m) : j <= k
  IN [m \in {samples[k].metric : k \in DOMAIN samples} |->
        [value |-> samples[Latest(m)].value, stale |-> FALSE]]

\* Fault: a failed reading leaves the metrics it got to.
PartialFailure(d, reason) ==
  [online |-> FALSE, error |-> reason,
   metrics |-> [m \in DOMAIN Collapsed(reading.samples) |->
                  [Collapsed(reading.samples)[m] EXCEPT !.stale = TRUE]]]

RecordFailure(d, reason) ==
  [online |-> FALSE, error |-> reason,
   metrics |-> [m \in DOMAIN store[d].metrics |->
                  [store[d].metrics[m] EXCEPT !.stale = TRUE]]]

-----------------------------------------------------------------------------
(* Bus.Read and Poller.read.                                               *)

StartRead(d) ==
  /\ proc = "up" /\ reading = None /\ Known(d) /\ d \notin Mock
  /\ reading' = [device |-> d, next |-> 1, samples |-> <<>>, held |-> {memory[d]}]
  /\ answer' = None
  /\ UNCHANGED <<directory, proc, profiles, memory, store, basis>>

Entry == ProfileFor(reading.device).registers[reading.next]

InProgress ==
  /\ proc = "up" /\ reading # None /\ answer' = None
  /\ reading.next \in DOMAIN ProfileFor(reading.device).registers

\* What the library refuses to send.
Sendable == /\ RegisterCount(Entry) \in 1 .. MaxQuantity
            /\ Entry.address + RegisterCount(Entry) <= Base

\* One request: its words are read together, unlike those of two requests.
Raw ==
  LET type == IF ProfileFor(reading.device).register_type = "input"
              THEN "input" ELSE "holding"
  IN [k \in 1 .. RegisterCount(Entry) |->
        memory[reading.device][type][Entry.address + k - 1]]

Outcomes == Decode(Entry, Raw, ProfileFor(reading.device).word_order)

ReadRegister ==
  /\ InProgress /\ Sendable
  /\ \E outcome \in Outcomes :
       /\ outcome.status = "ok"
       /\ reading' = [reading EXCEPT !.next = @ + 1,
                                     !.samples = @ \o outcome.readings]
  /\ UNCHANGED <<directory, proc, profiles, memory, store, basis>>

FailRead(reason) ==
  /\ store' = [store EXCEPT ![reading.device] = RecordFailure(reading.device, reason)]
  /\ reading' = None
  /\ UNCHANGED <<directory, proc, profiles, memory, basis>>

Refused == InProgress /\ ~Sendable /\ FailRead("refused")
WireFails == InProgress /\ FailRead("wire")
Undecodable ==
  /\ InProgress /\ Sendable /\ \E outcome \in Outcomes : outcome.status = "error"
  /\ FailRead("decode")

\* Nothing recovers a panic of the poll loop: the process ends.
Panic ==
  /\ InProgress /\ Sendable /\ \E outcome \in Outcomes : outcome.status = "panic"
  /\ proc' = "panicked" /\ reading' = None
  /\ profiles' = <<>> /\ store' = <<>> /\ basis' = <<>>
  /\ UNCHANGED <<directory, memory>>

Finish ==
  /\ proc = "up" /\ reading # None
  /\ reading.next > Len(ProfileFor(reading.device).registers)
  /\ store' = [store EXCEPT
       ![reading.device] = RecordSuccess(reading.device, Collapsed(reading.samples))]
  /\ basis' = [basis EXCEPT ![reading.device] = reading.held]
  /\ reading' = None /\ answer' = None
  /\ UNCHANGED <<directory, proc, profiles, memory>>

\* mockRead: one made-up number per profile entry, whatever its type.
PollMock(d) ==
  LET registers == ProfileFor(d).registers
  IN /\ proc = "up" /\ reading = None /\ d \in Mock /\ Known(d)
     /\ store' = [store EXCEPT ![d] = RecordSuccess(d, Collapsed(
          [k \in DOMAIN registers |-> [metric |-> <<registers[k].metric>>,
                                       value |-> [number |-> 0]]]))]
     /\ answer' = None
     /\ UNCHANGED <<directory, proc, profiles, memory, reading, basis>>

DeviceChanges(d) ==
  /\ d \notin Mock /\ answer' = None
  /\ \E m \in Memories :
       /\ m # memory[d]
       /\ memory' = [memory EXCEPT ![d] = m]
       /\ reading' = IF reading # None /\ reading.device = d
                     THEN [reading EXCEPT !.held = @ \cup {m}] ELSE reading
  /\ UNCHANGED <<directory, proc, profiles, store, basis>>

-----------------------------------------------------------------------------
(* The measurement endpoints.                                              *)

Asked(s) == {s[k] : k \in DOMAIN s}

\* measurementMap, and what it reports missing.
Shown(d, filter) ==
  LET metrics == store[d].metrics
  IN [m \in IF filter = <<>> THEN DOMAIN metrics
            ELSE Asked(filter) \cap DOMAIN metrics |-> metrics[m]]

\* Fault: a device that was never read has nothing missing.
MissingOnceRead(d, filter) ==
  IF store[d].metrics = <<>> THEN {} ELSE Asked(filter) \ DOMAIN store[d].metrics

MissingOf(d, filter) == Asked(filter) \ DOMAIN store[d].metrics

Part(d, filter) == [device |-> d, online |-> store[d].online,
                    error |-> store[d].error, measurements |-> Shown(d, filter)]

\* The order of what a batch misses is that of the request, and left out.
Unmatched(selectors) ==
  LET Misses(id) == {k \in DOMAIN selectors :
        selectors[k].id = id /\ MissingOf(id, selectors[k].metrics) # {}}
      \* a later selector of a device replaces what an earlier one missed
      Latest(id) == CHOOSE k \in Misses(id) : \A j \in Misses(id) : j <= k
  IN [devices |-> {selectors[k].id : k \in DOMAIN selectors} \ Devices,
      metrics |-> [id \in {d \in Devices : Misses(d) # {}} |->
                     MissingOf(id, selectors[Latest(id)].metrics)]]

\* A part for each device, or for each selector of a device that is known.
Batch(selectors) ==
  IF selectors = <<>>
  THEN [devices |-> [k \in DOMAIN DeviceOrder |-> Part(DeviceOrder[k], <<>>)],
        unmatched |-> [devices |-> {}, metrics |-> <<>>]]
  ELSE [devices |-> [k \in {j \in DOMAIN selectors : selectors[j].id \in Devices} |->
                       Part(selectors[k].id, selectors[k].metrics)],
        unmatched |-> Unmatched(selectors)]

Encodable(part) ==
  \A m \in DOMAIN part.measurements :
    LET value == part.measurements[m].value
    IN "float" \in DOMAIN value => value.float \notin Unencodable

\* writeJSON: the status line is out before the body fails to encode.
Reply(request, status, parts, body) ==
  [request |-> request, status |-> status,
   body |-> IF \A k \in DOMAIN parts : Encodable(parts[k]) THEN body ELSE None]

DeviceMeasurements(request) ==
  IF request.id \in Devices
  THEN Reply(request, 200, <<Part(request.id, <<>>)>>, Part(request.id, <<>>))
  ELSE Reply(request, 404, <<>>, [error |-> "unknown device"])

BatchPoll(request) ==
  LET body == Batch(request.selectors)
  IN IF request.selectors = None
     THEN Reply(request, 400, <<>>, [error |-> "invalid JSON body"])
     ELSE Reply(request, 200, body.devices, body)

Ask ==
  /\ proc = "up" /\ answer = None
  /\ \E request \in Requests :
       answer' = IF request.op = "device" THEN DeviceMeasurements(request)
                 ELSE BatchPoll(request)
  /\ UNCHANGED <<directory, proc, profiles, memory, reading, store, basis>>

Next ==
  \/ Start \/ ReadRegister \/ Refused \/ WireFails \/ Undecodable \/ Panic
  \/ Finish \/ Ask
  \/ \E d \in Devices : StartRead(d) \/ PollMock(d) \/ DeviceChanges(d)

Spec == Init /\ [][Next]_vars

-----------------------------------------------------------------------------
(* What a profile promises, stated by encoding values into words.          *)

\* The numbers of a type, and the words a device holds for one of them.
Span(t) == IF t \in Wide THEN Base * Base ELSE Base
NumbersOf(t) ==
  IF t \in {"int16", "int32"} THEN -(Span(t) \div 2) .. Span(t) \div 2 - 1
  ELSE 0 .. Span(t) - 1
Encoded(t, wo, n) ==
  LET bits == n % Span(t)
      high == bits \div Base
      low == bits % Base
  IN IF t \notin Wide THEN <<low>>
     ELSE IF wo = "low_first" THEN <<low, high>> ELSE <<high, low>>

Factor(r) == IF r.scale = 0 THEN 1 ELSE r.scale

NumberMeans(t, r, wo, held, value) ==
  \E n \in NumbersOf(t) :
    /\ Encoded(t, wo, n) = held
    /\ value = IF t = "float32" THEN [float |-> n, factor |-> Factor(r)]
               ELSE [number |-> n * Factor(r)]

\* The bits set in a word, which is the sum of their powers of two.
BitsOf(word) ==
  {b \in 0 .. WordBits - 1 :
     \E high, low \in 0 .. word : low < 2 ^ b /\ word = (2 * high + 1) * 2 ^ b + low}

Width(t) == IF t \in Wide THEN 2 ELSE 1
Step(r) == IF r.stride > 0 THEN r.stride ELSE Width(r.element)

\* Where the metrics of an entry lie: each name with an offset.
Places(r) ==
  IF r.type = "array"
  THEN {<< <<r.metric, ToString(FirstIndex(r) + i)>>, i * Step(r) >> : i \in 0 .. r.count - 1}
  ELSE IF r.type = "bitflags" THEN {<< <<label(r), f[2]>>, 0 >> : f \in r.flags}
  ELSE {<< <<r.metric>>, 0 >>}

Names(r) == {place[1] : place \in Places(r)}
Described(p) == UNION {Names(p.registers[k]) : k \in DOMAIN p.registers}

\* What the words at an address mean.
WordsMean(p, r, mem, at, m, value) ==
  LET words == mem[IF p.register_type = "input" THEN "input" ELSE "holding"]
      word == words[at]
      Held(t) == [k \in 1 .. Width(t) |-> words[at + k - 1]]
  IN CASE r.type \in Numeric -> NumberMeans(r.type, r, p.word_order, Held(r.type), value)
       [] r.type = "array" -> NumberMeans(r.element, r, p.word_order, Held(r.element), value)
       [] r.type = "enum" ->
            value = [label |-> IF word \in DOMAIN r.values THEN r.values[word]
                               ELSE "unknown(" \o ToString(word) \o ")"]
       [] r.type = "bool" ->
            value = [flag |-> IF r.bit = {} THEN word # 0 ELSE r.bit \cap BitsOf(word) # {}]
       [] r.type = "bitflags" ->
            \E f \in r.flags : f[2] = m[2] /\ value = [flag |-> f[1] \in BitsOf(word)]

\* Words beyond the address range are nobody's.
Means(p, mem, m, value) ==
  \E k \in DOMAIN p.registers :
    LET r == p.registers[k]
        width == Width(IF r.type = "array" THEN r.element ELSE r.type)
    IN \E place \in Places(r) :
         /\ place[1] = m /\ r.address + place[2] + width <= Base
         /\ WordsMean(p, r, mem, r.address + place[2], m, value)

Extent(r) == IF r.type = "array" THEN (r.count - 1) * Step(r) + Width(r.element)
             ELSE Width(r.type)

\* What the code's acceptance of a profile leaves unchecked.
Sound(p) ==
  \A k \in DOMAIN p.registers :
    LET r == p.registers[k]
    IN /\ Extent(r) <= MaxQuantity /\ r.address + Extent(r) <= Base
       /\ r.type = "bitflags" => \A f \in r.flags : f[1] \in 0 .. WordBits - 1

-----------------------------------------------------------------------------

Serial == DOMAIN store \ Mock

\* Types of the variables.
TypeOK ==
  /\ directory \in Directories /\ proc \in {"up", "down", "panicked"}
  /\ profiles = IF proc = "up" THEN Load(directory) ELSE <<>>
  /\ memory \in [Devices \ Mock -> Memories]
  /\ DOMAIN store = IF proc = "up" THEN Devices ELSE {}
  /\ DOMAIN basis = DOMAIN store
  /\ \A d \in DOMAIN store :
       /\ store[d].online \in BOOLEAN /\ basis[d] \subseteq Memories
       /\ store[d].error \in {"", "unknown profile", "wire", "refused", "decode"}
  /\ reading # None => reading.held # {} /\ reading.held \subseteq Memories

\* Every value the store shows of a serial device, stale ones included, is what
\* its profile says of words the device held during its last successful
\* reading: decoding (Decode, combine32, the array arithmetic) undoes the
\* device's encoding, and no failed reading leaves a trace.
HonestValues ==
  \A d \in Serial : \A m \in DOMAIN store[d].metrics :
    \E mem \in basis[d] :
      Means(ProfileFor(d), mem, m, store[d].metrics[m].value)

\* A reading is stored whole or not at all, wherever it fails (Bus.Read): a
\* device that was read shows every metric its profile describes, whatever
\* failed since, and no device ever shows a part of them.  Whatever is shown is
\* stale exactly while the device is offline.  What a device shows before its
\* first successful reading is left open here: the docs promise null for each
\* of its metrics, the code has none (README, differences).
AllOrNothing ==
  \A d \in Serial :
    LET metrics == store[d].metrics
    IN /\ (metrics # <<>> \/ basis[d] # {}) => DOMAIN metrics = Described(ProfileFor(d))
       /\ \A m \in DOMAIN metrics : metrics[m].stale = ~store[d].online

\* With profiles whose arrays fit one request and whose flag bits exist, every
\* failed reading is the wire's: RegisterCount asks for what Decode needs, the
\* library accepts it, and no poll panics.  Neither condition is checked by
\* Profile.validate, and without them a profile keeps its device offline or
\* ends the process at every poll.
OnlyTheWireFails ==
  (Loaded # None /\ \A id \in DOMAIN Loaded : Sound(Loaded[id]))
    => /\ proc # "panicked"
       /\ \A d \in DOMAIN store : store[d].error \notin {"refused", "decode"}

\* No later selector is of the same device.
LastOfItsDevice(selectors, k) ==
  \A j \in DOMAIN selectors : selectors[j].id = selectors[k].id => j <= k

\* A batch accounts for all it asks: a device is reported or unmatched, and each
\* metric that the last selector of a reported device asks for is shown or
\* missing, also while the device was never read (handleBatch).
BatchAccounts ==
  (answer # None /\ answer.status = 200 /\ answer.body # None
     /\ answer.request.op = "batch") =>
    LET body == answer.body
        selectors == answer.request.selectors
    IN \A k \in DOMAIN selectors :
         \/ selectors[k].id \in body.unmatched.devices
         \/ \E p \in DOMAIN body.devices :
              /\ body.devices[p].device = selectors[k].id
              /\ LastOfItsDevice(selectors, k) =>
                   \A m \in Asked(selectors[k].metrics) :
                     \/ m \in DOMAIN body.devices[p].measurements
                     \/ /\ selectors[k].id \in DOMAIN body.unmatched.metrics
                        /\ m \in body.unmatched.metrics[selectors[k].id]

\* docs/api.md on the batch endpoint: the response is always 200, and
\* application/json.
BatchAnswered ==
  (answer # None /\ answer.request.op = "batch" /\ answer.status = 200)
    => answer.body # None
=============================================================================
