--------------------------- MODULE TelemetryStore ---------------------------
(***************************************************************************)
(* telemetry.Store as it is built: a map of device records under one       *)
(* sync.RWMutex.  The poll loop is its only writer; HTTP handlers read     *)
(* copies.  A device's metrics are a Go map, a reference that RecordFailure *)
(* mutates in place and RecordSuccess replaces, so the model keeps a heap  *)
(* of metrics maps and both copies and updates go through it.              *)
(***************************************************************************)
EXTENDS Naturals, Sequences, FiniteSets

CONSTANTS Ids, Profiles, Keys, Times, Readers, All, None

\* A metrics map: empty after Register, of every metric after a poll.
Measurement == [value : Times, stale : BOOLEAN]

Metrics == {<<>>} \cup [Keys -> Measurement]

\* A device as a caller of the store sees it.
DeviceState ==
  [id : Ids, profile : Profiles, online : BOOLEAN, failed : BOOLEAN,
   lastRead : Times \cup {0}, metrics : Metrics]

\* Zero is the time of no poll, and a question is for one id, for all or none.
ASSUME StoreAssumption ==
  /\ 0 \notin Times /\ IsFiniteSet(Readers)
  /\ All \notin Ids /\ None \notin Ids \cup {All} /\ None \notin Seq(DeviceState)

VARIABLES
  devices,   \* id -> record; its metrics field is a reference into heap
  order,     \* ids in registration order
  heap,      \* reference -> metrics map, for the references in use
  call,      \* the poll loop's call on the store, or None
  wpc,       \* the poll loop: outside, waiting for the lock, or holding it
  unmarked,  \* metrics RecordFailure still has to flag stale
  readers    \* reader -> where it is, its question, what it has copied

vars == <<devices, order, heap, call, wpc, unmarked, readers>>

Idle == [pc |-> "idle", question |-> None, left |-> <<>>, out |-> <<>>]

Calls ==
  [op : {"Register"}, id : Ids, profile : Profiles]
    \cup [op : {"Remove", "RecordFailure"}, id : Ids]
    \cup [op : {"RecordSuccess"}, id : Ids, t : Times]

Holding == {r \in Readers : readers[r].pc = "copying"}

OutRefs(rs) ==
  UNION {{rs[r].out[n].ref : n \in DOMAIN rs[r].out} : r \in Readers}

\* References reachable from the store and from the copies readers hold; a map
\* that nothing reaches any longer is gone from the heap.
RefsIn(ds, rs) == {ds[id].ref : id \in DOMAIN ds} \cup OutRefs(rs)

Live == RefsIn(devices, readers)

\* make(map): a reference nothing holds.
FreshRef == CHOOSE n \in 1..(Cardinality(Live) + 1) : n \notin Live

WithMap(ref, metrics) ==
  [n \in DOMAIN heap \cup {ref} |-> IF n = ref THEN metrics ELSE heap[n]]

-----------------------------------------------------------------------------
(* sync.RWMutex: a waiting writer keeps later readers out; its Unlock lets  *)
(* in the readers that queued behind it.                                   *)

Begin(c) ==
  /\ wpc = "outside"
  /\ call' = c /\ wpc' = "waiting"
  /\ UNCHANGED <<devices, order, heap, unmarked, readers>>

\* The devices a reader copies for its question, in registration order.
Targets(question) ==
  IF question = All THEN order
  ELSE IF question \in DOMAIN devices THEN <<question>> ELSE <<>>

Entered(question) ==
  [pc |-> "copying", question |-> question, left |-> Targets(question),
   out |-> <<>>]

\* Fault: the poll loop writes without waiting for the readers.
ReadersIgnored == TRUE

LockFree == Holding = {}

LetIn(reader) == IF reader.pc = "blocked" THEN Entered(reader.question) ELSE reader

Absent == call.id \notin DOMAIN devices

\* Fault: the early return for an unknown device keeps the lock.
KeptWhenAbsent == unmarked = {} /\ ~Absent

BodyDone == unmarked = {}

Unlock ==
  /\ wpc = "holding" /\ BodyDone
  /\ wpc' = "outside" /\ call' = None
  /\ readers' = [r \in Readers |-> LetIn(readers[r])]
  /\ UNCHANGED <<devices, order, heap, unmarked>>

-----------------------------------------------------------------------------
(* The calls of the poll loop: Lock, then the body.                        *)

Locked(op) == wpc = "waiting" /\ LockFree /\ call.op = op /\ wpc' = "holding"

\* Register preserves the runtime state of a device it already has.
Register ==
  /\ Locked("Register")
  /\ \/ /\ ~Absent
        /\ devices' = [devices EXCEPT ![call.id].profile = call.profile]
        /\ UNCHANGED <<order, heap>>
     \/ /\ Absent
        /\ devices' = [id \in DOMAIN devices \cup {call.id} |->
             IF id # call.id THEN devices[id]
             ELSE [id |-> id, profile |-> call.profile, online |-> FALSE,
                   failed |-> FALSE, lastRead |-> 0, ref |-> FreshRef]]
        /\ order' = Append(order, call.id)
        /\ heap' = WithMap(FreshRef, <<>>)
  /\ UNCHANGED <<call, unmarked, readers>>

\* Fault: the id stays in the registration order.
KeptInOrder(id) == order

Place(id) ==
  CHOOSE n \in DOMAIN order :
    order[n] = id /\ \A m \in DOMAIN order : order[m] = id => n <= m

OrderWithout(id) ==
  SubSeq(order, 1, Place(id) - 1) \o SubSeq(order, Place(id) + 1, Len(order))

Remove ==
  /\ Locked("Remove")
  /\ \/ Absent /\ UNCHANGED <<devices, order, heap>>
     \/ /\ ~Absent
        /\ devices' = [id \in DOMAIN devices \ {call.id} |-> devices[id]]
        /\ order' = OrderWithout(call.id)
        /\ heap' = [n \in RefsIn(devices', readers) |-> heap[n]]
  /\ UNCHANGED <<call, unmarked, readers>>

\* The map the poll loop built replaces the old one.
RecordSuccess ==
  /\ Locked("RecordSuccess")
  /\ \/ Absent /\ UNCHANGED <<devices, heap>>
     \/ /\ ~Absent
        /\ devices' = [devices EXCEPT ![call.id].online = TRUE,
                                      ![call.id].failed = FALSE,
                                      ![call.id].lastRead = call.t,
                                      ![call.id].ref = FreshRef]
        /\ heap' = [n \in RefsIn(devices', readers) |->
             WithMap(FreshRef,
                     [k \in Keys |-> [value |-> call.t, stale |-> FALSE]])[n]]
  /\ UNCHANGED <<order, call, unmarked, readers>>

RecordFailure ==
  /\ Locked("RecordFailure")
  /\ \/ Absent /\ UNCHANGED <<devices, unmarked>>
     \/ /\ ~Absent
        /\ devices' = [devices EXCEPT ![call.id].online = FALSE,
                                      ![call.id].failed = TRUE]
        /\ unmarked' = DOMAIN heap[devices[call.id].ref]
  /\ UNCHANGED <<order, heap, call, readers>>

\* One round of RecordFailure's loop over the metrics map, in any order.
MarkStale(k) ==
  /\ wpc = "holding" /\ k \in unmarked
  /\ heap' = [heap EXCEPT ![devices[call.id].ref][k].stale = TRUE]
  /\ unmarked' = unmarked \ {k}
  /\ UNCHANGED <<devices, order, call, wpc, readers>>

-----------------------------------------------------------------------------
(* Snapshot and Get, then the handler that encodes the result.             *)

\* RLock: enter unless a writer holds the lock or waits for it.
Ask(r, question) ==
  /\ readers[r].pc = "idle"
  /\ readers' = [readers EXCEPT ![r] =
       IF wpc = "outside" THEN Entered(question)
       ELSE [Idle EXCEPT !.pc = "blocked", !.question = question]]
  /\ UNCHANGED <<devices, order, heap, call, wpc, unmarked>>

\* Fault: the struct is copied, its metrics map is shared.
SharedMap(id) == devices[id].ref

\* copy makes a metrics map of its own.
CopiedMap(id) == FreshRef

CopyDevice(r) ==
  /\ readers[r].pc = "copying" /\ readers[r].left # <<>>
  /\ LET id == Head(readers[r].left)
     IN  /\ id \in DOMAIN devices
         /\ readers' = [readers EXCEPT
              ![r].left = Tail(@),
              ![r].out = Append(@, [devices[id] EXCEPT !.ref = CopiedMap(id)])]
         /\ heap' = WithMap(CopiedMap(id), heap[devices[id].ref])
  /\ UNCHANGED <<devices, order, call, wpc, unmarked>>

\* Fault: the early return of Get for an unknown device keeps the lock.
KeptWhenUnknown(r) == readers[r].left = <<>> /\ readers[r].out # <<>>

CopyDone(r) == readers[r].left = <<>>

\* RUnlock and return.
RUnlock(r) ==
  /\ readers[r].pc = "copying" /\ CopyDone(r)
  /\ readers' = [readers EXCEPT ![r].pc = "encoding"]
  /\ UNCHANGED <<devices, order, heap, call, wpc, unmarked>>

\* writeJSON is done with the copy.
Respond(r) ==
  /\ readers[r].pc = "encoding"
  /\ readers' = [readers EXCEPT ![r] = Idle]
  /\ heap' = [n \in RefsIn(devices, readers') |-> heap[n]]
  /\ UNCHANGED <<devices, order, call, wpc, unmarked>>

-----------------------------------------------------------------------------
Init ==
  /\ devices = <<>> /\ order = <<>> /\ heap = <<>>
  /\ call = None /\ wpc = "outside" /\ unmarked = {}
  /\ readers = [r \in Readers |-> Idle]

WriterStep ==
  \/ Register \/ Remove \/ RecordSuccess \/ RecordFailure
  \/ \E k \in Keys : MarkStale(k)
  \/ Unlock

ReaderStep(r) == CopyDevice(r) \/ RUnlock(r) \/ Respond(r)

Next ==
  \/ \E c \in Calls : Begin(c)
  \/ WriterStep
  \/ \E r \in Readers, question \in Ids \cup {All} : Ask(r, question)
  \/ \E r \in Readers : ReaderStep(r)

Spec == Init /\ [][Next]_vars

\* A goroutine that is inside the store, or encodes its copy, goes on.
FairSpec ==
  Spec /\ WF_vars(WriterStep) /\ \A r \in Readers : WF_vars(ReaderStep(r))

-----------------------------------------------------------------------------
(* Properties.                                                             *)

Record == [id : Ids, profile : Profiles, online : BOOLEAN, failed : BOOLEAN,
           lastRead : Times \cup {0}, ref : Nat \ {0}]

ReaderStates == {"idle", "blocked", "copying", "encoding"}

\* Every variable has its type; the registration order lists each device once,
\* and the heap holds exactly the maps somebody refers to.
TypeOK ==
  /\ DOMAIN devices \subseteq Ids
  /\ \A id \in DOMAIN devices : devices[id] \in Record /\ devices[id].id = id
  /\ {order[n] : n \in DOMAIN order} = DOMAIN devices
  /\ Len(order) = Cardinality(DOMAIN devices)
  /\ DOMAIN heap = Live
  /\ \A n \in DOMAIN heap : \A k \in DOMAIN heap[n] :
       k \in Keys /\ heap[n][k] \in Measurement
  /\ call \in Calls \cup {None}
  /\ wpc \in {"outside", "waiting", "holding"}
  /\ unmarked \subseteq Keys
  /\ \A r \in Readers :
       /\ readers[r].pc \in ReaderStates
       /\ \A n \in DOMAIN readers[r].out : readers[r].out[n] \in Record

\* A copy never mixes two polls: all its values are of its last_read, and they
\* are stale exactly when the device is offline.
NoTornReading ==
  \A r \in Readers : \A n \in DOMAIN readers[r].out :
    LET d == readers[r].out[n]
    IN  \A k \in DOMAIN heap[d.ref] :
          heap[d.ref][k] = [value |-> d.lastRead, stale |-> ~d.online]

\* Snapshot dereferences devices[id] for each id of the order: there is one.
NoNilDereference ==
  \A r \in Readers : \A n \in DOMAIN readers[r].left :
    readers[r].left[n] \in DOMAIN devices

\* A copy as its holder reads it.
View(d) ==
  [id |-> d.id, profile |-> d.profile, online |-> d.online,
   failed |-> d.failed, lastRead |-> d.lastRead, metrics |-> heap[d.ref]]

Views(r) == [n \in DOMAIN readers[r].out |-> View(readers[r].out[n])]

\* "No aliasing": what a handler encodes does not change under its hands.
CopyIsPrivate ==
  [][\A r \in Readers :
       readers[r].pc = "encoding" /\ readers'[r].pc = "encoding"
         => Views(r)' = Views(r)]_vars

\* HTTP traffic cannot keep the poll loop out of the store for ever.
PollLoopNotStarved == wpc = "waiting" ~> wpc = "outside"

\* Every handler that asks gets its answer.
HandlersAnswered == \A r \in Readers : readers[r].pc # "idle" ~> readers[r].pc = "idle"

\* A failure takes effect when its lock is taken, an answer when the last device
\* is copied and the read lock released.
Marked(id, metrics) ==
  IF unmarked # {} /\ call.id = id
    THEN [k \in DOMAIN metrics |-> [metrics[k] EXCEPT !.stale = TRUE]]
    ELSE metrics

Atomic == INSTANCE StoreSpec WITH
  known  <- [id \in DOMAIN devices |->
               [View(devices[id]) EXCEPT !.metrics = Marked(id, @)]],
  asked  <- [r \in Readers |-> readers[r].question],
  answer <- [r \in Readers |->
               IF readers[r].pc = "encoding" THEN Views(r) ELSE None]

\* Register, Remove, RecordSuccess, RecordFailure, Snapshot and Get take effect
\* at once, each at one moment between call and return.
Linearizable == Atomic!Spec
=============================================================================
