------------------------ MODULE TelemetryStoreProofs ------------------------
(***************************************************************************)
(* What holds of the telemetry store for every set of devices, metrics and *)
(* times, and any finite number of handlers that read: the lock keeps the  *)
(* poll loop and the readers apart, no copy mixes two polls, a copy is its *)
(* reader's own, and every call takes effect at one moment.                *)
(***************************************************************************)
EXTENDS TelemetryStore, IndexLemmas, FiniteSetTheorems

Reader == [pc : ReaderStates, question : Ids \cup {All, None},
           left : Seq(Ids), out : Seq(Record)]

-----------------------------------------------------------------------------
(* The inductive invariant.                                                *)

DevicesTyped ==
  /\ devices \in [DOMAIN devices -> Record] /\ DOMAIN devices \subseteq Ids
  /\ \A id \in DOMAIN devices : devices[id].id = id

\* The registration order lists each device once.
OrderTyped ==
  /\ order \in Seq(Ids)
  /\ \A n \in DOMAIN order : order[n] \in DOMAIN devices
  /\ \A id \in DOMAIN devices : \E n \in DOMAIN order : order[n] = id
  /\ \A m, n \in DOMAIN order : order[m] = order[n] => m = n

HeapTyped == heap \in [Live -> Metrics]

\* Where the poll loop and the readers are.
CallsTyped ==
  /\ wpc \in {"outside", "waiting", "holding"}
  /\ call \in Calls \cup {None} /\ (wpc # "outside" => call \in Calls)
  /\ readers \in [Readers -> Reader]
  /\ \A r \in Readers :
       /\ readers[r].pc = "idle" <=> readers[r].question = None
       /\ readers[r].pc # "copying" => readers[r].left = <<>>
       /\ readers[r].pc \in {"idle", "blocked"} => readers[r].out = <<>>

TypeInv == DevicesTyped /\ OrderTyped /\ HeapTyped /\ CallsTyped

\* The writer has the store alone.
Exclusion == wpc = "holding" => Holding = {}

\* No two devices share a metrics map, and no copy shares one with a device.
NoAliases ==
  /\ \A i, j \in DOMAIN devices : devices[i].ref = devices[j].ref => i = j
  /\ \A r \in Readers : \A n \in DOMAIN readers[r].out : \A id \in DOMAIN devices :
       readers[r].out[n].ref # devices[id].ref

\* RecordFailure flags metrics of a device that is offline already.
Marking ==
  /\ unmarked \subseteq Keys
  /\ unmarked # {} =>
       /\ wpc = "holding" /\ call.op = "RecordFailure" /\ ~Absent
       /\ ~devices[call.id].online

\* Outside that loop a device's metrics are of its last poll, and stale exactly
\* when it is offline.
Pending(id, k) == k \in unmarked /\ call.id = id

Consistent ==
  \A id \in DOMAIN devices : \A k \in DOMAIN heap[devices[id].ref] :
    /\ heap[devices[id].ref][k].value = devices[id].lastRead
    /\ Pending(id, k) \/ heap[devices[id].ref][k].stale = ~devices[id].online

\* Targets and View, of any devices, order and heap.
Asked(ds, ord, question) ==
  IF question = All THEN ord
  ELSE IF question \in DOMAIN ds THEN <<question>> ELSE <<>>

Shown(h, d) ==
  [id |-> d.id, profile |-> d.profile, online |-> d.online,
   failed |-> d.failed, lastRead |-> d.lastRead, metrics |-> h[d.ref]]

\* A reader inside the store has copied the first of its devices as they are,
\* and the rest are left.
Copied(q, ds, ord, h) ==
  LET t == Asked(ds, ord, q.question)
  IN  /\ Len(t) = Len(q.out) + Len(q.left)
      /\ \A n \in 1..Len(q.out) : Shown(h, q.out[n]) = Shown(h, ds[t[n]])
      /\ \A n \in 1..Len(q.left) : q.left[n] = t[Len(q.out) + n]

CopiesCurrent == \A r \in Holding : Copied(readers[r], devices, order, heap)

IInv ==
  /\ TypeInv /\ Exclusion /\ NoAliases /\ Marking /\ Consistent
  /\ NoTornReading /\ CopiesCurrent

-----------------------------------------------------------------------------
(* References.                                                             *)

\* The assumptions on the constants that the proofs use.
LEMMA Constants ==
  /\ 0 \notin Times /\ IsFiniteSet(Readers) /\ All \notin Ids
  /\ None \notin Ids /\ None # All /\ None \notin Seq(DeviceState)
<1>1. None \notin Ids \cup {All}
  BY StoreAssumption
<1>2. None \notin Ids /\ None # All
  BY <1>1
<1> QED BY <1>2, StoreAssumption

\* The image of a finite set is finite.
LEMMA ImageFinite ==
  ASSUME NEW S, IsFiniteSet(S), NEW f, f = [x \in S |-> f[x]]
  PROVE  IsFiniteSet({f[x] : x \in S})
<1> DEFINE T == {f[x] : x \in S}
<1>1. f \in Surjection(S, T)
  BY DEF Surjection
<1> QED BY <1>1, FS_Surjection

\* A device of a reader or of the store has a reference of its own kind.
LEMMA ReaderTyped ==
  ASSUME CallsTyped, NEW r \in Readers
  PROVE  /\ readers[r] \in Reader
         /\ readers[r].pc \in ReaderStates
         /\ readers[r].question \in Ids \cup {All, None}
         /\ readers[r].left \in Seq(Ids) /\ readers[r].out \in Seq(Record)
         /\ DOMAIN readers[r].left = 1..Len(readers[r].left)
         /\ DOMAIN readers[r].out = 1..Len(readers[r].out)
         /\ Len(readers[r].left) \in Nat /\ Len(readers[r].out) \in Nat
         /\ \A n \in DOMAIN readers[r].left : readers[r].left[n] \in Ids
         /\ \A n \in DOMAIN readers[r].out :
              readers[r].out[n] \in Record /\ readers[r].out[n].ref \in Nat \ {0}
<1>1. /\ readers[r] \in Reader /\ readers[r].pc \in ReaderStates
      /\ readers[r].question \in Ids \cup {All, None}
      /\ readers[r].left \in Seq(Ids) /\ readers[r].out \in Seq(Record)
  BY DEF CallsTyped, Reader
<1>2. /\ DOMAIN readers[r].left = 1..Len(readers[r].left)
      /\ DOMAIN readers[r].out = 1..Len(readers[r].out)
      /\ Len(readers[r].left) \in Nat /\ Len(readers[r].out) \in Nat
  BY <1>1, LenProperties
<1>3. \A n \in DOMAIN readers[r].left : readers[r].left[n] \in Ids
  BY <1>1, <1>2, ElementOfSeq
<1>4. \A n \in DOMAIN readers[r].out : readers[r].out[n] \in Record
  BY <1>1, <1>2, ElementOfSeq
<1>5. \A d \in Record : d.ref \in Nat \ {0}
  BY DEF Record
<1> QED BY <1>1, <1>2, <1>3, <1>4, <1>5

\* The maps in use are finitely many positive references.
LEMMA LiveFinite ==
  ASSUME DevicesTyped, OrderTyped, CallsTyped
  PROVE  IsFiniteSet(Live) /\ Live \subseteq Nat \ {0}
<1>1. order \in Seq(Ids) /\ DOMAIN order = 1..Len(order) /\ Len(order) \in Nat
  BY LenProperties DEF OrderTyped
<1>2. IsFiniteSet(DOMAIN devices)
  <2>1. IsFiniteSet(DOMAIN order)
    BY <1>1, FS_Interval
  <2>2. order = [n \in DOMAIN order |-> order[n]]
    BY <1>1
  <2>3. IsFiniteSet({order[n] : n \in DOMAIN order})
    BY <2>1, <2>2, ImageFinite
  <2>4. {order[n] : n \in DOMAIN order} = DOMAIN devices
    <3>1. \A n \in DOMAIN order : order[n] \in DOMAIN devices
      BY DEF OrderTyped
    <3>2. \A id \in DOMAIN devices : \E n \in DOMAIN order : id = order[n]
      BY DEF OrderTyped
    <3> QED BY <3>1, <3>2
  <2> QED BY <2>3, <2>4
<1>3. IsFiniteSet({devices[id].ref : id \in DOMAIN devices})
  <2> DEFINE f == [id \in DOMAIN devices |-> devices[id].ref]
  <2>1. IsFiniteSet({f[id] : id \in DOMAIN devices})
    <3>1. f = [id \in DOMAIN devices |-> f[id]]
      OBVIOUS
    <3> HIDE DEF f
    <3> QED BY <1>2, <3>1, ImageFinite
  <2>2. {f[id] : id \in DOMAIN devices} = {devices[id].ref : id \in DOMAIN devices}
    OBVIOUS
  <2> QED BY <2>1, <2>2
<1> DEFINE Refs(r) == {readers[r].out[n].ref : n \in DOMAIN readers[r].out}
<1>4. ASSUME NEW r \in Readers PROVE IsFiniteSet(Refs(r))
  <2> DEFINE D == DOMAIN readers[r].out
             f == [n \in D |-> readers[r].out[n].ref]
  <2>1. IsFiniteSet(D)
    BY ReaderTyped, FS_Interval
  <2>2. IsFiniteSet({f[n] : n \in D})
    <3>1. f = [n \in D |-> f[n]]
      OBVIOUS
    <3> HIDE DEF f, D
    <3> QED BY <2>1, <3>1, ImageFinite
  <2>3. {f[n] : n \in D} = Refs(r)
    OBVIOUS
  <2> QED BY <2>2, <2>3
<1>5. IsFiniteSet(OutRefs(readers))
  <2> DEFINE f == [r \in Readers |-> Refs(r)]
  <2>1. IsFiniteSet({f[r] : r \in Readers})
    <3>1. f = [r \in Readers |-> f[r]]
      OBVIOUS
    <3> HIDE DEF f
    <3> QED BY <3>1, ImageFinite, Constants
  <2>2. {f[r] : r \in Readers} = {Refs(r) : r \in Readers}
    OBVIOUS
  <2> HIDE DEF Refs
  <2>3. \A T \in {Refs(r) : r \in Readers} : IsFiniteSet(T)
    BY <1>4
  <2>4. IsFiniteSet(UNION {Refs(r) : r \in Readers})
    BY <2>1, <2>2, <2>3, FS_UNION
  <2> QED BY <2>4 DEF OutRefs, Refs
<1>6. IsFiniteSet(Live)
  BY <1>3, <1>5, FS_Union DEF Live, RefsIn
<1>7. ASSUME NEW n \in Live PROVE n \in Nat \ {0}
  <2>1. CASE \E id \in DOMAIN devices : n = devices[id].ref
    BY <2>1 DEF DevicesTyped, Record
  <2>2. CASE n \in OutRefs(readers)
    <3>1. PICK r \in Readers : n \in Refs(r)
      BY <2>2 DEF OutRefs
    <3> QED BY <3>1, ReaderTyped
  <2> QED BY <1>7, <2>1, <2>2 DEF Live, RefsIn
<1> QED BY <1>6, <1>7

\* make(map) gives a reference that nothing holds.
LEMMA Fresh ==
  ASSUME DevicesTyped, OrderTyped, CallsTyped
  PROVE  FreshRef \in Nat \ {0} /\ FreshRef \notin Live
<1> DEFINE c == Cardinality(Live)
<1>1. IsFiniteSet(Live) /\ c \in Nat
  BY LiveFinite, FS_CardinalityType
<1> HIDE DEF c
<1>2. \E n \in 1..c + 1 : n \notin Live
  <2> SUFFICES ASSUME 1..c + 1 \subseteq Live PROVE FALSE
    OBVIOUS
  <2>1. Cardinality(1..c + 1) = c + 1
    BY <1>1, FS_Interval
  <2>2. Cardinality(1..c + 1) <= c
    BY <1>1, FS_Subset DEF c
  <2> QED BY <1>1, <2>1, <2>2
<1>3. FreshRef \in 1..c + 1 /\ FreshRef \notin Live
  BY <1>2 DEF FreshRef, c
<1> QED BY <1>1, <1>3

\* A reference is one of a device in the store or of a copy.
LEMMA InRefs ==
  ASSUME NEW ds, NEW rs, NEW n
  PROVE  n \in RefsIn(ds, rs) <=>
           \/ \E id \in DOMAIN ds : n = ds[id].ref
           \/ \E r \in Readers : \E k \in DOMAIN rs[r].out : n = rs[r].out[k].ref
<1>1. n \in {ds[id].ref : id \in DOMAIN ds} <=> \E id \in DOMAIN ds : n = ds[id].ref
  OBVIOUS
<1>2. n \in OutRefs(rs) <=>
        \E r \in Readers : \E k \in DOMAIN rs[r].out : n = rs[r].out[k].ref
  BY DEF OutRefs
<1> QED BY <1>1, <1>2 DEF RefsIn

\* References change only with the devices and the copies.
LEMMA SameRefs ==
  ASSUME devices' = devices, \A r \in Readers : readers'[r].out = readers[r].out
  PROVE  Live' = Live
<1>1. OutRefs(readers') = OutRefs(readers)
  <2>1. \A n : n \in OutRefs(readers') <=> n \in OutRefs(readers)
    BY DEF OutRefs
  <2> QED BY <2>1
<1> QED BY <1>1 DEF Live, RefsIn

\* Devices that keep their maps keep the maps that are reached.
LEMMA KeptRefs ==
  ASSUME readers' = readers, DOMAIN devices' = DOMAIN devices,
         \A id \in DOMAIN devices : devices'[id].ref = devices[id].ref
  PROVE  Live' = Live
<1>1. {devices'[id].ref : id \in DOMAIN devices'} = {devices[id].ref : id \in DOMAIN devices}
  OBVIOUS
<1>2. OutRefs(readers') = OutRefs(readers)
  OBVIOUS
<1> QED BY <1>1, <1>2 DEF Live, RefsIn

\* Every map that is reached is in the heap.
LEMMA Reached ==
  ASSUME TypeInv
  PROVE  /\ \A id \in DOMAIN devices : devices[id].ref \in Live
         /\ \A r \in Readers : \A n \in DOMAIN readers[r].out :
              readers[r].out[n].ref \in Live
         /\ DOMAIN heap = Live /\ \A n \in Live : heap[n] \in Metrics
         /\ FreshRef \in Nat \ {0} /\ FreshRef \notin Live
<1>1. \A id \in DOMAIN devices : devices[id].ref \in Live
  BY InRefs DEF Live
<1>2. \A r \in Readers : \A n \in DOMAIN readers[r].out : readers[r].out[n].ref \in Live
  BY InRefs DEF Live
<1>3. DOMAIN heap = Live /\ \A n \in Live : heap[n] \in Metrics
  BY DEF TypeInv, HeapTyped
<1> QED BY <1>1, <1>2, <1>3, Fresh DEF TypeInv

\* What a question asks for is in the store.
LEMMA TargetsFacts ==
  ASSUME DevicesTyped, OrderTyped, NEW question \in Ids \cup {All}
  PROVE  /\ Targets(question) \in Seq(Ids)
         /\ Len(Targets(question)) \in Nat
         /\ \A n \in 1..Len(Targets(question)) :
              Targets(question)[n] \in DOMAIN devices
<1>1. CASE question = All
  <2>1. Targets(question) = order /\ DOMAIN order = 1..Len(order)
    BY <1>1, LenProperties DEF Targets, OrderTyped
  <2> QED BY <2>1, LenProperties DEF OrderTyped
<1>2. CASE question # All /\ question \in DOMAIN devices
  <2>1. Targets(question) = <<question>> /\ question \in Ids
    BY <1>2 DEF Targets, DevicesTyped
  <2> QED BY <1>2, <2>1
<1>3. CASE question # All /\ question \notin DOMAIN devices
  BY <1>3 DEF Targets
<1> QED BY <1>1, <1>2, <1>3

\* A reader that gets in has copied nothing yet.
LEMMA EnteredFacts ==
  ASSUME DevicesTyped, OrderTyped, NEW question \in Ids \cup {All}
  PROVE  /\ Entered(question) \in Reader /\ Entered(question).pc = "copying"
         /\ Entered(question).question = question /\ Entered(question).out = <<>>
         /\ Copied(Entered(question), devices, order, heap)
<1>1. /\ Entered(question).pc = "copying" /\ Entered(question).question = question
      /\ Entered(question).out = <<>> /\ Entered(question).left = Targets(question)
  BY DEF Entered
<1>2. Entered(question) \in Reader
  BY TargetsFacts DEF Entered, Reader, ReaderStates
<1>3. Copied(Entered(question), devices, order, heap)
  <2> DEFINE q == Entered(question)
             t == Targets(question)
  <2>0. t = Asked(devices, order, question)
    BY DEF Targets, Asked
  <2>1. Len(q.out) = 0 /\ Len(t) \in Nat /\ q.left = t /\ q.question = question
    BY <1>1, TargetsFacts
  <2> HIDE DEF q
  <2>2. Len(t) = Len(q.out) + Len(q.left)
    BY <2>1
  <2>3. \A n \in 1..Len(q.left) : q.left[n] = t[Len(q.out) + n]
    BY <2>1
  <2>4. \A n \in 1..Len(q.out) : Shown(heap, q.out[n]) = Shown(heap, devices[t[n]])
    BY <2>1
  <2> HIDE DEF t
  <2> QED BY <2>0, <2>1, <2>2, <2>3, <2>4 DEF Copied, q
<1> QED BY <1>1, <1>2, <1>3

\* Outside RecordFailure's loop nothing is left to flag.
LEMMA NothingPending ==
  ASSUME IInv, wpc # "holding"
  PROVE  unmarked = {} /\ \A id, k : ~Pending(id, k)
BY DEF IInv, Marking, Pending

-----------------------------------------------------------------------------
(* Readers move.                                                           *)

\* A reader r that becomes q keeps the invariant when q is sound and the maps
\* that are reached already stay as they are.
LEMMA ReaderMoves ==
  ASSUME IInv, NEW r \in Readers, NEW q \in Reader,
         readers' = [readers EXCEPT ![r] = q],
         UNCHANGED <<devices, order, call, wpc, unmarked>>,
         heap' \in [Live' -> Metrics],
         \A n \in Live : n \in Live' => heap'[n] = heap[n],
         q.pc = "idle" <=> q.question = None,
         q.pc # "copying" => q.left = <<>>,
         q.pc \in {"idle", "blocked"} => q.out = <<>>,
         q.pc = "copying" => wpc # "holding" /\ Copied(q, devices', order', heap'),
         \A n \in DOMAIN q.out : \A id \in DOMAIN devices : q.out[n].ref # devices[id].ref,
         \A n \in DOMAIN q.out : \A k \in DOMAIN heap'[q.out[n].ref] :
           heap'[q.out[n].ref][k] = [value |-> q.out[n].lastRead, stale |-> ~q.out[n].online]
  PROVE  IInv'
<1>1. readers'[r] = q /\ \A o \in Readers \ {r} : readers'[o] = readers[o]
  BY DEF IInv, TypeInv, CallsTyped
<1>2. TypeInv'
  <2>1. DevicesTyped' /\ OrderTyped'
    BY DEF IInv, TypeInv, DevicesTyped, OrderTyped
  <2>2. HeapTyped'
    BY DEF HeapTyped
  <2>3. CallsTyped'
    BY <1>1 DEF IInv, TypeInv, CallsTyped
  <2> QED BY <2>1, <2>2, <2>3 DEF TypeInv
<1>3. Exclusion'
  <2> SUFFICES ASSUME wpc = "holding" PROVE Holding' = {}
    BY DEF Exclusion
  <2>1. Holding = {} /\ q.pc # "copying"
    BY DEF IInv, Exclusion
  <2> QED BY <1>1, <2>1 DEF Holding
<1>4. NoAliases'
  <2>1. \A i, j \in DOMAIN devices : devices[i].ref = devices[j].ref => i = j
    BY DEF IInv, NoAliases
  <2>2. \A o \in Readers : \A n \in DOMAIN readers'[o].out : \A id \in DOMAIN devices :
          readers'[o].out[n].ref # devices[id].ref
    BY <1>1 DEF IInv, NoAliases
  <2> QED BY <2>1, <2>2 DEF NoAliases
<1>5. Marking'
  BY DEF IInv, Marking, Absent
<1>6. /\ \A id \in DOMAIN devices : heap'[devices[id].ref] = heap[devices[id].ref]
      /\ \A o \in Readers \ {r} : \A n \in DOMAIN readers[o].out :
           heap'[readers[o].out[n].ref] = heap[readers[o].out[n].ref]
  <2>1. ASSUME NEW id \in DOMAIN devices
        PROVE  heap'[devices[id].ref] = heap[devices[id].ref]
    <3>1. devices[id].ref \in Live'
      BY InRefs DEF Live
    <3> QED BY <3>1, Reached DEF IInv
  <2>2. ASSUME NEW o \in Readers \ {r}, NEW n \in DOMAIN readers[o].out
        PROVE  heap'[readers[o].out[n].ref] = heap[readers[o].out[n].ref]
    <3>1. readers'[o].out[n].ref \in Live'
      BY <1>1, InRefs DEF Live
    <3> QED BY <1>1, <3>1, Reached DEF IInv
  <2> QED BY <2>1, <2>2
<1>7. Consistent'
  <2>1. \A id, k : Pending(id, k)' <=> Pending(id, k)
    BY DEF Pending
  <2>2. ASSUME NEW id \in DOMAIN devices, NEW k \in DOMAIN heap'[devices[id].ref]
        PROVE  /\ heap'[devices[id].ref][k].value = devices[id].lastRead
               /\ \/ Pending(id, k)
                  \/ heap'[devices[id].ref][k].stale = ~devices[id].online
    BY <1>6 DEF IInv, Consistent
  <2> QED BY <2>1, <2>2 DEF Consistent
<1>8. NoTornReading'
  <2>1. ASSUME NEW o \in Readers, NEW n \in DOMAIN readers'[o].out,
               NEW k \in DOMAIN heap'[readers'[o].out[n].ref]
        PROVE  heap'[readers'[o].out[n].ref][k] =
                 [value |-> readers'[o].out[n].lastRead, stale |-> ~readers'[o].out[n].online]
    <3>1. CASE o = r
      BY <1>1, <2>1, <3>1
    <3>2. CASE o # r
      BY <1>1, <1>6, <2>1, <3>2 DEF IInv, NoTornReading
    <3> QED BY <3>1, <3>2
  <2> QED BY <2>1 DEF NoTornReading
<1>9. CopiesCurrent'
  <2> SUFFICES ASSUME NEW o \in Holding'
               PROVE  Copied(readers'[o], devices, order, heap')
    BY DEF CopiesCurrent
  <2>1. o \in Readers /\ readers'[o].pc = "copying"
    BY DEF Holding
  <2>2. CASE o = r
    BY <1>1, <2>1, <2>2
  <2>3. CASE o # r
    <3>1. readers'[o] = readers[o] /\ o \in Holding
      BY <1>1, <2>1, <2>3 DEF Holding
    <3> DEFINE p == readers[o]
               t == Asked(devices, order, p.question)
    <3>2. Copied(p, devices, order, heap)
      BY <3>1 DEF IInv, CopiesCurrent
    <3>3. /\ Len(t) = Len(p.out) + Len(p.left)
          /\ \A n \in 1..Len(p.out) : Shown(heap, p.out[n]) = Shown(heap, devices[t[n]])
          /\ \A n \in 1..Len(p.left) : p.left[n] = t[Len(p.out) + n]
      BY <3>2 DEF Copied
    <3>4. /\ p.question \in Ids \cup {All} /\ DOMAIN p.out = 1..Len(p.out)
          /\ Len(p.out) \in Nat /\ Len(p.left) \in Nat
      BY <2>1, <3>1, ReaderTyped DEF IInv, TypeInv, CallsTyped
    <3>5. \A n \in 1..Len(t) : t[n] \in DOMAIN devices
      BY <3>4, TargetsFacts DEF IInv, TypeInv, Targets, Asked
    <3> HIDE DEF t
    <3>6. ASSUME NEW n \in 1..Len(p.out)
          PROVE  Shown(heap', p.out[n]) = Shown(heap', devices[t[n]])
      <4>1. n \in 1..Len(t)
        <5>1. Len(t) = Len(p.out) + Len(p.left)
          BY <3>3
        <5>2. \A a, b \in Nat : \A i \in 1..a : i \in 1..a + b
          OBVIOUS
        <5>3. n \in 1..Len(p.out) + Len(p.left)
          BY <3>4, <5>2
        <5> QED BY <5>1, <5>3
      <4>2. /\ heap'[p.out[n].ref] = heap[p.out[n].ref]
            /\ heap'[devices[t[n]].ref] = heap[devices[t[n]].ref]
        BY <1>6, <2>1, <2>3, <3>4, <3>5, <4>1
      <4>3. Shown(heap, p.out[n]) = Shown(heap, devices[t[n]])
        BY <3>3
      <4> QED BY <4>2, <4>3 DEF Shown
    <3>7. Copied(p, devices, order, heap')
      BY <3>3, <3>6 DEF Copied, t
    <3> QED BY <3>1, <3>7
  <2> QED BY <2>2, <2>3
<1> QED BY <1>2, <1>3, <1>4, <1>5, <1>7, <1>8, <1>9 DEF IInv

\* The states of a reader that hold nothing are sound.
LEMMA Waiting ==
  /\ Idle \in Reader /\ Idle.pc = "idle" /\ Idle.question = None
  /\ Idle.left = <<>> /\ Idle.out = <<>>
  /\ \A question \in Ids \cup {All} :
       LET q == [Idle EXCEPT !.pc = "blocked", !.question = question]
       IN  /\ q \in Reader /\ q.pc = "blocked" /\ q.question = question
           /\ q.left = <<>> /\ q.out = <<>>
<1>1. <<>> \in Seq(Ids) /\ <<>> \in Seq(Record)
  OBVIOUS
<1>2. /\ Idle \in Reader /\ Idle.pc = "idle" /\ Idle.question = None
      /\ Idle.left = <<>> /\ Idle.out = <<>>
  BY <1>1 DEF Idle, Reader, ReaderStates
<1>3. ASSUME NEW question \in Ids \cup {All}
      PROVE  LET q == [Idle EXCEPT !.pc = "blocked", !.question = question]
             IN  /\ q \in Reader /\ q.pc = "blocked" /\ q.question = question
                 /\ q.left = <<>> /\ q.out = <<>>
  <2>1. [Idle EXCEPT !.pc = "blocked", !.question = question] \in Reader
    BY <1>2 DEF Reader, ReaderStates
  <2> QED BY <1>2, <2>1 DEF Idle
<1> QED BY <1>2, <1>3

\* A reader that has copied nothing has nothing to get wrong.
LEMMA EmptyCopy ==
  ASSUME NEW out, out = <<>>
  PROVE  DOMAIN out = {}
OBVIOUS

\* A reader asks: it gets in, or waits for the writer.
LEMMA AskKeeps ==
  ASSUME IInv, NEW r \in Readers, NEW question \in Ids \cup {All}, Ask(r, question)
  PROVE  IInv'
<1>1. UNCHANGED <<devices, order, heap, call, wpc, unmarked>> /\ readers[r].pc = "idle"
  BY DEF Ask
<1>2. DevicesTyped /\ OrderTyped /\ readers \in [Readers -> Reader] /\ heap \in [Live -> Metrics]
  BY DEF IInv, TypeInv, CallsTyped, HeapTyped
<1>3. readers[r].out = <<>>
  BY <1>1 DEF IInv, TypeInv, CallsTyped
<1>4. ASSUME NEW q, q.out = <<>>, readers' = [readers EXCEPT ![r] = q]
      PROVE  heap' \in [Live' -> Metrics]
  <2>1. readers'[r] = q /\ \A o \in Readers \ {r} : readers'[o] = readers[o]
    BY <1>2, <1>4
  <2>2. Live' = Live
    <3>1. \A o \in Readers : readers'[o].out = readers[o].out
      BY <1>3, <1>4, <2>1
    <3> QED BY <1>1, <3>1, SameRefs
  <2> QED BY <1>1, <1>2, <2>2
<1>5. CASE wpc = "outside"
  <2>1. PICK q : q = Entered(question)
    OBVIOUS
  <2>2. readers' = [readers EXCEPT ![r] = q]
    BY <1>5, <2>1 DEF Ask
  <2>3. /\ q \in Reader /\ q.pc = "copying" /\ q.question = question /\ q.out = <<>>
        /\ Copied(q, devices, order, heap)
    BY <1>2, <2>1, EnteredFacts
  <2>4. question # None
    BY Constants
  <2>5. heap' \in [Live' -> Metrics]
    BY <1>4, <2>2, <2>3
  <2> QED BY <1>1, <1>5, <2>2, <2>3, <2>4, <2>5, EmptyCopy, ReaderMoves
<1>6. CASE wpc # "outside"
  <2>1. PICK q : q = [Idle EXCEPT !.pc = "blocked", !.question = question]
    OBVIOUS
  <2>2. readers' = [readers EXCEPT ![r] = q]
    BY <1>6, <2>1 DEF Ask
  <2>3. /\ q \in Reader /\ q.pc = "blocked" /\ q.question = question
        /\ q.left = <<>> /\ q.out = <<>>
    BY <2>1, Waiting
  <2>4. question # None
    BY Constants
  <2>5. heap' \in [Live' -> Metrics]
    BY <1>4, <2>2, <2>3
  <2> QED BY <1>1, <2>2, <2>3, <2>4, <2>5, EmptyCopy, ReaderMoves
<1> QED BY <1>5, <1>6

\* RUnlock changes nothing a reader has copied.
LEMMA RUnlockKeeps ==
  ASSUME IInv, NEW r \in Readers, RUnlock(r)
  PROVE  IInv'
<1>1. /\ readers[r].pc = "copying" /\ readers[r].left = <<>>
      /\ readers' = [readers EXCEPT ![r].pc = "encoding"]
      /\ UNCHANGED <<devices, order, heap, call, wpc, unmarked>>
  BY DEF RUnlock, CopyDone
<1>2. PICK q : q = [readers[r] EXCEPT !.pc = "encoding"]
  OBVIOUS
<1>3. readers \in [Readers -> Reader] /\ readers[r] \in Reader /\ heap \in [Live -> Metrics]
  BY DEF IInv, TypeInv, CallsTyped, HeapTyped
<1>4. readers' = [readers EXCEPT ![r] = q]
  BY <1>1, <1>2, <1>3
<1>5. /\ q \in Reader /\ q.pc = "encoding" /\ q.question = readers[r].question
      /\ q.left = <<>> /\ q.out = readers[r].out
  BY <1>1, <1>2, <1>3 DEF Reader, ReaderStates
<1>6. q.question # None
  BY <1>1, <1>5 DEF IInv, TypeInv, CallsTyped
<1>7. heap' \in [Live' -> Metrics]
  <2>1. \A o \in Readers : readers'[o].out = readers[o].out
    BY <1>3, <1>4, <1>5
  <2>2. Live' = Live
    BY <1>1, <2>1, SameRefs
  <2> QED BY <1>1, <1>3, <2>2
<1>8. \A n \in DOMAIN q.out : \A id \in DOMAIN devices : q.out[n].ref # devices[id].ref
  BY <1>5 DEF IInv, NoAliases
<1>9. \A n \in DOMAIN q.out : \A k \in DOMAIN heap'[q.out[n].ref] :
        heap'[q.out[n].ref][k] = [value |-> q.out[n].lastRead, stale |-> ~q.out[n].online]
  <2>1. \A n \in DOMAIN readers[r].out : \A k \in DOMAIN heap[readers[r].out[n].ref] :
          heap[readers[r].out[n].ref][k] =
            [value |-> readers[r].out[n].lastRead, stale |-> ~readers[r].out[n].online]
    BY DEF IInv, NoTornReading
  <2> QED BY <1>1, <1>5, <2>1
<1> QED BY <1>1, <1>4, <1>5, <1>6, <1>7, <1>8, <1>9, ReaderMoves

\* A handler that has answered forgets its copies.
LEMMA RespondKeeps ==
  ASSUME IInv, NEW r \in Readers, Respond(r)
  PROVE  IInv'
<1>1. /\ readers' = [readers EXCEPT ![r] = Idle]
      /\ heap' = [n \in RefsIn(devices, readers') |-> heap[n]]
      /\ UNCHANGED <<devices, order, call, wpc, unmarked>>
  BY DEF Respond
<1>2. readers \in [Readers -> Reader] /\ heap \in [Live -> Metrics]
  BY DEF IInv, TypeInv, CallsTyped, HeapTyped
<1>3. Live' = RefsIn(devices, readers')
  BY <1>1 DEF Live
<1>4. readers'[r].out = <<>> /\ \A o \in Readers \ {r} : readers'[o] = readers[o]
  BY <1>1, <1>2, Waiting
<1>5. \A n \in Live' : n \in Live
  <2> SUFFICES ASSUME NEW n \in Live' PROVE n \in Live
    OBVIOUS
  <2>1. CASE \E id \in DOMAIN devices : n = devices[id].ref
    BY <2>1, InRefs DEF Live
  <2>2. CASE \E o \in Readers : \E k \in DOMAIN readers'[o].out : n = readers'[o].out[k].ref
    <3>1. PICK o \in Readers : \E k \in DOMAIN readers'[o].out : n = readers'[o].out[k].ref
      BY <2>2
    <3>2. o # r
      BY <1>4, <3>1
    <3> QED BY <1>4, <3>1, <3>2, InRefs DEF Live
  <2> QED BY <1>3, <2>1, <2>2, InRefs
<1>6. heap' \in [Live' -> Metrics] /\ \A n \in Live' : heap'[n] = heap[n]
  BY <1>1, <1>2, <1>3, <1>5
<1> QED BY <1>1, <1>6, Waiting, EmptyCopy, ReaderMoves

\* A metrics map holds measurements of known metrics.
LEMMA MetricsFacts ==
  ASSUME NEW m \in Metrics
  PROVE  /\ m = [k \in DOMAIN m |-> m[k]] /\ DOMAIN m \subseteq Keys
         /\ \A k \in DOMAIN m : m[k] \in Measurement
         /\ \A k \in DOMAIN m : m[k] = [value |-> m[k].value, stale |-> m[k].stale]
<1>1. /\ m = [k \in DOMAIN m |-> m[k]] /\ DOMAIN m \subseteq Keys
      /\ \A k \in DOMAIN m : m[k] \in Measurement
  <2>1. CASE m = <<>>
    BY <2>1
  <2>2. CASE m \in [Keys -> Measurement]
    BY <2>2
  <2> QED BY <2>1, <2>2 DEF Metrics
<1>2. \A x \in Measurement : x = [value |-> x.value, stale |-> x.stale]
  BY DEF Measurement
<1> QED BY <1>1, <1>2

\* The map of a device while no writer is inside.
LEMMA WholeReading ==
  ASSUME IInv, wpc # "holding", NEW id \in DOMAIN devices
  PROVE  \A k \in DOMAIN heap[devices[id].ref] :
           heap[devices[id].ref][k] =
             [value |-> devices[id].lastRead, stale |-> ~devices[id].online]
<1> DEFINE m == heap[devices[id].ref]
<1>1. m \in Metrics
  BY Reached DEF IInv
<1>2. \A k \in DOMAIN m : m[k].value = devices[id].lastRead /\ m[k].stale = ~devices[id].online
  BY NothingPending DEF IInv, Consistent
<1>3. \A k \in DOMAIN m : m[k] = [value |-> m[k].value, stale |-> m[k].stale]
  BY <1>1, MetricsFacts
<1> HIDE DEF m
<1>4. \A k \in DOMAIN m : m[k] = [value |-> devices[id].lastRead, stale |-> ~devices[id].online]
  BY <1>2, <1>3, Zenon
<1> QED BY <1>4 DEF m

\* A reader copies the next of its devices into a map of its own.
LEMMA CopyKeeps ==
  ASSUME IInv, NEW r \in Readers, CopyDevice(r)
  PROVE  IInv'
<1> DEFINE p == readers[r]
<1>1. /\ p.pc = "copying" /\ p.left # <<>>
      /\ UNCHANGED <<devices, order, call, wpc, unmarked>>
  BY DEF CopyDevice
<1>2. PICK id : id = Head(p.left)
  OBVIOUS
<1>3. PICK new : new = FreshRef
  OBVIOUS
<1>4. PICK d : d = [devices[id] EXCEPT !.ref = new]
  OBVIOUS
<1>5. PICK q : q = [p EXCEPT !.left = Tail(p.left), !.out = Append(p.out, d)]
  OBVIOUS
<1>6. /\ id \in DOMAIN devices
      /\ readers' = [readers EXCEPT ![r].left = Tail(p.left), ![r].out = Append(p.out, d)]
      /\ heap' = [n \in DOMAIN heap \cup {new} |->
                    IF n = new THEN heap[devices[id].ref] ELSE heap[n]]
  BY <1>2, <1>3, <1>4 DEF CopyDevice, CopiedMap, WithMap
<1>7. /\ readers \in [Readers -> Reader] /\ p \in Reader /\ p.left \in Seq(Ids)
      /\ p.out \in Seq(Record) /\ DOMAIN p.out = 1..Len(p.out)
      /\ Len(p.left) \in Nat /\ Len(p.out) \in Nat
      /\ p.question \in Ids \cup {All, None}
  BY ReaderTyped DEF IInv, TypeInv, CallsTyped
<1>8. /\ new \in Nat \ {0} /\ new \notin Live /\ DOMAIN heap = Live
      /\ devices[id].ref \in Live /\ \A n \in Live : heap[n] \in Metrics
  BY <1>3, <1>6, Reached DEF IInv
<1>9. /\ d \in Record /\ d.ref = new /\ d.id = devices[id].id
      /\ d.profile = devices[id].profile /\ d.online = devices[id].online
      /\ d.failed = devices[id].failed /\ d.lastRead = devices[id].lastRead
  <2>1. devices[id] \in Record
    BY <1>6 DEF IInv, TypeInv, DevicesTyped
  <2> QED BY <1>4, <1>8, <2>1 DEF Record
<1>10. /\ Tail(p.left) \in Seq(Ids) /\ Len(Tail(p.left)) = Len(p.left) - 1
       /\ \A n \in 1..Len(p.left) - 1 : Tail(p.left)[n] = p.left[n + 1]
       /\ id = p.left[1] /\ Len(p.left) >= 1
  BY <1>1, <1>2, <1>7, HeadTailProperties, EmptySeq
<1>11. /\ Append(p.out, d) \in Seq(Record) /\ Len(Append(p.out, d)) = Len(p.out) + 1
       /\ \A n \in 1..Len(p.out) : Append(p.out, d)[n] = p.out[n]
       /\ Append(p.out, d)[Len(p.out) + 1] = d
       /\ DOMAIN Append(p.out, d) = 1..Len(p.out) + 1
  BY <1>7, <1>9, AppendProperties, LenProperties
<1>12. /\ q \in Reader /\ q.pc = "copying" /\ q.question = p.question
       /\ q.left = Tail(p.left) /\ q.out = Append(p.out, d)
  BY <1>1, <1>5, <1>7, <1>10, <1>11 DEF Reader
<1>13. readers' = [readers EXCEPT ![r] = q]
  <2> DEFINE f == [readers EXCEPT ![r].left = Tail(p.left)]
  <2>1. /\ DOMAIN f = Readers /\ f[r] = [p EXCEPT !.left = Tail(p.left)]
        /\ \A o \in Readers \ {r} : f[o] = readers[o]
    BY <1>7
  <2>2. readers' = [f EXCEPT ![r].out = Append(p.out, d)]
    BY <1>6
  <2> HIDE DEF f
  <2>3. readers' = [o \in Readers |->
                      IF o = r THEN [f[r] EXCEPT !.out = Append(p.out, d)] ELSE f[o]]
    BY <2>1, <2>2
  <2>4. [f[r] EXCEPT !.out = Append(p.out, d)] = q
    BY <1>5, <2>1
  <2> QED BY <1>7, <2>1, <2>3, <2>4
<1>14. \A n : n \in Live' <=> n \in Live \/ n = new
  <2>1. readers'[r].out = Append(p.out, d) /\ \A o \in Readers \ {r} : readers'[o] = readers[o]
    BY <1>7, <1>12, <1>13
  <2>2. ASSUME NEW n, n \in Live' PROVE n \in Live \/ n = new
    <3>1. CASE \E i \in DOMAIN devices : n = devices[i].ref
      BY <3>1, InRefs DEF Live
    <3>2. ASSUME NEW o \in Readers, NEW k \in DOMAIN readers'[o].out,
                 n = readers'[o].out[k].ref
          PROVE  n \in Live \/ n = new
      <4>1. CASE o = r /\ k = Len(p.out) + 1
        BY <1>9, <1>11, <2>1, <3>2, <4>1
      <4>2. CASE o = r /\ k \in 1..Len(p.out)
        BY <1>7, <1>11, <2>1, <3>2, <4>2, InRefs DEF Live
      <4>3. CASE o # r
        BY <2>1, <3>2, <4>3, InRefs DEF Live
      <4> QED BY <1>7, <1>11, <2>1, <4>1, <4>2, <4>3
    <3>3. Live' = RefsIn(devices, readers')
      BY <1>1 DEF Live
    <3> QED BY <2>2, <3>1, <3>2, <3>3, InRefs
  <2>3. new \in Live'
    <3>1. Len(p.out) + 1 \in DOMAIN readers'[r].out
          /\ readers'[r].out[Len(p.out) + 1].ref = new
      BY <1>7, <1>9, <1>11, <2>1
    <3> QED BY <3>1, InRefs DEF Live
  <2>4. ASSUME NEW n \in Live PROVE n \in Live'
    <3>1. CASE \E i \in DOMAIN devices : n = devices[i].ref
      BY <1>1, <3>1, InRefs DEF Live
    <3>2. ASSUME NEW o \in Readers, NEW k \in DOMAIN readers[o].out, n = readers[o].out[k].ref
          PROVE  n \in Live'
      <4>1. k \in DOMAIN readers'[o].out /\ readers'[o].out[k] = readers[o].out[k]
        <5>1. CASE o = r
          <6>1. k \in 1..Len(p.out) /\ k \in 1..Len(p.out) + 1
            BY <1>7, <3>2, <5>1
          <6> QED BY <1>11, <2>1, <5>1, <6>1
        <5>2. CASE o # r
          BY <2>1, <3>2, <5>2
        <5> QED BY <5>1, <5>2
      <4> QED BY <3>2, <4>1, InRefs DEF Live
    <3> QED BY <3>1, <3>2, InRefs DEF Live
  <2> QED BY <2>2, <2>3, <2>4
<1>15. /\ heap' \in [Live' -> Metrics] /\ heap'[new] = heap[devices[id].ref]
       /\ \A n \in Live : heap'[n] = heap[n]
  BY <1>6, <1>8, <1>14
<1>16. wpc # "holding"
  BY <1>1 DEF IInv, Exclusion, Holding
<1> HIDE DEF p
<1>17. \A n \in DOMAIN q.out : \A i \in DOMAIN devices : q.out[n].ref # devices[i].ref
  <2>1. \A n \in 1..Len(p.out) : \A i \in DOMAIN devices : p.out[n].ref # devices[i].ref
    BY <1>7 DEF IInv, NoAliases, p
  <2>2. \A i \in DOMAIN devices : new # devices[i].ref
    BY <1>8, Reached DEF IInv
  <2>3. \A n \in DOMAIN q.out : n \in 1..Len(p.out) \/ n = Len(p.out) + 1
    BY <1>7, <1>11, <1>12
  <2> QED BY <1>9, <1>11, <1>12, <2>1, <2>2, <2>3
<1>18. \A n \in DOMAIN q.out : \A k \in DOMAIN heap'[q.out[n].ref] :
         heap'[q.out[n].ref][k] = [value |-> q.out[n].lastRead, stale |-> ~q.out[n].online]
  <2>1. ASSUME NEW n \in 1..Len(p.out)
        PROVE  \A k \in DOMAIN heap'[p.out[n].ref] :
                 heap'[p.out[n].ref][k] = [value |-> p.out[n].lastRead, stale |-> ~p.out[n].online]
    <3>1. heap'[p.out[n].ref] = heap[p.out[n].ref]
      BY <1>7, <1>15, Reached DEF IInv, p
    <3>2. \A k \in DOMAIN heap[p.out[n].ref] :
            heap[p.out[n].ref][k] = [value |-> p.out[n].lastRead, stale |-> ~p.out[n].online]
      BY <1>7 DEF IInv, NoTornReading, p
    <3> QED BY <3>1, <3>2
  <2>2. \A k \in DOMAIN heap'[d.ref] :
          heap'[d.ref][k] = [value |-> d.lastRead, stale |-> ~d.online]
    <3>1. \A k \in DOMAIN heap[devices[id].ref] : heap[devices[id].ref][k] =
            [value |-> devices[id].lastRead, stale |-> ~devices[id].online]
      BY <1>6, <1>16, WholeReading
    <3> QED BY <1>9, <1>15, <3>1
  <2>3. ASSUME NEW n \in DOMAIN q.out
        PROVE  \A k \in DOMAIN heap'[q.out[n].ref] : heap'[q.out[n].ref][k] =
                 [value |-> q.out[n].lastRead, stale |-> ~q.out[n].online]
    <3>1. CASE n \in 1..Len(p.out)
      <4>1. q.out[n] = p.out[n]
        BY <1>11, <1>12, <3>1
      <4> QED BY <2>1, <3>1, <4>1
    <3>2. CASE n = Len(p.out) + 1
      <4>1. q.out[n] = d
        BY <1>11, <1>12, <3>2
      <4> QED BY <2>2, <4>1
    <3>3. n \in 1..Len(p.out) + 1 /\ Len(p.out) \in Nat
      BY <1>7, <1>11, <1>12
    <3>4. n \in 1..Len(p.out) \/ n = Len(p.out) + 1
      BY <3>3
    <3> QED BY <3>1, <3>2, <3>4
  <2> QED BY <2>3
<1>19. Copied(q, devices, order, heap')
  <2> DEFINE t == Asked(devices, order, p.question)
             a == Len(p.out)
             b == Len(p.left)
  <2>1. Copied(p, devices, order, heap)
    BY <1>1 DEF IInv, CopiesCurrent, Holding, p
  <2>2. /\ Len(t) = a + b
        /\ \A n \in 1..a : Shown(heap, p.out[n]) = Shown(heap, devices[t[n]])
        /\ \A n \in 1..b : p.left[n] = t[a + n]
    BY <2>1 DEF Copied
  <2>3. \A n \in 1..Len(t) : t[n] \in DOMAIN devices
    <3>1. p.question \in Ids \cup {All}
      BY <1>1, <1>7 DEF IInv, TypeInv, CallsTyped, p
    <3> QED BY <3>1, TargetsFacts DEF IInv, TypeInv, Targets, Asked
  <2>4. /\ a \in Nat /\ b \in Nat /\ b >= 1
        /\ Len(q.out) = a + 1 /\ Len(q.left) = b - 1
        /\ \A n \in 1..a : q.out[n] = p.out[n]
        /\ q.out[a + 1] = d /\ p.left[1] = id
        /\ \A n \in 1..b - 1 : q.left[n] = p.left[n + 1]
    BY <1>7, <1>10, <1>11, <1>12
  <2> HIDE DEF t, a, b
  <2>5. Len(t) = Len(q.out) + Len(q.left)
    BY <2>2, <2>4
  <2>6. \A n \in 1..Len(q.left) : q.left[n] = t[Len(q.out) + n]
    <3> SUFFICES ASSUME NEW n \in 1..Len(q.left) PROVE q.left[n] = t[Len(q.out) + n]
      OBVIOUS
    <3>1. n + 1 \in 1..b /\ n \in 1..b - 1 /\ a + (n + 1) = Len(q.out) + n
      BY <2>4
    <3> QED BY <2>2, <2>4, <3>1
  <2>7. ASSUME NEW n \in 1..Len(q.out)
        PROVE  Shown(heap', q.out[n]) = Shown(heap', devices[t[n]])
    <3>1. CASE n \in 1..a
      <4>1. n \in 1..Len(t)
        BY <2>2, <2>4, <3>1
      <4>2. heap'[devices[t[n]].ref] = heap[devices[t[n]].ref]
        BY <1>15, <2>3, <4>1, Reached DEF IInv
      <4>3. heap'[p.out[n].ref] = heap[p.out[n].ref]
        BY <1>7, <1>15, <3>1, Reached DEF IInv, p, a
      <4>4. Shown(heap, p.out[n]) = Shown(heap, devices[t[n]])
        BY <2>2, <3>1
      <4>5. q.out[n] = p.out[n]
        BY <2>4, <3>1
      <4> QED BY <4>2, <4>3, <4>4, <4>5 DEF Shown
    <3>2. CASE n = a + 1
      <4>1. t[n] = id /\ q.out[n] = d
        <5>1. 1 \in 1..b
          BY <2>4
        <5> QED BY <2>2, <2>4, <3>2, <5>1
      <4>2. heap'[devices[id].ref] = heap[devices[id].ref] /\ heap'[d.ref] = heap[devices[id].ref]
        BY <1>8, <1>9, <1>15
      <4> QED BY <1>9, <4>1, <4>2 DEF Shown
    <3> QED BY <2>4, <3>1, <3>2
  <2>8. q.question = p.question
    BY <1>12
  <2> QED BY <2>5, <2>6, <2>7, <2>8 DEF Copied, t
<1>20. /\ q.pc = "idle" <=> q.question = None
       /\ Copied(q, devices', order', heap')
  <2>1. q.question # None
    BY <1>1, <1>12 DEF IInv, TypeInv, CallsTyped, p
  <2>2. devices' = devices /\ order' = order
    BY <1>1
  <2> QED BY <1>12, <1>19, <2>1, <2>2
<1>21. UNCHANGED <<devices, order, call, wpc, unmarked>> /\ wpc # "holding"
       /\ q \in Reader /\ q.pc = "copying" /\ heap' \in [Live' -> Metrics]
       /\ \A n \in Live : n \in Live' => heap'[n] = heap[n]
  BY <1>1, <1>12, <1>15, <1>16
<1> QED BY <1>13, <1>17, <1>18, <1>20, <1>21, ReaderMoves

-----------------------------------------------------------------------------
(* The poll loop moves.                                                    *)

\* The poll loop calls: until it has the lock nothing changes.
LEMMA BeginKeeps ==
  ASSUME IInv, NEW c \in Calls, Begin(c)
  PROVE  IInv'
<1>1. /\ wpc = "outside" /\ call' = c /\ wpc' = "waiting"
      /\ UNCHANGED <<devices, order, heap, unmarked, readers>>
  BY DEF Begin
<1>2. unmarked = {}
  BY <1>1, NothingPending
<1>3. TypeInv'
  <2>1. DevicesTyped' /\ OrderTyped'
    BY <1>1 DEF IInv, TypeInv, DevicesTyped, OrderTyped
  <2>2. Live' = Live
    BY <1>1, SameRefs
  <2>3. HeapTyped'
    BY <1>1, <2>2 DEF IInv, TypeInv, HeapTyped
  <2>4. CallsTyped'
    BY <1>1 DEF IInv, TypeInv, CallsTyped
  <2> QED BY <2>1, <2>3, <2>4 DEF TypeInv
<1>4. Exclusion' /\ Marking'
  BY <1>1, <1>2 DEF Exclusion, Marking
<1>5. NoAliases'
  BY <1>1 DEF IInv, NoAliases
<1>6. Consistent'
  BY <1>1, NothingPending DEF IInv, Consistent
<1>7. NoTornReading'
  BY <1>1 DEF IInv, NoTornReading
<1>8. CopiesCurrent'
  BY <1>1 DEF IInv, CopiesCurrent, Holding
<1> QED BY <1>3, <1>4, <1>5, <1>6, <1>7, <1>8 DEF IInv

\* The poll loop is done: the readers that queued get in.
LEMMA UnlockKeeps ==
  ASSUME IInv, Unlock
  PROVE  IInv'
<1>1. /\ wpc = "holding" /\ unmarked = {} /\ wpc' = "outside" /\ call' = None
      /\ readers' = [r \in Readers |-> LetIn(readers[r])]
      /\ UNCHANGED <<devices, order, heap, unmarked>>
  BY DEF Unlock, BodyDone
<1>2. DevicesTyped /\ OrderTyped /\ readers \in [Readers -> Reader] /\ Holding = {}
  BY <1>1 DEF IInv, TypeInv, CallsTyped, Exclusion
<1>3. ASSUME NEW r \in Readers
      PROVE  \/ readers[r].pc # "blocked" /\ readers'[r] = readers[r]
             \/ /\ readers[r].pc = "blocked" /\ readers[r].question \in Ids \cup {All}
                /\ readers'[r] = Entered(readers[r].question)
  <2>1. readers[r].pc = "blocked" => readers[r].question \in Ids \cup {All}
    BY ReaderTyped DEF IInv, TypeInv, CallsTyped
  <2> QED BY <1>1, <2>1 DEF LetIn
<1>4. \A r \in Readers : readers'[r].out = readers[r].out
  <2> SUFFICES ASSUME NEW r \in Readers PROVE readers'[r].out = readers[r].out
    OBVIOUS
  <2>1. readers[r].pc = "blocked" => readers[r].out = <<>>
    BY DEF IInv, TypeInv, CallsTyped
  <2> QED BY <1>2, <1>3, <2>1, EnteredFacts
<1>5. TypeInv'
  <2>1. DevicesTyped' /\ OrderTyped'
    BY <1>1, <1>2 DEF DevicesTyped, OrderTyped
  <2>2. Live' = Live
    BY <1>1, <1>4, SameRefs
  <2>3. HeapTyped'
    BY <1>1, <2>2 DEF IInv, TypeInv, HeapTyped
  <2>4. readers' \in [Readers -> Reader]
    BY <1>1, <1>2, <1>3, EnteredFacts
  <2>5. ASSUME NEW r \in Readers
        PROVE  /\ readers'[r].pc = "idle" <=> readers'[r].question = None
               /\ readers'[r].pc # "copying" => readers'[r].left = <<>>
               /\ readers'[r].pc \in {"idle", "blocked"} => readers'[r].out = <<>>
    <3>1. CASE readers'[r] = readers[r]
      BY <3>1 DEF IInv, TypeInv, CallsTyped
    <3>2. CASE /\ readers[r].question \in Ids \cup {All}
               /\ readers'[r] = Entered(readers[r].question)
      BY <1>2, <3>2, EnteredFacts, Constants
    <3> QED BY <1>3, <3>1, <3>2
  <2>6. CallsTyped'
    BY <1>1, <2>4, <2>5 DEF CallsTyped
  <2> QED BY <2>1, <2>3, <2>6 DEF TypeInv
<1>6. Exclusion' /\ Marking'
  BY <1>1 DEF Exclusion, Marking
<1>7. NoAliases'
  BY <1>1, <1>4 DEF IInv, NoAliases
<1>8. Consistent'
  <2>1. \A id, k : ~Pending(id, k) /\ ~Pending(id, k)'
    BY <1>1 DEF Pending
  <2> QED BY <1>1, <2>1 DEF IInv, Consistent
<1>9. NoTornReading'
  <2>1. \A r \in Readers : \A n \in DOMAIN readers[r].out :
          \A k \in DOMAIN heap[readers[r].out[n].ref] : heap[readers[r].out[n].ref][k] =
            [value |-> readers[r].out[n].lastRead, stale |-> ~readers[r].out[n].online]
    BY DEF IInv, NoTornReading
  <2>2. \A r \in Readers : \A n \in DOMAIN readers'[r].out :
          \A k \in DOMAIN heap'[readers'[r].out[n].ref] : heap'[readers'[r].out[n].ref][k] =
            [value |-> readers'[r].out[n].lastRead, stale |-> ~readers'[r].out[n].online]
    <3> SUFFICES ASSUME NEW r \in Readers, NEW n \in DOMAIN readers'[r].out,
                        NEW k \in DOMAIN heap'[readers'[r].out[n].ref]
                 PROVE  heap'[readers'[r].out[n].ref][k] =
                          [value |-> readers'[r].out[n].lastRead,
                           stale |-> ~readers'[r].out[n].online]
      OBVIOUS
    <3>1. readers'[r].out = readers[r].out /\ heap' = heap
      BY <1>1, <1>4
    <3> QED BY <2>1, <3>1
  <2> QED BY <2>2 DEF NoTornReading
<1>10. CopiesCurrent'
  <2> SUFFICES ASSUME NEW r \in Readers, readers'[r].pc = "copying"
               PROVE  Copied(readers'[r], devices, order, heap)
    BY <1>1 DEF CopiesCurrent, Holding
  <2>1. readers[r].pc # "copying"
    BY <1>2 DEF Holding
  <2> QED BY <1>2, <1>3, <2>1, EnteredFacts
<1> QED BY <1>5, <1>6, <1>7, <1>8, <1>9, <1>10 DEF IInv

\* While the poll loop writes, no reader is inside: what it leaves of the copies
\* stays right.
LEMMA WriterMoves ==
  ASSUME IInv, wpc # "outside", Holding = {},
         UNCHANGED <<call, readers>>, wpc' = "holding",
         DevicesTyped', OrderTyped', HeapTyped', NoAliases', Marking', Consistent',
         \A r \in Readers : \A n \in DOMAIN readers[r].out :
           heap'[readers[r].out[n].ref] = heap[readers[r].out[n].ref]
  PROVE  IInv'
<1>1. TypeInv'
  <2>1. CallsTyped'
    BY DEF IInv, TypeInv, CallsTyped
  <2> QED BY <2>1 DEF TypeInv
<1>2. Holding' = {}
  BY DEF Holding
<1>3. Exclusion' /\ CopiesCurrent'
  BY <1>2 DEF Exclusion, CopiesCurrent
<1>4. NoTornReading'
  BY SMTT(30) DEF IInv, NoTornReading
<1> QED BY <1>1, <1>3, <1>4 DEF IInv

\* A call that has the lock is one of the poll loop's, and the only one inside.
LEMMA LockedFacts ==
  ASSUME IInv, NEW op, Locked(op)
  PROVE  /\ wpc = "waiting" /\ wpc' = "holding" /\ Holding = {} /\ call \in Calls
         /\ call.op = op /\ unmarked = {} /\ call.id \in Ids
<1>1. wpc = "waiting" /\ wpc' = "holding" /\ Holding = {} /\ call.op = op
  BY DEF Locked, LockFree
<1>2. call \in Calls
  BY <1>1 DEF IInv, TypeInv, CallsTyped
<1>3. call.id \in Ids
  BY <1>2 DEF Calls
<1> QED BY <1>1, <1>2, <1>3, NothingPending

\* Register of a device that is there changes its identity only.
LEMMA RegisterKnown ==
  ASSUME IInv, Locked("Register"), ~Absent, UNCHANGED <<order, heap, call, unmarked, readers>>,
         devices' = [devices EXCEPT ![call.id].profile = call.profile]
  PROVE  IInv'
<1>1. /\ wpc = "waiting" /\ wpc' = "holding" /\ Holding = {} /\ call \in Calls
      /\ unmarked = {} /\ call.profile \in Profiles
  <2>1. call \in Calls /\ call.op = "Register"
    BY LockedFacts
  <2>2. call.profile \in Profiles
    BY <2>1 DEF Calls
  <2> QED BY <2>2, LockedFacts
<1>2. DevicesTyped /\ OrderTyped
  BY DEF IInv, TypeInv
<1>3. DOMAIN devices' = DOMAIN devices
  OBVIOUS
<1>4. ASSUME NEW id \in DOMAIN devices
      PROVE  /\ devices'[id] \in Record /\ devices'[id].id = id
             /\ devices'[id].ref = devices[id].ref
             /\ devices'[id].online = devices[id].online
             /\ devices'[id].lastRead = devices[id].lastRead
  <2>1. devices[id] \in Record /\ devices[id].id = id
    BY <1>2 DEF DevicesTyped
  <2>2. CASE id = call.id
    <3>1. devices'[id] = [devices[id] EXCEPT !.profile = call.profile]
      BY <2>2
    <3> QED BY <1>1, <2>1, <3>1 DEF Record
  <2>3. CASE id # call.id
    <3>1. devices'[id] = devices[id]
      BY <2>3
    <3> QED BY <2>1, <3>1
  <2> QED BY <2>2, <2>3
<1>5. DevicesTyped'
  <2>1. devices' = [id \in DOMAIN devices |-> devices'[id]]
    OBVIOUS
  <2> QED BY <1>2, <1>3, <1>4, <2>1 DEF DevicesTyped
<1>6. OrderTyped'
  BY <1>2, <1>3 DEF OrderTyped
<1>7. Live' = Live
  BY <1>3, <1>4, KeptRefs
<1>8. HeapTyped'
  BY <1>7 DEF IInv, TypeInv, HeapTyped
<1>9. NoAliases'
  BY <1>3, <1>4 DEF IInv, NoAliases
<1>10. Marking'
  BY <1>1 DEF Marking
<1>11. Consistent'
  <2>1. \A id, k : ~Pending(id, k) /\ ~Pending(id, k)'
    BY <1>1 DEF Pending
  <2>2. \A id \in DOMAIN devices : \A k \in DOMAIN heap[devices[id].ref] :
          /\ heap[devices[id].ref][k].value = devices[id].lastRead
          /\ heap[devices[id].ref][k].stale = ~devices[id].online
    BY <2>1 DEF IInv, Consistent
  <2>3. \A id \in DOMAIN devices' : \A k \in DOMAIN heap'[devices'[id].ref] :
          /\ heap'[devices'[id].ref][k].value = devices'[id].lastRead
          /\ heap'[devices'[id].ref][k].stale = ~devices'[id].online
    <3> SUFFICES ASSUME NEW id \in DOMAIN devices', NEW k \in DOMAIN heap'[devices'[id].ref]
                 PROVE  /\ heap'[devices'[id].ref][k].value = devices'[id].lastRead
                        /\ heap'[devices'[id].ref][k].stale = ~devices'[id].online
      OBVIOUS
    <3>1. id \in DOMAIN devices /\ heap' = heap /\ devices'[id].ref = devices[id].ref
      BY <1>3, <1>4
    <3>2. devices'[id].online = devices[id].online /\ devices'[id].lastRead = devices[id].lastRead
      BY <1>3, <1>4
    <3>3. k \in DOMAIN heap[devices[id].ref]
      BY <3>1
    <3>4. /\ heap[devices[id].ref][k].value = devices[id].lastRead
          /\ heap[devices[id].ref][k].stale = ~devices[id].online
      BY <2>2, <3>1, <3>3
    <3> QED BY <3>1, <3>2, <3>4
  <2> QED BY <2>3 DEF Consistent
<1>12. \A r \in Readers : \A n \in DOMAIN readers[r].out :
         heap'[readers[r].out[n].ref] = heap[readers[r].out[n].ref]
  OBVIOUS
<1> QED BY <1>1, <1>5, <1>6, <1>8, <1>9, <1>10, <1>11, <1>12, WriterMoves

\* A new metrics map joins those that are reached.
LEMMA NewMap ==
  ASSUME TypeInv, NEW m \in Metrics
  PROVE  /\ WithMap(FreshRef, m) \in [Live \cup {FreshRef} -> Metrics]
         /\ WithMap(FreshRef, m)[FreshRef] = m
         /\ \A n \in Live : WithMap(FreshRef, m)[n] = heap[n]
<1>1. DOMAIN heap = Live /\ FreshRef \notin Live /\ \A n \in Live : heap[n] \in Metrics
  BY Reached
<1> QED BY <1>1 DEF WithMap

\* Register of a device that is not there adds it, last and with no metrics.
LEMMA RegisterNew ==
  ASSUME IInv, Register, Absent
  PROVE  IInv'
<1> DEFINE c == call.id
           new == FreshRef
           d == [id |-> c, profile |-> call.profile, online |-> FALSE,
                 failed |-> FALSE, lastRead |-> 0, ref |-> new]
<1>0. /\ Locked("Register") /\ UNCHANGED <<call, unmarked, readers>>
      /\ devices' = [id \in DOMAIN devices \cup {c} |->
           IF id # c THEN devices[id]
           ELSE [id |-> id, profile |-> call.profile, online |-> FALSE,
                 failed |-> FALSE, lastRead |-> 0, ref |-> new]]
      /\ order' = Append(order, c) /\ heap' = WithMap(new, <<>>)
  BY DEF Register
<1>1. /\ wpc = "waiting" /\ wpc' = "holding" /\ Holding = {} /\ c \in Ids
      /\ unmarked = {} /\ call.profile \in Profiles /\ c \notin DOMAIN devices
      /\ UNCHANGED <<call, unmarked, readers>>
  <2>1. call \in Calls /\ call.op = "Register"
    BY <1>0, LockedFacts
  <2>2. call.profile \in Profiles
    BY <2>1 DEF Calls
  <2> QED BY <1>0, <2>2, LockedFacts DEF Absent
<1>2. DevicesTyped /\ OrderTyped /\ TypeInv
  BY DEF IInv, TypeInv
<1>3. new \in Nat \ {0} /\ new \notin Live
  BY <1>2, Reached
<1>4. /\ DOMAIN devices' = DOMAIN devices \cup {c} /\ devices'[c] = d
      /\ \A id \in DOMAIN devices : devices'[id] = devices[id]
      /\ order' = Append(order, c) /\ heap' = WithMap(new, <<>>)
  BY <1>0, <1>1
<1> HIDE DEF new
<1>5. /\ d \in Record /\ d.id = c /\ d.ref = new /\ d.online = FALSE /\ d.lastRead = 0
  BY <1>1, <1>3 DEF Record
<1> HIDE DEF d, c
<1>6. DevicesTyped'
  <2>1. \A id \in DOMAIN devices : devices[id] \in Record /\ devices[id].id = id
    BY <1>2 DEF DevicesTyped
  <2>2. \A id \in DOMAIN devices' : devices'[id] \in Record /\ devices'[id].id = id
    BY <1>4, <1>5, <2>1
  <2>3. devices' = [id \in DOMAIN devices' |-> devices'[id]]
    BY <1>0
  <2>4. DOMAIN devices' \subseteq Ids
    BY <1>1, <1>2, <1>4 DEF DevicesTyped
  <2> QED BY <2>2, <2>3, <2>4 DEF DevicesTyped
<1>7. OrderTyped'
  <2> DEFINE k == Len(order)
  <2>1. /\ order \in Seq(Ids) /\ k \in Nat /\ DOMAIN order = 1..k
        /\ \A n \in 1..k : order[n] \in DOMAIN devices
        /\ \A id \in DOMAIN devices : \E n \in 1..k : order[n] = id
        /\ \A m, n \in 1..k : order[m] = order[n] => m = n
    BY <1>2, LenProperties DEF OrderTyped
  <2>2. /\ order' \in Seq(Ids) /\ Len(order') = k + 1
        /\ \A n \in 1..k : order'[n] = order[n]
        /\ order'[k + 1] = c
    BY <1>1, <1>4, <2>1, AppendProperties
  <2>3. DOMAIN order' = 1..k + 1
    BY <2>2, LenProperties
  <2> HIDE DEF k
  <2>4. \A n \in 1..k + 1 : n \in 1..k \/ n = k + 1
    BY <2>1
  <2>5. 1..k \subseteq 1..k + 1 /\ k + 1 \in 1..k + 1
    BY <2>1
  <2>6. \A n \in DOMAIN order' : order'[n] \in DOMAIN devices'
    BY <1>4, <2>1, <2>2, <2>3, <2>4
  <2>7. \A id \in DOMAIN devices' : \E n \in DOMAIN order' : order'[n] = id
    BY <1>4, <2>1, <2>2, <2>3, <2>5
  <2>8. \A m, n \in DOMAIN order' : order'[m] = order'[n] => m = n
    BY <1>1, <2>1, <2>2, <2>3, <2>4
  <2> QED BY <2>2, <2>6, <2>7, <2>8 DEF OrderTyped
<1>8. Live' = Live \cup {new}
  <2>1. {devices'[id].ref : id \in DOMAIN devices'} =
          {devices[id].ref : id \in DOMAIN devices} \cup {new}
    BY <1>4, <1>5
  <2>2. OutRefs(readers') = OutRefs(readers)
    BY <1>1
  <2> QED BY <2>1, <2>2 DEF Live, RefsIn
<1>9. /\ heap' \in [Live' -> Metrics] /\ heap'[new] = <<>>
      /\ \A n \in Live : heap'[n] = heap[n]
  <2>1. <<>> \in Metrics
    BY DEF Metrics
  <2> QED BY <1>2, <1>4, <1>8, <2>1, NewMap DEF new
<1>10. HeapTyped'
  BY <1>9 DEF HeapTyped
<1>11. NoAliases'
  <2>1. \A id \in DOMAIN devices : devices[id].ref # new
    BY <1>2, <1>3, Reached
  <2>2. \A r \in Readers : \A n \in DOMAIN readers[r].out : readers[r].out[n].ref # new
    BY <1>2, <1>3, Reached
  <2>3. \A i, j \in DOMAIN devices' : devices'[i].ref = devices'[j].ref => i = j
    BY <1>4, <1>5, <2>1 DEF IInv, NoAliases
  <2>4. \A r \in Readers : \A n \in DOMAIN readers[r].out : \A id \in DOMAIN devices' :
          readers[r].out[n].ref # devices'[id].ref
    BY <1>4, <1>5, <2>2 DEF IInv, NoAliases
  <2>5. ASSUME NEW r \in Readers, NEW n \in DOMAIN readers'[r].out, NEW id \in DOMAIN devices'
        PROVE  readers'[r].out[n].ref # devices'[id].ref
    <3>1. readers' = readers
      BY <1>1
    <3> QED BY <2>4, <3>1
  <2> QED BY <2>3, <2>5 DEF NoAliases
<1>12. Marking'
  BY <1>1 DEF Marking
<1>13. Consistent'
  <2>1. \A id, k : ~Pending(id, k) /\ ~Pending(id, k)'
    BY <1>1 DEF Pending
  <2>2. \A id \in DOMAIN devices : \A k \in DOMAIN heap[devices[id].ref] :
          /\ heap[devices[id].ref][k].value = devices[id].lastRead
          /\ heap[devices[id].ref][k].stale = ~devices[id].online
    BY <2>1 DEF IInv, Consistent
  <2>3. ASSUME NEW id \in DOMAIN devices', NEW k \in DOMAIN heap'[devices'[id].ref]
        PROVE  /\ heap'[devices'[id].ref][k].value = devices'[id].lastRead
               /\ heap'[devices'[id].ref][k].stale = ~devices'[id].online
    <3>1. CASE id = c
      BY <1>4, <1>5, <1>9, <3>1
    <3>2. CASE id \in DOMAIN devices
      <4>1. devices'[id] = devices[id] /\ heap'[devices[id].ref] = heap[devices[id].ref]
        BY <1>2, <1>4, <1>9, <3>2, Reached
      <4>2. k \in DOMAIN heap[devices[id].ref]
        BY <4>1
      <4>3. /\ heap[devices[id].ref][k].value = devices[id].lastRead
            /\ heap[devices[id].ref][k].stale = ~devices[id].online
        BY <2>2, <3>2, <4>2
      <4> QED BY <4>1, <4>3
    <3> QED BY <1>4, <3>1, <3>2
  <2>4. \A id \in DOMAIN devices' : \A k \in DOMAIN heap'[devices'[id].ref] :
          /\ heap'[devices'[id].ref][k].value = devices'[id].lastRead
          /\ heap'[devices'[id].ref][k].stale = ~devices'[id].online
    BY <2>3
  <2> QED BY <2>4 DEF Consistent
<1>14. \A r \in Readers : \A n \in DOMAIN readers[r].out :
         heap'[readers[r].out[n].ref] = heap[readers[r].out[n].ref]
  BY <1>2, <1>9, Reached
<1> QED BY <1>1, <1>6, <1>7, <1>10, <1>11, <1>12, <1>13, <1>14, WriterMoves

\* A call for a device that is not there changes nothing.
LEMMA NothingWritten ==
  ASSUME IInv, NEW op, Locked(op),
         UNCHANGED <<devices, order, heap, call, unmarked, readers>>
  PROVE  IInv'
<1>1. /\ wpc = "waiting" /\ wpc' = "holding" /\ Holding = {} /\ unmarked = {}
  BY LockedFacts
<1>2. Live' = Live
  BY SameRefs
<1>3. DevicesTyped' /\ OrderTyped' /\ HeapTyped'
  BY <1>2 DEF IInv, TypeInv, DevicesTyped, OrderTyped, HeapTyped
<1>4. NoAliases' /\ Marking'
  BY <1>1 DEF IInv, NoAliases, Marking
<1>5. Consistent'
  BY DEF IInv, Consistent, Pending
<1> QED BY <1>1, <1>3, <1>4, <1>5, WriterMoves

\* The registration order holds each device of the store at one place.
LEMMA PlaceFacts ==
  ASSUME OrderTyped, NEW id \in DOMAIN devices
  PROVE  /\ Place(id) \in 1..Len(order) /\ order[Place(id)] = id
         /\ \A n \in 1..Len(order) : order[n] = id => n = Place(id)
<1> DEFINE S == {n \in DOMAIN order : order[n] = id}
<1>1. /\ DOMAIN order = 1..Len(order)
      /\ \A m, n \in DOMAIN order : order[m] = order[n] => m = n
  BY LenProperties DEF OrderTyped
<1>2. S \subseteq Nat /\ S # {}
  BY <1>1 DEF OrderTyped
<1>3. \E m \in S : \A n \in S : m <= n
  BY <1>2, Least
<1>4. Place(id) \in DOMAIN order /\ order[Place(id)] = id
  BY <1>3 DEF Place
<1> QED BY <1>1, <1>4

\* Remove takes the device out of the map and out of the order.
LEMMA RemoveKnown ==
  ASSUME IInv, Remove, ~Absent
  PROVE  IInv'
<1> DEFINE c == call.id
<1>0. /\ Locked("Remove") /\ UNCHANGED <<call, unmarked, readers>>
      /\ devices' = [id \in DOMAIN devices \ {c} |-> devices[id]]
      /\ order' = OrderWithout(c)
      /\ heap' = [n \in RefsIn(devices', readers) |-> heap[n]]
  BY DEF Remove
<1>1. /\ wpc = "waiting" /\ wpc' = "holding" /\ Holding = {} /\ unmarked = {}
      /\ c \in DOMAIN devices /\ UNCHANGED <<call, unmarked, readers>>
  BY <1>0, LockedFacts DEF Absent
<1>2. DevicesTyped /\ OrderTyped /\ TypeInv
  BY DEF IInv, TypeInv
<1>3. /\ DOMAIN devices' = DOMAIN devices \ {c}
      /\ \A id \in DOMAIN devices' : devices'[id] = devices[id]
      /\ order' = OrderWithout(c) /\ heap' = [n \in Live' |-> heap[n]]
  BY <1>0 DEF Live
<1> HIDE DEF c
<1>4. DevicesTyped'
  <2>1. devices' = [id \in DOMAIN devices' |-> devices'[id]]
    BY <1>0
  <2>2. \A id \in DOMAIN devices' : devices'[id] \in Record /\ devices'[id].id = id
    BY <1>2, <1>3 DEF DevicesTyped
  <2>3. DOMAIN devices' \subseteq Ids
    BY <1>2, <1>3 DEF DevicesTyped
  <2> QED BY <2>1, <2>2, <2>3 DEF DevicesTyped
<1>5. OrderTyped'
  <2> DEFINE k == Len(order)
             p == Place(c)
  <2>1. /\ order \in Seq(Ids) /\ k \in Nat /\ DOMAIN order = 1..k
        /\ \A n \in 1..k : order[n] \in DOMAIN devices
        /\ \A id \in DOMAIN devices : \E n \in 1..k : order[n] = id
        /\ \A m, n \in 1..k : order[m] = order[n] => m = n
    BY <1>2, LenProperties DEF OrderTyped
  <2>2. p \in 1..k /\ order[p] = c
    BY <1>1, <1>2, PlaceFacts
  <2>3. /\ order' \in Seq(Ids) /\ Len(order') = k - 1
        /\ \A j \in 1..k - 1 : order'[j] = IF j < p THEN order[j] ELSE order[j + 1]
    <3>1. order' = SubSeq(order, 1, p - 1) \o SubSeq(order, p + 1, Len(order))
      BY <1>3 DEF OrderWithout
    <3>2. p \in 1..Len(order)
      BY <2>2
    <3> HIDE DEF p
    <3> QED BY SMTT(30), <2>1, <3>1, <3>2, WithoutOne
  <2>4. DOMAIN order' = 1..k - 1
    BY <2>3, LenProperties
  <2> HIDE DEF k, p
  <2>5. ASSUME NEW n \in 1..k - 1 PROVE order'[n] \in DOMAIN devices'
    <3>1. CASE n < p
      <4>1. n \in 1..k /\ n # p /\ order'[n] = order[n]
        BY <2>1, <2>2, <2>3, <3>1
      <4> QED BY <1>3, <2>1, <2>2, <4>1
    <3>2. CASE ~(n < p)
      <4>1. n + 1 \in 1..k /\ n + 1 # p /\ order'[n] = order[n + 1]
        BY <2>1, <2>2, <2>3, <3>2
      <4> QED BY <1>3, <2>1, <2>2, <4>1
    <3> QED BY <3>1, <3>2
  <2>6. ASSUME NEW id \in DOMAIN devices' PROVE \E n \in 1..k - 1 : order'[n] = id
    <3>1. PICK n \in 1..k : order[n] = id
      BY <1>3, <2>1
    <3>2. n # p
      BY <1>3, <2>2, <3>1
    <3>3. CASE n < p
      <4>1. n \in 1..k - 1 /\ order'[n] = order[n]
        BY <2>1, <2>2, <2>3, <3>3
      <4> QED BY <3>1, <4>1
    <3>4. CASE ~(n < p)
      <4>1. n - 1 \in 1..k - 1 /\ ~(n - 1 < p) /\ (n - 1) + 1 = n
        BY <2>1, <2>2, <3>2, <3>4
      <4>2. order'[n - 1] = order[n]
        BY <2>3, <4>1
      <4> QED BY <3>1, <4>1, <4>2
    <3> QED BY <3>3, <3>4
  <2>7. ASSUME NEW m \in 1..k - 1, NEW n \in 1..k - 1, order'[m] = order'[n]
        PROVE  m = n
    <3> DEFINE at(j) == IF j < p THEN j ELSE j + 1
    <3>1. \A j \in 1..k - 1 : at(j) \in 1..k /\ order'[j] = order[at(j)]
      BY <2>1, <2>2, <2>3
    <3>2. at(m) = at(n) => m = n
      BY <2>1, <2>2
    <3> HIDE DEF at
    <3>3. order[at(m)] = order[at(n)] /\ at(m) \in 1..k /\ at(n) \in 1..k
      BY <2>7, <3>1
    <3> QED BY <2>1, <3>2, <3>3
  <2> QED BY <2>3, <2>4, <2>5, <2>6, <2>7 DEF OrderTyped
<1>6. Live' \subseteq Live
  <2>1. {devices'[id].ref : id \in DOMAIN devices'} \subseteq {devices[id].ref : id \in DOMAIN devices}
    BY <1>3
  <2>2. OutRefs(readers') = OutRefs(readers)
    BY <1>1
  <2> QED BY <2>1, <2>2 DEF Live, RefsIn
<1>7. /\ heap' \in [Live' -> Metrics] /\ \A n \in Live' : heap'[n] = heap[n]
  BY <1>2, <1>3, <1>6, Reached
<1>8. HeapTyped'
  BY <1>7 DEF HeapTyped
<1>9. NoAliases'
  <2>1. \A i, j \in DOMAIN devices' : devices'[i].ref = devices'[j].ref => i = j
    BY <1>3 DEF IInv, NoAliases
  <2>2. ASSUME NEW r \in Readers, NEW n \in DOMAIN readers'[r].out, NEW id \in DOMAIN devices'
        PROVE  readers'[r].out[n].ref # devices'[id].ref
    BY <1>1, <1>3 DEF IInv, NoAliases
  <2> QED BY <2>1, <2>2 DEF NoAliases
<1>10. Marking'
  BY <1>1 DEF Marking
<1>11. /\ \A id \in DOMAIN devices' : devices'[id].ref \in Live'
       /\ \A r \in Readers : \A n \in DOMAIN readers[r].out : readers[r].out[n].ref \in Live'
  <2>1. \A id \in DOMAIN devices' : devices'[id].ref \in Live'
    BY DEF Live, RefsIn
  <2>2. \A r \in Readers : \A n \in DOMAIN readers'[r].out : readers'[r].out[n].ref \in Live'
    BY DEF Live, RefsIn, OutRefs
  <2> QED BY <1>1, <2>1, <2>2
<1>12. Consistent'
  <2>1. \A id, k : ~Pending(id, k)
    BY <1>1 DEF Pending
  <2>2. \A id \in DOMAIN devices : \A k \in DOMAIN heap[devices[id].ref] :
          /\ heap[devices[id].ref][k].value = devices[id].lastRead
          /\ heap[devices[id].ref][k].stale = ~devices[id].online
    BY <2>1 DEF IInv, Consistent
  <2>3. ASSUME NEW id \in DOMAIN devices', NEW k \in DOMAIN heap'[devices'[id].ref]
        PROVE  /\ heap'[devices'[id].ref][k].value = devices'[id].lastRead
               /\ heap'[devices'[id].ref][k].stale = ~devices'[id].online
    <3>1. /\ devices'[id] = devices[id] /\ id \in DOMAIN devices
          /\ heap'[devices[id].ref] = heap[devices[id].ref]
      BY <1>3, <1>7, <1>11
    <3>2. k \in DOMAIN heap[devices[id].ref]
      BY <3>1
    <3> QED BY <2>2, <3>1, <3>2
  <2>4. \A id \in DOMAIN devices' : \A k \in DOMAIN heap'[devices'[id].ref] :
          /\ heap'[devices'[id].ref][k].value = devices'[id].lastRead
          /\ heap'[devices'[id].ref][k].stale = ~devices'[id].online
    BY <2>3
  <2> QED BY <2>4 DEF Consistent
<1>13. \A r \in Readers : \A n \in DOMAIN readers[r].out :
         heap'[readers[r].out[n].ref] = heap[readers[r].out[n].ref]
  BY <1>7, <1>11
<1> QED BY <1>1, <1>4, <1>5, <1>8, <1>9, <1>10, <1>12, <1>13, WriterMoves

\* What a poll that succeeded leaves of a device.
LEMMA SuccessRecord ==
  ASSUME IInv, RecordSuccess, ~Absent
  PROVE  devices' = [id \in DOMAIN devices |-> IF id = call.id
           THEN [id |-> devices[call.id].id, profile |-> devices[call.id].profile,
                 online |-> TRUE, failed |-> FALSE, lastRead |-> call.t, ref |-> FreshRef]
           ELSE devices[id]]
<1>1. PICK f, c, t, new : f = devices /\ c = call.id /\ t = call.t /\ new = FreshRef
  OBVIOUS
<1>2. c \in DOMAIN f /\ f[c] \in Record
  BY <1>1 DEF Absent, IInv, TypeInv, DevicesTyped
<1> DEFINE f1 == [f EXCEPT ![c].online = TRUE]
           f2 == [f1 EXCEPT ![c].failed = FALSE]
           f3 == [f2 EXCEPT ![c].lastRead = t]
           f4 == [f3 EXCEPT ![c].ref = new]
           d1 == [f[c] EXCEPT !.online = TRUE]
           d2 == [d1 EXCEPT !.failed = FALSE]
           d3 == [d2 EXCEPT !.lastRead = t]
           d4 == [d3 EXCEPT !.ref = new]
<1>3. f1 = [i \in DOMAIN f |-> IF i = c THEN d1 ELSE f[i]]
  BY <1>2
<1> HIDE DEF f1, d1
<1>4. f2 = [i \in DOMAIN f |-> IF i = c THEN d2 ELSE f[i]]
  BY <1>3
<1> HIDE DEF f2, d2
<1>5. f3 = [i \in DOMAIN f |-> IF i = c THEN d3 ELSE f[i]]
  BY <1>4
<1> HIDE DEF f3, d3
<1>6. f4 = [i \in DOMAIN f |-> IF i = c THEN d4 ELSE f[i]]
  BY <1>5
<1>7. d4 = [id |-> f[c].id, profile |-> f[c].profile, online |-> TRUE,
            failed |-> FALSE, lastRead |-> t, ref |-> new]
  <2> DEFINE D == {"id", "profile", "online", "failed", "lastRead", "ref"}
  <2>1. f[c] = [x \in D |-> f[c][x]]
    BY <1>2 DEF Record
  <2>2. d1 = [x \in D |-> IF x = "online" THEN TRUE ELSE f[c][x]]
    BY <2>1, Zenon DEF d1
  <2>3. d2 = [x \in D |-> IF x = "failed" THEN FALSE ELSE d1[x]]
    BY <2>2, Zenon DEF d2
  <2>4. d3 = [x \in D |-> IF x = "lastRead" THEN t ELSE d2[x]]
    BY <2>3, Zenon DEF d3
  <2>5. d4 = [x \in D |-> IF x = "ref" THEN new ELSE d3[x]]
    BY <2>4, Zenon
  <2> HIDE DEF d4
  <2> QED BY <2>2, <2>3, <2>4, <2>5
<1>8. devices' = f4
  BY <1>1 DEF RecordSuccess, f3, f2, f1
<1> HIDE DEF f4, d4
<1> QED BY <1>1, <1>6, <1>7, <1>8

\* What a poll that failed leaves of a device.
LEMMA FailureRecord ==
  ASSUME IInv, RecordFailure, ~Absent
  PROVE  devices' = [id \in DOMAIN devices |-> IF id = call.id
           THEN [id |-> devices[call.id].id, profile |-> devices[call.id].profile,
                 online |-> FALSE, failed |-> TRUE, lastRead |-> devices[call.id].lastRead,
                 ref |-> devices[call.id].ref]
           ELSE devices[id]]
<1>1. PICK f, c : f = devices /\ c = call.id
  OBVIOUS
<1>2. c \in DOMAIN f /\ f[c] \in Record
  BY <1>1 DEF Absent, IInv, TypeInv, DevicesTyped
<1> DEFINE f1 == [f EXCEPT ![c].online = FALSE]
           f2 == [f1 EXCEPT ![c].failed = TRUE]
           d1 == [f[c] EXCEPT !.online = FALSE]
           d2 == [d1 EXCEPT !.failed = TRUE]
<1>3. f1 = [i \in DOMAIN f |-> IF i = c THEN d1 ELSE f[i]]
  BY <1>2
<1> HIDE DEF f1, d1
<1>4. f2 = [i \in DOMAIN f |-> IF i = c THEN d2 ELSE f[i]]
  BY <1>3
<1>5. d2 = [id |-> f[c].id, profile |-> f[c].profile, online |-> FALSE,
            failed |-> TRUE, lastRead |-> f[c].lastRead, ref |-> f[c].ref]
  <2> DEFINE D == {"id", "profile", "online", "failed", "lastRead", "ref"}
  <2>1. f[c] = [x \in D |-> f[c][x]]
    BY <1>2 DEF Record
  <2>2. d1 = [x \in D |-> IF x = "online" THEN FALSE ELSE f[c][x]]
    BY <2>1, Zenon DEF d1
  <2>3. d2 = [x \in D |-> IF x = "failed" THEN TRUE ELSE d1[x]]
    BY <2>2, Zenon
  <2> HIDE DEF d2
  <2> QED BY <2>2, <2>3
<1>6. devices' = f2
  BY <1>1 DEF RecordFailure, f1
<1> HIDE DEF f2, d2
<1> QED BY <1>1, <1>4, <1>5, <1>6

\* RecordSuccess replaces the device's map by one of the poll.
LEMMA SuccessKnown ==
  ASSUME IInv, RecordSuccess, ~Absent
  PROVE  IInv'
<1> DEFINE c == call.id
           t == call.t
           new == FreshRef
           m == [k \in Keys |-> [value |-> t, stale |-> FALSE]]
           d == [id |-> devices[c].id, profile |-> devices[c].profile, online |-> TRUE,
                 failed |-> FALSE, lastRead |-> t, ref |-> new]
<1>0. /\ Locked("RecordSuccess") /\ UNCHANGED <<order, call, unmarked, readers>>
      /\ devices' = [devices EXCEPT ![c].online = TRUE, ![c].failed = FALSE,
                                    ![c].lastRead = t, ![c].ref = new]
      /\ heap' = [n \in RefsIn(devices', readers) |-> WithMap(new, m)[n]]
  BY DEF RecordSuccess
<1>1. /\ wpc = "waiting" /\ wpc' = "holding" /\ Holding = {} /\ unmarked = {}
      /\ c \in DOMAIN devices /\ t \in Times /\ UNCHANGED <<order, call, unmarked, readers>>
  <2>1. call \in Calls /\ call.op = "RecordSuccess"
    BY <1>0, LockedFacts
  <2>2. t \in Times
    BY <2>1 DEF Calls
  <2> QED BY <1>0, <2>2, LockedFacts DEF Absent
<1>2. /\ DevicesTyped /\ OrderTyped /\ TypeInv
      /\ \A id \in DOMAIN devices : devices[id] \in Record /\ devices[id].id = id
  BY DEF IInv, TypeInv, DevicesTyped
<1>3. devices' = [id \in DOMAIN devices |-> IF id = c THEN d ELSE devices[id]]
  BY SuccessRecord
<1>4. new \in Nat \ {0} /\ new \notin Live
  BY <1>2, Reached
<1>5. m \in Metrics /\ DOMAIN m \subseteq Keys
      /\ \A k \in DOMAIN m : m[k].value = t /\ m[k].stale = FALSE
  BY <1>1 DEF Metrics, Measurement
<1>6. heap' = [n \in Live' |-> WithMap(new, m)[n]]
  BY <1>0 DEF Live
<1> HIDE DEF new, m
<1>7. d \in Record /\ d.id = c /\ d.ref = new /\ d.online = TRUE /\ d.lastRead = t
  <2>1. devices[c].id = c /\ devices[c].profile \in Profiles /\ c \in Ids
    BY <1>1, <1>2 DEF Record
  <2> QED BY <1>1, <1>4, <2>1 DEF Record
<1> HIDE DEF d, c, t
<1>8. /\ DOMAIN devices' = DOMAIN devices /\ devices'[c] = d
      /\ \A id \in DOMAIN devices \ {c} : devices'[id] = devices[id]
  BY <1>1, <1>3
<1>9. DevicesTyped'
  <2>1. devices' = [id \in DOMAIN devices' |-> devices'[id]]
    BY <1>3
  <2>2. \A id \in DOMAIN devices' : devices'[id] \in Record /\ devices'[id].id = id
    BY <1>2, <1>7, <1>8
  <2>3. DOMAIN devices' \subseteq Ids
    BY <1>2, <1>8 DEF DevicesTyped
  <2> QED BY <2>1, <2>2, <2>3 DEF DevicesTyped
<1>10. OrderTyped'
  <2>1. DOMAIN devices' = DOMAIN devices /\ order' = order
    BY <1>1, <1>8
  <2> QED BY <1>2, <2>1 DEF OrderTyped
<1>11. /\ Live' \subseteq Live \cup {new} /\ new \in Live'
       /\ \A id \in DOMAIN devices' : devices'[id].ref \in Live'
       /\ \A r \in Readers : \A n \in DOMAIN readers[r].out : readers[r].out[n].ref \in Live'
  <2>1. {devices'[id].ref : id \in DOMAIN devices'} \subseteq
          {devices[id].ref : id \in DOMAIN devices} \cup {new}
    BY <1>7, <1>8
  <2>2. OutRefs(readers') = OutRefs(readers)
    BY <1>1
  <2>3. \A id \in DOMAIN devices' : devices'[id].ref \in Live'
    BY DEF Live, RefsIn
  <2>4. \A r \in Readers : \A n \in DOMAIN readers'[r].out : readers'[r].out[n].ref \in Live'
    BY DEF Live, RefsIn, OutRefs
  <2>5. new \in Live'
    BY <1>1, <1>7, <1>8, <2>3
  <2>6. Live' \subseteq Live \cup {new}
    BY <2>1, <2>2 DEF Live, RefsIn
  <2> QED BY <1>1, <2>3, <2>4, <2>5, <2>6
<1>12. /\ heap' \in [Live' -> Metrics] /\ heap'[new] = m
       /\ \A n \in Live : n \in Live' => heap'[n] = heap[n]
  <2>1. /\ WithMap(new, m) \in [Live \cup {new} -> Metrics]
        /\ WithMap(new, m)[new] = m
        /\ \A n \in Live : WithMap(new, m)[n] = heap[n]
    BY <1>2, <1>5, NewMap DEF new
  <2> QED BY <1>6, <1>11, <2>1
<1>13. HeapTyped'
  BY <1>12 DEF HeapTyped
<1>14. NoAliases'
  <2>1. \A id \in DOMAIN devices : devices[id].ref # new
    BY <1>2, <1>4, Reached
  <2>2. \A r \in Readers : \A n \in DOMAIN readers[r].out : readers[r].out[n].ref # new
    BY <1>2, <1>4, Reached
  <2>3. \A i, j \in DOMAIN devices' : devices'[i].ref = devices'[j].ref => i = j
    BY <1>7, <1>8, <2>1 DEF IInv, NoAliases
  <2>4. ASSUME NEW r \in Readers, NEW n \in DOMAIN readers'[r].out, NEW id \in DOMAIN devices'
        PROVE  readers'[r].out[n].ref # devices'[id].ref
    BY <1>1, <1>7, <1>8, <2>2 DEF IInv, NoAliases
  <2> QED BY <2>3, <2>4 DEF NoAliases
<1>15. Marking'
  BY <1>1 DEF Marking
<1>16. Consistent'
  <2>1. \A id, k : ~Pending(id, k)
    BY <1>1 DEF Pending
  <2>2. \A id \in DOMAIN devices : \A k \in DOMAIN heap[devices[id].ref] :
          /\ heap[devices[id].ref][k].value = devices[id].lastRead
          /\ heap[devices[id].ref][k].stale = ~devices[id].online
    BY <2>1 DEF IInv, Consistent
  <2>3. ASSUME NEW id \in DOMAIN devices', NEW k \in DOMAIN heap'[devices'[id].ref]
        PROVE  /\ heap'[devices'[id].ref][k].value = devices'[id].lastRead
               /\ heap'[devices'[id].ref][k].stale = ~devices'[id].online
    <3>1. CASE id = c
      BY ZenonT(40), <1>5, <1>7, <1>8, <1>12, <3>1
    <3>2. CASE id # c
      <4>1. id \in DOMAIN devices /\ devices'[id] = devices[id]
        BY <1>8, <3>2
      <4>2. heap'[devices[id].ref] = heap[devices[id].ref]
        BY <1>2, <1>11, <1>12, <4>1, Reached
      <4>3. k \in DOMAIN heap[devices[id].ref]
        BY <4>1, <4>2
      <4> QED BY <2>2, <4>1, <4>2, <4>3
    <3> QED BY <3>1, <3>2
  <2>4. \A id \in DOMAIN devices' : \A k \in DOMAIN heap'[devices'[id].ref] :
          /\ heap'[devices'[id].ref][k].value = devices'[id].lastRead
          /\ heap'[devices'[id].ref][k].stale = ~devices'[id].online
    BY <2>3
  <2> QED BY <2>4 DEF Consistent
<1>17. \A r \in Readers : \A n \in DOMAIN readers[r].out :
         heap'[readers[r].out[n].ref] = heap[readers[r].out[n].ref]
  BY <1>2, <1>11, <1>12, Reached
<1> QED BY <1>1, <1>9, <1>10, <1>13, <1>14, <1>15, <1>16, <1>17, WriterMoves

\* RecordFailure takes the device offline: its metrics are still to be flagged.
LEMMA FailureKnown ==
  ASSUME IInv, RecordFailure, ~Absent
  PROVE  IInv'
<1> DEFINE c == call.id
           d == [id |-> devices[c].id, profile |-> devices[c].profile, online |-> FALSE,
                 failed |-> TRUE, lastRead |-> devices[c].lastRead, ref |-> devices[c].ref]
<1>0. /\ Locked("RecordFailure") /\ UNCHANGED <<order, heap, call, readers>>
      /\ unmarked' = DOMAIN heap[devices[c].ref]
  BY DEF RecordFailure
<1>1. /\ wpc = "waiting" /\ wpc' = "holding" /\ Holding = {} /\ unmarked = {}
      /\ c \in DOMAIN devices /\ call.op = "RecordFailure"
      /\ UNCHANGED <<order, heap, call, readers>>
  BY <1>0, LockedFacts DEF Absent
<1>2. /\ DevicesTyped /\ OrderTyped /\ TypeInv
      /\ \A id \in DOMAIN devices : devices[id] \in Record /\ devices[id].id = id
  BY DEF IInv, TypeInv, DevicesTyped
<1>3. devices' = [id \in DOMAIN devices |-> IF id = c THEN d ELSE devices[id]]
  BY FailureRecord
<1>4. unmarked' \subseteq Keys /\ unmarked' = DOMAIN heap[devices[c].ref]
  BY <1>0, <1>1, <1>2, Reached, MetricsFacts
<1>5. /\ d \in Record /\ d.id = c /\ d.ref = devices[c].ref /\ d.online = FALSE
      /\ d.lastRead = devices[c].lastRead
  BY <1>1, <1>2 DEF Record
<1> HIDE DEF d
<1>6. /\ DOMAIN devices' = DOMAIN devices /\ devices'[c] = d
      /\ \A id \in DOMAIN devices \ {c} : devices'[id] = devices[id]
      /\ \A id \in DOMAIN devices : devices'[id].ref = devices[id].ref
  BY <1>1, <1>3, <1>5
<1>7. DevicesTyped'
  <2>1. devices' = [id \in DOMAIN devices' |-> devices'[id]]
    BY <1>3
  <2>2. \A id \in DOMAIN devices' : devices'[id] \in Record /\ devices'[id].id = id
    BY <1>2, <1>5, <1>6
  <2>3. DOMAIN devices' \subseteq Ids
    BY <1>2, <1>6 DEF DevicesTyped
  <2> QED BY <2>1, <2>2, <2>3 DEF DevicesTyped
<1>8. OrderTyped'
  <2>1. DOMAIN devices' = DOMAIN devices /\ order' = order
    BY <1>1, <1>6
  <2> QED BY <1>2, <2>1 DEF OrderTyped
<1>9. HeapTyped'
  <2>1. Live' = Live /\ heap' = heap
    BY <1>1, <1>6, KeptRefs
  <2> QED BY <1>2, <2>1 DEF TypeInv, HeapTyped
<1>10. NoAliases'
  <2>1. \A i, j \in DOMAIN devices' : devices'[i].ref = devices'[j].ref => i = j
    BY <1>6 DEF IInv, NoAliases
  <2>2. ASSUME NEW r \in Readers, NEW n \in DOMAIN readers'[r].out, NEW id \in DOMAIN devices'
        PROVE  readers'[r].out[n].ref # devices'[id].ref
    BY <1>1, <1>6 DEF IInv, NoAliases
  <2> QED BY <2>1, <2>2 DEF NoAliases
<1>11. Marking'
  <2>1. call'.id \in DOMAIN devices' /\ ~devices'[call'.id].online
    BY <1>1, <1>5, <1>6
  <2> QED BY <1>1, <1>4, <2>1 DEF Marking, Absent
<1>12. Consistent'
  <2>1. \A id, k : ~Pending(id, k)
    BY <1>1 DEF Pending
  <2>2. \A id \in DOMAIN devices : \A k \in DOMAIN heap[devices[id].ref] :
          /\ heap[devices[id].ref][k].value = devices[id].lastRead
          /\ heap[devices[id].ref][k].stale = ~devices[id].online
    BY <2>1 DEF IInv, Consistent
  <2>3. ASSUME NEW id \in DOMAIN devices', NEW k \in DOMAIN heap'[devices'[id].ref]
        PROVE  /\ heap'[devices'[id].ref][k].value = devices'[id].lastRead
               /\ \/ Pending(id, k)'
                  \/ heap'[devices'[id].ref][k].stale = ~devices'[id].online
    <3>1. /\ id \in DOMAIN devices /\ heap'[devices'[id].ref] = heap[devices[id].ref]
          /\ k \in DOMAIN heap[devices[id].ref]
      BY <1>1, <1>6
    <3>2. CASE id = c
      <4>1. Pending(id, k)'
        BY <1>1, <1>4, <3>1, <3>2 DEF Pending
      <4>2. devices'[id].lastRead = devices[id].lastRead
        BY <1>5, <1>6, <3>2
      <4> QED BY <2>2, <3>1, <4>1, <4>2
    <3>3. CASE id # c
      <4>1. devices'[id] = devices[id]
        BY <1>6, <3>1, <3>3
      <4> QED BY <2>2, <3>1, <4>1
    <3> QED BY <3>2, <3>3
  <2>4. \A id \in DOMAIN devices' : \A k \in DOMAIN heap'[devices'[id].ref] :
          /\ heap'[devices'[id].ref][k].value = devices'[id].lastRead
          /\ Pending(id, k)' \/ heap'[devices'[id].ref][k].stale = ~devices'[id].online
    BY <2>3
  <2> QED BY <2>4 DEF Consistent
<1>13. \A r \in Readers : \A n \in DOMAIN readers[r].out :
         heap'[readers[r].out[n].ref] = heap[readers[r].out[n].ref]
  BY <1>1
<1> QED BY <1>1, <1>7, <1>8, <1>9, <1>10, <1>11, <1>12, <1>13, WriterMoves

\* One metric of the device is flagged, in its own map.
LEMMA MarkStaleKeeps ==
  ASSUME IInv, NEW key \in Keys, MarkStale(key)
  PROVE  IInv'
<1>0. PICK c, ref : c = call.id /\ ref = devices[c].ref
  OBVIOUS
<1>1. /\ wpc = "holding" /\ key \in unmarked /\ unmarked' = unmarked \ {key}
      /\ heap' = [heap EXCEPT ![ref][key].stale = TRUE]
      /\ UNCHANGED <<devices, order, call, wpc, readers>>
  BY <1>0 DEF MarkStale
<1>2. /\ TypeInv /\ Holding = {} /\ unmarked \subseteq Keys /\ call.op = "RecordFailure"
      /\ c \in DOMAIN devices /\ ~devices[c].online
  BY <1>0, <1>1 DEF IInv, Marking, Exclusion, Absent
<1>3. /\ ref \in Live /\ DOMAIN heap = Live /\ \A n \in Live : heap[n] \in Metrics
  BY <1>0, <1>2, Reached
<1>4. /\ heap' = [n \in Live |-> IF n = ref THEN [heap[ref] EXCEPT ![key].stale = TRUE] ELSE heap[n]]
  BY <1>1, <1>2, <1>3 DEF TypeInv, HeapTyped
<1> DEFINE m == heap[ref]
           w == [heap[ref] EXCEPT ![key].stale = TRUE]
<1>5. /\ w \in Metrics /\ DOMAIN w = DOMAIN m
      /\ \A k \in DOMAIN m \ {key} : w[k] = m[k]
      /\ key \in DOMAIN m => w[key].value = m[key].value /\ w[key].stale = TRUE
  <2>1. m \in Metrics
    BY <1>3
  <2>2. m = [k \in DOMAIN m |-> m[k]] /\ \A k \in DOMAIN m : m[k] \in Measurement
    BY <2>1, MetricsFacts
  <2>3. w = [k \in DOMAIN m |-> IF k = key THEN [m[key] EXCEPT !.stale = TRUE] ELSE m[k]]
    BY <2>2
  <2> HIDE DEF w, m
  <2>4. ASSUME key \in DOMAIN m
        PROVE  /\ [m[key] EXCEPT !.stale = TRUE] \in Measurement
               /\ [m[key] EXCEPT !.stale = TRUE].value = m[key].value
               /\ [m[key] EXCEPT !.stale = TRUE].stale = TRUE
    BY <2>2, <2>4 DEF Measurement
  <2>5. /\ DOMAIN w = DOMAIN m /\ \A k \in DOMAIN m \ {key} : w[k] = m[k]
        /\ key \in DOMAIN m => w[key] = [m[key] EXCEPT !.stale = TRUE]
    BY <2>3
  <2>6. w \in Metrics
    <3>1. CASE m = <<>>
      BY <2>3, <3>1 DEF Metrics
    <3>2. CASE m \in [Keys -> Measurement]
      BY <2>2, <2>3, <2>4, <3>2 DEF Metrics
    <3> QED BY <2>1, <3>1, <3>2 DEF Metrics
  <2> QED BY <2>4, <2>5, <2>6
<1>6. /\ heap' \in [Live -> Metrics] /\ heap'[ref] = w
      /\ \A n \in Live \ {ref} : heap'[n] = heap[n]
  BY <1>3, <1>4, <1>5
<1> HIDE DEF m, w
<1>7. DevicesTyped' /\ OrderTyped'
  BY <1>1, <1>2 DEF TypeInv, DevicesTyped, OrderTyped
<1>8. HeapTyped'
  <2>1. Live' = Live
    BY <1>1, SameRefs
  <2> QED BY <1>6, <2>1 DEF HeapTyped
<1>9. NoAliases'
  BY <1>1 DEF IInv, NoAliases
<1>10. Marking'
  <2>1. UNCHANGED <<devices, call, wpc>>
    BY <1>1
  <2>2. unmarked' \subseteq Keys
    BY <1>1, <1>2
  <2> QED BY <1>0, <1>1, <1>2, <2>1, <2>2 DEF Marking, Absent
<1>11. Consistent'
  <2>1. \A id \in DOMAIN devices : \A k \in DOMAIN heap[devices[id].ref] :
          /\ heap[devices[id].ref][k].value = devices[id].lastRead
          /\ Pending(id, k) \/ heap[devices[id].ref][k].stale = ~devices[id].online
    BY DEF IInv, Consistent
  <2>2. ASSUME NEW id \in DOMAIN devices, NEW k \in DOMAIN heap'[devices[id].ref]
        PROVE  /\ heap'[devices[id].ref][k].value = devices[id].lastRead
               /\ \/ Pending(id, k)'
                  \/ heap'[devices[id].ref][k].stale = ~devices[id].online
    <3>1. CASE id = c
      <4>1. heap'[devices[id].ref] = w /\ heap[devices[id].ref] = m /\ k \in DOMAIN m
        BY <1>0, <1>5, <1>6, <3>1 DEF m
      <4>2. CASE k = key
        <5>1. w[k].value = m[k].value /\ w[k].stale = TRUE
          BY <1>5, <4>1, <4>2
        <5> QED BY <1>2, <2>1, <3>1, <4>1, <5>1
      <4>3. CASE k # key
        <5>1. w[k] = m[k]
          BY <1>5, <4>1, <4>3
        <5>2. Pending(id, k) => Pending(id, k)'
          BY <1>1, <4>3 DEF Pending
        <5> QED BY <2>1, <4>1, <5>1, <5>2
      <4> QED BY <4>2, <4>3
    <3>2. CASE id # c
      <4>1. devices[id].ref # ref /\ devices[id].ref \in Live
        BY <1>0, <1>2, <3>2, Reached DEF IInv, NoAliases
      <4>2. heap'[devices[id].ref] = heap[devices[id].ref]
        BY <1>6, <4>1
      <4>3. ~Pending(id, k)
        BY <1>0, <3>2 DEF Pending
      <4> QED BY <2>1, <4>2, <4>3
    <3> QED BY <3>1, <3>2
  <2>3. \A id \in DOMAIN devices' : \A k \in DOMAIN heap'[devices'[id].ref] :
          /\ heap'[devices'[id].ref][k].value = devices'[id].lastRead
          /\ Pending(id, k)' \/ heap'[devices'[id].ref][k].stale = ~devices'[id].online
    <3> SUFFICES ASSUME NEW id \in DOMAIN devices', NEW k \in DOMAIN heap'[devices'[id].ref]
                 PROVE  /\ heap'[devices'[id].ref][k].value = devices'[id].lastRead
                        /\ \/ Pending(id, k)'
                           \/ heap'[devices'[id].ref][k].stale = ~devices'[id].online
      OBVIOUS
    <3>1. devices' = devices
      BY <1>1
    <3> QED BY <2>2, <3>1
  <2> QED BY <2>3 DEF Consistent
<1>12. \A r \in Readers : \A n \in DOMAIN readers[r].out :
         heap'[readers[r].out[n].ref] = heap[readers[r].out[n].ref]
  BY <1>0, <1>2, <1>6, Reached DEF IInv, NoAliases
<1>13. wpc # "outside" /\ UNCHANGED <<call, readers>> /\ wpc' = "holding"
  BY <1>1
<1> QED BY <1>2, <1>7, <1>8, <1>9, <1>10, <1>11, <1>12, <1>13, WriterMoves

-----------------------------------------------------------------------------
(* The invariant holds.                                                    *)

\* The store starts empty and unused.
LEMMA Begins ==
  ASSUME Init
  PROVE  IInv
<1>1. /\ devices = <<>> /\ order = <<>> /\ heap = <<>> /\ call = None
      /\ wpc = "outside" /\ unmarked = {}
      /\ readers = [r \in Readers |-> Idle]
  BY DEF Init
<1>2. \A r \in Readers : readers[r] = Idle
  BY <1>1
<1>3. /\ Idle \in Reader /\ Idle.pc = "idle" /\ Idle.question = None
      /\ Idle.left = <<>> /\ Idle.out = <<>>
  BY Waiting
<1>4. DOMAIN devices = {}
  BY <1>1
<1>5. Live = {}
  <2>1. \A n : n \notin Live
    <3> SUFFICES ASSUME NEW n PROVE n \notin RefsIn(devices, readers)
      BY DEF Live
    <3>1. \A r \in Readers : DOMAIN readers[r].out = {}
      BY <1>2, <1>3
    <3> QED BY <1>4, <3>1, InRefs
  <2> QED BY <2>1
<1>6. DevicesTyped
  BY <1>1, <1>4 DEF DevicesTyped
<1>7. OrderTyped
  BY <1>1, <1>4 DEF OrderTyped
<1>8. HeapTyped
  BY <1>1, <1>5 DEF HeapTyped
<1>9. CallsTyped
  BY <1>1, <1>2, <1>3 DEF CallsTyped
<1>10. Holding = {} /\ Exclusion /\ Marking
  BY <1>1, <1>2, <1>3 DEF Holding, Exclusion, Marking
<1>11. NoAliases /\ Consistent
  BY <1>4 DEF NoAliases, Consistent
<1>12. NoTornReading
  <2>1. \A r \in Readers : DOMAIN readers[r].out = {}
    BY <1>2, <1>3
  <2> QED BY <2>1 DEF NoTornReading
<1>13. CopiesCurrent
  BY <1>10 DEF CopiesCurrent
<1> QED BY <1>6, <1>7, <1>8, <1>9, <1>10, <1>11, <1>12, <1>13 DEF IInv, TypeInv

\* Every step of the poll loop and of the handlers keeps it.
LEMMA Keeps ==
  ASSUME IInv, [Next]_vars
  PROVE  IInv'
<1>1. ASSUME NEW c \in Calls, Begin(c) PROVE IInv'
  BY <1>1, BeginKeeps
<1>2. CASE Register
  <2>1. CASE Absent
    BY <1>2, <2>1, RegisterNew
  <2>2. CASE ~Absent
    BY <1>2, <2>2, RegisterKnown DEF Register
  <2> QED BY <2>1, <2>2
<1>3. CASE Remove
  <2>1. CASE Absent
    BY <1>3, <2>1, NothingWritten DEF Remove
  <2>2. CASE ~Absent
    BY <1>3, <2>2, RemoveKnown
  <2> QED BY <2>1, <2>2
<1>4. CASE RecordSuccess
  <2>1. CASE Absent
    BY <1>4, <2>1, NothingWritten DEF RecordSuccess
  <2>2. CASE ~Absent
    BY <1>4, <2>2, SuccessKnown
  <2> QED BY <2>1, <2>2
<1>5. CASE RecordFailure
  <2>1. CASE Absent
    BY <1>5, <2>1, NothingWritten DEF RecordFailure
  <2>2. CASE ~Absent
    BY <1>5, <2>2, FailureKnown
  <2> QED BY <2>1, <2>2
<1>6. ASSUME NEW k \in Keys, MarkStale(k) PROVE IInv'
  BY <1>6, MarkStaleKeeps
<1>7. CASE Unlock
  BY <1>7, UnlockKeeps
<1>8. ASSUME NEW r \in Readers, NEW question \in Ids \cup {All}, Ask(r, question)
      PROVE  IInv'
  BY <1>8, AskKeeps
<1>9. ASSUME NEW r \in Readers, ReaderStep(r) PROVE IInv'
  BY <1>9, CopyKeeps, RUnlockKeeps, RespondKeeps DEF ReaderStep
<1>10. CASE UNCHANGED vars
  <2>1. UNCHANGED <<devices, order, heap, call, wpc, unmarked, readers>>
    BY <1>10 DEF vars
  <2>2. Live' = Live /\ Holding' = Holding
    BY <2>1, SameRefs DEF Holding
  <2>3. TypeInv'
    BY <2>1, <2>2 DEF IInv, TypeInv, DevicesTyped, OrderTyped, HeapTyped, CallsTyped
  <2>4. Exclusion' /\ NoAliases' /\ Marking'
    BY <2>1, <2>2 DEF IInv, Exclusion, NoAliases, Marking, Absent
  <2>5. Consistent' /\ NoTornReading'
    BY <2>1 DEF IInv, Consistent, Pending, NoTornReading
  <2>6. CopiesCurrent'
    BY <2>1, <2>2 DEF IInv, CopiesCurrent
  <2> QED BY <2>3, <2>4, <2>5, <2>6 DEF IInv
<1> QED BY <1>1, <1>2, <1>3, <1>4, <1>5, <1>6, <1>7, <1>8, <1>9, <1>10
        DEF Next, WriterStep

\* The inductive invariant holds in every state of the store.
THEOREM Invariance == Spec => []IInv
BY Begins, Keeps, PTL DEF Spec

\* Every device is listed once in the registration order, and the heap holds the
\* maps somebody refers to and no others.
THEOREM TypeCorrect == Spec => []TypeOK
<1>1. ASSUME IInv PROVE TypeOK
  <2>1. DevicesTyped /\ OrderTyped /\ HeapTyped /\ CallsTyped /\ TypeInv
    BY <1>1 DEF IInv, TypeInv
  <2>2. /\ DOMAIN devices \subseteq Ids
        /\ \A id \in DOMAIN devices : devices[id] \in Record /\ devices[id].id = id
    BY <2>1 DEF DevicesTyped
  <2>3. /\ order \in [1..Len(order) -> DOMAIN devices] /\ Len(order) \in Nat
        /\ \A id \in DOMAIN devices : \E n \in 1..Len(order) : order[n] = id
        /\ \A m, n \in 1..Len(order) : order[m] = order[n] => m = n
    <3>1. /\ order \in Seq(Ids) /\ DOMAIN order = 1..Len(order) /\ Len(order) \in Nat
          /\ order \in [1..Len(order) -> Ids]
      BY <2>1, LenProperties DEF OrderTyped
    <3>2. \A n \in 1..Len(order) : order[n] \in DOMAIN devices
      BY <2>1, <3>1 DEF OrderTyped
    <3>3. order \in [1..Len(order) -> DOMAIN devices]
      BY <3>1, <3>2
    <3> QED BY <2>1, <3>1, <3>3 DEF OrderTyped
  <2>4. {order[n] : n \in DOMAIN order} = DOMAIN devices
    <3>1. DOMAIN order = 1..Len(order)
      BY <2>3
    <3>2. \A n \in DOMAIN order : order[n] \in DOMAIN devices
      BY <2>3
    <3>3. \A id \in DOMAIN devices : \E n \in DOMAIN order : id = order[n]
      BY <2>3, <3>1
    <3> QED BY <3>2, <3>3, Zenon
  <2>5. Len(order) = Cardinality(DOMAIN devices)
    <3>1. order \in Bijection(1..Len(order), DOMAIN devices)
      BY <2>3 DEF Bijection, Injection, IsInjective, Surjection
    <3>2. ExistsBijection(1..Len(order), DOMAIN devices)
      BY <3>1 DEF ExistsBijection
    <3> QED BY <2>3, <3>2, FS_CountingElements
  <2>6. /\ DOMAIN heap = Live
        /\ \A n \in DOMAIN heap : \A k \in DOMAIN heap[n] :
             k \in Keys /\ heap[n][k] \in Measurement
    BY <2>1, Reached, MetricsFacts
  <2>7. call \in Calls \cup {None} /\ wpc \in {"outside", "waiting", "holding"}
    BY <2>1 DEF CallsTyped
  <2>8. unmarked \subseteq Keys
    BY <1>1 DEF IInv, Marking
  <2>9. \A r \in Readers :
          /\ readers[r].pc \in ReaderStates
          /\ \A n \in DOMAIN readers[r].out : readers[r].out[n] \in Record
    BY <2>1, ReaderTyped
  <2> QED BY <2>2, <2>4, <2>5, <2>6, <2>7, <2>8, <2>9 DEF TypeOK
<1> QED BY <1>1, Invariance, PTL

\* A copy never mixes two polls, although it is made device by device and the
\* map it is made from is written in place.
THEOREM NoCopyIsTorn == Spec => []NoTornReading
<1>1. IInv => NoTornReading
  BY DEF IInv
<1> QED BY <1>1, Invariance, PTL

\* Snapshot never meets an id of the order that the map of devices lacks.
THEOREM EveryIdIsThere == Spec => []NoNilDereference
<1>1. ASSUME IInv PROVE NoNilDereference
  <2> SUFFICES ASSUME NEW r \in Readers, NEW n \in DOMAIN readers[r].left
               PROVE  readers[r].left[n] \in DOMAIN devices
    BY DEF NoNilDereference
  <2>1. TypeInv /\ CallsTyped /\ DevicesTyped /\ OrderTyped
    BY <1>1 DEF IInv, TypeInv
  <2>2. readers[r].pc = "copying"
    BY <2>1 DEF CallsTyped
  <2> DEFINE q == readers[r]
             t == Targets(q.question)
  <2>3. Copied(q, devices, order, heap)
    BY <1>1, <2>2 DEF IInv, CopiesCurrent, Holding
  <2>4. t = Asked(devices, order, q.question)
    BY DEF Targets, Asked
  <2>5. Len(t) = Len(q.out) + Len(q.left) /\ \A m \in 1..Len(q.left) : q.left[m] = t[Len(q.out) + m]
    BY <2>3, <2>4 DEF Copied
  <2>6. q.question \in Ids \cup {All}
    BY <2>1, <2>2, ReaderTyped DEF CallsTyped
  <2>7. \A m \in 1..Len(t) : t[m] \in DOMAIN devices
    BY <2>1, <2>6, TargetsFacts
  <2>8. /\ Len(q.out) \in Nat /\ Len(q.left) \in Nat /\ n \in 1..Len(q.left)
    BY <2>1, ReaderTyped
  <2> HIDE DEF q, t
  <2>9. Len(q.out) + n \in 1..Len(t)
    <3>1. \A a, b \in Nat : \A m \in 1..b : a + m \in 1..a + b
      OBVIOUS
    <3> QED BY <2>5, <2>8, <3>1
  <2>10. q.left[n] \in DOMAIN devices
    BY <2>5, <2>7, <2>8, <2>9
  <2> QED BY <2>10 DEF q
<1> QED BY <1>1, Invariance, PTL

-----------------------------------------------------------------------------
(* What a handler encodes is its own.                                      *)

\* No step writes into a map that no device of the store refers to.
LEMMA MapKept ==
  ASSUME IInv, [Next]_vars, NEW n \in Live, n \in Live',
         \A id \in DOMAIN devices : n # devices[id].ref
  PROVE  heap'[n] = heap[n]
<1>1. n \in DOMAIN heap /\ DOMAIN heap = Live /\ n # FreshRef
  BY Reached DEF IInv
<1>2. \A m : WithMap(FreshRef, m)[n] = heap[n]
  BY <1>1 DEF WithMap
<1>3. CASE heap' = heap
  BY <1>3
<1>4. CASE Register
  BY <1>2, <1>4 DEF Register
<1>5. CASE Remove
  <2>1. heap' = heap \/ heap' = [m \in Live' |-> heap[m]]
    BY <1>5 DEF Remove, Live
  <2> QED BY <2>1
<1>6. CASE RecordSuccess
  <2>1. heap' = heap \/ \E w : heap' = [m \in Live' |-> WithMap(FreshRef, w)[m]]
    BY <1>6 DEF RecordSuccess, Live
  <2> QED BY <1>2, <2>1
<1>7. ASSUME NEW k \in Keys, MarkStale(k) PROVE heap'[n] = heap[n]
  <2>1. unmarked # {} /\ heap' = [heap EXCEPT ![devices[call.id].ref][k].stale = TRUE]
    BY <1>7 DEF MarkStale
  <2>2. n # devices[call.id].ref
    BY <2>1 DEF IInv, Marking, Absent
  <2> QED BY <1>1, <2>1, <2>2
<1>8. ASSUME NEW r \in Readers, CopyDevice(r) PROVE heap'[n] = heap[n]
  BY <1>2, <1>8 DEF CopyDevice, CopiedMap
<1>9. ASSUME NEW r \in Readers, Respond(r) PROVE heap'[n] = heap[n]
  <2>1. heap' = [m \in Live' |-> heap[m]]
    BY <1>9 DEF Respond, Live
  <2> QED BY <2>1
<1> QED BY <1>3, <1>4, <1>5, <1>6, <1>7, <1>8, <1>9
        DEF Next, WriterStep, ReaderStep, Begin, RecordFailure, Unlock, Ask, RUnlock, vars

\* A handler that encodes is touched by nobody but itself.
LEMMA EncoderKept ==
  ASSUME IInv, [Next]_vars, NEW r \in Readers,
         readers[r].pc = "encoding", readers'[r].pc = "encoding"
  PROVE  readers'[r] = readers[r]
<1>1. DOMAIN readers = Readers
  BY DEF IInv, TypeInv, CallsTyped
<1>2. CASE readers' = readers
  BY <1>2
<1>3. CASE Unlock
  BY <1>3 DEF Unlock, LetIn
<1>4. ASSUME NEW o \in Readers, NEW question \in Ids \cup {All}, Ask(o, question)
      PROVE  readers'[r] = readers[r]
  <2>1. o # r
    BY <1>4 DEF Ask
  <2> QED BY <1>1, <1>4, <2>1 DEF Ask
<1>5. ASSUME NEW o \in Readers, CopyDevice(o) PROVE readers'[r] = readers[r]
  <2>1. o # r
    BY <1>5 DEF CopyDevice
  <2> QED BY <1>1, <1>5, <2>1 DEF CopyDevice
<1>6. ASSUME NEW o \in Readers, RUnlock(o) PROVE readers'[r] = readers[r]
  <2>1. o # r
    BY <1>6 DEF RUnlock
  <2> QED BY <1>1, <1>6, <2>1 DEF RUnlock
<1>7. ASSUME NEW o \in Readers, Respond(o) PROVE readers'[r] = readers[r]
  <2>1. readers' = [readers EXCEPT ![o] = Idle] /\ Idle.pc = "idle"
    BY <1>7, Waiting DEF Respond
  <2>2. o # r
    BY <1>1, <2>1
  <2> QED BY <1>1, <2>1, <2>2
<1> QED BY <1>2, <1>3, <1>4, <1>5, <1>6, <1>7
        DEF Next, WriterStep, ReaderStep, Begin, Register, Remove, RecordSuccess,
            RecordFailure, MarkStale, vars

\* Its copies read as they did.
LEMMA ViewsKept ==
  ASSUME IInv, [Next]_vars, NEW r \in Readers,
         readers[r].pc = "encoding", readers'[r].pc = "encoding"
  PROVE  Views(r)' = Views(r)
<1>1. readers'[r] = readers[r]
  BY EncoderKept
<1>2. ASSUME NEW n \in DOMAIN readers[r].out
      PROVE  heap'[readers[r].out[n].ref] = heap[readers[r].out[n].ref]
  <2>1. PICK m : m = readers[r].out[n].ref
    OBVIOUS
  <2>2. m \in Live
    BY <2>1, Reached DEF IInv
  <2>3. m \in Live'
    <3>1. n \in DOMAIN readers'[r].out /\ m = readers'[r].out[n].ref
      BY <1>1, <2>1
    <3> QED BY <3>1 DEF Live, RefsIn, OutRefs
  <2>4. \A id \in DOMAIN devices : m # devices[id].ref
    BY <2>1 DEF IInv, NoAliases
  <2> QED BY <2>1, <2>2, <2>3, <2>4, MapKept
<1>3. DOMAIN readers'[r].out = DOMAIN readers[r].out
  BY <1>1
<1>4. \A n \in DOMAIN readers[r].out : View(readers[r].out[n])' = View(readers[r].out[n])
  BY <1>1, <1>2 DEF View
<1> QED BY <1>1, <1>3, <1>4 DEF Views

\* "No aliasing": no later write reaches what a handler encodes.
THEOREM CopiesArePrivate == Spec => CopyIsPrivate
<1>1. ASSUME IInv, [Next]_vars
      PROVE  \A r \in Readers :
               readers[r].pc = "encoding" /\ readers'[r].pc = "encoding"
                 => Views(r)' = Views(r)
  BY <1>1, ViewsKept
<1>2. IInv /\ [Next]_vars =>
        [\A r \in Readers :
           readers[r].pc = "encoding" /\ readers'[r].pc = "encoding"
             => Views(r)' = Views(r)]_vars
  BY <1>1
<1> QED BY <1>2, Invariance, PTL DEF Spec, CopyIsPrivate

-----------------------------------------------------------------------------
(* Every call takes effect at one moment.                                  *)

\* The abstract state, as the refinement mapping defines it.
Known == [id \in DOMAIN devices |->
            [View(devices[id]) EXCEPT !.metrics = Marked(id, @)]]

Questions == [r \in Readers |-> readers[r].question]

Answers == [r \in Readers |->
              IF readers[r].pc = "encoding" THEN Views(r) ELSE None]

\* What the store knows of a device is told by its record and by which metrics
\* it has: they are of its last poll, and stale when it is offline, the ones
\* RecordFailure has yet to flag included.
Told(d, keys) ==
  [id |-> d.id, profile |-> d.profile, online |-> d.online,
   failed |-> d.failed, lastRead |-> d.lastRead,
   metrics |-> [k \in keys |-> [value |-> d.lastRead, stale |-> ~d.online]]]

\* Flagging the metrics ahead of time gives what the loop ends with.
LEMMA MarkedFacts ==
  ASSUME IInv, NEW id \in DOMAIN devices
  PROVE  Marked(id, heap[devices[id].ref]) =
           [k \in DOMAIN heap[devices[id].ref] |->
              [value |-> devices[id].lastRead, stale |-> ~devices[id].online]]
<1> DEFINE m == heap[devices[id].ref]
           last == devices[id].lastRead
           on == devices[id].online
<1>1. /\ m = [k \in DOMAIN m |-> m[k]]
      /\ \A k \in DOMAIN m : m[k] = [value |-> m[k].value, stale |-> m[k].stale]
  <2>1. m \in Metrics
    BY Reached DEF IInv
  <2> HIDE DEF m
  <2> QED BY <2>1, MetricsFacts
<1>2. \A k \in DOMAIN m : m[k].value = last /\ (Pending(id, k) \/ m[k].stale = ~on)
  BY DEF IInv, Consistent
<1>3. CASE unmarked # {} /\ call.id = id
  <2>1. on = FALSE
    <3>1. devices[id].online \in BOOLEAN /\ ~devices[id].online
      BY <1>3 DEF IInv, Marking, TypeInv, DevicesTyped, Record
    <3> QED BY <3>1
  <2>2. Marked(id, m) = [k \in DOMAIN m |-> [m[k] EXCEPT !.stale = TRUE]]
    BY <1>3 DEF Marked
  <2> HIDE DEF m, last, on
  <2>3. ASSUME NEW k \in DOMAIN m
        PROVE  [m[k] EXCEPT !.stale = TRUE] = [value |-> last, stale |-> ~on]
    <3>1. PICK x : x = m[k]
      OBVIOUS
    <3>2. x = [f \in {"value", "stale"} |-> x[f]] /\ x.value = last
      BY <1>1, <1>2, <3>1
    <3>3. PICK y : y = [x EXCEPT !.stale = TRUE]
      OBVIOUS
    <3>4. y = [f \in {"value", "stale"} |-> IF f = "stale" THEN TRUE ELSE x[f]]
      BY <3>2, <3>3, Zenon
    <3>5. y = [value |-> last, stale |-> TRUE]
      BY <3>2, <3>4
    <3>6. (~on) = TRUE
      BY <2>1
    <3> QED BY <3>1, <3>3, <3>5, <3>6, Zenon
  <2>4. Marked(id, m) = [k \in DOMAIN m |-> [value |-> last, stale |-> ~on]]
    BY <2>2, <2>3
  <2> QED BY <2>4 DEF m, last, on
<1>4. CASE ~(unmarked # {} /\ call.id = id)
  <2>1. Marked(id, m) = m
    BY <1>4 DEF Marked
  <2>2. \A k : ~Pending(id, k)
    BY <1>4 DEF Pending
  <2> HIDE DEF m, last, on
  <2>3. ASSUME NEW k \in DOMAIN m PROVE m[k] = [value |-> last, stale |-> ~on]
    BY <1>1, <1>2, <2>2
  <2>4. m = [k \in DOMAIN m |-> [value |-> last, stale |-> ~on]]
    BY <1>1, <2>3
  <2>5. Marked(id, m) = [k \in DOMAIN m |-> [value |-> last, stale |-> ~on]]
    BY <2>1, <2>4
  <2> QED BY <2>5 DEF m, last, on
<1> QED BY <1>3, <1>4

\* What the refinement shows, device by device: the last reading of the whole map.
LEMMA KnownFacts ==
  IInv => Known = [id \in DOMAIN devices |->
                     Told(devices[id], DOMAIN heap[devices[id].ref])]
<1> SUFFICES ASSUME IInv, NEW id \in DOMAIN devices
             PROVE  [View(devices[id]) EXCEPT !.metrics = Marked(id, @)] =
                      Told(devices[id], DOMAIN heap[devices[id].ref])
  BY DEF Known
<1>1. PICK d, m, w : d = devices[id] /\ m = heap[d.ref] /\ w = Marked(id, m)
  OBVIOUS
<1>2. w = [k \in DOMAIN m |-> [value |-> d.lastRead, stale |-> ~d.online]]
  BY <1>1, MarkedFacts
<1>3. View(d) = [id |-> d.id, profile |-> d.profile, online |-> d.online,
                 failed |-> d.failed, lastRead |-> d.lastRead, metrics |-> m]
  BY <1>1 DEF View
<1>4. View(d).metrics = m
  BY <1>3
<1>5. [View(d) EXCEPT !.metrics = Marked(id, @)] = [View(d) EXCEPT !.metrics = w]
  BY <1>1, <1>4
<1>6. [View(d) EXCEPT !.metrics = w] =
        [id |-> d.id, profile |-> d.profile, online |-> d.online,
         failed |-> d.failed, lastRead |-> d.lastRead, metrics |-> w]
  BY <1>3
<1> QED BY <1>1, <1>2, <1>5, <1>6 DEF Told

\* So it is after a step.
LEMMA KnownThen ==
  IInv' => Known' = [id \in DOMAIN devices' |->
                       Told(devices'[id], DOMAIN heap'[devices'[id].ref])]
<1>1. IInv' => (Known = [id \in DOMAIN devices |->
                      Told(devices[id], DOMAIN heap[devices[id].ref])])'
  BY KnownFacts, PTL
<1> QED BY <1>1

\* What is known changes only with the records and with which metrics they have.
LEMMA KnownKept ==
  ASSUME IInv, IInv', devices' = devices,
         \A id \in DOMAIN devices : DOMAIN heap'[devices[id].ref] = DOMAIN heap[devices[id].ref]
  PROVE  Known' = Known
<1>1. Known = [id \in DOMAIN devices |-> Told(devices[id], DOMAIN heap[devices[id].ref])]
  BY KnownFacts
<1>2. Known' = [id \in DOMAIN devices' |-> Told(devices'[id], DOMAIN heap'[devices'[id].ref])]
  BY KnownThen
<1>3. \A id \in DOMAIN devices :
        Told(devices'[id], DOMAIN heap'[devices'[id].ref]) =
          Told(devices[id], DOMAIN heap[devices[id].ref])
  <2> SUFFICES ASSUME NEW id \in DOMAIN devices
               PROVE  Told(devices'[id], DOMAIN heap'[devices'[id].ref]) =
                        Told(devices[id], DOMAIN heap[devices[id].ref])
    OBVIOUS
  <2>1. devices'[id] = devices[id]
    OBVIOUS
  <2>2. DOMAIN heap'[devices'[id].ref] = DOMAIN heap[devices[id].ref]
    BY <2>1
  <2> QED BY <2>1, <2>2, Zenon
<1> QED BY <1>1, <1>2, <1>3

\* An answer that is out stays as it is.
LEMMA AnswersKept ==
  ASSUME IInv, [Next]_vars,
         \A r \in Readers : readers'[r].pc = "encoding" <=> readers[r].pc = "encoding"
  PROVE  Answers' = Answers
<1>1. ASSUME NEW r \in Readers
      PROVE  (IF readers'[r].pc = "encoding" THEN Views(r)' ELSE None) =
               (IF readers[r].pc = "encoding" THEN Views(r) ELSE None)
  <2>1. CASE readers[r].pc = "encoding"
    BY <2>1, ViewsKept
  <2>2. CASE readers[r].pc # "encoding"
    BY <2>2
  <2> QED BY <2>1, <2>2
<1> QED BY <1>1 DEF Answers

\* A step that shows nothing is a stutter of the abstract store.
LEMMA Stutters ==
  ASSUME Known' = Known, order' = order, Questions' = Questions, Answers' = Answers
  PROVE  UNCHANGED Atomic!specVars
BY DEF Atomic!specVars, Known, Questions, Answers

\* The call, the wait for the lock, each metric flagged, the unlock and a step
\* that changes nothing: invisible to a caller.
LEMMA PollLoopStutters ==
  ASSUME IInv, IInv', [Next]_vars,
         UNCHANGED <<devices, order>>,
         \/ heap' = heap
         \/ \E k \in Keys : MarkStale(k),
         \/ readers' = readers
         \/ Unlock
  PROVE  UNCHANGED Atomic!specVars
<1>1. \A id \in DOMAIN devices : DOMAIN heap'[devices[id].ref] = DOMAIN heap[devices[id].ref]
  <2> SUFFICES ASSUME NEW id \in DOMAIN devices
               PROVE  DOMAIN heap'[devices[id].ref] = DOMAIN heap[devices[id].ref]
    OBVIOUS
  <2>1. CASE heap' = heap
    BY <2>1
  <2>2. ASSUME NEW k \in Keys, MarkStale(k)
        PROVE  DOMAIN heap'[devices[id].ref] = DOMAIN heap[devices[id].ref]
    <3>1. PICK ref : ref = devices[call.id].ref
      OBVIOUS
    <3>2. heap' = [heap EXCEPT ![ref][k].stale = TRUE]
      BY <2>2, <3>1 DEF MarkStale
    <3>3. devices[id].ref \in DOMAIN heap
      BY Reached DEF IInv
    <3> QED BY <3>2, <3>3
  <2> QED BY <2>1, <2>2
<1>2. Known' = Known
  BY <1>1, KnownKept
<1>3. \A r \in Readers :
        /\ readers'[r].question = readers[r].question
        /\ readers'[r].pc = "encoding" <=> readers[r].pc = "encoding"
  <2>1. CASE readers' = readers
    BY <2>1
  <2>2. CASE Unlock
    BY <2>2 DEF Unlock, LetIn, Entered
  <2> QED BY <2>1, <2>2
<1>4. Questions' = Questions
  BY <1>3 DEF Questions
<1>5. Answers' = Answers
  BY <1>3, AnswersKept
<1> QED BY <1>2, <1>4, <1>5, Stutters

\* While the poll loop writes, what the handlers asked and got stays.
LEMMA HandlersWait ==
  ASSUME IInv, [Next]_vars, readers' = readers
  PROVE  Questions' = Questions /\ Answers' = Answers
BY AnswersKept DEF Questions

\* Register takes effect when its lock is taken.
LEMMA RegisterActs ==
  ASSUME IInv, IInv', [Next]_vars, Register
  PROVE  Atomic!Write
<1>1. PICK c, p : c = call.id /\ p = call.profile
  OBVIOUS
<1>2. /\ Locked("Register") /\ UNCHANGED <<call, unmarked, readers>>
      /\ \/ /\ c \in DOMAIN devices /\ devices' = [devices EXCEPT ![c].profile = p]
            /\ order' = order /\ heap' = heap
         \/ /\ c \notin DOMAIN devices
            /\ devices' = [id \in DOMAIN devices \cup {c} |->
                 IF id # c THEN devices[id]
                 ELSE [id |-> id, profile |-> p, online |-> FALSE,
                       failed |-> FALSE, lastRead |-> 0, ref |-> FreshRef]]
            /\ order' = Append(order, c) /\ heap' = WithMap(FreshRef, <<>>)
  BY <1>1 DEF Register, Absent
<1>3. c \in Ids /\ p \in Profiles
  <2>1. call \in Calls /\ call.op = "Register"
    BY <1>2, LockedFacts
  <2> QED BY <1>1, <2>1 DEF Calls
<1>4. Questions' = Questions /\ Answers' = Answers
  BY <1>2, HandlersWait
<1> DEFINE keys(id) == DOMAIN heap[devices[id].ref]
<1>5. /\ Known = [id \in DOMAIN devices |-> Told(devices[id], keys(id))]
      /\ Known' = [id \in DOMAIN devices' |-> Told(devices'[id], DOMAIN heap'[devices'[id].ref])]
  BY KnownFacts, KnownThen
<1>6. DOMAIN Known = DOMAIN devices
  BY <1>5
<1>7. CASE c \in DOMAIN devices
  <2>1. /\ DOMAIN devices' = DOMAIN devices /\ order' = order /\ heap' = heap
        /\ \A id \in DOMAIN devices \ {c} : devices'[id] = devices[id]
        /\ devices'[c] = [devices[c] EXCEPT !.profile = p]
    BY <1>2, <1>7
  <2>2. Told(devices'[c], DOMAIN heap'[devices'[c].ref]) =
          [Told(devices[c], keys(c)) EXCEPT !.profile = p]
    <3>1. devices[c] \in Record
      BY <1>7 DEF IInv, TypeInv, DevicesTyped
    <3>2. PICK d, e : d = devices[c] /\ e = devices'[c]
      OBVIOUS
    <3>3. /\ e.id = d.id /\ e.profile = p /\ e.online = d.online /\ e.failed = d.failed
          /\ e.lastRead = d.lastRead /\ e.ref = d.ref
      BY <2>1, <3>1, <3>2 DEF Record
    <3>4. PICK ks : ks = keys(c)
      OBVIOUS
    <3>5. DOMAIN heap'[devices'[c].ref] = ks
      BY <2>1, <3>2, <3>3, <3>4
    <3>6. Told(e, ks) = [Told(d, ks) EXCEPT !.profile = p]
      BY <3>3 DEF Told
    <3> QED BY <3>2, <3>4, <3>5, <3>6, Zenon
  <2>3. ASSUME NEW id \in DOMAIN devices, id # c
        PROVE  Told(devices'[id], DOMAIN heap'[devices'[id].ref]) = Known[id]
    <3>1. devices'[id] = devices[id] /\ heap' = heap
      BY <2>1, <2>3
    <3>2. Known[id] = Told(devices[id], keys(id))
      BY <1>5
    <3> QED BY <3>1, <3>2
  <2>4. Known[c] = Told(devices[c], keys(c))
    BY <1>5, <1>7
  <2> HIDE DEF keys
  <2>5. Known' = [i \in DOMAIN Known \cup {c} |->
                   IF i # c THEN Known[i]
                   ELSE IF c \in DOMAIN Known THEN [Known[c] EXCEPT !.profile = p]
                   ELSE Atomic!NewDevice(c, p)]
    BY <1>5, <1>6, <1>7, <2>1, <2>2, <2>3, <2>4
  <2>6. order' = IF c \in DOMAIN Known THEN order ELSE Append(order, c)
    BY <1>6, <1>7, <2>1
  <2>7. Atomic!Register(c, p)
    BY <1>4, <2>5, <2>6, Zenon DEF Atomic!Register, Known, Questions, Answers
  <2> QED BY <1>3, <2>7 DEF Atomic!Write
<1>8. CASE c \notin DOMAIN devices
  <2>1. PICK new, nd : /\ new = FreshRef
                       /\ nd = [id |-> c, profile |-> p, online |-> FALSE,
                                failed |-> FALSE, lastRead |-> 0, ref |-> new]
    OBVIOUS
  <2>2. /\ DOMAIN devices' = DOMAIN devices \cup {c} /\ order' = Append(order, c)
        /\ \A id \in DOMAIN devices : devices'[id] = devices[id]
        /\ devices'[c] = nd /\ heap' = WithMap(new, <<>>)
    BY <1>2, <1>8, <2>1
  <2>3. /\ heap'[new] = <<>> /\ \A n \in Live : heap'[n] = heap[n]
    <3>1. <<>> \in Metrics /\ TypeInv
      BY DEF Metrics, IInv
    <3> QED BY <2>1, <2>2, <3>1, NewMap
  <2>4. Told(nd, DOMAIN heap'[nd.ref]) = Atomic!NewDevice(c, p)
    <3>1. nd.ref = new /\ DOMAIN heap'[new] = {}
      BY <2>1, <2>3
    <3>2. Told(nd, {}) = Atomic!NewDevice(c, p)
      <4>1. \A v : [k \in {} |-> v] = <<>>
        OBVIOUS
      <4> QED BY <2>1, <4>1 DEF Told, Atomic!NewDevice
    <3> QED BY <3>1, <3>2
  <2>5. ASSUME NEW id \in DOMAIN devices
        PROVE  Told(devices'[id], DOMAIN heap'[devices'[id].ref]) = Known[id]
    <3>1. devices'[id] = devices[id] /\ heap'[devices[id].ref] = heap[devices[id].ref]
      BY <2>2, <2>3, Reached DEF IInv
    <3>2. Known[id] = Told(devices[id], keys(id))
      BY <1>5
    <3> QED BY <3>1, <3>2
  <2> HIDE DEF keys
  <2>6. Known' = [i \in DOMAIN Known \cup {c} |->
                   IF i # c THEN Known[i]
                   ELSE IF c \in DOMAIN Known THEN [Known[c] EXCEPT !.profile = p]
                   ELSE Atomic!NewDevice(c, p)]
    BY <1>5, <1>6, <1>8, <2>2, <2>4, <2>5
  <2>7. order' = IF c \in DOMAIN Known THEN order ELSE Append(order, c)
    BY <1>6, <1>8, <2>2
  <2>8. Atomic!Register(c, p)
    BY <1>4, <2>6, <2>7, Zenon DEF Atomic!Register, Known, Questions, Answers
  <2> QED BY <1>3, <2>8 DEF Atomic!Write
<1> QED BY <1>7, <1>8

\* Remove takes effect when its lock is taken.
LEMMA RemoveActs ==
  ASSUME IInv, IInv', [Next]_vars, Remove, ~Absent
  PROVE  Atomic!Write
<1>1. PICK c : c = call.id
  OBVIOUS
<1>2. /\ UNCHANGED <<call, unmarked, readers>> /\ c \in DOMAIN devices
      /\ devices' = [id \in DOMAIN devices \ {c} |-> devices[id]]
      /\ order' = OrderWithout(c) /\ heap' = [n \in Live' |-> heap[n]]
  BY <1>1 DEF Remove, Absent, Live
<1>3. c \in Ids /\ DevicesTyped /\ OrderTyped
  BY <1>2 DEF IInv, TypeInv, DevicesTyped
<1>4. Questions' = Questions /\ Answers' = Answers
  BY <1>2, HandlersWait
<1>5. /\ Known = [id \in DOMAIN devices |-> Told(devices[id], DOMAIN heap[devices[id].ref])]
      /\ Known' = [id \in DOMAIN devices' |-> Told(devices'[id], DOMAIN heap'[devices'[id].ref])]
  BY KnownFacts, KnownThen
<1>6. DOMAIN Known = DOMAIN devices /\ DOMAIN devices' = DOMAIN devices \ {c}
  BY <1>2, <1>5
<1>7. ASSUME NEW id \in DOMAIN devices'
      PROVE  Told(devices'[id], DOMAIN heap'[devices'[id].ref]) = Known[id]
  <2>1. id \in DOMAIN devices /\ devices'[id] = devices[id]
    BY <1>2, <1>6
  <2>2. devices'[id].ref \in Live'
    BY DEF Live, RefsIn
  <2>3. heap'[devices[id].ref] = heap[devices[id].ref]
    BY <1>2, <2>1, <2>2
  <2>4. Known[id] = Told(devices[id], DOMAIN heap[devices[id].ref])
    BY <1>5, <2>1
  <2> QED BY <2>1, <2>3, <2>4
<1>8. Known' = [i \in DOMAIN Known \ {c} |-> Known[i]]
  BY <1>5, <1>6, <1>7
<1>9. PICK place \in DOMAIN order :
        /\ order[place] = c
        /\ order' = [n \in 1..Len(order) - 1 |-> IF n < place THEN order[n] ELSE order[n + 1]]
  <2> DEFINE p == Place(c)
  <2>1. order \in Seq(Ids) /\ DOMAIN order = 1..Len(order)
    BY <1>3, LenProperties DEF OrderTyped
  <2>2. p \in 1..Len(order) /\ order[p] = c
    BY <1>2, <1>3, PlaceFacts
  <2>3. order' = SubSeq(order, 1, p - 1) \o SubSeq(order, p + 1, Len(order))
    BY <1>2 DEF OrderWithout
  <2> HIDE DEF p
  <2>4. /\ order' \in Seq(Ids) /\ Len(order') = Len(order) - 1
        /\ \A j \in 1..Len(order) - 1 : order'[j] = IF j < p THEN order[j] ELSE order[j + 1]
    BY <2>1, <2>2, <2>3, WithoutOne
  <2>5. order' = [n \in 1..Len(order) - 1 |-> order'[n]]
    BY <2>4, LenProperties
  <2>6. order' = [n \in 1..Len(order) - 1 |-> IF n < p THEN order[n] ELSE order[n + 1]]
    BY <2>4, <2>5
  <2> QED BY <2>1, <2>2, <2>6
<1>10. Atomic!Remove(c)
  <2>1. c \in DOMAIN Known
    BY <1>2, <1>6
  <2>2. \E pl \in DOMAIN order :
          /\ order[pl] = c
          /\ order' = [n \in 1..Len(order) - 1 |-> IF n < pl THEN order[n] ELSE order[n + 1]]
    BY <1>9
  <2> QED BY <1>4, <1>8, <2>1, <2>2, Zenon DEF Atomic!Remove, Known, Questions, Answers
<1> QED BY <1>3, <1>10 DEF Atomic!Write

\* RecordSuccess takes effect when its lock is taken.
LEMMA SuccessActs ==
  ASSUME IInv, IInv', [Next]_vars, RecordSuccess, ~Absent
  PROVE  Atomic!Write
<1>1. PICK c, t, new, e :
        /\ c = call.id /\ t = call.t /\ new = FreshRef
        /\ e = [id |-> devices[c].id, profile |-> devices[c].profile, online |-> TRUE,
                failed |-> FALSE, lastRead |-> t, ref |-> new]
  OBVIOUS
<1>2. PICK m : m = [k \in Keys |-> [value |-> t, stale |-> FALSE]]
  OBVIOUS
<1>3. /\ Locked("RecordSuccess") /\ UNCHANGED <<order, call, unmarked, readers>>
      /\ c \in DOMAIN devices
      /\ heap' = [n \in Live' |-> WithMap(new, m)[n]]
  <2>1. /\ Locked("RecordSuccess") /\ UNCHANGED <<order, call, unmarked, readers>>
        /\ heap' = [n \in RefsIn(devices', readers) |->
             WithMap(FreshRef, [k \in Keys |-> [value |-> call.t, stale |-> FALSE]])[n]]
    BY DEF RecordSuccess
  <2>2. m = [k \in Keys |-> [value |-> call.t, stale |-> FALSE]]
    BY <1>1, <1>2
  <2>3. heap' = [n \in RefsIn(devices', readers) |-> WithMap(new, m)[n]]
    BY <1>1, <2>1, <2>2, Zenon
  <2>4. Live' = RefsIn(devices', readers)
    BY <2>1 DEF Live
  <2>5. c \in DOMAIN devices
    BY <1>1 DEF Absent
  <2> QED BY <2>1, <2>3, <2>4, <2>5, Zenon
<1>4. devices' = [id \in DOMAIN devices |-> IF id = c THEN e ELSE devices[id]]
  BY <1>1, SuccessRecord
<1>5. c \in Ids /\ t \in Times
  <2>1. call \in Calls /\ call.op = "RecordSuccess"
    BY <1>3, LockedFacts
  <2> QED BY <1>1, <2>1 DEF Calls
<1>6. Questions' = Questions /\ Answers' = Answers
  BY <1>3, HandlersWait
<1>7. /\ Known = [id \in DOMAIN devices |-> Told(devices[id], DOMAIN heap[devices[id].ref])]
      /\ Known' = [id \in DOMAIN devices' |-> Told(devices'[id], DOMAIN heap'[devices'[id].ref])]
  BY KnownFacts, KnownThen
<1>8. DOMAIN Known = DOMAIN devices /\ DOMAIN devices' = DOMAIN devices
  BY <1>4, <1>7
<1>9. \A id \in DOMAIN devices : devices'[id].ref \in Live'
  BY <1>8 DEF Live, RefsIn
<1>10. ASSUME NEW id \in DOMAIN devices, id # c
       PROVE  Told(devices'[id], DOMAIN heap'[devices'[id].ref]) = Known[id]
  <2>1. devices'[id] = devices[id]
    BY <1>4, <1>10
  <2>2. devices[id].ref \in DOMAIN heap /\ devices[id].ref # new
    BY <1>1, Reached DEF IInv
  <2>3. heap'[devices[id].ref] = heap[devices[id].ref]
    BY <1>3, <1>9, <2>1, <2>2 DEF WithMap
  <2>4. Known[id] = Told(devices[id], DOMAIN heap[devices[id].ref])
    BY <1>7
  <2> QED BY <2>1, <2>3, <2>4
<1>11. Told(devices'[c], DOMAIN heap'[devices'[c].ref]) = Told(e, Keys)
  <2>1. devices'[c] = e /\ e.ref = new
    BY <1>1, <1>3, <1>4
  <2>2. heap'[new] = m
    BY <1>3, <1>9, <2>1 DEF WithMap
  <2>3. DOMAIN m = Keys
    BY <1>2
  <2> QED BY <2>1, <2>2, <2>3
<1>12. PICK f : f = Known
  OBVIOUS
<1>13. Known' = [i \in DOMAIN f |-> IF i = c THEN Told(e, Keys) ELSE f[i]]
  BY <1>7, <1>8, <1>10, <1>11, <1>12
<1> DEFINE fresh == Atomic!Fresh(t)
           f1 == [f EXCEPT ![c].online = TRUE]
           f2 == [f1 EXCEPT ![c].failed = FALSE]
           f3 == [f2 EXCEPT ![c].lastRead = t]
           f4 == [f3 EXCEPT ![c].metrics = fresh]
           d1 == [f[c] EXCEPT !.online = TRUE]
           d2 == [d1 EXCEPT !.failed = FALSE]
           d3 == [d2 EXCEPT !.lastRead = t]
           d4 == [d3 EXCEPT !.metrics = fresh]
<1>14. c \in DOMAIN f /\ f = [i \in DOMAIN f |-> f[i]]
       /\ f[c] = Told(devices[c], DOMAIN heap[devices[c].ref])
  BY <1>3, <1>7, <1>12
<1> HIDE DEF fresh
<1>15. f1 = [i \in DOMAIN f |-> IF i = c THEN d1 ELSE f[i]]
  BY <1>14
<1> HIDE DEF f1, d1
<1>16. f2 = [i \in DOMAIN f |-> IF i = c THEN d2 ELSE f[i]]
  BY <1>15
<1> HIDE DEF f2, d2
<1>17. f3 = [i \in DOMAIN f |-> IF i = c THEN d3 ELSE f[i]]
  BY <1>16
<1> HIDE DEF f3, d3
<1>18. f4 = [i \in DOMAIN f |-> IF i = c THEN d4 ELSE f[i]]
  BY <1>17
<1>19. d4 = Told(e, Keys)
  <2> DEFINE D == {"id", "profile", "online", "failed", "lastRead", "metrics"}
  <2>1. f[c] = [x \in D |-> f[c][x]]
    BY <1>14 DEF Told
  <2>2. d1 = [x \in D |-> IF x = "online" THEN TRUE ELSE f[c][x]]
    BY <2>1, Zenon DEF d1
  <2>3. d2 = [x \in D |-> IF x = "failed" THEN FALSE ELSE d1[x]]
    BY <2>2, Zenon DEF d2
  <2>4. d3 = [x \in D |-> IF x = "lastRead" THEN t ELSE d2[x]]
    BY <2>3, Zenon DEF d3
  <2>5. d4 = [x \in D |-> IF x = "metrics" THEN fresh ELSE d3[x]]
    BY <2>4, Zenon
  <2>6. f[c].id = devices[c].id /\ f[c].profile = devices[c].profile
    BY <1>14 DEF Told
  <2>7. fresh = [k \in Keys |-> [value |-> e.lastRead, stale |-> ~e.online]]
    <3>1. e.lastRead = t /\ (~e.online) = FALSE
      BY <1>1
    <3>2. fresh = [k \in Keys |-> [value |-> t, stale |-> FALSE]]
      BY DEF fresh, Atomic!Fresh
    <3> QED BY <3>1, <3>2
  <2>8. e.id = f[c].id /\ e.profile = f[c].profile /\ e.online = TRUE /\ e.failed = FALSE
        /\ e.lastRead = t
    BY <1>1, <2>6
  <2> HIDE DEF d4
  <2>9. Told(e, Keys) = [id |-> f[c].id, profile |-> f[c].profile, online |-> TRUE,
                         failed |-> FALSE, lastRead |-> t, metrics |-> fresh]
    BY <2>7, <2>8 DEF Told
  <2>10. d4 = [id |-> f[c].id, profile |-> f[c].profile, online |-> TRUE,
               failed |-> FALSE, lastRead |-> t, metrics |-> fresh]
    BY <2>2, <2>3, <2>4, <2>5
  <2> QED BY <2>9, <2>10
<1> HIDE DEF f4, d4
<1>20. Known' = f4
  BY <1>13, <1>18, <1>19
<1>21. Atomic!RecordSuccess(c, t)
  <2>1. c \in DOMAIN Known
    BY <1>12, <1>14
  <2>2. order' = order
    BY <1>3
  <2>3. Known' = [Known EXCEPT ![c].online = TRUE, ![c].failed = FALSE,
                               ![c].lastRead = t, ![c].metrics = Atomic!Fresh(t)]
    BY <1>12, <1>20 DEF f4, f3, f2, f1, fresh
  <2> QED BY <1>6, <2>1, <2>2, <2>3, Zenon DEF Atomic!RecordSuccess, Known, Questions, Answers
<1> QED BY <1>5, <1>21 DEF Atomic!Write

\* RecordFailure takes effect when its lock is taken, before its loop.
LEMMA FailureActs ==
  ASSUME IInv, IInv', [Next]_vars, RecordFailure, ~Absent
  PROVE  Atomic!Write
<1>1. PICK c, e :
        /\ c = call.id
        /\ e = [id |-> devices[c].id, profile |-> devices[c].profile, online |-> FALSE,
                failed |-> TRUE, lastRead |-> devices[c].lastRead, ref |-> devices[c].ref]
  OBVIOUS
<1>2. /\ Locked("RecordFailure") /\ UNCHANGED <<order, heap, call, readers>>
      /\ c \in DOMAIN devices
  BY <1>1 DEF RecordFailure, Absent
<1>3. devices' = [id \in DOMAIN devices |-> IF id = c THEN e ELSE devices[id]]
  BY <1>1, FailureRecord
<1>4. c \in Ids
  BY <1>1, <1>2, LockedFacts
<1>5. Questions' = Questions /\ Answers' = Answers
  BY <1>2, HandlersWait
<1>6. /\ Known = [id \in DOMAIN devices |-> Told(devices[id], DOMAIN heap[devices[id].ref])]
      /\ Known' = [id \in DOMAIN devices' |-> Told(devices'[id], DOMAIN heap'[devices'[id].ref])]
  BY KnownFacts, KnownThen
<1>7. DOMAIN Known = DOMAIN devices /\ DOMAIN devices' = DOMAIN devices
  BY <1>3, <1>6
<1>8. PICK keys : keys = DOMAIN heap[devices[c].ref]
  OBVIOUS
<1>9. ASSUME NEW id \in DOMAIN devices, id # c
      PROVE  Told(devices'[id], DOMAIN heap'[devices'[id].ref]) = Known[id]
  <2>1. devices'[id] = devices[id] /\ heap' = heap
    BY <1>2, <1>3, <1>9
  <2>2. Known[id] = Told(devices[id], DOMAIN heap[devices[id].ref])
    BY <1>6
  <2> QED BY <2>1, <2>2
<1>10. Told(devices'[c], DOMAIN heap'[devices'[c].ref]) = Told(e, keys)
  <2>1. devices'[c] = e /\ e.ref = devices[c].ref /\ heap' = heap
    BY <1>1, <1>2, <1>3
  <2> QED BY <1>8, <2>1
<1>11. PICK f : f = Known
  OBVIOUS
<1>12. Known' = [i \in DOMAIN f |-> IF i = c THEN Told(e, keys) ELSE f[i]]
  BY <1>6, <1>7, <1>9, <1>10, <1>11
<1> DEFINE f1 == [f EXCEPT ![c].online = FALSE]
           f2 == [f1 EXCEPT ![c].failed = TRUE]
           f3 == [f2 EXCEPT ![c].metrics = Atomic!AllStale(@)]
           d1 == [f[c] EXCEPT !.online = FALSE]
           d2 == [d1 EXCEPT !.failed = TRUE]
           stale == Atomic!AllStale(d2.metrics)
           d3 == [d2 EXCEPT !.metrics = stale]
<1>13. c \in DOMAIN f /\ f = [i \in DOMAIN f |-> f[i]] /\ f[c] = Told(devices[c], keys)
  BY <1>2, <1>6, <1>8, <1>11
<1> HIDE DEF stale
<1>14. f1 = [i \in DOMAIN f |-> IF i = c THEN d1 ELSE f[i]]
  BY <1>13
<1> HIDE DEF f1, d1
<1>15. f2 = [i \in DOMAIN f |-> IF i = c THEN d2 ELSE f[i]]
  BY <1>14
<1> HIDE DEF f2, d2
<1>16. f3 = [i \in DOMAIN f |-> IF i = c THEN d3 ELSE f[i]]
  <2>1. f2[c] = d2 /\ c \in DOMAIN f2
    BY <1>13, <1>15
  <2>2. Atomic!AllStale(f2[c].metrics) = stale
    BY <2>1 DEF stale
  <2>3. f3 = [f2 EXCEPT ![c] = [f2[c] EXCEPT !.metrics = Atomic!AllStale(f2[c].metrics)]]
    BY <2>1
  <2>4. f3 = [f2 EXCEPT ![c] = d3]
    BY <2>1, <2>2, <2>3
  <2> HIDE DEF f3, d3
  <2> QED BY <1>15, <2>4
<1>17. d3 = Told(e, keys)
  <2> DEFINE D == {"id", "profile", "online", "failed", "lastRead", "metrics"}
  <2>1. f[c] = [x \in D |-> f[c][x]]
    BY <1>13 DEF Told
  <2>2. d1 = [x \in D |-> IF x = "online" THEN FALSE ELSE f[c][x]]
    BY <2>1, Zenon DEF d1
  <2>3. d2 = [x \in D |-> IF x = "failed" THEN TRUE ELSE d1[x]]
    BY <2>2, Zenon DEF d2
  <2>4. d3 = [x \in D |-> IF x = "metrics" THEN stale ELSE d2[x]]
    BY <2>3, Zenon
  <2> HIDE DEF d3
  <2>5. d2.metrics = f[c].metrics
    BY <2>2, <2>3
  <2>6. /\ e.id = f[c].id /\ e.profile = f[c].profile /\ e.lastRead = f[c].lastRead
        /\ e.online = FALSE /\ e.failed = TRUE
    BY <1>1, <1>13 DEF Told
  <2>7. stale = [k \in keys |-> [value |-> e.lastRead, stale |-> ~e.online]]
    <3>1. PICK m : m = d2.metrics
      OBVIOUS
    <3>2. DOMAIN m = keys /\ \A k \in keys : \E b : m[k] = [value |-> e.lastRead, stale |-> b]
      BY <1>13, <2>5, <2>6, <3>1 DEF Told
    <3>3. stale = [k \in keys |-> [m[k] EXCEPT !.stale = TRUE]]
      BY <3>1, <3>2 DEF stale, Atomic!AllStale
    <3>4. ASSUME NEW k \in keys
          PROVE  [m[k] EXCEPT !.stale = TRUE] = [value |-> e.lastRead, stale |-> ~e.online]
      <4>1. PICK x, y : x = m[k] /\ y = [x EXCEPT !.stale = TRUE]
        OBVIOUS
      <4>2. x = [fd \in {"value", "stale"} |-> x[fd]] /\ x.value = e.lastRead
        BY <3>2, <4>1
      <4>3. y = [fd \in {"value", "stale"} |-> IF fd = "stale" THEN TRUE ELSE x[fd]]
        BY <4>1, <4>2, Zenon
      <4>4. y = [value |-> e.lastRead, stale |-> TRUE]
        BY <4>2, <4>3
      <4>5. (~e.online) = TRUE
        BY <2>6
      <4> QED BY <4>1, <4>4, <4>5, Zenon
    <3> QED BY <3>3, <3>4
  <2>8. Told(e, keys) = [id |-> f[c].id, profile |-> f[c].profile, online |-> FALSE,
                         failed |-> TRUE, lastRead |-> f[c].lastRead, metrics |-> stale]
    BY <2>6, <2>7 DEF Told
  <2>9. d3 = [id |-> f[c].id, profile |-> f[c].profile, online |-> FALSE,
              failed |-> TRUE, lastRead |-> f[c].lastRead, metrics |-> stale]
    BY <2>2, <2>3, <2>4
  <2> QED BY <2>8, <2>9
<1> HIDE DEF f3, d3
<1>18. Known' = f3
  BY <1>12, <1>16, <1>17
<1>19. Atomic!RecordFailure(c)
  <2>1. c \in DOMAIN Known /\ order' = order
    BY <1>2, <1>11, <1>13
  <2>2. Known' = [Known EXCEPT ![c].online = FALSE, ![c].failed = TRUE,
                               ![c].metrics = Atomic!AllStale(@)]
    BY <1>11, <1>18 DEF f3, f2, f1
  <2> QED BY <1>5, <2>1, <2>2, Zenon DEF Atomic!RecordFailure, Known, Questions, Answers
<1> QED BY <1>4, <1>19 DEF Atomic!Write

\* A question is asked.
LEMMA AskActs ==
  ASSUME IInv, IInv', [Next]_vars,
         NEW r \in Readers, NEW question \in Ids \cup {All}, Ask(r, question)
  PROVE  Atomic!Read
<1>1. /\ readers[r].pc = "idle" /\ UNCHANGED <<devices, order, heap>>
      /\ DOMAIN readers = Readers
  BY DEF Ask, IInv, TypeInv, CallsTyped
<1>2. /\ readers'[r].question = question /\ readers'[r].pc # "encoding"
      /\ \A o \in Readers \ {r} : readers'[o] = readers[o]
  <2>1. CASE wpc = "outside"
    <3>1. readers' = [readers EXCEPT ![r] = Entered(question)]
      BY <2>1 DEF Ask
    <3>2. Entered(question).pc = "copying" /\ Entered(question).question = question
      BY DEF Entered
    <3> QED BY <1>1, <3>1, <3>2
  <2>2. CASE wpc # "outside"
    <3>1. PICK q : q = [Idle EXCEPT !.pc = "blocked", !.question = question]
      OBVIOUS
    <3>2. readers' = [readers EXCEPT ![r] = q]
      BY <2>2, <3>1 DEF Ask
    <3>3. q.pc = "blocked" /\ q.question = question
      BY <3>1, Waiting
    <3> QED BY <1>1, <3>2, <3>3
  <2> QED BY <2>1, <2>2
<1>3. Known' = Known
  BY <1>1, KnownKept
<1>4. Answers' = Answers
  BY <1>1, <1>2, AnswersKept
<1>5. Questions[r] = None
  BY <1>1 DEF Questions, IInv, TypeInv, CallsTyped
<1>6. Questions' = [Questions EXCEPT ![r] = question]
  BY <1>2 DEF Questions
<1>7. Atomic!Ask(r, question)
  <2>1. order' = order
    BY <1>1
  <2> QED BY <1>3, <1>4, <1>5, <1>6, <2>1, Zenon DEF Atomic!Ask, Known, Questions, Answers
<1> QED BY <1>7 DEF Atomic!Read

\* A copy in progress is nobody's answer yet.
LEMMA CopyStutters ==
  ASSUME IInv, IInv', [Next]_vars, NEW r \in Readers, CopyDevice(r)
  PROVE  UNCHANGED Atomic!specVars
<1>1. PICK tail, out :
        /\ readers[r].pc = "copying" /\ UNCHANGED <<devices, order>>
        /\ readers' = [readers EXCEPT ![r].left = tail, ![r].out = out]
        /\ \E m : heap' = WithMap(FreshRef, m)
  BY DEF CopyDevice, CopiedMap
<1>2. readers \in [Readers -> Reader]
  BY DEF IInv, TypeInv, CallsTyped
<1>3. /\ \A o \in Readers \ {r} : readers'[o] = readers[o]
      /\ readers'[r].pc = "copying" /\ readers'[r].question = readers[r].question
  <2> DEFINE f == [readers EXCEPT ![r].left = tail]
  <2>1. /\ DOMAIN f = Readers /\ f[r] = [readers[r] EXCEPT !.left = tail]
        /\ \A o \in Readers \ {r} : f[o] = readers[o]
    BY <1>2
  <2>2. readers' = [f EXCEPT ![r].out = out]
    BY <1>1
  <2> HIDE DEF f
  <2>3. readers[r] \in Reader
    BY <1>2
  <2>4. f[r].pc = "copying" /\ f[r].question = readers[r].question
    BY <1>1, <2>1, <2>3 DEF Reader
  <2>5. readers'[r] = [f[r] EXCEPT !.out = out] /\ \A o \in Readers \ {r} : readers'[o] = f[o]
    BY <2>1, <2>2
  <2>6. readers'[r].pc = f[r].pc /\ readers'[r].question = f[r].question
    BY <2>1, <2>3, <2>5 DEF Reader
  <2> QED BY <2>1, <2>4, <2>5, <2>6
<1>4. Known' = Known
  <2>1. \A id \in DOMAIN devices : DOMAIN heap'[devices[id].ref] = DOMAIN heap[devices[id].ref]
    <3> SUFFICES ASSUME NEW id \in DOMAIN devices
                 PROVE  heap'[devices[id].ref] = heap[devices[id].ref]
      OBVIOUS
    <3>1. devices[id].ref \in DOMAIN heap /\ devices[id].ref # FreshRef
      BY Reached DEF IInv
    <3> QED BY <1>1, <3>1 DEF WithMap
  <2> QED BY <1>1, <2>1, KnownKept
<1>5. Answers' = Answers
  BY <1>1, <1>3, AnswersKept
<1>6. Questions' = Questions
  BY <1>3 DEF Questions
<1> QED BY <1>1, <1>4, <1>5, <1>6, Stutters

\* What a reader copied is the answer to its question at the moment it unlocks.
LEMMA RUnlockActs ==
  ASSUME IInv, IInv', [Next]_vars, NEW r \in Readers, RUnlock(r)
  PROVE  Atomic!Read
<1> DEFINE q == readers[r]
<1>1. /\ q.pc = "copying" /\ q.left = <<>>
      /\ readers' = [readers EXCEPT ![r].pc = "encoding"]
      /\ UNCHANGED <<devices, order, heap, call, wpc, unmarked>>
  BY DEF RUnlock, CopyDone
<1>2. /\ readers \in [Readers -> Reader] /\ q \in Reader /\ DevicesTyped /\ OrderTyped
      /\ TypeInv
  BY DEF IInv, TypeInv, CallsTyped
<1>3. /\ readers'[r].pc = "encoding" /\ readers'[r].out = q.out
      /\ readers'[r].question = q.question
      /\ \A o \in Readers \ {r} : readers'[o] = readers[o]
  BY <1>1, <1>2 DEF Reader
<1>4. q.question \in Ids \cup {All} /\ q.question # None
  BY <1>1, <1>2, Constants DEF TypeInv, CallsTyped, Reader
<1>5. wpc # "holding"
  BY <1>1 DEF IInv, Exclusion, Holding
<1> DEFINE t == Asked(devices, order, q.question)
<1>6. /\ Len(t) \in Nat /\ DOMAIN q.out = 1..Len(t)
      /\ \A n \in 1..Len(t) : Shown(heap, q.out[n]) = Shown(heap, devices[t[n]])
      /\ \A n \in 1..Len(t) : t[n] \in DOMAIN devices
  <2>1. Copied(q, devices, order, heap)
    BY <1>1 DEF IInv, CopiesCurrent, Holding
  <2>2. /\ Len(t) = Len(q.out) + Len(q.left)
        /\ \A n \in 1..Len(q.out) : Shown(heap, q.out[n]) = Shown(heap, devices[t[n]])
    BY <2>1 DEF Copied
  <2>3. Len(q.left) = 0 /\ Len(q.out) \in Nat /\ DOMAIN q.out = 1..Len(q.out)
    BY <1>1, <1>2, ReaderTyped DEF TypeInv
  <2>4. \A n \in 1..Len(t) : t[n] \in DOMAIN devices
    BY <1>2, <1>4, TargetsFacts DEF Targets, Asked
  <2> HIDE DEF t, q
  <2>5. Len(t) = Len(q.out)
    BY <2>2, <2>3
  <2> QED BY <2>2, <2>3, <2>4, <2>5
<1>7. ASSUME NEW id \in DOMAIN devices PROVE Known[id] = Shown(heap, devices[id])
  <2>1. Known[id] = Told(devices[id], DOMAIN heap[devices[id].ref])
    BY KnownFacts
  <2> DEFINE m == heap[devices[id].ref]
  <2>2. m = [k \in DOMAIN m |-> m[k]]
    BY <1>2, Reached, MetricsFacts
  <2>3. \A k \in DOMAIN m :
          m[k] = [value |-> devices[id].lastRead, stale |-> ~devices[id].online]
    BY <1>5, WholeReading
  <2> HIDE DEF m
  <2>4. m = [k \in DOMAIN m |->
               [value |-> devices[id].lastRead, stale |-> ~devices[id].online]]
    BY <2>2, <2>3
  <2>5. Told(devices[id], DOMAIN m) =
          [id |-> devices[id].id, profile |-> devices[id].profile,
           online |-> devices[id].online, failed |-> devices[id].failed,
           lastRead |-> devices[id].lastRead, metrics |-> m]
    BY <2>4, Zenon DEF Told
  <2> QED BY <2>1, <2>5 DEF Shown, m
<1>8. DOMAIN Known = DOMAIN devices
  BY DEF Known
<1> DEFINE v == [n \in 1..Len(t) |-> Known[t[n]]]
<1>9. Views(r)' = v
  <2>1. \A n \in DOMAIN q.out : View(readers[r].out[n])' = Shown(heap, q.out[n])
    BY <1>1, <1>3 DEF View, Shown
  <2>2. \A n \in 1..Len(t) : View(readers[r].out[n])' = Known[t[n]]
    BY <1>6, <1>7, <2>1
  <2>3. Views(r)' = [n \in DOMAIN q.out |-> View(readers[r].out[n])']
    BY <1>3 DEF Views
  <2> HIDE DEF t, q
  <2> QED BY <1>6, <2>2, <2>3
<1>10. Atomic!Answer(q.question) = v
  <2>1. CASE q.question = All
    <3>1. t = order /\ DOMAIN order = 1..Len(order)
      BY <1>2, <2>1, LenProperties DEF Asked, OrderTyped
    <3>2. Atomic!Answer(q.question) = [n \in DOMAIN order |-> Known[order[n]]]
      BY <2>1 DEF Atomic!Answer, Known
    <3> QED BY <3>1, <3>2
  <2>2. CASE q.question # All /\ q.question \in DOMAIN devices
    <3>1. t = <<q.question>>
      BY <2>2 DEF Asked
    <3>2. Atomic!Answer(q.question) = <<Known[q.question]>>
      BY <1>8, <2>2, Zenon DEF Atomic!Answer, Known
    <3>3. v = <<Known[q.question]>>
      BY <3>1
    <3> QED BY <3>2, <3>3
  <2>3. CASE q.question # All /\ q.question \notin DOMAIN devices
    <3>1. t = <<>>
      BY <2>3 DEF Asked
    <3>2. Atomic!Answer(q.question) = <<>>
      BY <1>8, <2>3, Zenon DEF Atomic!Answer, Known
    <3>3. v = <<>>
      BY <3>1
    <3> QED BY <3>2, <3>3
  <2> QED BY <2>1, <2>2, <2>3
<1> HIDE DEF v, t
<1>11. Known' = Known
  BY <1>1, KnownKept
<1>12. Questions' = Questions
  BY <1>3 DEF Questions
<1>13. Questions[r] = q.question /\ Questions[r] # None /\ Answers[r] = None
  BY <1>1, <1>4 DEF Questions, Answers
<1>14. Answers' = [Answers EXCEPT ![r] = v]
  <2>1. ASSUME NEW o \in Readers \ {r}
        PROVE  (IF readers'[o].pc = "encoding" THEN Views(o)' ELSE None) = Answers[o]
    <3>1. readers'[o] = readers[o]
      BY <1>3
    <3>2. CASE readers[o].pc = "encoding"
      BY <3>1, <3>2, ViewsKept DEF Answers
    <3>3. CASE readers[o].pc # "encoding"
      BY <3>1, <3>3 DEF Answers
    <3> QED BY <3>2, <3>3
  <2>2. (IF readers'[r].pc = "encoding" THEN Views(r)' ELSE None) = v
    BY <1>3, <1>9
  <2>3. Answers' = [o \in Readers |-> IF readers'[o].pc = "encoding" THEN Views(o)' ELSE None]
    BY DEF Answers
  <2>4. DOMAIN Answers = Readers /\ Answers = [o \in Readers |-> Answers[o]]
    BY DEF Answers
  <2> QED BY <2>1, <2>2, <2>3, <2>4
<1> HIDE DEF q
<1>15. Atomic!Reply(r)
  <2>1. order' = order
    BY <1>1
  <2>2. Answers' = [Answers EXCEPT ![r] = Atomic!Answer(Questions[r])]
    BY <1>10, <1>13, <1>14
  <2>3. Questions[r] # None /\ Answers[r] = None
    BY <1>13
  <2> QED BY <1>11, <1>12, <2>1, <2>2, <2>3, Zenon
          DEF Atomic!Reply, Atomic!Answer, Known, Questions, Answers
<1> QED BY <1>15 DEF Atomic!Read

\* A handler that has encoded its copies leaves.
LEMMA RespondActs ==
  ASSUME IInv, IInv', [Next]_vars, NEW r \in Readers, Respond(r)
  PROVE  Atomic!Read
<1>1. /\ readers[r].pc = "encoding" /\ readers' = [readers EXCEPT ![r] = Idle]
      /\ heap' = [n \in Live' |-> heap[n]] /\ UNCHANGED <<devices, order, call, wpc, unmarked>>
  BY DEF Respond, Live
<1>2. readers \in [Readers -> Reader] /\ TypeInv
  BY DEF IInv, TypeInv, CallsTyped
<1>3. /\ readers'[r] = Idle /\ Idle.pc = "idle" /\ Idle.question = None
      /\ \A o \in Readers \ {r} : readers'[o] = readers[o]
  BY <1>1, <1>2, Waiting
<1>4. Known' = Known
  <2>1. \A id \in DOMAIN devices : DOMAIN heap'[devices[id].ref] = DOMAIN heap[devices[id].ref]
    <3> SUFFICES ASSUME NEW id \in DOMAIN devices
                 PROVE  heap'[devices[id].ref] = heap[devices[id].ref]
      OBVIOUS
    <3>1. devices'[id].ref \in Live' /\ devices' = devices
      BY <1>1 DEF Live, RefsIn
    <3> QED BY <1>1, <3>1
  <2> QED BY <1>1, <2>1, KnownKept
<1>5. Questions' = [Questions EXCEPT ![r] = None]
  BY <1>3 DEF Questions
<1>6. Answers[r] # None
  <2> DEFINE out == readers[r].out
  <2>1. out \in Seq(Record) /\ DOMAIN out = 1..Len(out) /\ Len(out) \in Nat
    BY <1>2, ReaderTyped DEF TypeInv
  <2>2. ASSUME NEW n \in 1..Len(out) PROVE View(out[n]) \in DeviceState
    <3>1. out[n] \in Record /\ out[n].ref \in Live
      BY <1>2, <2>1, ReaderTyped, Reached DEF TypeInv
    <3>2. heap[out[n].ref] \in Metrics
      BY <1>2, <3>1, Reached
    <3> HIDE DEF out
    <3> QED BY <3>1, <3>2 DEF View, Record, DeviceState
  <2>3. Views(r) = [n \in 1..Len(out) |-> View(out[n])]
    BY <2>1 DEF Views
  <2> HIDE DEF out
  <2>4. Views(r) \in Seq(DeviceState)
    BY <2>1, <2>2, <2>3
  <2>5. Views(r) # None
    BY <2>4, Constants
  <2> QED BY <1>1, <2>5 DEF Answers
<1>7. Answers' = [Answers EXCEPT ![r] = None]
  <2>1. ASSUME NEW o \in Readers \ {r}
        PROVE  (IF readers'[o].pc = "encoding" THEN Views(o)' ELSE None) = Answers[o]
    <3>1. readers'[o] = readers[o]
      BY <1>3
    <3>2. CASE readers[o].pc = "encoding"
      BY <3>1, <3>2, ViewsKept DEF Answers
    <3>3. CASE readers[o].pc # "encoding"
      BY <3>1, <3>3 DEF Answers
    <3> QED BY <3>2, <3>3
  <2>2. (IF readers'[r].pc = "encoding" THEN Views(r)' ELSE None) = None
    BY <1>3
  <2>3. Answers' = [o \in Readers |-> IF readers'[o].pc = "encoding" THEN Views(o)' ELSE None]
    BY DEF Answers
  <2>4. DOMAIN Answers = Readers /\ Answers = [o \in Readers |-> Answers[o]]
    BY DEF Answers
  <2> QED BY <2>1, <2>2, <2>3, <2>4
<1>8. Atomic!Leave(r)
  <2>1. order' = order
    BY <1>1
  <2> QED BY <1>4, <1>5, <1>6, <1>7, <2>1, Zenon DEF Atomic!Leave, Known, Questions, Answers
<1> QED BY <1>8 DEF Atomic!Read

\* Every step of the store is one of the abstract store, or none.
LEMMA Simulates ==
  ASSUME IInv, [Next]_vars
  PROVE  [Atomic!Write \/ Atomic!Read]_(Atomic!specVars)
<1>1. IInv'
  BY Keeps
<1>2. ASSUME NEW c \in Calls, Begin(c) PROVE UNCHANGED Atomic!specVars
  <2>1. UNCHANGED <<devices, order>> /\ heap' = heap /\ readers' = readers
    BY <1>2 DEF Begin
  <2> QED BY <1>1, <2>1, PollLoopStutters
<1>3. CASE Register
  BY <1>1, <1>3, RegisterActs
<1>4. ASSUME Absent, Remove \/ RecordSuccess \/ RecordFailure
      PROVE  UNCHANGED Atomic!specVars
  <2>1. UNCHANGED <<devices, order>> /\ heap' = heap /\ readers' = readers
    BY <1>4 DEF Remove, RecordSuccess, RecordFailure
  <2> QED BY <1>1, <2>1, PollLoopStutters
<1>5. CASE Remove
  BY <1>1, <1>4, <1>5, RemoveActs
<1>6. CASE RecordSuccess
  BY <1>1, <1>4, <1>6, SuccessActs
<1>7. CASE RecordFailure
  BY <1>1, <1>4, <1>7, FailureActs
<1>8. ASSUME NEW k \in Keys, MarkStale(k) PROVE UNCHANGED Atomic!specVars
  <2>1. UNCHANGED <<devices, order>> /\ readers' = readers
    BY <1>8 DEF MarkStale
  <2> QED BY <1>1, <1>8, <2>1, PollLoopStutters
<1>9. CASE Unlock
  <2>1. UNCHANGED <<devices, order>> /\ heap' = heap
    BY <1>9 DEF Unlock
  <2> QED BY <1>1, <1>9, <2>1, PollLoopStutters
<1>10. ASSUME NEW r \in Readers, NEW question \in Ids \cup {All}, Ask(r, question)
       PROVE  Atomic!Read
  BY <1>1, <1>10, AskActs
<1>11. ASSUME NEW r \in Readers, CopyDevice(r) PROVE UNCHANGED Atomic!specVars
  BY <1>1, <1>11, CopyStutters
<1>12. ASSUME NEW r \in Readers, RUnlock(r) \/ Respond(r) PROVE Atomic!Read
  BY <1>1, <1>12, RUnlockActs, RespondActs
<1>13. CASE UNCHANGED vars
  <2>1. UNCHANGED <<devices, order>> /\ heap' = heap /\ readers' = readers
    BY <1>13 DEF vars
  <2> QED BY <1>1, <2>1, PollLoopStutters
<1> QED BY <1>2, <1>3, <1>5, <1>6, <1>7, <1>8, <1>9, <1>10, <1>11, <1>12, <1>13
        DEF Next, WriterStep, ReaderStep

\* Register, Remove, RecordSuccess, RecordFailure, Snapshot and Get take effect at
\* once, although the copies and the flags are made one by one: the store
\* implements the abstract one.
THEOREM CallsAreAtomic == Spec => Linearizable
<1>1. Init => Atomic!Init
  <2> SUFFICES ASSUME Init PROVE Atomic!Init
    OBVIOUS
  <2>1. devices = <<>> /\ order = <<>> /\ \A r \in Readers : readers[r] = Idle
    BY DEF Init
  <2>2. Known = <<>>
    BY <2>1 DEF Known
  <2>3. Questions = [r \in Readers |-> None] /\ Answers = [r \in Readers |-> None]
    BY <2>1, Waiting DEF Questions, Answers
  <2> QED BY <2>1, <2>2, <2>3, Zenon DEF Atomic!Init, Known, Questions, Answers
<1>2. IInv /\ [Next]_vars => [Atomic!Write \/ Atomic!Read]_(Atomic!specVars)
  BY Simulates
<1> QED BY <1>1, <1>2, Invariance, PTL DEF Spec, Linearizable, Atomic!Spec
=============================================================================
