-------------------------- MODULE ConfigApiProofs --------------------------
(***************************************************************************)
(* What holds of the config endpoints for every set of ids, devices,       *)
(* addresses and directories, any number of requests in flight and any     *)
(* number of edits from outside: every write has the mutex while it works, *)
(* no id gets into the file twice, and as long as nobody else writes the   *)
(* file the requests act as if carried out one after the other.            *)
(***************************************************************************)
EXTENDS ConfigApi, IndexLemmas

Device == [id : Ids, data : Data]

Pcs == {"idle", "received", "waiting", "loading", "writing default", "loaded",
        "saving", "answered"}

Request == [pc : Pcs, op : Ops \cup {None}, seen : Config \cup {None},
            status : Answers \cup {None}]

-----------------------------------------------------------------------------
(* The inductive invariant.                                                *)

\* What Check found of an operation and the configuration it was checked with.
Fits(op, c) ==
  /\ op.op = "create" => ~Listed(c, op.id)
  /\ op.op \in {"update", "delete"} => Listed(c, op.id)
  /\ op.op \in {"create", "update"} => op.data \in Offers[c.dir]

\* How far a request has got says what it has.
Progress(q) ==
  /\ q.pc = "idle" => q = Idle
  /\ q.pc # "idle" => q.op \in Ops
  /\ q.pc = "answered" <=> q.status # None
  /\ q.pc \in {"waiting", "saving"} => q.op.op \in Writes
  /\ q.pc \in {"loaded", "saving"} => q.seen \in Config
  /\ q.pc = "saving" => Fits(q.op, q.seen)

TypeInv ==
  /\ file \in Config \cup {Missing, Garbage}
  /\ writeMu \in Requests \cup {None}
  /\ req \in [Requests -> Request]
  /\ \A r \in Requests : Progress(req[r])
  /\ proc \in {"up", "down"} /\ bound \in Addrs \cup {None}
  /\ edits \in 0..MaxHandEdits

\* Load, the checks and Save of a write: from Lock to the answer.
Working(q) ==
  q.pc \in {"loading", "writing default", "loaded", "saving"} /\ q.op.op \in Writes

Inside(r) == Working(req[r])

HasMutex == \A r \in Requests : Inside(r) => writeMu = r

\* Until somebody else writes the file it can be parsed, and what a write has
\* loaded is what is in it.
Undisturbed ==
  edits = 0 =>
    /\ file \in Config
    /\ \A r \in Requests : req[r].pc # "writing default"
    /\ \A r \in Requests :
         req[r].pc \in {"loaded", "saving"} /\ req[r].op.op \in Writes
           => req[r].seen = file

IInv == TypeInv /\ HasMutex /\ Undisturbed

\* No configuration that is around has an id twice.
FilesUnique == \A f \in {DefaultFile} \cup InitialFiles \cup (HandEdits \cap Config) : UniqueIds(f)

IdsUnique ==
  /\ NoDuplicateIds
  /\ \A r \in Requests : req[r].seen # None => UniqueIds(req[r].seen)

-----------------------------------------------------------------------------
(* The operations and what they make of a configuration.                   *)

\* The assumptions on the constants that the proofs use.
LEMMA Constants ==
  /\ Valid \subseteq Data /\ Offers \in [Dirs -> SUBSET Valid]
  /\ AskedDirs \subseteq Dirs \cup {None} /\ GoodAddrs \subseteq Addrs
  /\ Unbindable \subseteq Addrs /\ DefaultFile \in Config
  /\ InitialFiles \subseteq Config /\ HandEdits \subseteq Config \cup {Missing, Garbage}
  /\ MaxHandEdits \in Nat
  /\ Missing \notin Config /\ Garbage \notin Config
  /\ None \notin Config /\ None \notin Requests /\ None \notin Ops /\ None \notin Answers
<1>1. GoodAddrs \cup Unbindable \subseteq Addrs
  BY ApiAssumption
<1>2. None \notin Config \cup Requests \cup Ops \cup Answers
  BY NamesAssumption
<1>3. GoodAddrs \subseteq Addrs /\ Unbindable \subseteq Addrs
  BY <1>1
<1>4. None \notin Config /\ None \notin Requests /\ None \notin Ops /\ None \notin Answers
  BY <1>2
<1> QED BY <1>3, <1>4, ApiAssumption, NamesAssumption

\* What a request carries.
LEMMA OpFacts ==
  ASSUME NEW op \in Ops
  PROVE  /\ op.op \in Writes \cup {"list"}
         /\ op.op \in {"create", "update"} => op.id \in Ids /\ op.data \in Data
         /\ op.op = "delete" => op.id \in Ids
         /\ op.op = "settings" => op.addr \in Addrs /\ op.dir \in AskedDirs
BY DEF Ops, Writes

LEMMA ConfigFacts ==
  ASSUME NEW c \in Config
  PROVE  /\ c.addr \in Addrs /\ c.dir \in Dirs /\ c.devices \in Seq(Device)
         /\ Len(c.devices) \in Nat /\ DOMAIN c.devices = 1..Len(c.devices)
         /\ \A k \in DOMAIN c.devices : c.devices[k] \in Device
<1>1. c.addr \in Addrs /\ c.dir \in Dirs /\ c.devices \in Seq(Device)
  BY DEF Config, Device
<1> QED BY <1>1, LenProperties, ElementOfSeq

\* A listed id has a first entry.
LEMMA FirstAtFacts ==
  ASSUME NEW c \in Config, NEW id, Listed(c, id)
  PROVE  /\ FirstAt(c, id) \in 1..Len(c.devices)
         /\ c.devices[FirstAt(c, id)].id = id
<1>1. Positions(c, id) \subseteq 1..Len(c.devices) /\ Positions(c, id) # {}
  BY ConfigFacts DEF Positions, Listed
<1>2. Positions(c, id) \subseteq Nat
  BY <1>1, ConfigFacts
<1>3. \E k \in Positions(c, id) : \A j \in Positions(c, id) : k <= j
  BY <1>1, <1>2, Least
<1>4. FirstAt(c, id) \in Positions(c, id)
  BY <1>3 DEF FirstAt
<1> QED BY <1>1, <1>4 DEF Positions

\* Deleting an entry closes the gap.
LEMMA WithoutAtFacts ==
  ASSUME NEW s \in Seq(Device), NEW k \in 1..Len(s)
  PROVE  /\ WithoutAt(s, k) \in Seq(Device)
         /\ Len(WithoutAt(s, k)) = Len(s) - 1
         /\ \A j \in 1..Len(s) - 1 :
              WithoutAt(s, k)[j] = IF j < k THEN s[j] ELSE s[j + 1]
BY WithoutOne DEF WithoutAt

-----------------------------------------------------------------------------
(* What is saved, operation by operation.                                  *)

\* The four operations, one at a time.
LEMMA EditedCases ==
  ASSUME NEW op, NEW c
  PROVE  /\ op.op = "create" => Edited(op, c) =
              [c EXCEPT !.devices = Append(@, [id |-> op.id, data |-> op.data])]
         /\ op.op = "update" => Edited(op, c) =
              [c EXCEPT !.devices[FirstAt(c, op.id)] = [id |-> op.id, data |-> op.data]]
         /\ op.op = "delete" => Edited(op, c) =
              [c EXCEPT !.devices = WithoutAt(@, FirstAt(c, op.id))]
         /\ op.op = "settings" => Edited(op, c) =
              [c EXCEPT !.addr = op.addr, !.dir = IF op.dir = None THEN @ ELSE op.dir]
BY DEF Edited

\* An accepted creation appends.
LEMMA Created ==
  ASSUME NEW c \in Config, NEW op \in Ops, op.op = "create"
  PROVE  LET n == Len(c.devices)
             e == Edited(op, c)
         IN  /\ e \in Config /\ e.addr = c.addr /\ e.dir = c.dir
             /\ DOMAIN e.devices = 1..n + 1
             /\ e.devices[n + 1] = [id |-> op.id, data |-> op.data]
             /\ \A k \in 1..n : e.devices[k] = c.devices[k]
<1> DEFINE d == [id |-> op.id, data |-> op.data]
           s == Append(c.devices, d)
<1>1. Edited(op, c) = [c EXCEPT !.devices = s]
  BY EditedCases
<1>2. d \in Device
  BY OpFacts DEF Device
<1>3. /\ c.devices \in Seq(Device) /\ Len(c.devices) \in Nat
      /\ c.addr \in Addrs /\ c.dir \in Dirs
  BY ConfigFacts
<1> HIDE DEF d
<1>4. /\ s \in Seq(Device) /\ Len(s) = Len(c.devices) + 1
      /\ \A k \in 1..Len(c.devices) : s[k] = c.devices[k]
      /\ s[Len(c.devices) + 1] = d
  BY <1>2, <1>3, AppendProperties
<1>5. DOMAIN s = 1..Len(c.devices) + 1
  BY <1>4, LenProperties
<1> HIDE DEF s
<1>6. /\ Edited(op, c) \in Config /\ Edited(op, c).devices = s
      /\ Edited(op, c).addr = c.addr /\ Edited(op, c).dir = c.dir
  BY <1>1, <1>3, <1>4 DEF Config, Device
<1> QED BY <1>4, <1>5, <1>6 DEF d

\* An accepted update replaces the first entry of its id.
LEMMA Updated ==
  ASSUME NEW c \in Config, NEW op \in Ops, op.op = "update", Listed(c, op.id)
  PROVE  LET k == FirstAt(c, op.id)
             e == Edited(op, c)
         IN  /\ e \in Config /\ e.addr = c.addr /\ e.dir = c.dir
             /\ DOMAIN e.devices = DOMAIN c.devices
             /\ e.devices[k] = [id |-> op.id, data |-> op.data]
             /\ \A j \in DOMAIN c.devices \ {k} : e.devices[j] = c.devices[j]
<1> DEFINE d == [id |-> op.id, data |-> op.data]
           k == FirstAt(c, op.id)
           s == [c.devices EXCEPT ![k] = d]
<1>1. Edited(op, c) = [c EXCEPT !.devices = s]
  BY EditedCases
<1>2. d \in Device
  BY OpFacts DEF Device
<1>3. /\ c.devices \in Seq(Device) /\ Len(c.devices) \in Nat
      /\ c.addr \in Addrs /\ c.dir \in Dirs /\ DOMAIN c.devices = 1..Len(c.devices)
  BY ConfigFacts
<1>4. k \in 1..Len(c.devices)
  BY FirstAtFacts
<1> HIDE DEF d, k
<1>5. /\ s \in Seq(Device) /\ DOMAIN s = DOMAIN c.devices /\ s[k] = d
      /\ \A j \in DOMAIN c.devices \ {k} : s[j] = c.devices[j]
  BY <1>2, <1>3, <1>4, ExceptSeq
<1> HIDE DEF s
<1>6. /\ Edited(op, c) \in Config /\ Edited(op, c).devices = s
      /\ Edited(op, c).addr = c.addr /\ Edited(op, c).dir = c.dir
  BY <1>1, <1>3, <1>5 DEF Config, Device
<1> QED BY <1>5, <1>6 DEF d, k

\* An accepted deletion removes the first entry of its id.
LEMMA Deleted ==
  ASSUME NEW c \in Config, NEW op \in Ops, op.op = "delete", Listed(c, op.id)
  PROVE  LET k == FirstAt(c, op.id)
             n == Len(c.devices)
             e == Edited(op, c)
         IN  /\ e \in Config /\ e.addr = c.addr /\ e.dir = c.dir
             /\ k \in 1..n /\ DOMAIN e.devices = 1..n - 1
             /\ \A j \in 1..n - 1 :
                  e.devices[j] = IF j < k THEN c.devices[j] ELSE c.devices[j + 1]
<1> DEFINE k == FirstAt(c, op.id)
           s == WithoutAt(c.devices, k)
<1>1. Edited(op, c) = [c EXCEPT !.devices = s]
  BY EditedCases
<1>2. /\ c.devices \in Seq(Device) /\ Len(c.devices) \in Nat
      /\ c.addr \in Addrs /\ c.dir \in Dirs
  BY ConfigFacts
<1>3. k \in 1..Len(c.devices)
  BY FirstAtFacts
<1> HIDE DEF k
<1>4. /\ s \in Seq(Device) /\ Len(s) = Len(c.devices) - 1
      /\ \A j \in 1..Len(c.devices) - 1 :
           s[j] = IF j < k THEN c.devices[j] ELSE c.devices[j + 1]
  BY <1>2, <1>3, WithoutAtFacts
<1>5. DOMAIN s = 1..Len(c.devices) - 1
  BY <1>4, LenProperties
<1> HIDE DEF s
<1>6. /\ Edited(op, c) \in Config /\ Edited(op, c).devices = s
      /\ Edited(op, c).addr = c.addr /\ Edited(op, c).dir = c.dir
  BY <1>1, <1>2, <1>4 DEF Config, Device
<1> QED BY <1>3, <1>4, <1>5, <1>6 DEF k

\* Settings leave the devices alone.
LEMMA SettingsPut ==
  ASSUME NEW c \in Config, NEW op \in Ops, op.op = "settings"
  PROVE  LET e == Edited(op, c)
         IN  /\ e \in Config /\ e.devices = c.devices /\ e.addr = op.addr
             /\ e.dir = IF op.dir = None THEN c.dir ELSE op.dir
<1>1. Edited(op, c) =
        [c EXCEPT !.addr = op.addr, !.dir = IF op.dir = None THEN @ ELSE op.dir]
  BY EditedCases
<1>2. op.addr \in Addrs /\ (op.dir = None \/ op.dir \in Dirs)
  BY OpFacts, Constants
<1>3. c \in [addr : Addrs, dir : Dirs, devices : Seq(Device)]
  BY DEF Config, Device
<1> QED BY <1>1, <1>2, <1>3 DEF Config, Device

\* What is saved is a configuration.
LEMMA EditedIsConfig ==
  ASSUME NEW c \in Config, NEW op \in Ops, op.op \in Writes, Fits(op, c)
  PROVE  Edited(op, c) \in Config
BY Created, Updated, Deleted, SettingsPut DEF Writes, Fits

\* What is saved of a configuration whose ids are unique has unique ids.
LEMMA EditedIsUnique ==
  ASSUME NEW c \in Config, NEW op \in Ops, op.op \in Writes, Fits(op, c), UniqueIds(c)
  PROVE  UniqueIds(Edited(op, c))
<1> DEFINE e == Edited(op, c)
           n == Len(c.devices)
<1>1. n \in Nat /\ DOMAIN c.devices = 1..n
  BY ConfigFacts
<1>2. \A j, k \in 1..n : c.devices[j].id = c.devices[k].id => j = k
  BY <1>1 DEF UniqueIds
<1> SUFFICES ASSUME NEW j \in DOMAIN e.devices, NEW k \in DOMAIN e.devices,
                    e.devices[j].id = e.devices[k].id
             PROVE  j = k
  BY DEF UniqueIds
<1> HIDE DEF e, n
<1>3. CASE op.op = "create"
  <2>1. /\ DOMAIN e.devices = 1..n + 1 /\ e.devices[n + 1].id = op.id
        /\ \A i \in 1..n : e.devices[i].id = c.devices[i].id
    <3>1. /\ DOMAIN e.devices = 1..n + 1
          /\ e.devices[n + 1] = [id |-> op.id, data |-> op.data]
          /\ \A i \in 1..n : e.devices[i] = c.devices[i]
      BY <1>3, Created DEF e, n
    <3> QED BY <3>1
  <2>2. \A i \in 1..n : c.devices[i].id # op.id
    BY <1>1, <1>3 DEF Fits, Listed, Positions
  <2>3. \A i \in 1..n + 1 : i \in 1..n \/ i = n + 1
    BY <1>1
  <2>4. CASE j = n + 1 /\ k = n + 1
    BY <2>4
  <2>5. CASE j \in 1..n /\ k \in 1..n
    BY <1>2, <2>1, <2>5
  <2> QED BY <2>1, <2>2, <2>3, <2>4, <2>5
<1>4. CASE op.op = "update"
  <2>1. Listed(c, op.id)
    BY <1>4 DEF Fits
  <2>2. /\ DOMAIN e.devices = 1..n
        /\ \A i \in 1..n : e.devices[i].id = c.devices[i].id
    <3>1. /\ DOMAIN e.devices = DOMAIN c.devices
          /\ e.devices[FirstAt(c, op.id)] = [id |-> op.id, data |-> op.data]
          /\ \A i \in DOMAIN c.devices \ {FirstAt(c, op.id)} : e.devices[i] = c.devices[i]
      BY <1>4, <2>1, Updated DEF e
    <3>2. c.devices[FirstAt(c, op.id)].id = op.id
      BY <2>1, FirstAtFacts
    <3> QED BY <1>1, <3>1, <3>2
  <2> QED BY <1>2, <2>2
<1>5. CASE op.op = "delete"
  <2>1. Listed(c, op.id)
    BY <1>5 DEF Fits
  <2> DEFINE d == FirstAt(c, op.id)
             Old(i) == IF i < d THEN i ELSE i + 1
  <2>2. /\ DOMAIN e.devices = 1..n - 1 /\ d \in 1..n
        /\ \A i \in 1..n - 1 : e.devices[i] = IF i < d THEN c.devices[i] ELSE c.devices[i + 1]
    BY <1>5, <2>1, Deleted DEF e, n
  <2> HIDE DEF d
  <2>3. \A i \in 1..n - 1 : Old(i) \in 1..n /\ e.devices[i].id = c.devices[Old(i)].id
    BY <1>1, <2>2
  <2>4. Old(j) = Old(k)
    BY <1>2, <2>2, <2>3
  <2> QED BY <1>1, <2>2, <2>4
<1>6. CASE op.op = "settings"
  BY <1>1, <1>2, <1>6, SettingsPut DEF e
<1> QED BY <1>3, <1>4, <1>5, <1>6 DEF Writes

-----------------------------------------------------------------------------
(* A configuration as a mapping from ids to data.                          *)

\* The mapping is about the listed ids.
LEMMA MappingDomain ==
  ASSUME NEW c \in Config
  PROVE  \A id : id \in DOMAIN AsMapping(c) <=> Listed(c, id)
BY DEF AsMapping, Listed, Positions

\* When ids are unique an entry gives its id's data.
LEMMA MappingEntry ==
  ASSUME NEW c \in Config, UniqueIds(c), NEW k \in DOMAIN c.devices
  PROVE  /\ c.devices[k].id \in DOMAIN AsMapping(c)
         /\ AsMapping(c)[c.devices[k].id] = c.devices[k].data
<1> DEFINE id == c.devices[k].id
<1>1. Listed(c, id)
  BY DEF Listed, Positions
<1>2. FirstAt(c, id) \in DOMAIN c.devices /\ c.devices[FirstAt(c, id)].id = id
  BY <1>1, FirstAtFacts, ConfigFacts
<1>3. FirstAt(c, id) = k
  BY <1>2 DEF UniqueIds
<1> QED BY <1>1, <1>3, MappingDomain DEF AsMapping

\* Two functions that agree on one domain are equal.
LEMMA SameMapping ==
  ASSUME NEW c \in Config, UniqueIds(c), NEW S, NEW f, f = [id \in S |-> f[id]],
         \A k \in DOMAIN c.devices :
           c.devices[k].id \in S /\ f[c.devices[k].id] = c.devices[k].data,
         \A id \in S : Listed(c, id)
  PROVE  AsMapping(c) = f
<1>1. DOMAIN AsMapping(c) = S
  <2>1. \A id : Listed(c, id) => id \in S
    BY DEF Listed, Positions
  <2> QED BY <2>1, MappingDomain DEF AsMapping
<1>2. ASSUME NEW id \in S PROVE AsMapping(c)[id] = f[id]
  <2>1. PICK k \in DOMAIN c.devices : c.devices[k].id = id
    BY <1>2 DEF Listed, Positions
  <2> QED BY <2>1, MappingEntry
<1>3. AsMapping(c) = [id \in DOMAIN AsMapping(c) |-> AsMapping(c)[id]]
  BY DEF AsMapping
<1> QED BY <1>1, <1>2, <1>3

\* An accepted creation adds its id.
LEMMA MappingCreated ==
  ASSUME NEW c \in Config, UniqueIds(c), NEW op \in Ops, op.op = "create", Fits(op, c)
  PROVE  AsMapping(Edited(op, c)) =
           [id \in DOMAIN AsMapping(c) \cup {op.id} |->
              IF id = op.id THEN op.data ELSE AsMapping(c)[id]]
<1> DEFINE e == Edited(op, c)
           n == Len(c.devices)
           S == DOMAIN AsMapping(c) \cup {op.id}
           f == [id \in S |-> IF id = op.id THEN op.data ELSE AsMapping(c)[id]]
<1>1. n \in Nat /\ DOMAIN c.devices = 1..n
  BY ConfigFacts
<1>2. /\ e \in Config /\ DOMAIN e.devices = 1..n + 1
      /\ e.devices[n + 1] = [id |-> op.id, data |-> op.data]
      /\ \A i \in 1..n : e.devices[i] = c.devices[i]
  BY Created
<1>3. UniqueIds(e)
  BY EditedIsUnique DEF Writes
<1> HIDE DEF e, n
<1>4. ~Listed(c, op.id)
  BY DEF Fits
<1>5. ASSUME NEW k \in DOMAIN e.devices
      PROVE  e.devices[k].id \in S /\ f[e.devices[k].id] = e.devices[k].data
  <2>1. CASE k = n + 1
    BY <1>2, <2>1
  <2>2. CASE k \in 1..n
    <3>1. c.devices[k].id # op.id
      BY <1>1, <1>4, <2>2 DEF Listed, Positions
    <3> QED BY <1>1, <1>2, <2>2, <3>1, MappingEntry
  <2> QED BY <1>1, <1>2, <2>1, <2>2
<1>6. ASSUME NEW id \in S PROVE Listed(e, id)
  <2>1. CASE id = op.id
    <3>1. n + 1 \in DOMAIN e.devices
      BY <1>1, <1>2
    <3> QED BY <1>2, <2>1, <3>1 DEF Listed, Positions
  <2>2. CASE id \in DOMAIN AsMapping(c)
    <3>1. PICK k \in 1..n : c.devices[k].id = id
      BY <1>1, <2>2, MappingDomain DEF Listed, Positions
    <3>2. k \in DOMAIN e.devices /\ e.devices[k].id = id
      BY <1>1, <1>2, <3>1
    <3> QED BY <3>2 DEF Listed, Positions
  <2> QED BY <2>1, <2>2
<1>7. f = [id \in S |-> f[id]]
  OBVIOUS
<1> HIDE DEF S, f
<1>8. AsMapping(e) = f
  BY <1>2, <1>3, <1>5, <1>6, <1>7, SameMapping
<1> QED BY <1>8 DEF e, f, S

\* An accepted update changes the data of its id.
LEMMA MappingUpdated ==
  ASSUME NEW c \in Config, UniqueIds(c), NEW op \in Ops, op.op = "update", Fits(op, c)
  PROVE  AsMapping(Edited(op, c)) = [AsMapping(c) EXCEPT ![op.id] = op.data]
<1> DEFINE e == Edited(op, c)
           d == FirstAt(c, op.id)
           S == DOMAIN AsMapping(c)
           f == [AsMapping(c) EXCEPT ![op.id] = op.data]
<1>1. Listed(c, op.id)
  BY DEF Fits
<1>2. /\ e \in Config /\ DOMAIN e.devices = DOMAIN c.devices
      /\ e.devices[d] = [id |-> op.id, data |-> op.data]
      /\ \A j \in DOMAIN c.devices \ {d} : e.devices[j] = c.devices[j]
  BY <1>1, Updated
<1>3. d \in DOMAIN c.devices /\ c.devices[d].id = op.id
  BY <1>1, FirstAtFacts, ConfigFacts
<1>4. UniqueIds(e)
  BY EditedIsUnique DEF Writes
<1>5. f = [id \in S |-> IF id = op.id THEN op.data ELSE AsMapping(c)[id]]
  BY DEF AsMapping
<1> HIDE DEF e, d
<1>6. ASSUME NEW k \in DOMAIN e.devices
      PROVE  e.devices[k].id \in S /\ f[e.devices[k].id] = e.devices[k].data
  <2>1. CASE k = d
    <3>1. op.id \in S
      BY <1>1, MappingDomain
    <3> QED BY <1>2, <1>5, <2>1, <3>1
  <2>2. CASE k # d
    <3>1. c.devices[k].id # op.id
      BY <1>2, <1>3, <2>2 DEF UniqueIds
    <3>2. /\ c.devices[k].id \in S
          /\ AsMapping(c)[c.devices[k].id] = c.devices[k].data
      BY <1>2, MappingEntry
    <3> QED BY <1>2, <1>5, <2>2, <3>1, <3>2
  <2> QED BY <2>1, <2>2
<1>7. ASSUME NEW id \in S PROVE Listed(e, id)
  <2>1. PICK k \in DOMAIN c.devices : c.devices[k].id = id
    BY MappingDomain DEF Listed, Positions
  <2>2. k \in DOMAIN e.devices /\ e.devices[k].id = id
    BY <1>2, <1>3, <2>1
  <2> QED BY <2>2 DEF Listed, Positions
<1>8. f = [id \in S |-> f[id]]
  BY <1>5
<1> HIDE DEF S, f
<1>9. AsMapping(e) = f
  BY <1>2, <1>4, <1>6, <1>7, <1>8, SameMapping
<1> QED BY <1>9 DEF e, f

\* An accepted deletion removes its id.
LEMMA MappingDeleted ==
  ASSUME NEW c \in Config, UniqueIds(c), NEW op \in Ops, op.op = "delete", Fits(op, c)
  PROVE  AsMapping(Edited(op, c)) =
           [id \in DOMAIN AsMapping(c) \ {op.id} |-> AsMapping(c)[id]]
<1> DEFINE e == Edited(op, c)
           n == Len(c.devices)
           d == FirstAt(c, op.id)
           S == DOMAIN AsMapping(c) \ {op.id}
           f == [id \in S |-> AsMapping(c)[id]]
           Old(i) == IF i < d THEN i ELSE i + 1
<1>1. Listed(c, op.id)
  BY DEF Fits
<1>2. n \in Nat /\ DOMAIN c.devices = 1..n
  BY ConfigFacts
<1>3. /\ e \in Config /\ DOMAIN e.devices = 1..n - 1 /\ d \in 1..n
      /\ \A j \in 1..n - 1 :
           e.devices[j] = IF j < d THEN c.devices[j] ELSE c.devices[j + 1]
  BY <1>1, Deleted
<1>4. c.devices[d].id = op.id
  BY <1>1, FirstAtFacts
<1>5. UniqueIds(e)
  BY EditedIsUnique DEF Writes
<1> HIDE DEF e, d, n
<1>6. ASSUME NEW k \in DOMAIN e.devices
      PROVE  e.devices[k].id \in S /\ f[e.devices[k].id] = e.devices[k].data
  <2>1. Old(k) \in DOMAIN c.devices /\ Old(k) # d /\ e.devices[k] = c.devices[Old(k)]
    BY <1>2, <1>3
  <2> HIDE DEF Old
  <2>2. c.devices[Old(k)].id # op.id
    BY <1>2, <1>3, <1>4, <2>1 DEF UniqueIds
  <2>3. /\ c.devices[Old(k)].id \in DOMAIN AsMapping(c)
        /\ AsMapping(c)[c.devices[Old(k)].id] = c.devices[Old(k)].data
    BY <2>1, MappingEntry
  <2> QED BY <2>1, <2>2, <2>3
<1>7. ASSUME NEW id \in S PROVE Listed(e, id)
  <2>1. PICK k \in 1..n : c.devices[k].id = id /\ k # d
    BY <1>2, <1>4, MappingDomain DEF Listed, Positions
  <2> DEFINE i == IF k < d THEN k ELSE k - 1
  <2>2. i \in DOMAIN e.devices /\ e.devices[i] = c.devices[k]
    BY <1>2, <1>3, <2>1
  <2> QED BY <2>1, <2>2 DEF Listed, Positions
<1>8. f = [id \in S |-> f[id]]
  OBVIOUS
<1> HIDE DEF S, f
<1>9. AsMapping(e) = f
  BY <1>3, <1>5, <1>6, <1>7, <1>8, SameMapping
<1> QED BY <1>9 DEF e, f, S

\* Settings leave the mapping alone.
LEMMA MappingPut ==
  ASSUME NEW c \in Config, NEW op \in Ops, op.op = "settings"
  PROVE  AsMapping(Edited(op, c)) = AsMapping(c)
<1>1. Edited(op, c).devices = c.devices
  BY SettingsPut
<1>2. \A id : Positions(Edited(op, c), id) = Positions(c, id)
  BY <1>1 DEF Positions
<1>3. \A id : FirstAt(Edited(op, c), id) = FirstAt(c, id)
  BY <1>2 DEF FirstAt
<1> HIDE DEF Config
<1>4. ASSUME NEW e, e.devices = c.devices, \A id : FirstAt(e, id) = FirstAt(c, id)
      PROVE  AsMapping(e) = AsMapping(c)
  BY <1>4 DEF AsMapping
<1> QED BY <1>1, <1>3, <1>4

-----------------------------------------------------------------------------
(* One request moves on.                                                   *)

\* A handler that only decides where it is and what it answers.
LEMMA SetIs ==
  ASSUME req \in [Requests -> Request], NEW r \in Requests, NEW pc, NEW status,
         Set(r, pc, status)
  PROVE  req' = [req EXCEPT ![r] = [pc |-> pc, op |-> req[r].op,
                                    seen |-> req[r].seen, status |-> status]]
<1>1. req[r] \in Request
  OBVIOUS
<1>2. [[req[r] EXCEPT !.pc = pc] EXCEPT !.status = status] =
        [pc |-> pc, op |-> req[r].op, seen |-> req[r].seen, status |-> status]
  <2>1. req[r] = [pc |-> req[r].pc, op |-> req[r].op,
                  seen |-> req[r].seen, status |-> req[r].status]
    BY <1>1 DEF Request
  <2>2. [req[r] EXCEPT !.pc = pc] =
          [pc |-> pc, op |-> req[r].op, seen |-> req[r].seen, status |-> req[r].status]
    BY <2>1
  <2>3. [[pc |-> pc, op |-> req[r].op, seen |-> req[r].seen, status |-> req[r].status]
           EXCEPT !.status = status] =
          [pc |-> pc, op |-> req[r].op, seen |-> req[r].seen, status |-> status]
    OBVIOUS
  <2> QED BY <2>2, <2>3, Zenon
<1> DEFINE f == [req EXCEPT ![r].pc = pc]
<1>3. /\ DOMAIN f = Requests /\ f[r] = [req[r] EXCEPT !.pc = pc]
      /\ \A o \in Requests \ {r} : f[o] = req[o]
  OBVIOUS
<1>4. req' = [f EXCEPT ![r].status = status]
  BY DEF Set
<1> HIDE DEF f
<1>5. req' = [o \in Requests |-> IF o = r THEN [f[r] EXCEPT !.status = status] ELSE f[o]]
  BY <1>3, <1>4
<1> QED BY <1>2, <1>3, <1>5

\* A handler that has a configuration now.
LEMMA LoadIs ==
  ASSUME req \in [Requests -> Request], NEW r \in Requests, NEW c,
         req' = [req EXCEPT ![r].pc = "loaded", ![r].seen = c]
  PROVE  req' = [req EXCEPT ![r] = [pc |-> "loaded", op |-> req[r].op,
                                    seen |-> c, status |-> req[r].status]]
<1>1. req[r] \in Request
  OBVIOUS
<1>2. [[req[r] EXCEPT !.pc = "loaded"] EXCEPT !.seen = c] =
        [pc |-> "loaded", op |-> req[r].op, seen |-> c, status |-> req[r].status]
  <2>1. req[r] = [pc |-> req[r].pc, op |-> req[r].op,
                  seen |-> req[r].seen, status |-> req[r].status]
    BY <1>1 DEF Request
  <2>2. [req[r] EXCEPT !.pc = "loaded"] =
          [pc |-> "loaded", op |-> req[r].op, seen |-> req[r].seen, status |-> req[r].status]
    BY <2>1
  <2>3. [[pc |-> "loaded", op |-> req[r].op, seen |-> req[r].seen, status |-> req[r].status]
           EXCEPT !.seen = c] =
          [pc |-> "loaded", op |-> req[r].op, seen |-> c, status |-> req[r].status]
    OBVIOUS
  <2> QED BY <2>2, <2>3, Zenon
<1> DEFINE f == [req EXCEPT ![r].pc = "loaded"]
<1>3. /\ DOMAIN f = Requests /\ f[r] = [req[r] EXCEPT !.pc = "loaded"]
      /\ \A o \in Requests \ {r} : f[o] = req[o]
  OBVIOUS
<1>4. req' = [f EXCEPT ![r].seen = c]
  OBVIOUS
<1> HIDE DEF f
<1>5. req' = [o \in Requests |-> IF o = r THEN [f[r] EXCEPT !.seen = c] ELSE f[o]]
  BY <1>3, <1>4
<1> QED BY <1>2, <1>3, <1>5

\* A request r that becomes q keeps the invariant when q is sound, works under
\* the mutex only, and writes the file only when no other request works.
LEMMA Moved ==
  ASSUME IInv, NEW r \in Requests, NEW q \in Request, Progress(q),
         req' = [req EXCEPT ![r] = q], UNCHANGED <<proc, bound, edits>>,
         writeMu' \in Requests \cup {None},
         \A o \in Requests \ {r} : writeMu = o => writeMu' = o,
         Working(q) => writeMu' = r,
         file' = file \/ file' \in Config,
         edits = 0 /\ file' # file => \A o \in Requests \ {r} : ~Inside(o),
         edits = 0 => q.pc # "writing default",
         edits = 0 /\ q.pc \in {"loaded", "saving"} /\ q.op.op \in Writes
           => q.seen = file'
  PROVE  IInv'
<1> USE DEF IInv
<1>1. req'[r] = q /\ \A o \in Requests \ {r} : req'[o] = req[o]
  BY DEF TypeInv
<1>2. TypeInv'
  <2>1. \A o \in Requests : Progress(req'[o])
    BY <1>1 DEF TypeInv
  <2>2. req' \in [Requests -> Request]
    BY DEF TypeInv
  <2>3. file' \in Config \cup {Missing, Garbage}
    BY DEF TypeInv
  <2>4. (proc \in {"up", "down"} /\ bound \in Addrs \cup {None} /\ edits \in 0..MaxHandEdits)'
    BY DEF TypeInv
  <2>5. (\A o \in Requests : Progress(req[o]))'
    BY <2>1
  <2> QED BY <2>2, <2>3, <2>4, <2>5 DEF TypeInv
<1>3. HasMutex'
  <2>1. ASSUME NEW o \in Requests, Inside(o)' PROVE writeMu' = o
    <3>1. CASE o = r
      BY <1>1, <2>1, <3>1 DEF Inside, Working
    <3>2. CASE o # r
      BY <1>1, <2>1, <3>2 DEF Inside, Working, HasMutex
    <3> QED BY <3>1, <3>2
  <2> QED BY <2>1 DEF HasMutex
<1>4. Undisturbed'
  <2> SUFFICES ASSUME edits = 0
               PROVE  /\ file' \in Config
                      /\ \A o \in Requests : req'[o].pc # "writing default"
                      /\ \A o \in Requests :
                           req'[o].pc \in {"loaded", "saving"} /\ req'[o].op.op \in Writes
                             => req'[o].seen = file'
    BY DEF Undisturbed
  <2>1. file' \in Config
    BY DEF Undisturbed
  <2>2. ASSUME NEW o \in Requests PROVE req'[o].pc # "writing default"
    BY <1>1 DEF Undisturbed
  <2>3. ASSUME NEW o \in Requests, req'[o].pc \in {"loaded", "saving"}, req'[o].op.op \in Writes
        PROVE  req'[o].seen = file'
    <3>1. CASE o = r
      BY <1>1, <2>3, <3>1
    <3>2. CASE o # r
      <4>1. req'[o] = req[o] /\ Inside(o)
        BY <1>1, <2>3, <3>2 DEF Inside, Working
      <4>2. file' = file
        BY <3>2, <4>1
      <4> QED BY <2>3, <4>1, <4>2 DEF Undisturbed
    <3> QED BY <3>1, <3>2
  <2> QED BY <2>1, <2>2, <2>3
<1> QED BY <1>2, <1>3, <1>4

\* What the checks decide: to save what fits, or why not.
LEMMA VerdictFacts ==
  ASSUME NEW op \in Ops, NEW c, op.op \in Writes
  PROVE  /\ Verdict(op, c) = "save" => Fits(op, c)
         /\ Verdict(op, c) # "save" => Verdict(op, c) \in Answers
<1>1. CASE op.op = "create"
  <2>1. Verdict(op, c) = IF Listed(c, op.id) THEN "exists" ELSE ProfileVerdict(op, c)
    BY <1>1 DEF Verdict
  <2> QED BY <1>1, <2>1 DEF Fits, ProfileVerdict, Answers
<1>2. CASE op.op = "update"
  <2>1. Verdict(op, c) =
          IF Listed(c, op.id) THEN ProfileVerdict(op, c) ELSE "unknown device"
    BY <1>2 DEF Verdict
  <2> QED BY <1>2, <2>1 DEF Fits, ProfileVerdict, Answers
<1>3. CASE op.op = "delete"
  <2>1. Verdict(op, c) = IF Listed(c, op.id) THEN "save" ELSE "unknown device"
    BY <1>3 DEF Verdict
  <2> QED BY <1>3, <2>1 DEF Fits, Answers
<1>4. CASE op.op = "settings"
  <2>1. Verdict(op, c) =
          IF op.addr \notin GoodAddrs THEN "bad request"
          ELSE IF PortOf[op.addr] # PortOf[c.addr] /\ ~Free(op.addr)
               THEN "port in use" ELSE "save"
    BY <1>4 DEF Verdict
  <2> QED BY <1>4, <2>1 DEF Fits, Answers
<1> QED BY <1>1, <1>2, <1>3, <1>4 DEF Writes

\* A handler that decides where it is and what it answers, and changes nothing
\* else, keeps the invariant.
LEMMA SetKeeps ==
  ASSUME IInv, NEW r \in Requests, NEW pc \in Pcs \ {"idle", "loaded"},
         NEW status \in Answers \cup {None}, Set(r, pc, status),
         UNCHANGED <<file, proc, bound, edits>>,
         writeMu' \in Requests \cup {None},
         \A o \in Requests \ {r} : writeMu = o => writeMu' = o,
         req[r].op \in Ops,
         pc = "answered" <=> status # None,
         pc \in {"waiting", "saving"} => req[r].op.op \in Writes,
         pc = "saving" => Inside(r) /\ req[r].seen \in Config /\ Fits(req[r].op, req[r].seen)
                            /\ req[r].pc = "loaded",
         pc \in {"loading", "writing default", "saving"} /\ req[r].op.op \in Writes
           => writeMu' = r,
         edits = 0 => pc # "writing default"
  PROVE  IInv'
<1> DEFINE q == [pc |-> pc, op |-> req[r].op, seen |-> req[r].seen, status |-> status]
<1>1. req \in [Requests -> Request]
  BY DEF IInv, TypeInv
<1>2. req' = [req EXCEPT ![r] = q]
  BY <1>1, SetIs
<1>3. req[r].seen \in Config \cup {None}
  BY <1>1 DEF Request
<1>4. q \in Request
  BY <1>3 DEF Request
<1>5. /\ q.pc = pc /\ q.op = req[r].op /\ q.seen = req[r].seen /\ q.status = status
  OBVIOUS
<1> HIDE DEF q
<1>6. Progress(q)
  BY <1>5 DEF Progress
<1>7. Working(q) => writeMu' = r
  BY <1>5 DEF Working
<1>8. edits = 0 /\ q.pc \in {"loaded", "saving"} /\ q.op.op \in Writes => q.seen = file'
  BY <1>5 DEF IInv, Undisturbed
<1>9. edits = 0 => q.pc # "writing default"
  BY <1>5
<1> QED BY <1>2, <1>4, <1>6, <1>7, <1>8, <1>9, Moved

\* Whoever is past its receipt has an operation.
LEMMA HasOp ==
  ASSUME IInv, NEW r \in Requests, req[r].pc # "idle"
  PROVE  req[r].op \in Ops
BY DEF IInv, TypeInv, Progress

\* Nothing but the holder of the mutex works on a write.
LEMMA Alone ==
  ASSUME IInv, NEW r \in Requests, Inside(r)
  PROVE  writeMu = r /\ \A o \in Requests \ {r} : ~Inside(o)
BY DEF IInv, HasMutex

-----------------------------------------------------------------------------
(* The invariant, action by action.                                        *)

\* The start of the process keeps the invariant.
LEMMA Begins == Init => IInv
<1> SUFFICES ASSUME Init PROVE IInv
  OBVIOUS
<1> USE DEF Init
<1>1. Idle \in Request /\ Progress(Idle)
  <2>1. Idle \in Request
    BY DEF Idle, Request, Pcs
  <2>2. Progress(Idle)
    BY Constants DEF Idle, Progress
  <2> QED BY <2>1, <2>2
<1>2. \A r \in Requests : req[r] = Idle /\ req[r].pc = "idle"
  BY DEF Idle
<1>3. TypeInv
  <2>1. file \in Config
    BY Constants
  <2>2. edits \in 0..MaxHandEdits
    BY Constants
  <2>3. req \in [Requests -> Request]
    BY <1>1
  <2>4. \A r \in Requests : Progress(req[r])
    BY <1>1, <1>2
  <2> QED BY <2>1, <2>2, <2>3, <2>4 DEF TypeInv
<1>4. HasMutex
  BY <1>2 DEF HasMutex, Inside, Working
<1>5. Undisturbed
  BY <1>2, Constants DEF Undisturbed
<1> QED BY <1>3, <1>4, <1>5 DEF IInv

\* A request that comes in has nothing yet.
LEMMA ReceiveKeeps ==
  ASSUME IInv, NEW r \in Requests, Receive(r)
  PROVE  IInv'
<1>1. PICK op \in Ops : req' = [req EXCEPT ![r] = [Idle EXCEPT !.pc = "received", !.op = op]]
  BY DEF Receive
<1> DEFINE q == [pc |-> "received", op |-> op, seen |-> None, status |-> None]
<1>2. [Idle EXCEPT !.pc = "received", !.op = op] = q
  <2>1. [Idle EXCEPT !.pc = "received"] =
          [pc |-> "received", op |-> None, seen |-> None, status |-> None]
    BY DEF Idle
  <2>2. [[pc |-> "received", op |-> None, seen |-> None, status |-> None]
           EXCEPT !.op = op] = q
    OBVIOUS
  <2> QED BY <2>1, <2>2, Zenon
<1>3. req' = [req EXCEPT ![r] = q]
  BY <1>1, <1>2
<1>4. q \in Request /\ Progress(q) /\ ~Working(q)
  BY DEF Request, Pcs, Progress, Working
<1>5. UNCHANGED <<file, writeMu, proc, bound, edits>>
  BY DEF Receive
<1>6. writeMu' \in Requests \cup {None}
  BY <1>5 DEF IInv, TypeInv
<1>7. q.pc = "received"
  OBVIOUS
<1> HIDE DEF q
<1> QED BY <1>3, <1>4, <1>5, <1>6, <1>7, Moved

\* What is refused before the mutex is asked for has no part in it.
LEMMA ValidateKeeps ==
  ASSUME IInv, NEW r \in Requests, Validate(r)
  PROVE  IInv'
<1>1. req[r].pc = "received" /\ UNCHANGED <<file, writeMu, proc, bound, edits>>
  BY DEF Validate
<1>2. req[r].op \in Ops
  BY <1>1, HasOp
<1>3. writeMu' \in Requests \cup {None}
  BY <1>1 DEF IInv, TypeInv
<1>4. CASE Set(r, "waiting", None) /\ req[r].op.op \in Writes
  <2>1. "waiting" \in Pcs \ {"idle", "loaded"}
    BY DEF Pcs
  <2> QED BY <1>1, <1>2, <1>3, <1>4, <2>1, SetKeeps
<1>5. CASE Set(r, "loading", None) /\ req[r].op.op \notin Writes
  <2>1. "loading" \in Pcs \ {"idle", "loaded"}
    BY DEF Pcs
  <2> QED BY <1>1, <1>2, <1>3, <1>5, <2>1, SetKeeps
<1>6. CASE Set(r, "answered", "bad request")
  <2>1. "answered" \in Pcs \ {"idle", "loaded"} /\ "bad request" \in Answers
    BY DEF Pcs, Answers
  <2>2. "bad request" # None
    BY <2>1, Constants
  <2> QED BY <1>1, <1>2, <1>3, <1>6, <2>1, <2>2, SetKeeps
<1> QED BY <1>4, <1>5, <1>6 DEF Validate, Finish

\* Whoever gets the mutex has it alone.
LEMMA AcquireKeeps ==
  ASSUME IInv, NEW r \in Requests, Acquire(r)
  PROVE  IInv'
<1>1. /\ req[r].pc = "waiting" /\ writeMu = None /\ writeMu' = r
      /\ Set(r, "loading", None) /\ UNCHANGED <<file, proc, bound, edits>>
  BY DEF Acquire, MutexFree
<1>2. req[r].op \in Ops
  BY <1>1, HasOp
<1>3. "loading" \in Pcs \ {"idle", "loaded"}
  BY DEF Pcs
<1>4. \A o \in Requests \ {r} : writeMu = o => writeMu' = o
  BY <1>1, Constants
<1> QED BY <1>1, <1>2, <1>3, <1>4, SetKeeps

\* Reading the file gives a configuration to work on, or an error.
LEMMA ReadFileKeeps ==
  ASSUME IInv, NEW r \in Requests, ReadFile(r)
  PROVE  IInv'
<1>1. req[r].pc = "loading" /\ UNCHANGED <<file, writeMu, proc, bound, edits>>
  BY DEF ReadFile
<1>2. req[r].op \in Ops
  BY <1>1, HasOp
<1>3. writeMu' \in Requests \cup {None}
  BY <1>1 DEF IInv, TypeInv
<1>4. req[r].op.op \in Writes => writeMu' = r
  BY <1>1 DEF IInv, HasMutex, Inside, Working
<1>5. CASE Set(r, "answered", "internal error")
  <2>1. "answered" \in Pcs \ {"idle", "loaded"} /\ "internal error" \in Answers
    BY DEF Pcs, Answers
  <2>2. "internal error" # None
    BY <2>1, Constants
  <2> QED BY <1>1, <1>2, <1>3, <1>5, <2>1, <2>2, SetKeeps
<1>6. CASE file = Missing /\ Set(r, "writing default", None)
  <2>1. "writing default" \in Pcs \ {"idle", "loaded"}
    BY DEF Pcs
  <2>2. edits # 0
    BY <1>6, Constants DEF IInv, Undisturbed
  <2> QED BY <1>1, <1>2, <1>3, <1>4, <1>6, <2>1, <2>2, SetKeeps
<1>7. CASE /\ file \notin {Garbage, Missing}
           /\ req' = [req EXCEPT ![r].pc = "loaded", ![r].seen = file]
  <2> DEFINE q == [pc |-> "loaded", op |-> req[r].op, seen |-> file, status |-> req[r].status]
  <2>1. req \in [Requests -> Request] /\ file \in Config /\ Progress(req[r])
    BY <1>7 DEF IInv, TypeInv
  <2>2. req' = [req EXCEPT ![r] = q]
    BY <1>7, <2>1, LoadIs
  <2>3. req[r].status \in Answers \cup {None} /\ req[r].status = None
    BY <1>1, <2>1 DEF Request, Progress
  <2>4. q \in Request
    BY <1>2, <2>1, <2>3 DEF Request, Pcs
  <2>5. q.pc = "loaded" /\ q.op = req[r].op /\ q.seen = file /\ q.status = None
    BY <2>3
  <2> HIDE DEF q
  <2>6. Progress(q) /\ (Working(q) => writeMu' = r)
    BY <1>2, <1>4, <2>1, <2>5 DEF Progress, Working
  <2> QED BY <1>1, <1>3, <2>2, <2>4, <2>5, <2>6, Moved
<1> QED BY <1>5, <1>6, <1>7 DEF ReadFile, Finish

\* The default configuration is written only when there was no file.
LEMMA WriteDefaultKeeps ==
  ASSUME IInv, NEW r \in Requests, WriteDefault(r)
  PROVE  IInv'
<1>1. req[r].pc = "writing default" /\ UNCHANGED <<writeMu, proc, bound, edits>>
  BY DEF WriteDefault
<1>2. req[r].op \in Ops
  BY <1>1, HasOp
<1>3. writeMu' \in Requests \cup {None}
  BY <1>1 DEF IInv, TypeInv
<1>4. req[r].op.op \in Writes => writeMu' = r
  BY <1>1 DEF IInv, HasMutex, Inside, Working
<1>5. CASE UNCHANGED file /\ Set(r, "answered", "internal error")
  <2>1. "answered" \in Pcs \ {"idle", "loaded"} /\ "internal error" \in Answers
    BY DEF Pcs, Answers
  <2>2. "internal error" # None
    BY <2>1, Constants
  <2> QED BY <1>1, <1>2, <1>3, <1>5, <2>1, <2>2, SetKeeps
<1>6. CASE /\ file' = DefaultFile
           /\ req' = [req EXCEPT ![r].pc = "loaded", ![r].seen = DefaultFile]
  <2> DEFINE q == [pc |-> "loaded", op |-> req[r].op, seen |-> DefaultFile,
                   status |-> req[r].status]
  <2>1. req \in [Requests -> Request] /\ DefaultFile \in Config /\ Progress(req[r])
    BY Constants DEF IInv, TypeInv
  <2>2. req' = [req EXCEPT ![r] = q]
    BY <1>6, <2>1, LoadIs
  <2>3. req[r].status \in Answers \cup {None} /\ req[r].status = None
    BY <1>1, <2>1 DEF Request, Progress
  <2>4. q \in Request
    BY <1>2, <2>1, <2>3 DEF Request, Pcs
  <2>5. q.pc = "loaded" /\ q.op = req[r].op /\ q.seen = DefaultFile /\ q.status = None
    BY <2>3
  <2> HIDE DEF q
  <2>6. Progress(q) /\ (Working(q) => writeMu' = r)
    BY <1>2, <1>4, <2>1, <2>5 DEF Progress, Working
  <2>7. edits # 0
    BY <1>1 DEF IInv, Undisturbed
  <2> QED BY <1>1, <1>3, <1>6, <2>1, <2>2, <2>4, <2>5, <2>6, <2>7, Moved
<1> QED BY <1>5, <1>6 DEF WriteDefault, Finish, DefaultReturned

\* A read is answered, with or without what was asked for.
LEMMA ReplyKeeps ==
  ASSUME IInv, NEW r \in Requests, Reply(r)
  PROVE  IInv'
<1>1. req[r].pc = "loaded" /\ UNCHANGED <<file, writeMu, proc, bound, edits>>
  BY DEF Reply
<1>2. req[r].op \in Ops
  BY <1>1, HasOp
<1>3. writeMu' \in Requests \cup {None}
  BY <1>1 DEF IInv, TypeInv
<1>4. PICK status \in {"ok", "internal error"} : Set(r, "answered", status)
  BY DEF Reply, Finish
<1>5. "answered" \in Pcs \ {"idle", "loaded"} /\ status \in Answers
  BY DEF Pcs, Answers
<1>6. status # None
  BY <1>5, Constants
<1> QED BY <1>1, <1>2, <1>3, <1>4, <1>5, <1>6, SetKeeps

\* A write goes on to Save only when what it asks for fits what it loaded.
LEMMA CheckKeeps ==
  ASSUME IInv, NEW r \in Requests, Check(r)
  PROVE  IInv'
<1>1. /\ req[r].pc = "loaded" /\ req[r].op.op \in Writes
      /\ UNCHANGED <<file, writeMu, proc, bound, edits>>
  BY DEF Check
<1>2. req[r].op \in Ops /\ req[r].seen \in Config
  BY <1>1, HasOp DEF IInv, TypeInv, Progress
<1>3. writeMu' \in Requests \cup {None}
  BY <1>1 DEF IInv, TypeInv
<1>4. Inside(r) /\ writeMu' = r
  BY <1>1 DEF IInv, HasMutex, Inside, Working
<1> DEFINE v == Verdict(req[r].op, req[r].seen)
<1>5. v = "save" => Fits(req[r].op, req[r].seen)
  BY <1>1, <1>2, VerdictFacts
<1>6. v # "save" => v \in Answers
  BY <1>1, <1>2, VerdictFacts
<1>7. \/ v = "save" /\ Set(r, "saving", None)
      \/ v # "save" /\ Set(r, "answered", v)
      \/ Set(r, "answered", "internal error")
  BY DEF Check, Finish
<1> HIDE DEF v
<1>8. CASE v = "save" /\ Set(r, "saving", None)
  <2>1. "saving" \in Pcs \ {"idle", "loaded"}
    BY DEF Pcs
  <2> QED BY <1>1, <1>2, <1>3, <1>4, <1>5, <1>8, <2>1, SetKeeps
<1>9. ASSUME NEW status \in Answers, Set(r, "answered", status) PROVE IInv'
  <2>1. "answered" \in Pcs \ {"idle", "loaded"} /\ status # None
    BY Constants DEF Pcs
  <2> QED BY <1>1, <1>2, <1>3, <1>9, <2>1, SetKeeps
<1>10. "internal error" \in Answers
  BY DEF Answers
<1> QED BY <1>6, <1>7, <1>8, <1>9, <1>10

\* Save replaces the file by what fits it, and nobody else works on a write then.
LEMMA RenameKeeps ==
  ASSUME IInv, NEW r \in Requests, Rename(r)
  PROVE  IInv'
<1>1. req[r].pc = "saving" /\ UNCHANGED <<writeMu, proc, bound, edits>>
  BY DEF Rename
<1>2. /\ req \in [Requests -> Request] /\ req[r].op \in Ops /\ req[r].op.op \in Writes
      /\ req[r].seen \in Config /\ Fits(req[r].op, req[r].seen)
  BY <1>1, HasOp DEF IInv, TypeInv, Progress
<1>3. writeMu' \in Requests \cup {None}
  BY <1>1 DEF IInv, TypeInv
<1>4. \A o \in Requests \ {r} : ~Inside(o)
  BY <1>1, <1>2, Alone DEF Inside, Working
<1>5. "answered" \in Pcs \ {"idle", "loaded"} /\ "internal error" \in Answers
  BY DEF Pcs, Answers
<1>6. Success(req[r].op) \in Answers
  BY DEF Success, Answers
<1>7. CASE UNCHANGED file /\ Set(r, "answered", "internal error")
  <2>1. "internal error" # None
    BY <1>5, Constants
  <2> QED BY <1>1, <1>2, <1>3, <1>5, <1>7, <2>1, SetKeeps
<1>8. CASE file' = Edited(req[r].op, req[r].seen) /\ Set(r, "answered", Success(req[r].op))
  <2> DEFINE status == Success(req[r].op)
             q == [pc |-> "answered", op |-> req[r].op, seen |-> req[r].seen,
                   status |-> status]
  <2>1. file' \in Config
    BY <1>2, <1>8, EditedIsConfig
  <2>2. status \in Answers /\ status # None
    BY <1>6, Constants
  <2> HIDE DEF status
  <2>3. req' = [req EXCEPT ![r] = q]
    BY <1>2, <1>8, SetIs DEF status
  <2>4. q \in Request
    BY <1>2, <1>5, <2>2 DEF Request
  <2>5. q.pc = "answered" /\ q.op = req[r].op /\ q.status = status
    OBVIOUS
  <2> HIDE DEF q
  <2>6. Progress(q) /\ ~Working(q)
    BY <1>2, <2>2, <2>5 DEF Progress, Working
  <2> QED BY <1>1, <1>3, <1>4, <2>1, <2>3, <2>4, <2>5, <2>6, Moved
<1> QED BY <1>7, <1>8 DEF Rename, Finish

\* The deferred Unlock gives back one's own mutex only.
LEMMA RespondKeeps ==
  ASSUME IInv, NEW r \in Requests, Respond(r)
  PROVE  IInv'
<1>1. /\ req' = [req EXCEPT ![r] = Idle] /\ writeMu' = Released(r)
      /\ UNCHANGED <<file, proc, bound, edits>>
  BY DEF Respond
<1>2. writeMu' \in Requests \cup {None} /\ \A o \in Requests \ {r} : writeMu = o => writeMu' = o
  BY <1>1 DEF IInv, TypeInv, Released
<1>3. Idle \in Request /\ Idle.pc = "idle"
  BY DEF Idle, Request, Pcs
<1>4. Progress(Idle) /\ ~Working(Idle)
  BY Constants DEF Idle, Progress, Working
<1> QED BY <1>1, <1>2, <1>3, <1>4, Moved

\* The operator may write what he likes: he counts as a disturbance.
LEMMA HandEditKeeps ==
  ASSUME IInv, HandEdit
  PROVE  IInv'
<1>1. /\ edits < MaxHandEdits /\ edits' = edits + 1 /\ file' \in HandEdits
      /\ UNCHANGED <<writeMu, req, proc, bound>>
  BY DEF HandEdit
<1>2. edits \in 0..MaxHandEdits /\ MaxHandEdits \in Nat
  BY Constants DEF IInv, TypeInv
<1>3. edits' \in 0..MaxHandEdits /\ edits' # 0
  BY <1>1, <1>2
<1>4. file' \in Config \cup {Missing, Garbage}
  BY <1>1, Constants
<1>5. TypeInv'
  <2>1. (\A r \in Requests : Progress(req[r]))'
    BY <1>1 DEF IInv, TypeInv, Progress
  <2> QED BY <1>1, <1>3, <1>4, <2>1 DEF IInv, TypeInv
<1>6. HasMutex' /\ Undisturbed'
  BY <1>1, <1>3 DEF IInv, HasMutex, Inside, Working, Undisturbed
<1> QED BY <1>5, <1>6 DEF IInv

\* What a process finds is a configuration, unless it cannot be parsed.
LEMMA EffectiveFacts ==
  ASSUME IInv
  PROVE  /\ Effective \in Config \cup {Garbage}
         /\ edits = 0 => Effective = file
<1>1. file \in Config \cup {Missing, Garbage}
  BY DEF IInv, TypeInv
<1>2. edits = 0 => file \in Config
  BY DEF IInv, Undisturbed
<1> QED BY <1>1, <1>2, Constants DEF Effective

\* A process that starts, or fails to, writes the file only when it is missing.
LEMMA StartKeeps ==
  ASSUME IInv, Start \/ FailToStart
  PROVE  IInv'
<1>1. file' = Effective /\ UNCHANGED <<writeMu, req, edits>>
  BY DEF Start, FailToStart
<1>2. file' \in Config \cup {Missing, Garbage} /\ (edits = 0 => file' = file)
  BY <1>1, EffectiveFacts
<1>3. (proc \in {"up", "down"} /\ bound \in Addrs \cup {None})'
  <2>1. CASE Start
    <3>1. Effective \in Config
      BY <2>1, EffectiveFacts DEF Start, Startable
    <3>2. Effective.addr \in Addrs
      BY <3>1, ConfigFacts
    <3> QED BY <2>1, <3>2 DEF Start, BoundAtStart
  <2>2. CASE FailToStart
    BY <2>2 DEF FailToStart, IInv, TypeInv
  <2> QED BY <2>1, <2>2
<1>4. (\A r \in Requests : Progress(req[r]))'
  BY <1>1 DEF IInv, TypeInv, Progress
<1>5. TypeInv'
  BY <1>1, <1>2, <1>3, <1>4 DEF IInv, TypeInv
<1>6. HasMutex'
  BY <1>1 DEF IInv, HasMutex, Inside, Working
<1>7. Undisturbed'
  BY <1>1, <1>2 DEF IInv, Undisturbed
<1> QED BY <1>5, <1>6, <1>7 DEF IInv

\* A crash leaves the file and no requests.
LEMMA CrashKeeps ==
  ASSUME IInv, Crash
  PROVE  IInv'
<1>1. /\ proc' = "down" /\ bound' = None /\ writeMu' = None
      /\ req' = [r \in Requests |-> Idle] /\ UNCHANGED <<file, edits>>
  BY DEF Crash
<1>2. \A r \in Requests : req'[r] = Idle /\ req'[r].pc = "idle"
  BY <1>1 DEF Idle
<1>3. Idle \in Request /\ Progress(Idle)
  <2>1. Idle \in Request
    BY DEF Idle, Request, Pcs
  <2>2. Progress(Idle)
    BY Constants DEF Idle, Progress
  <2> QED BY <2>1, <2>2
<1>4. TypeInv'
  <2>1. (\A r \in Requests : Progress(req[r]))'
    BY <1>2, <1>3
  <2> QED BY <1>1, <1>3, <2>1 DEF IInv, TypeInv
<1>5. HasMutex'
  BY <1>2 DEF HasMutex, Inside, Working
<1>6. Undisturbed'
  BY <1>1, <1>2 DEF IInv, Undisturbed
<1> QED BY <1>4, <1>5, <1>6 DEF IInv

\* Every step keeps the invariant.
LEMMA Keeps ==
  ASSUME IInv, [Next]_vars
  PROVE  IInv'
<1>1. ASSUME NEW r \in Requests, Receive(r) \/ Handle(r) PROVE IInv'
  BY <1>1, ReceiveKeeps, ValidateKeeps, AcquireKeeps, ReadFileKeeps, WriteDefaultKeeps,
     ReplyKeeps, CheckKeeps, RenameKeeps, RespondKeeps DEF Handle
<1>2. CASE HandEdit
  BY <1>2, HandEditKeeps
<1>3. CASE Start \/ FailToStart
  BY <1>3, StartKeeps
<1>4. CASE Crash
  BY <1>4, CrashKeeps
<1>5. CASE UNCHANGED vars
  <2>1. UNCHANGED <<file, writeMu, req, proc, bound, edits>>
    BY <1>5 DEF vars
  <2>2. TypeInv'
    BY <2>1 DEF IInv, TypeInv, Progress
  <2>3. HasMutex' /\ Undisturbed'
    BY <2>1 DEF IInv, HasMutex, Inside, Working, Undisturbed
  <2> QED BY <2>2, <2>3 DEF IInv
<1> QED BY <1>1, <1>2, <1>3, <1>4, <1>5 DEF Next

\* The inductive invariant holds in every reachable state.
THEOREM Invariance == Spec => []IInv
<1>1. Init => IInv
  BY Begins
<1>2. IInv /\ [Next]_vars => IInv'
  BY Keeps
<1> QED BY <1>1, <1>2, PTL DEF Spec

\* Every variable keeps its type, and a handler past Load has a configuration.
THEOREM TypeCorrect == Spec => []TypeOK
<1>1. IInv => TypeOK
  <2> SUFFICES ASSUME IInv PROVE TypeOK
    OBVIOUS
  <2>1. ASSUME NEW r \in Requests
        PROVE  /\ req[r].pc \in Pcs /\ req[r].op \in Ops \cup {None}
               /\ req[r].seen \in Config \cup {None}
               /\ req[r].pc \in {"loaded", "saving"} => req[r].seen \in Config
               /\ req[r].status \in Answers \cup {None}
    <3>1. req[r] \in Request /\ Progress(req[r])
      BY DEF IInv, TypeInv
    <3> QED BY <3>1 DEF Request, Progress
  <2> QED BY <2>1 DEF IInv, TypeInv, TypeOK, Pcs
<1> QED BY <1>1, Invariance, PTL

\* From what it loaded to what it saves, a write has the mutex.
THEOREM WritesAreExclusive == Spec => []OneWriter
<1>1. IInv => OneWriter
  BY DEF IInv, HasMutex, Inside, Working, OneWriter
<1> QED BY <1>1, Invariance, PTL

-----------------------------------------------------------------------------
(* No id twice.                                                            *)

\* Steps that change neither the file nor what requests have loaded, save to
\* forget it.
LEMMA SeenKept ==
  ASSUME IInv, IdsUnique, file' = file,
         \A r \in Requests : req'[r].seen \in {req[r].seen, None}
  PROVE  IdsUnique'
BY DEF IdsUnique, NoDuplicateIds

\* Every step keeps ids unique, in the file and in what requests hold of it.
LEMMA UniqueKeeps ==
  ASSUME FilesUnique, IInv, IdsUnique, [Next]_vars
  PROVE  IdsUnique'
<1>1. req \in [Requests -> Request] /\ UniqueIds(DefaultFile)
  BY DEF IInv, TypeInv, FilesUnique
<1>2. ASSUME NEW r \in Requests, NEW pc, NEW status, Set(r, pc, status)
      PROVE  \A o \in Requests : req'[o].seen = req[o].seen
  <2> DEFINE q == [pc |-> pc, op |-> req[r].op, seen |-> req[r].seen, status |-> status]
  <2>1. req' = [req EXCEPT ![r] = q]
    BY <1>1, <1>2, SetIs
  <2>2. q.seen = req[r].seen
    OBVIOUS
  <2> HIDE DEF q
  <2> QED BY <1>1, <2>1, <2>2
<1>3. ASSUME NEW r \in Requests, NEW c \in Config, UniqueIds(c), file' = file \/ file' = c,
             req' = [req EXCEPT ![r].pc = "loaded", ![r].seen = c]
      PROVE  IdsUnique'
  <2> DEFINE q == [pc |-> "loaded", op |-> req[r].op, seen |-> c, status |-> req[r].status]
  <2>1. req' = [req EXCEPT ![r] = q]
    BY <1>1, <1>3, LoadIs
  <2>2. q.seen = c
    OBVIOUS
  <2> HIDE DEF q
  <2>3. \A o \in Requests : req'[o].seen \in {req[o].seen, c}
    BY <1>1, <2>1, <2>2
  <2> QED BY <1>3, <2>3 DEF IdsUnique, NoDuplicateIds
<1>4. ASSUME NEW r \in Requests, Receive(r) \/ Respond(r) PROVE IdsUnique'
  <2>1. file' = file
    BY <1>4 DEF Receive, Respond
  <2>2. CASE Receive(r)
    <3>1. PICK op \in Ops :
            req' = [req EXCEPT ![r] = [Idle EXCEPT !.pc = "received", !.op = op]]
      BY <2>2 DEF Receive
    <3>2. [Idle EXCEPT !.pc = "received", !.op = op].seen = None
      BY DEF Idle
    <3> DEFINE q == [Idle EXCEPT !.pc = "received", !.op = op]
    <3> HIDE DEF q
    <3>3. \A o \in Requests : req'[o].seen \in {req[o].seen, None}
      BY <1>1, <3>1, <3>2 DEF q
    <3> QED BY <2>1, <3>3, SeenKept
  <2>3. CASE Respond(r)
    <3>1. Idle.seen = None /\ req' = [req EXCEPT ![r] = Idle]
      BY <2>3 DEF Idle, Respond
    <3>2. \A o \in Requests : req'[o].seen \in {req[o].seen, None}
      BY <1>1, <3>1
    <3> QED BY <2>1, <3>2, SeenKept
  <2> QED BY <1>4, <2>2, <2>3
<1>5. ASSUME NEW r \in Requests, Validate(r) \/ Acquire(r) \/ Reply(r) \/ Check(r)
      PROVE  IdsUnique'
  <2>1. file' = file /\ \E pc, status : Set(r, pc, status)
    BY <1>5 DEF Validate, Acquire, Reply, Check, Finish
  <2> QED BY <1>2, <2>1, SeenKept
<1>6. ASSUME NEW r \in Requests, ReadFile(r) PROVE IdsUnique'
  <2>1. file' = file
    BY <1>6 DEF ReadFile
  <2>2. CASE \E pc, status : Set(r, pc, status)
    BY <1>2, <2>1, <2>2, SeenKept
  <2>3. CASE /\ file \notin {Garbage, Missing}
             /\ req' = [req EXCEPT ![r].pc = "loaded", ![r].seen = file]
    <3>1. file \in Config /\ UniqueIds(file)
      BY <2>3 DEF IInv, TypeInv, IdsUnique, NoDuplicateIds
    <3> QED BY <1>3, <2>1, <2>3, <3>1
  <2> QED BY <1>6, <2>2, <2>3 DEF ReadFile, Finish
<1>7. ASSUME NEW r \in Requests, WriteDefault(r) PROVE IdsUnique'
  <2>1. CASE UNCHANGED file /\ Finish(r, "internal error")
    BY <1>2, <2>1, SeenKept DEF Finish
  <2>2. CASE /\ file' = DefaultFile
             /\ req' = [req EXCEPT ![r].pc = "loaded", ![r].seen = DefaultFile]
    BY <1>1, <1>3, <2>2, Constants
  <2> QED BY <1>7, <2>1, <2>2 DEF WriteDefault, DefaultReturned
<1>8. ASSUME NEW r \in Requests, Rename(r) PROVE IdsUnique'
  <2>1. CASE UNCHANGED file /\ Finish(r, "internal error")
    BY <1>2, <2>1, SeenKept DEF Finish
  <2>2. CASE file' = Edited(req[r].op, req[r].seen) /\ Finish(r, Success(req[r].op))
    <3>1. /\ req[r].pc = "saving" /\ req[r].op \in Ops /\ req[r].op.op \in Writes
          /\ req[r].seen \in Config /\ Fits(req[r].op, req[r].seen)
      BY <1>8, HasOp DEF Rename, IInv, TypeInv, Progress
    <3>2. req[r].seen # None
      BY <3>1, Constants
    <3>3. UniqueIds(req[r].seen)
      BY <3>2 DEF IdsUnique
    <3>4. UniqueIds(file')
      BY <2>2, <3>1, <3>3, EditedIsUnique
    <3>5. \A o \in Requests : req'[o].seen = req[o].seen
      BY <1>2, <2>2 DEF Finish
    <3> QED BY <3>4, <3>5 DEF IdsUnique, NoDuplicateIds
  <2> QED BY <1>8, <2>1, <2>2 DEF Rename
<1>9. CASE HandEdit
  <2>1. file' \in HandEdits /\ req' = req
    BY <1>9 DEF HandEdit
  <2>2. file' \notin {Missing, Garbage} => UniqueIds(file')
    BY <2>1, Constants DEF FilesUnique
  <2> QED BY <2>1, <2>2 DEF IdsUnique, NoDuplicateIds
<1>10. CASE Start \/ FailToStart
  <2>1. file' = Effective /\ req' = req
    BY <1>10 DEF Start, FailToStart
  <2> QED BY <1>1, <2>1 DEF IdsUnique, NoDuplicateIds, Effective
<1>11. CASE Crash
  <2>1. file' = file /\ \A r \in Requests : req'[r].seen = None
    BY <1>11 DEF Crash, Idle
  <2> QED BY <2>1, SeenKept
<1>12. CASE UNCHANGED vars
  BY <1>12, SeenKept DEF vars
<1> QED BY <1>4, <1>5, <1>6, <1>7, <1>8, <1>9, <1>10, <1>11, <1>12 DEF Next, Handle

\* When the first file, the default one and what the operator writes have
\* unique ids, no sequence of requests, crashes and restarts puts one in twice.
THEOREM IdsStayUnique ==
  ASSUME FilesUnique
  PROVE  Spec => []NoDuplicateIds
<1>1. Init => IdsUnique
  <2> SUFFICES ASSUME Init PROVE IdsUnique
    OBVIOUS
  <2>1. UniqueIds(file) /\ \A r \in Requests : req[r].seen = None
    BY DEF Init, Idle, FilesUnique
  <2> QED BY <2>1 DEF IdsUnique, NoDuplicateIds
<1>2. IInv /\ IdsUnique /\ [Next]_vars => IdsUnique'
  BY UniqueKeeps
<1>3. IdsUnique => NoDuplicateIds
  BY DEF IdsUnique
<1> QED BY <1>1, <1>2, <1>3, Invariance, PTL DEF Spec

-----------------------------------------------------------------------------
(* What can wedge the process.                                             *)

\* A write of anything but settings keeps the profiles directory.
LEMMA SameDir ==
  ASSUME NEW c \in Config, NEW op \in Ops, op.op \in Writes, Fits(op, c),
         op.op # "settings"
  PROVE  Edited(op, c).dir = c.dir
BY Created, Updated, Deleted DEF Writes, Fits

\* As long as nobody else writes the file, only a PUT of a profiles_dir that
\* cannot be loaded makes a file the process cannot start from.
THEOREM OnlySettingsWedge == Spec => OnlyProfilesDirWedges
<1>1. ASSUME IInv, [Next]_vars, edits' = 0, Startable(file), ~Startable(file')
      PROVE  \E r \in Requests : SavesUnloadable(r)
  <2>1. edits = 0 /\ file' # file
    <3>1. edits' # edits => HandEdit
      BY <1>1 DEF Next, Receive, Handle, Validate, Acquire, ReadFile, WriteDefault, Reply,
                  Check, Rename, Respond, Start, FailToStart, Crash, vars
    <3>2. ~HandEdit
      BY <1>1 DEF HandEdit, IInv, TypeInv
    <3> QED BY <1>1, <3>1, <3>2
  <2>2. file \in Config
    BY <1>1, <2>1 DEF IInv, Undisturbed
  <2>3. Effective = file
    BY <1>1, <2>1, EffectiveFacts
  <2>4. PICK r \in Requests : Rename(r) /\ file' = Edited(req[r].op, req[r].seen)
    <3>1. \A r \in Requests : ~WriteDefault(r)
      BY <1>1, <2>1 DEF WriteDefault, IInv, Undisturbed
    <3>2. ~HandEdit /\ ~Start /\ ~FailToStart
      <4>1. ~HandEdit
        BY <1>1 DEF HandEdit, IInv, TypeInv
      <4> QED BY <2>1, <2>3, <4>1 DEF Start, FailToStart
    <3>3. ~Crash /\ ~UNCHANGED vars
      BY <2>1 DEF Crash, vars
    <3>4. PICK r \in Requests : Receive(r) \/ Handle(r)
      BY <1>1, <3>2, <3>3 DEF Next
    <3>5. Rename(r)
      BY <2>1, <3>1, <3>4 DEF Handle, Receive, Validate, Acquire, ReadFile, Reply, Check,
                              Respond
    <3> QED BY <2>1, <3>5 DEF Rename
  <2>5. /\ req[r].pc = "saving" /\ req[r].op \in Ops /\ req[r].op.op \in Writes
        /\ Fits(req[r].op, req[r].seen) /\ req[r].seen = file
    <3>1. req[r].pc = "saving"
      BY <2>4 DEF Rename
    <3>2. req[r].op \in Ops /\ req[r].op.op \in Writes /\ Fits(req[r].op, req[r].seen)
      BY <1>1, <3>1, HasOp DEF IInv, TypeInv, Progress
    <3> QED BY <1>1, <2>1, <3>1, <3>2 DEF IInv, Undisturbed
  <2>6. file' \in Config /\ file'.dir \in Unloadable
    <3>1. file' \in Config
      BY <2>2, <2>4, <2>5, EditedIsConfig
    <3> QED BY <1>1, <3>1, Constants DEF Startable
  <2>7. file.dir \notin Unloadable
    BY <1>1, <2>2, Constants DEF Startable
  <2>8. req[r].op.op = "settings"
    BY <2>2, <2>4, <2>5, <2>6, <2>7, SameDir
  <2>9. req[r].op.dir \in Unloadable
    <3>1. file'.dir = IF req[r].op.dir = None THEN file.dir ELSE req[r].op.dir
      BY <2>2, <2>4, <2>5, <2>8, SettingsPut
    <3> QED BY <2>6, <2>7, <3>1
  <2> QED BY <2>5, <2>4, <2>8, <2>9 DEF SavesUnloadable, Rename
<1>2. IInv /\ [Next]_vars =>
        [edits' = 0 /\ Startable(file) /\ ~Startable(file')
           => \E r \in Requests : SavesUnloadable(r)]_vars
  BY <1>1
<1> QED BY <1>2, Invariance, PTL DEF Spec, OnlyProfilesDirWedges

-----------------------------------------------------------------------------
(* One request after the other.                                            *)

\* What the abstract specification sees.
Settings == [addr |-> Effective.addr, dir |-> Effective.dir]
Devices  == AsMapping(Effective)
Pending  == [r \in Requests |-> req[r].op]
Replies  == [r \in Requests |-> req[r].status]

\* Undisturbed, the file has no id twice.
EarlyUnique == edits = 0 => UniqueIds(file)

\* A step that leaves the file alone leaves settings and devices alone.
LEMMA SameFile ==
  ASSUME file' = file
  PROVE  Settings' = Settings /\ Devices' = Devices
BY DEF Settings, Devices, Effective

\* A handler that decides an answer changes that answer only.
LEMMA SetMaps ==
  ASSUME IInv, NEW r \in Requests, NEW pc, NEW status, Set(r, pc, status)
  PROVE  Pending' = Pending /\ Replies' = [Replies EXCEPT ![r] = status]
<1> DEFINE q == [pc |-> pc, op |-> req[r].op, seen |-> req[r].seen, status |-> status]
<1>1. req \in [Requests -> Request]
  BY DEF IInv, TypeInv
<1>2. req' = [req EXCEPT ![r] = q]
  BY <1>1, SetIs
<1>3. q.op = req[r].op /\ q.status = status
  OBVIOUS
<1> HIDE DEF q
<1>4. /\ req'[r].op = req[r].op /\ req'[r].status = status
      /\ \A o \in Requests \ {r} : req'[o] = req[o]
  BY <1>1, <1>2, <1>3
<1>5. Pending' = Pending
  BY <1>4 DEF Pending
<1>6. Replies' = [Replies EXCEPT ![r] = status]
  BY <1>4 DEF Replies
<1> QED BY <1>5, <1>6

\* A handler that takes a configuration answers nothing.
LEMMA LoadMaps ==
  ASSUME IInv, NEW r \in Requests, NEW c,
         req' = [req EXCEPT ![r].pc = "loaded", ![r].seen = c]
  PROVE  Pending' = Pending /\ Replies' = Replies
<1> DEFINE q == [pc |-> "loaded", op |-> req[r].op, seen |-> c, status |-> req[r].status]
<1>1. req \in [Requests -> Request]
  BY DEF IInv, TypeInv
<1>2. req' = [req EXCEPT ![r] = q]
  BY <1>1, LoadIs
<1>3. q.op = req[r].op /\ q.status = req[r].status
  OBVIOUS
<1> HIDE DEF q
<1>4. \A o \in Requests : req'[o].op = req[o].op /\ req'[o].status = req[o].status
  BY <1>1, <1>2, <1>3
<1> QED BY <1>4 DEF Pending, Replies

\* A request at work has an operation and no answer yet.
LEMMA Open ==
  ASSUME IInv, NEW r \in Requests, req[r].pc \notin {"idle", "answered"}
  PROVE  /\ Pending[r] = req[r].op /\ Pending[r] \in Ops /\ Pending[r] # None
         /\ Replies[r] = None
<1>1. req[r].op \in Ops /\ req[r].status = None
  BY HasOp DEF IInv, TypeInv, Progress
<1>2. Pending[r] = req[r].op /\ Replies[r] = req[r].status
  BY DEF Pending, Replies
<1> QED BY <1>1, <1>2, Constants

\* Nothing the abstract specification sees.
LEMMA Stutters ==
  ASSUME Settings' = Settings, Devices' = Devices, Pending' = Pending, Replies' = Replies
  PROVE  UNCHANGED Atomic!specVars
BY DEF Atomic!specVars, Settings, Devices, Pending, Replies

\* A refusal the abstract specification gives too.
LEMMA RefuseIs ==
  ASSUME IInv, NEW r \in Requests, NEW status, Set(r, "answered", status), file' = file,
         Pending[r] # None, Replies[r] = None,
         \/ status = "exists" /\ Pending[r].op = "create" /\ Pending[r].id \in DOMAIN Devices
         \/ /\ status = "unknown device" /\ Pending[r].op \in {"update", "delete"}
            /\ Pending[r].id \notin DOMAIN Devices
         \/ /\ status = "bad request" /\ Pending[r].op \in {"create", "update"}
            /\ Pending[r].data \notin Offers[Settings.dir]
         \/ status \in {"bad request", "port in use"} /\ Pending[r].op = "settings"
         \/ status = "internal error"
  PROVE  Atomic!Next
<1>1. /\ Pending' = Pending /\ Replies' = [Replies EXCEPT ![r] = status]
      /\ Settings' = Settings /\ Devices' = Devices
  BY SetMaps, SameFile
<1>2. Atomic!Refuse(r)
  BY <1>1 DEF Atomic!Refuse, Atomic!Waiting, Atomic!Answer, Settings, Devices, Pending, Replies
<1> QED BY <1>2 DEF Atomic!Next

\* An internal error is always a possible answer.
LEMMA GivesUp ==
  ASSUME IInv, NEW r \in Requests, req[r].pc \notin {"idle", "answered"},
         Set(r, "answered", "internal error"), file' = file
  PROVE  Atomic!Next
<1>1. Pending[r] # None /\ Replies[r] = None
  BY Open
<1> QED BY <1>1, RefuseIs

\* Receive is Ask.
LEMMA ReceiveAsks ==
  ASSUME IInv, NEW r \in Requests, Receive(r)
  PROVE  Atomic!Next
<1>1. PICK op \in Ops : req' = [req EXCEPT ![r] = [Idle EXCEPT !.pc = "received", !.op = op]]
  BY DEF Receive
<1>2. req \in [Requests -> Request] /\ req[r] = Idle /\ file' = file
  BY DEF Receive, IInv, TypeInv, Progress
<1>3. /\ [Idle EXCEPT !.pc = "received", !.op = op].op = op
      /\ [Idle EXCEPT !.pc = "received", !.op = op].status = None
      /\ Idle.op = None /\ Idle.status = None
  BY DEF Idle
<1> DEFINE q == [Idle EXCEPT !.pc = "received", !.op = op]
<1> HIDE DEF q
<1>4. /\ req'[r].op = op /\ req'[r].status = None
      /\ \A o \in Requests \ {r} : req'[o] = req[o]
  BY <1>1, <1>2, <1>3 DEF q
<1>5. Pending' = [Pending EXCEPT ![r] = op] /\ Replies' = Replies /\ Pending[r] = None
  BY <1>2, <1>3, <1>4 DEF Pending, Replies
<1>6. Settings' = Settings /\ Devices' = Devices
  BY <1>2, SameFile
<1>7. Atomic!Ask(r)
  BY <1>5, <1>6 DEF Atomic!Ask, Ops, Settings, Devices, Pending, Replies
<1> QED BY <1>7 DEF Atomic!Next

\* Undisturbed, the settings and devices are those of the file.
LEMMA InFile ==
  ASSUME IInv, edits = 0
  PROVE  /\ file \in Config /\ Effective = file
         /\ Settings.dir = file.dir /\ Settings.addr = file.addr
         /\ Devices = AsMapping(file)
         /\ \A id : id \in DOMAIN Devices <=> Listed(file, id)
BY EffectiveFacts, MappingDomain DEF IInv, Undisturbed, Settings, Devices

\* What is refused unseen would have been refused by what is in the file.
LEMMA ValidateRefuses ==
  ASSUME IInv, NEW r \in Requests, Validate(r), edits = 0
  PROVE  Atomic!Next \/ UNCHANGED Atomic!specVars
<1>1. req[r].pc = "received" /\ file' = file
  BY DEF Validate
<1>2. /\ Pending[r] = req[r].op /\ Pending[r] \in Ops /\ Pending[r] # None
      /\ Replies[r] = None
  BY <1>1, Open
<1>3. CASE \E pc : Set(r, pc, None)
  <2>1. Pending' = Pending /\ Replies' = Replies
    <3>1. Pending' = Pending /\ Replies' = [Replies EXCEPT ![r] = None]
      BY <1>3, SetMaps
    <3> QED BY <1>2, <3>1 DEF Replies
  <2> QED BY <1>1, <2>1, SameFile, Stutters
<1>4. CASE /\ ~Acceptable(req[r].op) \/ req[r].op.op = "settings"
           /\ Set(r, "answered", "bad request")
  <2>1. CASE req[r].op.op = "settings"
    BY <1>1, <1>2, <1>4, <2>1, RefuseIs
  <2>2. CASE ~Acceptable(req[r].op)
    <3>1. req[r].op.op \in {"create", "update"} /\ req[r].op.data \notin Valid
      BY <2>2 DEF Acceptable
    <3>2. Pending[r].data \notin Offers[Settings.dir]
      <4>1. file.dir \in Dirs /\ Settings.dir = file.dir
        BY InFile, ConfigFacts
      <4>2. Offers[Settings.dir] \subseteq Valid
        BY <4>1, Constants
      <4> QED BY <1>2, <3>1, <4>2
    <3> QED BY <1>1, <1>2, <1>4, <3>1, <3>2, RefuseIs
  <2> QED BY <1>4, <2>1, <2>2
<1> QED BY <1>3, <1>4 DEF Validate, Finish

\* What is refused after Load is refused for what is in the file.
LEMMA CheckRefuses ==
  ASSUME IInv, NEW r \in Requests, Check(r), edits = 0
  PROVE  Atomic!Next \/ UNCHANGED Atomic!specVars
<1>1. req[r].pc = "loaded" /\ req[r].op.op \in Writes /\ file' = file
  BY DEF Check
<1>2. /\ Pending[r] = req[r].op /\ Pending[r] \in Ops /\ Pending[r] # None
      /\ Replies[r] = None
  BY <1>1, Open
<1> DEFINE op == Pending[r]
<1>3. PICK v : v = Verdict(op, file)
  OBVIOUS
<1>4. \/ v = "save" /\ Set(r, "saving", None)
      \/ v # "save" /\ Set(r, "answered", v)
      \/ Set(r, "answered", "internal error")
  <2>1. req[r].seen = file
    BY <1>1 DEF IInv, Undisturbed
  <2>2. v = Verdict(req[r].op, req[r].seen)
    BY <1>2, <1>3, <2>1
  <2> QED BY <2>2 DEF Check, Finish
<1>5. CASE v = "save" /\ Set(r, "saving", None)
  <2>1. Pending' = Pending /\ Replies' = Replies
    <3>1. Pending' = Pending /\ Replies' = [Replies EXCEPT ![r] = None]
      BY <1>5, SetMaps
    <3> QED BY <1>2, <3>1 DEF Replies
  <2> QED BY <1>1, <2>1, SameFile, Stutters
<1>6. CASE Set(r, "answered", "internal error")
  BY <1>1, <1>6, GivesUp
<1>7. CASE v # "save" /\ v # "internal error" /\ Set(r, "answered", v)
  <2>1. Settings.dir = file.dir /\ (Listed(file, op.id) <=> op.id \in DOMAIN Devices)
    BY InFile
  <2>2. op.op \in Writes
    BY <1>1, <1>2
  <2> HIDE DEF op
  <2>3. CASE op.op = "create"
    <3>1. v = IF Listed(file, op.id) THEN "exists" ELSE ProfileVerdict(op, file)
      BY <1>3, <2>3 DEF Verdict
    <3>2. \/ v = "exists" /\ op.id \in DOMAIN Devices
          \/ v = "bad request" /\ op.data \notin Offers[Settings.dir]
      BY <1>7, <2>1, <3>1 DEF ProfileVerdict
    <3> QED BY <1>1, <1>2, <1>7, <2>3, <3>2, RefuseIs DEF op
  <2>4. CASE op.op = "update"
    <3>1. v = IF Listed(file, op.id) THEN ProfileVerdict(op, file) ELSE "unknown device"
      BY <1>3, <2>4 DEF Verdict
    <3>2. \/ v = "unknown device" /\ op.id \notin DOMAIN Devices
          \/ v = "bad request" /\ op.data \notin Offers[Settings.dir]
      BY <1>7, <2>1, <3>1 DEF ProfileVerdict
    <3> QED BY <1>1, <1>2, <1>7, <2>4, <3>2, RefuseIs DEF op
  <2>5. CASE op.op = "delete"
    <3>1. v = IF Listed(file, op.id) THEN "save" ELSE "unknown device"
      BY <1>3, <2>5 DEF Verdict
    <3>2. v = "unknown device" /\ op.id \notin DOMAIN Devices
      BY <1>7, <2>1, <3>1
    <3> QED BY <1>1, <1>2, <1>7, <2>5, <3>2, RefuseIs DEF op
  <2>6. CASE op.op = "settings"
    <3>1. v = IF op.addr \notin GoodAddrs THEN "bad request"
              ELSE IF PortOf[op.addr] # PortOf[file.addr] /\ ~Free(op.addr)
                   THEN "port in use" ELSE "save"
      BY <1>3, <2>6 DEF Verdict
    <3>2. v \in {"bad request", "port in use"}
      BY <1>7, <3>1
    <3> QED BY <1>1, <1>2, <1>7, <2>6, <3>2, RefuseIs DEF op
  <2> QED BY <2>2, <2>3, <2>4, <2>5, <2>6 DEF Writes
<1> QED BY <1>4, <1>5, <1>6, <1>7

\* Save carries out the request on what is in the file.
LEMMA RenameActs ==
  ASSUME IInv, NEW r \in Requests, Rename(r), edits = 0, UniqueIds(file)
  PROVE  Atomic!Next
<1>1. req[r].pc = "saving"
  BY DEF Rename
<1>2. /\ Pending[r] = req[r].op /\ Pending[r] \in Ops /\ Pending[r] # None
      /\ Replies[r] = None
  BY <1>1, Open
<1>3. /\ Pending[r].op \in Writes /\ Fits(Pending[r], file) /\ req[r].seen = file
  <2>1. req[r].op \in Ops /\ req[r].op.op \in Writes /\ Fits(req[r].op, req[r].seen)
    BY <1>1, HasOp DEF IInv, TypeInv, Progress
  <2> QED BY <1>1, <1>2, <2>1 DEF IInv, Undisturbed
<1>4. CASE UNCHANGED file /\ Set(r, "answered", "internal error")
  BY <1>1, <1>4, GivesUp
<1> DEFINE op == Pending[r]
           e == Edited(op, file)
<1>5. CASE file' = Edited(op, file) /\ Set(r, "answered", Success(op))
  <2>1. file \in Config /\ e \in Config /\ file' = e
    BY <1>2, <1>3, <1>5, InFile, EditedIsConfig
  <2>2. Effective' = e
    BY <2>1, Constants DEF Effective
  <2>3. Settings' = [addr |-> e.addr, dir |-> e.dir] /\ Devices' = AsMapping(e)
    BY <2>2 DEF Settings, Devices
  <2>4. Pending' = Pending /\ Replies' = [Replies EXCEPT ![r] = Success(op)]
    BY <1>5, SetMaps
  <2>6. /\ Settings = [addr |-> file.addr, dir |-> file.dir] /\ Devices = AsMapping(file)
        /\ \A id : id \in DOMAIN Devices <=> Listed(file, id)
    BY InFile DEF Settings
  <2> HIDE DEF e
  <2>7. CASE op.op = "create"
    <3>1. e.addr = file.addr /\ e.dir = file.dir
      BY <1>2, <1>3, <2>1, <2>7, Created DEF e
    <3>2. Devices' = [id \in DOMAIN Devices \cup {op.id} |->
                        IF id = op.id THEN op.data ELSE Devices[id]]
      BY <1>2, <1>3, <2>1, <2>3, <2>6, <2>7, MappingCreated DEF e
    <3>3. op.id \notin DOMAIN Devices /\ op.data \in Offers[Settings.dir]
      BY <1>3, <2>6, <2>7 DEF Fits
    <3>4. Settings' = Settings /\ Success(op) = "created"
      BY <2>3, <2>6, <2>7, <3>1 DEF Success
    <3>5. Atomic!Create(r)
      BY <1>2, <2>4, <2>7, <3>2, <3>3, <3>4
         DEF Atomic!Create, Atomic!Waiting, Atomic!Answer,
             Settings, Devices, Pending, Replies
    <3> QED BY <3>5 DEF Atomic!Next
  <2>8. CASE op.op = "update"
    <3>1. Listed(file, op.id)
      BY <1>3, <2>8 DEF Fits
    <3>2. e.addr = file.addr /\ e.dir = file.dir
      BY ZenonT(40), <1>2, <1>3, <2>1, <2>8, <3>1, Updated DEF e
    <3>3. Devices' = [Devices EXCEPT ![op.id] = op.data]
      BY <1>2, <1>3, <2>1, <2>3, <2>6, <2>8, MappingUpdated DEF e
    <3>4. op.id \in DOMAIN Devices /\ op.data \in Offers[Settings.dir]
      BY <1>3, <2>6, <2>8 DEF Fits
    <3>5. Settings' = Settings /\ Success(op) = "ok"
      BY <2>3, <2>6, <2>8, <3>2 DEF Success
    <3>6. Atomic!Update(r)
      BY <1>2, <2>4, <2>8, <3>3, <3>4, <3>5
         DEF Atomic!Update, Atomic!Waiting, Atomic!Answer,
             Settings, Devices, Pending, Replies
    <3> QED BY <3>6 DEF Atomic!Next
  <2>9. CASE op.op = "delete"
    <3>1. Listed(file, op.id)
      BY <1>3, <2>9 DEF Fits
    <3>2. e.addr = file.addr /\ e.dir = file.dir
      BY <1>2, <1>3, <2>1, <2>9, <3>1, Deleted DEF e
    <3>3. Devices' = [id \in DOMAIN Devices \ {op.id} |-> Devices[id]]
      BY <1>2, <1>3, <2>1, <2>3, <2>6, <2>9, MappingDeleted DEF e
    <3>4. op.id \in DOMAIN Devices
      BY <2>6, <3>1
    <3>5. Settings' = Settings /\ Success(op) = "ok"
      BY <2>3, <2>6, <2>9, <3>2 DEF Success
    <3>6. Atomic!Delete(r)
      BY <1>2, <2>4, <2>9, <3>3, <3>4, <3>5
         DEF Atomic!Delete, Atomic!Waiting, Atomic!Answer,
             Settings, Devices, Pending, Replies
    <3> QED BY <3>6 DEF Atomic!Next
  <2>10. CASE op.op = "settings"
    <3>1. e.addr = op.addr /\ e.dir = IF op.dir = None THEN file.dir ELSE op.dir
      BY <1>2, <1>3, <2>1, <2>10, SettingsPut DEF e
    <3>2. Devices' = Devices
      BY <1>2, <1>3, <2>1, <2>3, <2>6, <2>10, MappingPut DEF e
    <3>3. Settings' = [addr |-> op.addr,
                       dir |-> IF op.dir = None THEN Settings.dir ELSE op.dir]
      BY <2>3, <2>6, <3>1
    <3>4. Success(op) = "ok"
      BY <2>10 DEF Success
    <3>5. Atomic!PutSettings(r)
      BY <1>2, <2>4, <2>10, <3>2, <3>3, <3>4
         DEF Atomic!PutSettings, Atomic!Waiting, Atomic!Answer,
             Settings, Devices, Pending, Replies
    <3> QED BY <3>5 DEF Atomic!Next
  <2> QED BY <1>3, <2>7, <2>8, <2>9, <2>10 DEF Writes
<1> QED BY <1>2, <1>3, <1>4, <1>5 DEF Rename, Finish

\* A read is a List, or fails.
LEMMA ReplyLists ==
  ASSUME IInv, NEW r \in Requests, Reply(r)
  PROVE  Atomic!Next
<1>1. req[r].pc = "loaded" /\ req[r].op.op \notin Writes /\ file' = file
  BY DEF Reply
<1>2. /\ Pending[r] = req[r].op /\ Pending[r] \in Ops /\ Pending[r] # None
      /\ Replies[r] = None
  BY <1>1, Open
<1>3. CASE Set(r, "answered", "internal error")
  BY <1>1, <1>3, GivesUp
<1>4. CASE Set(r, "answered", "ok")
  <2>1. /\ Pending' = Pending /\ Replies' = [Replies EXCEPT ![r] = "ok"]
        /\ Settings' = Settings /\ Devices' = Devices
    BY <1>1, <1>4, SetMaps, SameFile
  <2>2. Pending[r].op = "list"
    BY <1>1, <1>2, OpFacts
  <2>3. Atomic!List(r)
    BY <1>2, <2>1, <2>2 DEF Atomic!List, Atomic!Waiting, Atomic!Answer,
       Settings, Devices, Pending, Replies
  <2> QED BY <2>3 DEF Atomic!Next
<1> QED BY <1>3, <1>4 DEF Reply, Finish

\* The answer goes out.
LEMMA RespondLeaves ==
  ASSUME IInv, NEW r \in Requests, Respond(r)
  PROVE  Atomic!Next
<1>1. /\ req[r].pc = "answered" /\ req' = [req EXCEPT ![r] = Idle] /\ file' = file
      /\ req \in [Requests -> Request] /\ Progress(req[r])
  BY DEF Respond, IInv, TypeInv
<1>2. Idle.op = None /\ Idle.status = None
  BY DEF Idle
<1>3. /\ req'[r].op = None /\ req'[r].status = None
      /\ \A o \in Requests \ {r} : req'[o] = req[o]
  BY <1>1, <1>2
<1>4. Pending' = [Pending EXCEPT ![r] = None] /\ Replies' = [Replies EXCEPT ![r] = None]
  BY <1>3 DEF Pending, Replies
<1>5. Replies[r] # None
  BY <1>1 DEF Progress, Replies
<1>6. Settings' = Settings /\ Devices' = Devices
  BY <1>1, SameFile
<1>7. Atomic!Leave(r)
  BY <1>4, <1>5, <1>6 DEF Atomic!Leave, Settings, Devices, Pending, Replies
<1> QED BY <1>7 DEF Atomic!Next

\* A crash loses the requests and keeps the configuration.
LEMMA CrashCrashes ==
  ASSUME Crash
  PROVE  Atomic!Next
<1>1. \A r \in Requests : req'[r].op = None /\ req'[r].status = None
  BY DEF Crash, Idle
<1>2. Pending' = [r \in Requests |-> None] /\ Replies' = [r \in Requests |-> None]
  BY <1>1 DEF Pending, Replies
<1>3. Settings' = Settings /\ Devices' = Devices
  BY SameFile DEF Crash
<1>4. Atomic!Crash
  BY <1>2, <1>3 DEF Atomic!Crash, Settings, Devices, Pending, Replies
<1> QED BY <1>4 DEF Atomic!Next

\* Undisturbed, every step is a step of one request carried out at once, or one
\* the abstract specification does not see.
LEMMA Simulates ==
  ASSUME IInv, EarlyUnique, [Next]_vars, edits' = 0
  PROVE  Atomic!Next \/ UNCHANGED Atomic!specVars
<1>1. edits = 0 /\ ~HandEdit
  <2>1. ~HandEdit
    BY DEF HandEdit, IInv, TypeInv
  <2> QED BY <2>1 DEF Next, Receive, Handle, Validate, Acquire, ReadFile, WriteDefault,
                      Reply, Check, Rename, Respond, Start, FailToStart, Crash, vars
<1>2. ASSUME NEW r \in Requests, Receive(r) PROVE Atomic!Next
  BY <1>2, ReceiveAsks
<1>3. ASSUME NEW r \in Requests, Acquire(r) \/ ReadFile(r)
      PROVE  Atomic!Next \/ UNCHANGED Atomic!specVars
  <2>1. file' = file /\ req[r].pc \in {"waiting", "loading"}
    BY <1>3 DEF Acquire, ReadFile
  <2>2. Replies[r] = None
    BY <2>1, Open
  <2>3. CASE \E pc : Set(r, pc, None)
    <3>1. Pending' = Pending /\ Replies' = [Replies EXCEPT ![r] = None]
      BY <2>3, SetMaps
    <3>2. Replies' = Replies
      BY <2>2, <3>1 DEF Replies
    <3> QED BY <2>1, <3>1, <3>2, SameFile, Stutters
  <2>4. CASE req' = [req EXCEPT ![r].pc = "loaded", ![r].seen = file]
    <3>1. Pending' = Pending /\ Replies' = Replies
      BY <2>4, LoadMaps
    <3> QED BY <2>1, <3>1, SameFile, Stutters
  <2>5. CASE Set(r, "answered", "internal error")
    BY <2>1, <2>5, GivesUp
  <2> QED BY <1>3, <2>3, <2>4, <2>5 DEF Acquire, ReadFile, Finish
<1>4. ASSUME NEW r \in Requests, Handle(r) PROVE Atomic!Next \/ UNCHANGED Atomic!specVars
  <2>1. ~WriteDefault(r)
    BY <1>1 DEF WriteDefault, IInv, Undisturbed
  <2>2. CASE Validate(r)
    BY <1>1, <2>2, ValidateRefuses
  <2>3. CASE Acquire(r) \/ ReadFile(r)
    BY <1>3, <2>3
  <2>4. CASE Reply(r)
    BY <2>4, ReplyLists
  <2>5. CASE Check(r)
    BY <1>1, <2>5, CheckRefuses
  <2>6. CASE Rename(r)
    BY <1>1, <2>6, RenameActs DEF EarlyUnique
  <2>7. CASE Respond(r)
    BY <2>7, RespondLeaves
  <2> QED BY <1>4, <2>1, <2>2, <2>3, <2>4, <2>5, <2>6, <2>7 DEF Handle
<1>5. CASE Start \/ FailToStart
  <2>1. file' = file /\ req' = req
    BY <1>1, <1>5, EffectiveFacts DEF Start, FailToStart
  <2>2. Pending' = Pending /\ Replies' = Replies
    BY <2>1 DEF Pending, Replies
  <2> QED BY <2>1, <2>2, SameFile, Stutters
<1>6. CASE Crash
  BY <1>6, CrashCrashes
<1>7. CASE UNCHANGED vars
  <2>1. file' = file /\ req' = req
    BY <1>7 DEF vars
  <2>2. Pending' = Pending /\ Replies' = Replies
    BY <2>1 DEF Pending, Replies
  <2> QED BY <2>1, <2>2, SameFile, Stutters
<1> QED BY <1>1, <1>2, <1>4, <1>5, <1>6, <1>7 DEF Next

\* Undisturbed, the file keeps its ids unique.
LEMMA EarlyUniqueKeeps ==
  ASSUME IInv, EarlyUnique, [Next]_vars
  PROVE  EarlyUnique'
<1> SUFFICES ASSUME edits' = 0 PROVE UniqueIds(file')
  BY DEF EarlyUnique
<1>1. edits = 0 /\ ~HandEdit /\ UniqueIds(file)
  <2>1. ~HandEdit
    BY DEF HandEdit, IInv, TypeInv
  <2>2. edits = 0
    BY <2>1 DEF Next, Receive, Handle, Validate, Acquire, ReadFile, WriteDefault,
                Reply, Check, Rename, Respond, Start, FailToStart, Crash, vars
  <2> QED BY <2>1, <2>2 DEF EarlyUnique
<1>2. CASE file' = file
  BY <1>1, <1>2
<1>3. ASSUME NEW r \in Requests, Rename(r), file' # file PROVE UniqueIds(file')
  <2>1. req[r].pc = "saving" /\ file' = Edited(req[r].op, req[r].seen)
    BY <1>3 DEF Rename
  <2>2. /\ req[r].op \in Ops /\ req[r].op.op \in Writes /\ Fits(req[r].op, req[r].seen)
        /\ req[r].seen \in Config
    BY <2>1, HasOp DEF IInv, TypeInv, Progress
  <2>3. req[r].seen = file
    BY <1>1, <2>1, <2>2 DEF IInv, Undisturbed
  <2> QED BY <1>1, <2>1, <2>2, <2>3, EditedIsUnique
<1>4. ASSUME file' # file PROVE \E r \in Requests : Rename(r)
  <2>1. ~Start /\ ~FailToStart
    BY <1>1, <1>4, EffectiveFacts DEF Start, FailToStart
  <2>2. \A r \in Requests : ~WriteDefault(r)
    BY <1>1 DEF WriteDefault, IInv, Undisturbed
  <2> QED BY <1>1, <1>4, <2>1, <2>2 DEF Next, Receive, Handle, Validate, Acquire, ReadFile,
                                        Reply, Check, Respond, Crash, vars
<1> QED BY <1>2, <1>3, <1>4

\* Started from a file without an id twice, and as long as nobody else writes
\* it, the handlers together do what one request after the other would do.
THEOREM RequestsAreAtomic ==
  ASSUME \A f \in InitialFiles : UniqueIds(f)
  PROVE  Spec => AtomicRequests
<1>1. Init => Atomic!Init
  <2> SUFFICES ASSUME Init PROVE Atomic!Init
    OBVIOUS
  <2>1. file \in InitialFiles /\ Effective = file
    BY Constants DEF Init, Effective
  <2>2. \A r \in Requests : req[r].op = None /\ req[r].status = None
    BY DEF Init, Idle
  <2>3. /\ [r \in Requests |-> req[r].op] = [r \in Requests |-> None]
        /\ [r \in Requests |-> req[r].status] = [r \in Requests |-> None]
    BY <2>2
  <2> QED BY <2>1, <2>3 DEF Atomic!Init
<1>2. Init => EarlyUnique
  BY DEF Init, EarlyUnique
<1>3. IInv /\ EarlyUnique /\ [Next]_vars => EarlyUnique'
  BY EarlyUniqueKeeps
<1>4. IInv /\ EarlyUnique /\ [Next]_vars =>
        [edits' = 0 => [Atomic!Next]_(Atomic!specVars)]_vars
  BY Simulates
<1> QED BY <1>1, <1>2, <1>3, <1>4, Invariance, PTL DEF Spec, AtomicRequests
=============================================================================
