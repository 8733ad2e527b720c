--------------------------- MODULE ReadingsProofs ---------------------------
(***************************************************************************)
(* Readings for words of any width and any directory of profiles: a        *)
(* reading is stored whole or not at all, profiles whose entries fit a     *)
(* request fail through the wire only, a batch accounts for all it asks,   *)
(* and what is stored is what the profile says of the device's words.      *)
(***************************************************************************)
EXTENDS Readings, IndexLemmas, FiniteSetTheorems

\* The assumptions one by one; the provers do not look into a named ASSUME.
LEMMA Constants ==
  /\ WordBits \in Nat \ {0} /\ Mock \subseteq Devices
  /\ MaxQuantity \in Nat /\ MaxQuantity < Base
  /\ \A files \in Directories : \A k \in DOMAIN files :
       files[k] # Unreadable => Parsed(files[k])
<1>1. WordBits \in Nat \ {0}
  BY WordAssumption, Zenon DEF WordAssumption
<1>2. Mock \subseteq Devices
  BY ReadingsAssumption, Zenon DEF ReadingsAssumption
<1>3. MaxQuantity \in Nat /\ MaxQuantity < Base
  BY ReadingsAssumption, Zenon DEF ReadingsAssumption
<1>4. \A files \in Directories : \A k \in DOMAIN files :
        files[k] # Unreadable => Parsed(files[k])
  BY ReadingsAssumption, Zenon DEF ReadingsAssumption
<1> QED BY <1>1, <1>2, <1>3, <1>4

LEMMA BaseIsPositive == Base \in Nat /\ Base > 0
BY Constants DEF Base

LEMMA SmallIsKept ==
  ASSUME NEW n \in Nat, n < Base
  PROVE  U16(n) = n
BY BaseIsPositive DEF U16

-----------------------------------------------------------------------------
(* An entry whose extent fits reads as many registers as it describes.     *)

FieldsTyped(r) == /\ r.address \in 0 .. Base - 1 /\ {r.count, r.stride, r.start} \subseteq Int
                  /\ IsFiniteSet(r.flags)

\* What Sound says of one entry.
SoundEntry(r) ==
  /\ Extent(r) <= MaxQuantity /\ r.address + Extent(r) <= Base
  /\ r.type = "bitflags" => \A f \in r.flags : f[1] \in 0 .. WordBits - 1

LEMMA Types ==
  /\ \A t \in Numeric : t \notin {"enum", "bool", "bitflags", "array"}
  /\ \A t : numericWidth(t) \in {1, 2} /\ Width(t) = numericWidth(t)
BY DEF Numeric, Wide, numericWidth, Width

LEMMA ValidTypes ==
  ASSUME NEW r, ValidRegister(r)
  PROVE  /\ r.type \in Numeric \cup {"enum", "bool", "bitflags", "array"}
         /\ r.type = "array" => r.count > 0 /\ r.element \in Numeric
BY Types DEF ValidRegister

LEMMA MoreIsMore == \A a, b, s \in Nat : a <= b => a * s <= b * s
OBVIOUS

LEMMA OneIsMore == \A a, s \in Nat : a >= 1 => a * s >= s /\ a * s >= 0
OBVIOUS

\* Neither the stride nor the count of an array that fits wraps around.
LEMMA NothingWraps ==
  ASSUME NEW r, FieldsTyped(r), ValidRegister(r), SoundEntry(r), r.type = "array"
  PROVE  /\ r.count - 1 \in Nat /\ U16(r.count - 1) = r.count - 1
         /\ arrayStride(r) \in Nat
         /\ r.count > 1 => arrayStride(r) = Step(r)
         /\ (r.count - 1) * arrayStride(r) + numericWidth(r.element) = Extent(r)
         /\ Extent(r) \in 1 .. MaxQuantity
<1> DEFINE n == r.count - 1
           w == numericWidth(r.element)
<1>1. n \in Nat /\ r.stride \in Int /\ w \in {1, 2} /\ w \in Nat /\ w >= 1
  BY ValidTypes, Types DEF FieldsTyped
<1>2. Step(r) \in Nat /\ Step(r) >= 1
  BY <1>1, Types DEF Step
<1>3. Extent(r) = n * Step(r) + w /\ Extent(r) <= MaxQuantity
  BY Types DEF Extent, SoundEntry
<1>4. MaxQuantity \in Nat /\ MaxQuantity < Base /\ Base \in Nat
  BY Constants, BaseIsPositive
<1>5. arrayStride(r) \in Nat
  BY <1>1, <1>4, BaseIsPositive DEF arrayStride, U16
<1> HIDE DEF n, w
<1>6. CASE n = 0
  <2>1. n * Step(r) = 0 /\ n * arrayStride(r) = 0
    BY <1>2, <1>5, <1>6
  <2>2. U16(n) = n
    BY <1>6, <1>4, BaseIsPositive, SmallIsKept
  <2>3. ~(r.count > 1)
    BY <1>6 DEF n, FieldsTyped
  <2> QED BY <1>1, <1>3, <1>4, <1>5, <2>1, <2>2, <2>3 DEF n, w
<1>7. CASE n # 0
  <2>1. n >= 1 /\ n * Step(r) \in Nat
    BY <1>1, <1>2, <1>7
  <2>2. n * Step(r) >= Step(r)
    BY <1>1, <1>2, <2>1, OneIsMore
  <2>3. n * Step(r) >= n
    BY <1>1, <1>2, <2>1
  <2>4. n < Base /\ Step(r) < Base
    BY <1>1, <1>2, <1>3, <1>4, <2>1, <2>2, <2>3
  <2>5. U16(n) = n
    BY <1>1, <2>4, SmallIsKept
  <2>6. arrayStride(r) = Step(r)
    BY <1>1, <2>4, SmallIsKept, Types DEF arrayStride, Step
  <2> QED BY <1>1, <1>3, <1>4, <1>5, <2>1, <2>5, <2>6 DEF n, w
<1> QED BY <1>6, <1>7

\* RegisterCount asks for what the entry describes.
LEMMA CountIsExtent ==
  ASSUME NEW r, FieldsTyped(r), ValidRegister(r), SoundEntry(r)
  PROVE  RegisterCount(r) = Extent(r) /\ Extent(r) \in 1 .. MaxQuantity
<1>1. CASE r.type = "array"
  <2>1. r.count > 0 /\ ~(r.count <= 0)
    BY <1>1, ValidTypes DEF FieldsTyped
  <2>2. RegisterCount(r) =
          U16(U16(r.count - 1) * arrayStride(r) + numericWidth(r.element))
    BY <1>1, <2>1, Zenon DEF RegisterCount
  <2>3. RegisterCount(r) = U16(Extent(r)) /\ Extent(r) \in 1 .. MaxQuantity
    BY <1>1, <2>2, NothingWraps
  <2>4. Extent(r) \in Nat /\ Extent(r) < Base
    BY <2>3, Constants, BaseIsPositive
  <2> QED BY <2>3, <2>4, SmallIsKept
<1>2. CASE r.type \in Numeric
  <2>1. r.type \notin {"enum", "bool", "bitflags"} /\ r.type # "array"
    BY <1>2, Types
  <2>2. RegisterCount(r) = numericWidth(r.type)
    BY <2>1, Zenon DEF RegisterCount
  <2>3. Extent(r) = numericWidth(r.type)
    BY <2>1, Types DEF Extent
  <2> QED BY <2>2, <2>3, Types, Constants DEF SoundEntry
<1>3. CASE r.type \in {"enum", "bool", "bitflags"}
  <2>1. RegisterCount(r) = 1
    BY <1>3, Zenon DEF RegisterCount
  <2>2. Extent(r) = 1
    BY <1>3 DEF Extent, Width, Wide
  <2> QED BY <2>1, <2>2, Constants DEF SoundEntry
<1> QED BY <1>1, <1>2, <1>3, ValidTypes

-----------------------------------------------------------------------------
(* What decoding an entry gives.                                           *)

IsSequence(s) == \E S : s \in Seq(S)
NamesIn(samples) == {samples[k].metric : k \in DOMAIN samples}

\* The words of one request are as many as were asked for.
Complete(r, raw) == Len(raw) >= RegisterCount(r) /\ ~(Len(raw) < RegisterCount(r))

LEMMA DecodeCases ==
  ASSUME NEW r, NEW raw, NEW wo, Complete(r, raw)
  PROVE  /\ r.type \in Numeric =>
              Decode(r, raw, wo) = {One(r.metric, decodeNumeric(r.type, raw, wo, r.scale))}
         /\ r.type = "enum" => Decode(r, raw, wo) = {DecodeEnum(r, raw[1])}
         /\ r.type = "bool" =>
              Decode(r, raw, wo) = {One(r.metric, [flag |-> decodeBool(raw[1], r.bit)])}
         /\ r.type = "bitflags" => Decode(r, raw, wo) = DecodeBitflags(r, raw[1])
         /\ r.type = "array" => Decode(r, raw, wo) = {DecodeArray(r, raw, wo)}
<1>1. ASSUME r.type \in Numeric
      PROVE  Decode(r, raw, wo) = {One(r.metric, decodeNumeric(r.type, raw, wo, r.scale))}
  <2>1. r.type # "enum" /\ r.type # "bool" /\ r.type # "bitflags" /\ r.type # "array"
    BY <1>1, Types
  <2> QED BY <1>1, <2>1, Zenon DEF Decode, Complete
<1>2. r.type \in {"enum", "bool", "bitflags", "array"} => r.type \notin Numeric
  BY Types
<1>3. ASSUME r.type = "enum" PROVE Decode(r, raw, wo) = {DecodeEnum(r, raw[1])}
  BY <1>2, <1>3, Zenon DEF Decode, Complete
<1>4. ASSUME r.type = "bool"
      PROVE  Decode(r, raw, wo) = {One(r.metric, [flag |-> decodeBool(raw[1], r.bit)])}
  BY <1>2, <1>4, Zenon DEF Decode, Complete
<1>5. ASSUME r.type = "bitflags" PROVE Decode(r, raw, wo) = DecodeBitflags(r, raw[1])
  BY <1>2, <1>5, Zenon DEF Decode, Complete
<1>6. ASSUME r.type = "array" PROVE Decode(r, raw, wo) = {DecodeArray(r, raw, wo)}
  BY <1>2, <1>6, Zenon DEF Decode, Complete
<1> QED BY <1>1, <1>3, <1>4, <1>5, <1>6

\* The names an entry describes.
LEMMA NamesDescribed ==
  ASSUME NEW r
  PROVE  /\ r.type = "array" =>
              Names(r) = {<<r.metric, ToString(FirstIndex(r) + i)>> : i \in 0 .. r.count - 1}
         /\ r.type = "bitflags" => Names(r) = {<<label(r), f[2]>> : f \in r.flags}
         /\ r.type # "array" /\ r.type # "bitflags" => Names(r) = {<<r.metric>>}
<1> DEFINE Place(i) == << <<r.metric, ToString(FirstIndex(r) + i)>>, i * Step(r) >>
           Flag(f) == << <<label(r), f[2]>>, 0 >>
<1>1. ASSUME r.type = "array"
      PROVE  Names(r) = {<<r.metric, ToString(FirstIndex(r) + i)>> : i \in 0 .. r.count - 1}
  <2>1. Places(r) = {Place(i) : i \in 0 .. r.count - 1}
    BY <1>1 DEF Places
  <2>2. \A i : Place(i)[1] = <<r.metric, ToString(FirstIndex(r) + i)>>
    OBVIOUS
  <2> HIDE DEF Place
  <2> QED BY <2>1, <2>2, Zenon DEF Names
<1>2. ASSUME r.type = "bitflags" PROVE Names(r) = {<<label(r), f[2]>> : f \in r.flags}
  <2>1. Places(r) = {Flag(f) : f \in r.flags}
    BY <1>2 DEF Places
  <2>2. \A f : Flag(f)[1] = <<label(r), f[2]>>
    OBVIOUS
  <2> HIDE DEF Flag
  <2> QED BY <2>1, <2>2, ZenonT(40) DEF Names
<1>3. ASSUME r.type # "array", r.type # "bitflags" PROVE Names(r) = {<<r.metric>>}
  <2>1. Places(r) = {<< <<r.metric>>, 0 >>}
    BY <1>3, Zenon DEF Places
  <2>2. << <<r.metric>>, 0 >>[1] = <<r.metric>>
    OBVIOUS
  <2> QED BY <2>1, <2>2 DEF Names
<1> QED BY <1>1, <1>2, <1>3

LEMMA OneReading ==
  ASSUME NEW metric, NEW value
  PROVE  /\ One(metric, value).status = "ok"
         /\ IsSequence(One(metric, value).readings)
         /\ NamesIn(One(metric, value).readings) = {<<metric>>}
<1> DEFINE reading1 == [metric |-> <<metric>>, value |-> value]
           s == <<reading1>>
<1>1. One(metric, value).status = "ok" /\ One(metric, value).readings = s
  BY DEF One, Decoded
<1>2. s \in Seq({reading1})
  OBVIOUS
<1>3. DOMAIN s = {1} /\ s[1].metric = <<metric>>
  OBVIOUS
<1> HIDE DEF s
<1>4. NamesIn(s) = {<<metric>>}
  BY <1>3 DEF NamesIn
<1> QED BY <1>1, <1>2, <1>4 DEF IsSequence

LEMMA OneValue ==
  ASSUME NEW r, NEW raw, NEW wo, Complete(r, raw), NEW outcome \in Decode(r, raw, wo),
         r.type \in Numeric \cup {"enum", "bool"}
  PROVE  \E value : outcome = One(r.metric, value)
<1>1. CASE r.type \in Numeric
  <2>1. Decode(r, raw, wo) = {One(r.metric, decodeNumeric(r.type, raw, wo, r.scale))}
    BY <1>1, DecodeCases, Zenon
  <2> QED BY <2>1, Zenon
<1>2. CASE r.type = "enum"
  <2>1. Decode(r, raw, wo) = {DecodeEnum(r, raw[1])}
    BY <1>2, DecodeCases, Zenon
  <2> QED BY <2>1, Zenon DEF DecodeEnum
<1>3. CASE r.type = "bool"
  <2>1. Decode(r, raw, wo) = {One(r.metric, [flag |-> decodeBool(raw[1], r.bit)])}
    BY <1>3, DecodeCases, Zenon
  <2> QED BY <2>1, Zenon
<1> QED BY <1>1, <1>2, <1>3, Zenon

\* An order of the flags names each of them.
LEMMA OrderIsOnto ==
  ASSUME NEW S, IsFiniteSet(S), NEW s \in SetToSeqs(S)
  PROVE  /\ Cardinality(S) \in Nat /\ s \in [1 .. Cardinality(S) -> S]
         /\ \A f \in S : \E k \in 1 .. Cardinality(S) : s[k] = f
<1> DEFINE n == Cardinality(S)
           D == 1 .. n
<1>1. n \in Nat
  BY FS_CardinalityType
<1>2. s \in [D -> S] /\ \A i, j \in D : i # j => s[i] # s[j]
  BY Zenon DEF SetToSeqs
<1>3. IsFiniteSet(D) /\ Cardinality(D) = n
  <2>1. Cardinality(D) = IF 1 > n THEN 0 ELSE n - 1 + 1
    BY <1>1, FS_Interval
  <2> QED BY <1>1, <2>1, FS_Interval
<1> HIDE DEF n, D
<1>4. s \in Injection(D, S)
  BY <1>2 DEF Injection, IsInjective
<1>5. s \in Surjection(D, S)
  BY <1>3, <1>4, FS_Injection DEF n
<1> QED BY <1>1, <1>2, <1>5 DEF Surjection, n, D

LEMMA FlagNames ==
  ASSUME NEW r, IsFiniteSet(r.flags), r.type = "bitflags", NEW word,
         NEW outcome \in DecodeBitflags(r, word), outcome.status = "ok"
  PROVE  IsSequence(outcome.readings) /\ NamesIn(outcome.readings) = Names(r)
<1>1. PICK s \in SetToSeqs(r.flags) : outcome =
        Decoded([k \in DOMAIN s |-> [metric |-> <<label(r), s[k][2]>>,
                                     value |-> [flag |-> bitSet(word, s[k][1])]]])
  <2>1. outcome # Undecoded("error")
    BY DEF Undecoded
  <2>2. outcome \in {Decoded([k \in DOMAIN s |->
                   [metric |-> <<label(r), s[k][2]>>,
                    value |-> [flag |-> bitSet(word, s[k][1])]]]) :
          s \in SetToSeqs(r.flags)}
    BY <2>1, Zenon DEF DecodeBitflags
  <2> QED BY <2>2, Zenon
<1> DEFINE Sample(f) == [metric |-> <<label(r), f[2]>>, value |-> [flag |-> bitSet(word, f[1])]]
           n == Cardinality(r.flags)
           samples == [k \in DOMAIN s |-> Sample(s[k])]
<1>2. /\ n \in Nat /\ DOMAIN s = 1 .. n /\ \A k \in 1 .. n : s[k] \in r.flags
      /\ \A f \in r.flags : \E k \in 1 .. n : s[k] = f
  BY OrderIsOnto
<1>3. outcome.readings = samples
  BY <1>1 DEF Decoded
<1> HIDE DEF n
<1>4. samples \in Seq({Sample(f) : f \in r.flags})
  <2>1. samples \in [1 .. n -> {Sample(f) : f \in r.flags}]
    BY <1>2
  <2> HIDE DEF samples, Sample
  <2> QED BY <1>2, <2>1, IsASeq
<1>5. NamesIn(samples) = {<<label(r), f[2]>> : f \in r.flags}
  <2>1. DOMAIN samples = 1 .. n /\ \A k \in 1 .. n : samples[k].metric = <<label(r), s[k][2]>>
    BY <1>2
  <2> HIDE DEF samples
  <2>2. \A k \in 1 .. n : \E f \in r.flags : samples[k].metric = <<label(r), f[2]>>
    BY <1>2, <2>1
  <2>3. \A f \in r.flags : \E k \in 1 .. n : samples[k].metric = <<label(r), f[2]>>
    BY <1>2, <2>1
  <2>4. NamesIn(samples) = {samples[k].metric : k \in 1 .. n}
    BY <2>1 DEF NamesIn
  <2> QED BY <2>2, <2>3, <2>4, Zenon
<1>6. Names(r) = {<<label(r), f[2]>> : f \in r.flags}
  BY NamesDescribed
<1> QED BY <1>3, <1>4, <1>5, <1>6 DEF IsSequence

LEMMA ElementNames ==
  ASSUME NEW r, r.type = "array", r.count \in Int, r.count > 0, r.start \in Int,
         NEW raw, NEW wo, DecodeArray(r, raw, wo).status = "ok"
  PROVE  /\ IsSequence(DecodeArray(r, raw, wo).readings)
         /\ NamesIn(DecodeArray(r, raw, wo).readings) = Names(r)
<1> DEFINE width == numericWidth(r.element)
           Offset(i) == (i - 1) * arrayStride(r)
           Name(i) == <<r.metric, ToString(FirstIndex(r) + i - 1)>>
           Value(i) == decodeNumeric(r.element, SubSeq(raw, Offset(i) + 1, Offset(i) + width),
                                     wo, r.scale)
           samples == [i \in 1 .. r.count |-> [metric |-> Name(i), value |-> Value(i)]]
<1>1. DecodeArray(r, raw, wo) \in {Undecoded("panic"), Decoded(samples)}
  BY Zenon DEF DecodeArray
<1>2. DecodeArray(r, raw, wo).readings = samples
  <2> HIDE DEF samples
  <2> QED BY <1>1 DEF Undecoded, Decoded
<1>3. r.count \in Nat
  OBVIOUS
<1>4. samples \in Seq({samples[i] : i \in 1 .. r.count})
  <2>1. samples \in [1 .. r.count -> {samples[i] : i \in 1 .. r.count}]
    OBVIOUS
  <2> HIDE DEF samples
  <2> QED BY <1>3, <2>1, IsASeq
<1>5. DOMAIN samples = 1 .. r.count /\ \A i \in 1 .. r.count : samples[i].metric = Name(i)
  OBVIOUS
<1> HIDE DEF samples
<1>6. NamesIn(samples) = {Name(i) : i \in 1 .. r.count}
  <2> HIDE DEF Name
  <2> QED BY <1>5 DEF NamesIn
<1>7. {Name(i) : i \in 1 .. r.count}
        = {<<r.metric, ToString(FirstIndex(r) + i)>> : i \in 0 .. r.count - 1}
  <2>1. FirstIndex(r) \in Int
    BY DEF FirstIndex
  <2>2. ASSUME NEW i \in 1 .. r.count
        PROVE  i - 1 \in 0 .. r.count - 1 /\ FirstIndex(r) + i - 1 = FirstIndex(r) + (i - 1)
    BY <1>3, <2>1
  <2>3. ASSUME NEW i \in 0 .. r.count - 1
        PROVE  i + 1 \in 1 .. r.count /\ FirstIndex(r) + (i + 1) - 1 = FirstIndex(r) + i
    BY <1>3, <2>1
  <2> DEFINE Text(k) == <<r.metric, ToString(k)>>
  <2>4. \A i \in 1 .. r.count : Name(i) = Text(FirstIndex(r) + (i - 1))
    BY <2>2, Zenon
  <2>5. \A i \in 0 .. r.count - 1 : Name(i + 1) = Text(FirstIndex(r) + i)
    BY <2>3, Zenon
  <2>6. {Name(i) : i \in 1 .. r.count} = {Text(FirstIndex(r) + i) : i \in 0 .. r.count - 1}
    <3> HIDE DEF Name, Text
    <3> QED BY <2>2, <2>3, <2>4, <2>5
  <2> QED BY <2>6
<1>8. Names(r) = {<<r.metric, ToString(FirstIndex(r) + i)>> : i \in 0 .. r.count - 1}
  BY NamesDescribed
<1> QED BY <1>2, <1>4, <1>6, <1>7, <1>8 DEF IsSequence

\* A decoded entry has a sample for each metric it describes, and no other.
LEMMA DecodedNames ==
  ASSUME NEW r, FieldsTyped(r), ValidRegister(r), NEW raw, NEW wo, Complete(r, raw),
         NEW outcome \in Decode(r, raw, wo), outcome.status = "ok"
  PROVE  IsSequence(outcome.readings) /\ NamesIn(outcome.readings) = Names(r)
<1>1. CASE r.type = "array"
  <2>1. r.count \in Int /\ r.count > 0 /\ r.start \in Int
    BY <1>1, ValidTypes DEF FieldsTyped
  <2>2. outcome = DecodeArray(r, raw, wo)
    <3>1. Decode(r, raw, wo) = {DecodeArray(r, raw, wo)}
      BY <1>1, DecodeCases, Zenon
    <3> QED BY <3>1
  <2> QED BY <1>1, <2>1, <2>2, ElementNames
<1>2. CASE r.type = "bitflags"
  <2>1. outcome \in DecodeBitflags(r, raw[1])
    BY <1>2, DecodeCases
  <2> QED BY <1>2, <2>1, FlagNames DEF FieldsTyped
<1>3. CASE r.type \in Numeric \cup {"enum", "bool"}
  <2>1. \E value : outcome = One(r.metric, value)
    BY <1>3, OneValue
  <2>2. Names(r) = {<<r.metric>>}
    <3>1. r.type # "array" /\ r.type # "bitflags"
      BY <1>3, Types
    <3> QED BY <3>1, NamesDescribed
  <2> QED BY <2>1, <2>2, OneReading
<1> QED BY <1>1, <1>2, <1>3, ValidTypes

\* An entry that fits is decoded whatever its words are: nothing is sliced
\* beyond the words that were asked for, and every flag has a bit.
LEMMA SoundIsDecoded ==
  ASSUME NEW r, FieldsTyped(r), ValidRegister(r), SoundEntry(r), NEW raw, NEW wo,
         Complete(r, raw), Len(raw) = Extent(r), NEW outcome \in Decode(r, raw, wo)
  PROVE  outcome.status = "ok"
<1>1. CASE r.type = "array"
  <2> DEFINE width == numericWidth(r.element)
             Offset(i) == (i - 1) * arrayStride(r)
  <2>1. /\ r.count \in Int /\ r.count - 1 \in Nat /\ arrayStride(r) \in Nat
        /\ (r.count - 1) * arrayStride(r) + width = Len(raw) /\ width \in Nat
    BY <1>1, NothingWraps, Types DEF FieldsTyped
  <2>2. ASSUME NEW i \in 1 .. r.count PROVE ~(Offset(i) + width > Len(raw))
    <3>1. i - 1 \in Nat /\ i - 1 <= r.count - 1
      BY <2>1
    <3>2. (i - 1) * arrayStride(r) <= (r.count - 1) * arrayStride(r)
      BY <2>1, <3>1, MoreIsMore
    <3>3. (i - 1) * arrayStride(r) \in Nat /\ (r.count - 1) * arrayStride(r) \in Nat
      BY SMTT(30), <2>1, <3>1
    <3>4. \A a, b, c, l \in Nat : a <= b /\ b + c = l => ~(a + c > l)
      OBVIOUS
    <3>5. Offset(i) + width = (i - 1) * arrayStride(r) + width /\ Len(raw) \in Nat
      BY <2>1, <3>3
    <3> HIDE DEF width, Offset
    <3> QED BY <2>1, <3>2, <3>3, <3>4, <3>5
  <2>3. outcome = DecodeArray(r, raw, wo)
    <3>1. Decode(r, raw, wo) = {DecodeArray(r, raw, wo)}
      BY <1>1, DecodeCases, Zenon
    <3> QED BY <3>1
  <2>4. DecodeArray(r, raw, wo).status = "ok"
    BY <2>2 DEF DecodeArray, Decoded
  <2> QED BY <2>3, <2>4
<1>2. CASE r.type = "bitflags"
  <2>1. outcome \in DecodeBitflags(r, raw[1])
    BY ZenonT(40), <1>2, DecodeCases
  <2> QED BY <1>2, <2>1 DEF DecodeBitflags, SoundEntry, Decoded
<1>3. CASE r.type \in Numeric \cup {"enum", "bool"}
  <2>1. PICK value : outcome = One(r.metric, value)
    BY <1>3, OneValue
  <2> QED BY <2>1, OneReading
<1> QED BY <1>1, <1>2, <1>3, ValidTypes

-----------------------------------------------------------------------------
(* The inductive invariant.                                                *)

\* The entries of a profile are typed and valid.
GoodProfile(p) ==
  /\ Len(p.registers) \in Nat /\ DOMAIN p.registers = 1 .. Len(p.registers)
  /\ \A k \in DOMAIN p.registers :
       FieldsTyped(p.registers[k]) /\ ValidRegister(p.registers[k])

\* A directory that loads has valid profiles only.
LEMMA LoadedAreGood ==
  ASSUME NEW files \in Directories, Load(files) # None, NEW id \in DOMAIN Load(files)
  PROVE  GoodProfile(Load(files)[id])
<1> DEFINE Ids == {files[k].id : k \in DOMAIN files}
           Named(i) == CHOOSE k \in DOMAIN files : files[k].id = i
           table == [i \in Ids |-> applyDefaults(files[Named(i)])]
<1>1. /\ \A k \in DOMAIN files : files[k] # Unreadable /\ ValidProfile(files[k])
      /\ Load(files) = table
  BY DEF Load
<1>2. id \in Ids /\ Load(files)[id] = applyDefaults(files[Named(id)])
  BY <1>1
<1>3. Named(id) \in DOMAIN files
  BY <1>2
<1> DEFINE file == files[Named(id)]
<1>4. Parsed(file) /\ ValidProfile(file)
  BY <1>1, <1>3, Constants
<1> HIDE DEF file
<1>5. applyDefaults(file).registers = file.registers
  BY <1>4 DEF applyDefaults, Parsed
<1>6. GoodProfile(applyDefaults(file))
  BY <1>4, <1>5 DEF GoodProfile, Parsed, ValidProfile, FieldsTyped
<1> QED BY <1>2, <1>6 DEF file

ProcTyped ==
  /\ directory \in Directories /\ proc \in {"up", "down", "panicked"}
  /\ profiles = IF proc = "up" THEN Load(directory) ELSE <<>>
  /\ proc = "up" => Load(directory) # None
  /\ memory \in [Devices \ Mock -> Memories]

Errors == {"", "unknown profile", "wire", "refused", "decode"}

StoreTyped ==
  /\ DOMAIN store = IF proc = "up" THEN Devices ELSE {}
  /\ DOMAIN basis = DOMAIN store
  /\ \A d \in DOMAIN store :
       /\ DOMAIN store[d] = {"online", "error", "metrics"}
       /\ store[d].online \in BOOLEAN /\ basis[d] \subseteq Memories
       /\ store[d].error \in Errors

\* The reading in progress is of a device with a profile and a wire; of each
\* entry it is past it has all samples, and no others.
ReadingSound ==
  reading # None =>
    /\ proc = "up" /\ reading.device \in Devices \ Mock /\ Known(reading.device)
    /\ DOMAIN reading = {"device", "next", "samples", "held"}
    /\ reading.held # {} /\ reading.held \subseteq Memories
    /\ reading.next \in 1 .. Len(ProfileFor(reading.device).registers) + 1
    /\ IsSequence(reading.samples)
    /\ NamesIn(reading.samples) =
         UNION {Names(ProfileFor(reading.device).registers[k]) :
                  k \in 1 .. reading.next - 1}

\* Each metric of a serial device has a value and a mark, and together they are
\* those of its profile once it was read.
MetricsWhole ==
  \A d \in Serial :
    /\ DOMAIN store[d].metrics = IF basis[d] = {} THEN {} ELSE Described(ProfileFor(d))
    /\ \A m \in DOMAIN store[d].metrics :
         /\ DOMAIN store[d].metrics[m] = {"value", "stale"}
         /\ store[d].metrics[m].stale = ~store[d].online

TypeInv == ProcTyped /\ StoreTyped /\ ReadingSound
IInv == TypeInv /\ MetricsWhole

\* The device that is read has a good profile.
LEMMA ReadProfile ==
  ASSUME ProcTyped, ReadingSound, reading # None
  PROVE  /\ GoodProfile(ProfileFor(reading.device))
         /\ profiles = Load(directory) /\ Load(directory) # None
         /\ ProfileOf[reading.device] \in DOMAIN Load(directory)
         /\ ProfileFor(reading.device) = Load(directory)[ProfileOf[reading.device]]
<1>1. /\ directory \in Directories /\ Load(directory) # None
      /\ ProfileOf[reading.device] \in DOMAIN profiles /\ profiles = Load(directory)
  BY DEF ProcTyped, ReadingSound, Known
<1> QED BY <1>1, LoadedAreGood DEF ProfileFor

LEMMA InitHolds == Init => IInv
<1> SUFFICES ASSUME Init PROVE IInv
  OBVIOUS
<1>1. DOMAIN <<>> = {}
  OBVIOUS
<1>2. ProcTyped
  BY DEF Init, ProcTyped
<1>3. StoreTyped
  BY <1>1 DEF Init, StoreTyped
<1>4. ReadingSound /\ MetricsWhole
  BY <1>1 DEF Init, ReadingSound, MetricsWhole, Serial
<1> QED BY <1>2, <1>3, <1>4 DEF IInv, TypeInv

LEMMA StartHolds ==
  ASSUME IInv, Start
  PROVE  IInv'
<1>1. proc' = "up" /\ profiles' = Load(directory) /\ Load(directory) # None
      /\ UNCHANGED <<directory, memory>> /\ reading' = None
  BY DEF Start, Loaded
<1>2. DOMAIN store' = Devices /\ basis' = [d \in Devices |-> {}]
  BY DEF Start
<1>3. ASSUME NEW d \in Devices
      PROVE  /\ DOMAIN store'[d] = {"online", "error", "metrics"}
             /\ store'[d].online = FALSE /\ store'[d].metrics = <<>>
             /\ store'[d].error \in {"", "unknown profile"}
  <2> DEFINE reason == IF ProfileOf[d] \in DOMAIN profiles' THEN "" ELSE "unknown profile"
  <2>1. store'[d] = [Fresh EXCEPT !.error = reason]
    BY DEF Start
  <2>2. reason \in {"", "unknown profile"}
    OBVIOUS
  <2> HIDE DEF reason
  <2> QED BY <2>1, <2>2 DEF Fresh
<1>4. ProcTyped'
  BY <1>1 DEF IInv, TypeInv, ProcTyped
<1>5. StoreTyped'
  BY <1>1, <1>2, <1>3 DEF StoreTyped, Errors
<1>6. ReadingSound'
  BY <1>1 DEF ReadingSound
<1>7. MetricsWhole'
  <2>1. DOMAIN <<>> = {}
    OBVIOUS
  <2> QED BY <1>2, <1>3, <2>1 DEF MetricsWhole, Serial
<1> QED BY <1>4, <1>5, <1>6, <1>7 DEF IInv, TypeInv

-----------------------------------------------------------------------------
(* The invariant is kept.                                                  *)

\* A failed reading marks what was there and adds nothing.
LEMMA FailHolds ==
  ASSUME IInv, InProgress, NEW reason \in {"refused", "wire", "decode"}, FailRead(reason)
  PROVE  IInv'
<1> DEFINE d == reading.device
           record == RecordFailure(d, reason)
<1>1. proc = "up" /\ d \in Devices \ Mock /\ DOMAIN store = Devices
  BY DEF InProgress, IInv, TypeInv, ReadingSound, StoreTyped
<1>2. store' = [store EXCEPT ![d] = record] /\ reading' = None
      /\ UNCHANGED <<directory, proc, profiles, memory, basis>>
  BY DEF FailRead
<1>3. /\ DOMAIN record = {"online", "error", "metrics"} /\ record.online = FALSE
      /\ record.error = reason /\ DOMAIN record.metrics = DOMAIN store[d].metrics
      /\ \A m \in DOMAIN record.metrics :
           record.metrics[m] = [store[d].metrics[m] EXCEPT !.stale = TRUE]
  BY DEF RecordFailure
<1> HIDE DEF d, record
<1>4. /\ DOMAIN store' = Devices /\ store'[d] = record
      /\ \A e \in Devices : e # d => store'[e] = store[e]
  BY <1>1, <1>2
<1>5. ProcTyped'
  BY <1>2 DEF IInv, TypeInv, ProcTyped
<1>6. StoreTyped'
  BY <1>1, <1>2, <1>3, <1>4 DEF IInv, TypeInv, StoreTyped, Errors
<1>7. ReadingSound'
  BY <1>2 DEF ReadingSound
<1>8. MetricsWhole'
  <2> SUFFICES ASSUME NEW e \in Devices \ Mock
               PROVE  /\ DOMAIN store'[e].metrics =
                           IF basis[e] = {} THEN {} ELSE Described(ProfileFor(e))
                      /\ \A m \in DOMAIN store'[e].metrics :
                           /\ DOMAIN store'[e].metrics[m] = {"value", "stale"}
                           /\ store'[e].metrics[m].stale = ~store'[e].online
    BY <1>2, <1>4 DEF MetricsWhole, Serial, ProfileFor
  <2>1. /\ DOMAIN store[e].metrics = IF basis[e] = {} THEN {} ELSE Described(ProfileFor(e))
        /\ \A m \in DOMAIN store[e].metrics :
             /\ DOMAIN store[e].metrics[m] = {"value", "stale"}
             /\ store[e].metrics[m].stale = ~store[e].online
    BY <1>1 DEF IInv, MetricsWhole, Serial
  <2>2. CASE e = d
    <3>1. ASSUME NEW m \in DOMAIN record.metrics
          PROVE  DOMAIN record.metrics[m] = {"value", "stale"} /\ record.metrics[m].stale = TRUE
      <4>1. PICK old : old = store[d].metrics[m] /\ DOMAIN old = {"value", "stale"}
        BY <1>3, <2>1, <2>2
      <4>2. record.metrics[m] = [old EXCEPT !.stale = TRUE]
        BY <1>3, <4>1
      <4> QED BY <4>1, <4>2
    <3>2. DOMAIN record.metrics = DOMAIN store[d].metrics /\ store'[e] = record
      BY <1>3, <1>4, <2>2
    <3> QED BY <1>3, <2>1, <2>2, <3>1, <3>2
  <2>3. CASE e # d
    BY <1>4, <2>1, <2>3
  <2> QED BY <2>2, <2>3
<1> QED BY <1>5, <1>6, <1>7, <1>8 DEF IInv, TypeInv

\* One map entry for each name, all of them fresh.
LEMMA CollapsedFacts ==
  ASSUME NEW samples
  PROVE  /\ DOMAIN Collapsed(samples) = NamesIn(samples)
         /\ \A m \in NamesIn(samples) :
              /\ DOMAIN Collapsed(samples)[m] = {"value", "stale"}
              /\ Collapsed(samples)[m].stale = FALSE
BY DEF Collapsed, NamesIn

\* Whoever polled successfully shows the samples collapsed, and is online.
LEMMA SuccessFacts ==
  ASSUME NEW d, NEW metrics
  PROVE  LET record == RecordSuccess(d, metrics)
         IN /\ DOMAIN record = {"online", "error", "metrics"} /\ record.online = TRUE
            /\ record.error = "" /\ record.metrics = metrics
BY DEF RecordSuccess

LEMMA FinishHolds ==
  ASSUME IInv, Finish
  PROVE  IInv'
<1> DEFINE d == reading.device
           metrics == Collapsed(reading.samples)
           record == RecordSuccess(d, metrics)
           p == ProfileFor(d)
<1>1. /\ proc = "up" /\ reading # None /\ d \in Devices \ Mock /\ DOMAIN store = Devices
      /\ DOMAIN basis = Devices /\ reading.held # {} /\ reading.held \subseteq Memories
  BY DEF Finish, IInv, TypeInv, ReadingSound, StoreTyped
<1>2. /\ store' = [store EXCEPT ![d] = record] /\ basis' = [basis EXCEPT ![d] = reading.held]
      /\ reading' = None /\ UNCHANGED <<directory, proc, profiles, memory>>
  BY DEF Finish
<1>3. DOMAIN metrics = Described(p)
  <2>1. GoodProfile(p)
    BY <1>1, ReadProfile DEF IInv, TypeInv
  <2>2. /\ reading.next \in 1 .. Len(p.registers) + 1
        /\ NamesIn(reading.samples) =
             UNION {Names(p.registers[k]) : k \in 1 .. reading.next - 1}
    BY <1>1 DEF IInv, TypeInv, ReadingSound
  <2>3. reading.next > Len(p.registers)
    BY DEF Finish
  <2> HIDE DEF p
  <2>4. 1 .. reading.next - 1 = DOMAIN p.registers
    BY <2>1, <2>2, <2>3 DEF GoodProfile
  <2>5. NamesIn(reading.samples) = Described(p)
    BY <2>2, <2>4, Zenon DEF Described
  <2> QED BY <2>5, CollapsedFacts
<1>4. \A m \in DOMAIN metrics : DOMAIN metrics[m] = {"value", "stale"} /\ metrics[m].stale = FALSE
  BY CollapsedFacts
<1>5. /\ DOMAIN record = {"online", "error", "metrics"} /\ record.online = TRUE
      /\ record.error = "" /\ record.metrics = metrics
  BY SuccessFacts, Zenon
<1> HIDE DEF d, metrics, record, p
<1>6. /\ DOMAIN store' = Devices /\ store'[d] = record
      /\ \A e \in Devices : e # d => store'[e] = store[e]
      /\ DOMAIN basis' = Devices /\ basis'[d] = reading.held
      /\ \A e \in Devices : e # d => basis'[e] = basis[e]
  BY <1>1, <1>2
<1>7. ProcTyped'
  BY <1>2 DEF IInv, TypeInv, ProcTyped
<1>8. StoreTyped'
  BY <1>1, <1>2, <1>5, <1>6 DEF IInv, TypeInv, StoreTyped, Errors
<1>9. ReadingSound'
  BY <1>2 DEF ReadingSound
<1>10. MetricsWhole'
  <2> SUFFICES ASSUME NEW e \in Devices \ Mock
               PROVE  /\ DOMAIN store'[e].metrics =
                           IF basis'[e] = {} THEN {} ELSE Described(ProfileFor(e))
                      /\ \A m \in DOMAIN store'[e].metrics :
                           /\ DOMAIN store'[e].metrics[m] = {"value", "stale"}
                           /\ store'[e].metrics[m].stale = ~store'[e].online
    BY <1>2, <1>6 DEF MetricsWhole, Serial, ProfileFor
  <2>1. CASE e = d
    BY <1>1, <1>3, <1>4, <1>5, <1>6, <2>1 DEF p
  <2>2. CASE e # d
    BY <1>1, <1>6, <2>2 DEF IInv, MetricsWhole, Serial
  <2> QED BY <2>1, <2>2
<1> QED BY <1>7, <1>8, <1>9, <1>10 DEF IInv, TypeInv

LEMMA PollMockHolds ==
  ASSUME IInv, NEW d \in Devices, PollMock(d)
  PROVE  IInv'
<1>1. PICK metrics : store' = [store EXCEPT ![d] = RecordSuccess(d, metrics)]
  BY Zenon DEF PollMock
<1> DEFINE record == RecordSuccess(d, metrics)
<1>2. /\ proc = "up" /\ reading = None /\ d \in Mock
      /\ UNCHANGED <<directory, proc, profiles, memory, reading, basis>>
  BY DEF PollMock
<1>3. DOMAIN record = {"online", "error", "metrics"} /\ record.online = TRUE /\ record.error = ""
  BY SuccessFacts, Zenon
<1>4. DOMAIN store = Devices
  BY <1>2 DEF IInv, TypeInv, StoreTyped
<1> HIDE DEF record
<1>5. /\ DOMAIN store' = Devices /\ store'[d] = record
      /\ \A e \in Devices : e # d => store'[e] = store[e]
  BY <1>1, <1>4 DEF record
<1>6. ProcTyped' /\ ReadingSound'
  BY <1>2 DEF IInv, TypeInv, ProcTyped, ReadingSound
<1>7. StoreTyped'
  BY ZenonT(40), <1>2, <1>3, <1>4, <1>5 DEF IInv, TypeInv, StoreTyped, Errors
<1>8. MetricsWhole'
  BY <1>2, <1>4, <1>5 DEF IInv, MetricsWhole, Serial, ProfileFor
<1> QED BY <1>6, <1>7, <1>8 DEF IInv, TypeInv

LEMMA StartReadHolds ==
  ASSUME IInv, NEW d \in Devices, StartRead(d)
  PROVE  IInv'
<1>1. /\ proc = "up" /\ Known(d) /\ d \in Devices \ Mock
      /\ reading' = [device |-> d, next |-> 1, samples |-> <<>>, held |-> {memory[d]}]
      /\ UNCHANGED <<directory, proc, profiles, memory, store, basis>>
  BY DEF StartRead
<1>2. memory[d] \in Memories
  BY <1>1 DEF IInv, TypeInv, ProcTyped
<1>3. GoodProfile(ProfileFor(d))
  BY <1>1, LoadedAreGood DEF IInv, TypeInv, ProcTyped, Known, ProfileFor
<1>4. IsSequence(<<>>) /\ NamesIn(<<>>) = {}
  <2>1. <<>> \in Seq({}) /\ DOMAIN <<>> = {}
    OBVIOUS
  <2> QED BY <2>1 DEF IsSequence, NamesIn
<1>5. ReadingSound'
  <2>1. 1 .. 1 - 1 = {}
    OBVIOUS
  <2>2. UNION {Names(ProfileFor(d).registers[k]) : k \in 1 .. 1 - 1} = {}
    BY <2>1, Zenon
  <2>3. 1 \in 1 .. Len(ProfileFor(d).registers) + 1
    BY <1>3 DEF GoodProfile
  <2>4. /\ reading'.device = d /\ reading'.next = 1 /\ reading'.samples = <<>>
        /\ reading'.held = {memory[d]} /\ DOMAIN reading' = {"device", "next", "samples", "held"}
    BY <1>1
  <2>5. Known(d)' /\ ProfileFor(d)' = ProfileFor(d)
    BY <1>1 DEF Known, ProfileFor
  <2>6. /\ Known(reading.device)' /\ reading'.next \in 1 .. Len(ProfileFor(reading.device)'.registers) + 1
    BY <1>1, <2>3, <2>4 DEF Known, ProfileFor
  <2>7. 1 .. reading'.next - 1 = {}
    BY <2>4
  <2>8. UNION {Names(ProfileFor(reading.device).registers[k]) : k \in 1 .. reading.next - 1}' = {}
    BY <2>7, Zenon
  <2>9. reading'.held # {} /\ reading'.held \subseteq Memories
    BY <1>2, <2>4
  <2>10. IsSequence(reading.samples)' /\ NamesIn(reading.samples)' = {}
    BY <1>4, <2>4, Zenon
  <2> QED BY <1>1, <2>4, <2>6, <2>8, <2>9, <2>10, Zenon DEF ReadingSound
<1>6. ProcTyped' /\ StoreTyped'
  BY <1>1 DEF IInv, TypeInv, ProcTyped, StoreTyped
<1>7. MetricsWhole'
  BY <1>1 DEF IInv, MetricsWhole, Serial, ProfileFor
<1> QED BY <1>5, <1>6, <1>7 DEF IInv, TypeInv

\* The samples of one more entry.
LEMMA Joined ==
  ASSUME NEW s, NEW t, IsSequence(s), IsSequence(t)
  PROVE  IsSequence(s \o t) /\ NamesIn(s \o t) = NamesIn(s) \cup NamesIn(t)
<1>1. PICK S : s \in Seq(S)
  BY DEF IsSequence
<1>2. PICK T : t \in Seq(T)
  BY DEF IsSequence
<1>3. s \in Seq(S \cup T) /\ t \in Seq(S \cup T)
  BY <1>1, <1>2
<1> DEFINE u == s \o t
<1>4. /\ u \in Seq(S \cup T) /\ Len(u) = Len(s) + Len(t)
      /\ \A i \in 1 .. Len(s) + Len(t) : u[i] = IF i <= Len(s) THEN s[i] ELSE t[i - Len(s)]
  BY <1>3, ConcatProperties
<1>5. /\ Len(s) \in Nat /\ Len(t) \in Nat
      /\ DOMAIN s = 1 .. Len(s) /\ DOMAIN t = 1 .. Len(t) /\ DOMAIN u = 1 .. Len(s) + Len(t)
  BY <1>3, <1>4
<1> HIDE DEF u
<1>6. ASSUME NEW m \in NamesIn(u) PROVE m \in NamesIn(s) \cup NamesIn(t)
  <2>1. PICK i \in 1 .. Len(s) + Len(t) : u[i].metric = m
    BY <1>5 DEF NamesIn
  <2>2. CASE i <= Len(s)
    <3>1. i \in DOMAIN s /\ s[i].metric = m
      BY <1>4, <1>5, <2>1, <2>2
    <3> QED BY <3>1 DEF NamesIn
  <2>3. CASE ~(i <= Len(s))
    <3>1. i - Len(s) \in DOMAIN t /\ t[i - Len(s)].metric = m
      BY <1>4, <1>5, <2>1, <2>3
    <3> QED BY <3>1 DEF NamesIn
  <2> QED BY <2>2, <2>3
<1>7. ASSUME NEW m \in NamesIn(s) PROVE m \in NamesIn(u)
  <2>1. PICK i \in DOMAIN s : s[i].metric = m
    BY DEF NamesIn
  <2>2. i \in DOMAIN u /\ u[i].metric = m
    BY <1>4, <1>5, <2>1
  <2> QED BY <2>2 DEF NamesIn
<1>8. ASSUME NEW m \in NamesIn(t) PROVE m \in NamesIn(u)
  <2>1. PICK i \in DOMAIN t : t[i].metric = m
    BY DEF NamesIn
  <2>2. /\ Len(s) + i \in 1 .. Len(s) + Len(t) /\ ~(Len(s) + i <= Len(s))
        /\ (Len(s) + i) - Len(s) = i
    BY <1>5
  <2>3. Len(s) + i \in DOMAIN u /\ u[Len(s) + i].metric = m
    BY <1>4, <1>5, <2>1, <2>2
  <2> QED BY <2>3 DEF NamesIn
<1> QED BY <1>4, <1>6, <1>7, <1>8 DEF IsSequence, u

\* As many words as were asked for.
LEMMA RawFacts ==
  ASSUME Sendable
  PROVE  Complete(Entry, Raw) /\ Len(Raw) = RegisterCount(Entry)
<1>1. RegisterCount(Entry) \in Nat
  BY Constants DEF Sendable
<1>2. \A n \in Nat : \A f : DOMAIN f = 1 .. n => Len(f) = n
  OBVIOUS
<1>3. DOMAIN Raw = 1 .. RegisterCount(Entry)
  BY DEF Raw
<1>4. Len(Raw) = RegisterCount(Entry)
  BY <1>1, <1>2, <1>3
<1> QED BY <1>1, <1>4 DEF Complete

\* The entry that is read next.
LEMMA EntryFacts ==
  ASSUME IInv, InProgress
  PROVE  /\ reading # None /\ Entry = ProfileFor(reading.device).registers[reading.next]
         /\ reading.next \in 1 .. Len(ProfileFor(reading.device).registers)
         /\ Len(ProfileFor(reading.device).registers) \in Nat
         /\ FieldsTyped(Entry) /\ ValidRegister(Entry)
<1>1. GoodProfile(ProfileFor(reading.device)) /\ reading # None
  BY ReadProfile DEF InProgress, IInv, TypeInv
<1> QED BY <1>1 DEF GoodProfile, InProgress, Entry

LEMMA ReadRegisterHolds ==
  ASSUME IInv, ReadRegister
  PROVE  IInv'
<1> DEFINE d == reading.device
           p == ProfileFor(d)
           n == reading.next
<1>1. PICK outcome \in Outcomes :
        /\ outcome.status = "ok"
        /\ reading' = [reading EXCEPT !.next = @ + 1, !.samples = @ \o outcome.readings]
  BY DEF ReadRegister
<1>2. InProgress /\ Sendable /\ UNCHANGED <<directory, proc, profiles, memory, store, basis>>
  BY DEF ReadRegister
<1>3. /\ reading # None /\ Entry = p.registers[n] /\ n \in 1 .. Len(p.registers)
      /\ Len(p.registers) \in Nat /\ FieldsTyped(Entry) /\ ValidRegister(Entry)
  BY <1>2, EntryFacts, Zenon
<1>4. IsSequence(outcome.readings) /\ NamesIn(outcome.readings) = Names(p.registers[n])
  <2>1. outcome \in Decode(Entry, Raw, ProfileFor(reading.device).word_order)
    BY DEF Outcomes
  <2> QED BY <1>1, <1>2, <1>3, <2>1, RawFacts, DecodedNames, Zenon
<1>5. /\ proc = "up" /\ d \in Devices \ Mock /\ Known(d)
      /\ DOMAIN reading = {"device", "next", "samples", "held"}
      /\ reading.held # {} /\ reading.held \subseteq Memories
      /\ IsSequence(reading.samples)
      /\ NamesIn(reading.samples) = UNION {Names(p.registers[k]) : k \in 1 .. n - 1}
  BY <1>3 DEF IInv, TypeInv, ReadingSound
<1> DEFINE more == reading.samples \o outcome.readings
<1>6. IsSequence(more) /\ NamesIn(more) = UNION {Names(p.registers[k]) : k \in 1 .. n}
  <2>1. /\ IsSequence(more)
        /\ NamesIn(more) = NamesIn(reading.samples) \cup NamesIn(outcome.readings)
    BY <1>4, <1>5, Joined
  <2>2. 1 .. n = (1 .. n - 1) \cup {n}
    BY <1>3
  <2> HIDE DEF more, p, n
  <2>3. UNION {Names(p.registers[k]) : k \in 1 .. n}
          = (UNION {Names(p.registers[k]) : k \in 1 .. n - 1})
              \cup Names(p.registers[n])
    BY <2>2
  <2> QED BY <1>4, <1>5, <2>1, <2>3, Zenon
<1> HIDE DEF more
<1>7. /\ reading'.device = d /\ reading'.next = n + 1 /\ reading'.samples = more
      /\ reading'.held = reading.held /\ DOMAIN reading' = DOMAIN reading
  BY <1>1, <1>5 DEF more
<1>8. ProfileFor(reading.device)' = p /\ Known(reading.device)'
  BY <1>2, <1>5, <1>7 DEF ProfileFor, Known
<1>9. ReadingSound'
  <2>1. n + 1 \in 1 .. Len(p.registers) + 1 /\ (n + 1) - 1 = n
    BY <1>3
  <2>2. NamesIn(reading.samples)' =
          UNION {Names(ProfileFor(reading.device).registers[k]) :
                   k \in 1 .. reading.next - 1}'
    <3>1. NamesIn(reading.samples)' = NamesIn(more)
      BY <1>7, Zenon
    <3>2. 1 .. reading'.next - 1 = 1 .. n
      BY <1>7, <2>1, Zenon
    <3> HIDE DEF p, n
    <3> QED BY <1>6, <1>8, <3>1, <3>2, Zenon
  <2>3. (reading.next \in 1 .. Len(ProfileFor(reading.device).registers) + 1)'
    <3> HIDE DEF p, n
    <3> QED BY <1>7, <1>8, <2>1, Zenon
  <2>4. IsSequence(reading.samples)'
    BY <1>6, <1>7, Zenon
  <2> QED BY <1>2, <1>5, <1>7, <1>8, <2>2, <2>3, <2>4, Zenon DEF ReadingSound
<1>10. ProcTyped' /\ StoreTyped'
  BY <1>2 DEF IInv, TypeInv, ProcTyped, StoreTyped
<1>11. MetricsWhole'
  BY <1>2 DEF IInv, MetricsWhole, Serial, ProfileFor
<1> QED BY <1>9, <1>10, <1>11 DEF IInv, TypeInv

LEMMA ChangeHolds ==
  ASSUME IInv, NEW d \in Devices, DeviceChanges(d)
  PROVE  IInv'
<1>1. PICK m \in Memories :
        /\ memory' = [memory EXCEPT ![d] = m]
        /\ reading' = IF reading # None /\ reading.device = d
                      THEN [reading EXCEPT !.held = @ \cup {m}] ELSE reading
  BY DEF DeviceChanges
<1>2. d \in Devices \ Mock /\ UNCHANGED <<directory, proc, profiles, store, basis>>
  BY DEF DeviceChanges
<1>3. ProcTyped'
  BY <1>1, <1>2 DEF IInv, TypeInv, ProcTyped
<1>4. ReadingSound'
  <2>1. CASE reading # None /\ reading.device = d
    <3>1. /\ DOMAIN reading = {"device", "next", "samples", "held"}
          /\ reading' = [reading EXCEPT !.held = @ \cup {m}]
      BY <1>1, <2>1 DEF IInv, TypeInv, ReadingSound
    <3>2. /\ DOMAIN reading' = DOMAIN reading /\ reading'.device = reading.device
          /\ reading'.next = reading.next /\ reading'.samples = reading.samples
          /\ reading'.held = reading.held \cup {m}
      BY <3>1
    <3> QED BY <1>2, <2>1, <3>2 DEF IInv, TypeInv, ReadingSound, Known, ProfileFor
  <2>2. CASE ~(reading # None /\ reading.device = d)
    <3>1. reading' = reading
      BY <1>1, <2>2
    <3> QED BY <1>2, <3>1 DEF IInv, TypeInv, ReadingSound, Known, ProfileFor
  <2> QED BY <2>1, <2>2
<1>5. StoreTyped'
  BY <1>2 DEF IInv, TypeInv, StoreTyped
<1>6. MetricsWhole'
  BY <1>2 DEF IInv, MetricsWhole, Serial, ProfileFor
<1> QED BY <1>3, <1>4, <1>5, <1>6 DEF IInv, TypeInv

LEMMA PanicHolds ==
  ASSUME IInv, Panic
  PROVE  IInv'
<1>1. /\ proc' = "panicked" /\ reading' = None /\ profiles' = <<>> /\ store' = <<>> /\ basis' = <<>>
      /\ UNCHANGED <<directory, memory>>
  BY DEF Panic
<1>2. DOMAIN <<>> = {}
  OBVIOUS
<1> QED BY <1>1, <1>2
        DEF IInv, TypeInv, ProcTyped, StoreTyped, ReadingSound, MetricsWhole, Serial

LEMMA IInvKept == IInv /\ [Next]_vars => IInv'
<1> SUFFICES ASSUME IInv, [Next]_vars PROVE IInv'
  OBVIOUS
<1>1. CASE Start
  BY <1>1, StartHolds
<1>2. CASE ReadRegister
  BY <1>2, ReadRegisterHolds
<1>3. CASE Refused \/ WireFails \/ Undecodable
  BY <1>3, FailHolds DEF Refused, WireFails, Undecodable
<1>4. CASE Panic
  BY <1>4, PanicHolds
<1>5. CASE Finish
  BY <1>5, FinishHolds
<1>6. CASE Ask \/ UNCHANGED vars
  <2>1. UNCHANGED <<directory, proc, profiles, memory, reading, store, basis>>
    BY <1>6 DEF Ask, vars
  <2>2. ReadingSound' /\ MetricsWhole'
    BY <2>1 DEF IInv, TypeInv, ReadingSound, MetricsWhole, Serial, Known, ProfileFor
  <2> QED BY <2>1, <2>2 DEF IInv, TypeInv, ProcTyped, StoreTyped
<1>7. CASE \E d \in Devices : StartRead(d) \/ PollMock(d) \/ DeviceChanges(d)
  BY <1>7, StartReadHolds, PollMockHolds, ChangeHolds
<1> QED BY <1>1, <1>2, <1>3, <1>4, <1>5, <1>6, <1>7 DEF Next

\* The inductive invariant holds throughout.
THEOREM Invariance == Spec => []IInv
BY InitHolds, IInvKept, PTL DEF Spec

\* The store has a record of each device while the process is up, and the words
\* a reading may have seen are some the device held.
THEOREM TypeCorrect == Spec => []TypeOK
<1>1. IInv => TypeOK
  BY DEF IInv, TypeInv, ProcTyped, StoreTyped, ReadingSound, Errors, TypeOK
<1> QED BY <1>1, Invariance, PTL

\* A reading is stored whole or not at all, whatever the profile describes and
\* wherever the reading fails; the inductive invariant says more (MetricsWhole:
\* the code has no metric of a device before its first reading).
THEOREM ReadingsAreWhole == Spec => []AllOrNothing
<1>1. IInv => AllOrNothing
  BY DEF IInv, MetricsWhole, AllOrNothing
<1> QED BY <1>1, Invariance, PTL

-----------------------------------------------------------------------------
(* Profiles whose entries fit a request.                                   *)

SoundDirectory == Loaded # None /\ \A id \in DOMAIN Loaded : Sound(Loaded[id])

\* With such a directory nothing is refused, undecodable or a panic.
OnlyWire ==
  SoundDirectory => /\ proc # "panicked"
                    /\ \A d \in DOMAIN store : store[d].error \notin {"refused", "decode"}

\* The next entry can be asked for and decoded.
LEMMA EntrySucceeds ==
  ASSUME IInv, SoundDirectory, InProgress
  PROVE  Sendable /\ \A outcome \in Outcomes : outcome.status = "ok"
<1>1. /\ reading # None /\ Entry = ProfileFor(reading.device).registers[reading.next]
      /\ FieldsTyped(Entry) /\ ValidRegister(Entry)
  BY EntryFacts
<1>2. Sound(ProfileFor(reading.device))
  BY <1>1, ReadProfile DEF IInv, TypeInv, SoundDirectory, Loaded
<1>3. SoundEntry(Entry)
  BY <1>1, <1>2 DEF Sound, SoundEntry, InProgress
<1>4. RegisterCount(Entry) = Extent(Entry) /\ Extent(Entry) \in 1 .. MaxQuantity
  BY <1>1, <1>3, CountIsExtent
<1>5. Sendable
  BY <1>3, <1>4 DEF Sendable, SoundEntry
<1>6. Complete(Entry, Raw) /\ Len(Raw) = Extent(Entry)
  BY <1>4, <1>5, RawFacts
<1> QED BY <1>1, <1>3, <1>5, <1>6, SoundIsDecoded DEF Outcomes

LEMMA OnlyWireKept == IInv /\ OnlyWire /\ [Next]_vars => OnlyWire'
<1> SUFFICES ASSUME IInv, OnlyWire, [Next]_vars, SoundDirectory'
             PROVE  /\ proc' # "panicked"
                    /\ \A d \in DOMAIN store' : store'[d].error \notin {"refused", "decode"}
  BY DEF OnlyWire
<1>1. directory' = directory
  BY DEF Next, vars, Start, ReadRegister, Refused, WireFails, Undecodable, FailRead, Panic,
         Finish, Ask, StartRead, PollMock, DeviceChanges
<1>2. SoundDirectory
  BY <1>1 DEF SoundDirectory, Loaded
<1>3. /\ proc # "panicked"
      /\ \A d \in DOMAIN store : store[d].error \notin {"refused", "decode"}
  BY <1>2 DEF OnlyWire
<1>4. CASE Refused \/ Undecodable \/ Panic
  BY <1>2, <1>4, EntrySucceeds DEF Refused, Undecodable, Panic
<1>5. CASE Start
  <2>1. \A d \in Devices : store'[d].error \in {"", "unknown profile"}
    <3> TAKE d \in Devices
    <3> DEFINE reason == IF ProfileOf[d] \in DOMAIN profiles' THEN "" ELSE "unknown profile"
    <3>1. store'[d] = [Fresh EXCEPT !.error = reason] /\ reason \in {"", "unknown profile"}
      BY <1>5 DEF Start
    <3> HIDE DEF reason
    <3> QED BY <3>1 DEF Fresh
  <2> QED BY <1>5, <2>1 DEF Start
<1>6. CASE WireFails
  <2>1. store' = [store EXCEPT ![reading.device] = RecordFailure(reading.device, "wire")]
        /\ proc' = proc
    BY <1>6 DEF WireFails, FailRead
  <2>2. RecordFailure(reading.device, "wire").error = "wire"
    BY DEF RecordFailure
  <2> QED BY <1>3, <2>1, <2>2
<1>7. CASE Finish \/ \E d \in Devices : PollMock(d)
  <2>1. PICK d, metrics : store' = [store EXCEPT ![d] = RecordSuccess(d, metrics)] /\ proc' = proc
    BY <1>7, Zenon DEF Finish, PollMock
  <2>2. RecordSuccess(d, metrics).error = ""
    BY DEF RecordSuccess
  <2> QED BY <1>3, <2>1, <2>2
<1>8. CASE UNCHANGED <<proc, store>>
  BY <1>3, <1>8
<1> QED BY <1>4, <1>5, <1>6, <1>7, <1>8
        DEF Next, vars, ReadRegister, Ask, StartRead, DeviceChanges

\* Profiles whose arrays fit one request and whose flag bits exist are read and
\* decoded as long as the wire answers: RegisterCount asks for what Decode
\* slices, and no 16-bit arithmetic wraps (Bus.Read, Register.Decode).
THEOREM SoundProfilesAreReadable == Spec => []OnlyTheWireFails
<1>1. Init => OnlyWire
  <2>1. DOMAIN <<>> = {}
    OBVIOUS
  <2> QED BY <2>1 DEF Init, OnlyWire
<1>2. OnlyWire => OnlyTheWireFails
  BY DEF OnlyWire, OnlyTheWireFails, SoundDirectory
<1> QED BY <1>1, <1>2, Invariance, OnlyWireKept, PTL DEF Spec

-----------------------------------------------------------------------------
(* What a batch answers.                                                   *)

LEMMA SelectorsAreListed ==
  ASSUME NEW request \in Requests, request.op = "batch", request.selectors # None
  PROVE  DOMAIN request.selectors \subseteq Nat
<1>1. /\ Len(request.selectors) \in Nat
      /\ DOMAIN request.selectors = 1 .. Len(request.selectors)
  BY ReadingsAssumption, Zenon DEF ReadingsAssumption
<1> QED BY <1>1

\* What the last selector of a device misses is what the batch says is missing.
LEMMA LastIsReported ==
  ASSUME NEW selectors, DOMAIN selectors \subseteq Nat, NEW k \in DOMAIN selectors,
         LastOfItsDevice(selectors, k), selectors[k].id \in Devices,
         MissingOf(selectors[k].id, selectors[k].metrics) # {}
  PROVE  LET missed == Unmatched(selectors).metrics
         IN /\ selectors[k].id \in DOMAIN missed
            /\ missed[selectors[k].id] = MissingOf(selectors[k].id, selectors[k].metrics)
<1> DEFINE Misses(id) == {j \in DOMAIN selectors :
             selectors[j].id = id /\ MissingOf(id, selectors[j].metrics) # {}}
           Latest(id) == CHOOSE j \in Misses(id) : \A i \in Misses(id) : i <= j
           id == selectors[k].id
<1>1. k \in Misses(id) /\ \A j \in Misses(id) : j <= k
  BY DEF LastOfItsDevice
<1>2. Misses(id) \subseteq Nat
  OBVIOUS
<1>3. Latest(id) = k
  <2>1. Latest(id) \in Misses(id) /\ \A j \in Misses(id) : j <= Latest(id)
    BY <1>1, Zenon
  <2> HIDE DEF Latest, Misses
  <2> QED BY <1>1, <1>2, <2>1
<1>4. Unmatched(selectors).metrics =
        [i \in {d \in Devices : Misses(d) # {}} |-> MissingOf(i, selectors[Latest(i)].metrics)]
  BY DEF Unmatched
<1> HIDE DEF Latest, Misses
<1> QED BY <1>1, <1>3, <1>4

LEMMA BatchIsAccounted ==
  ASSUME NEW selectors, DOMAIN selectors \subseteq Nat, NEW k \in DOMAIN selectors
  PROVE  LET body == Batch(selectors)
         IN \/ selectors[k].id \in body.unmatched.devices
            \/ \E p \in DOMAIN body.devices :
                 /\ body.devices[p].device = selectors[k].id
                 /\ LastOfItsDevice(selectors, k) =>
                      \A m \in Asked(selectors[k].metrics) :
                        \/ m \in DOMAIN body.devices[p].measurements
                        \/ /\ selectors[k].id \in DOMAIN body.unmatched.metrics
                           /\ m \in body.unmatched.metrics[selectors[k].id]
<1> DEFINE body == Batch(selectors)
           id == selectors[k].id
           filter == selectors[k].metrics
<1>1. selectors # <<>>
  OBVIOUS
<1>2. body = [devices |-> [j \in {i \in DOMAIN selectors : selectors[i].id \in Devices} |->
                             Part(selectors[j].id, selectors[j].metrics)],
              unmatched |-> Unmatched(selectors)]
  BY <1>1 DEF Batch
<1>3. CASE id \notin Devices
  <2>1. id \in Unmatched(selectors).devices
    BY <1>3 DEF Unmatched
  <2> QED BY <1>2, <2>1
<1>4. CASE id \in Devices
  <2>1. k \in DOMAIN body.devices /\ body.devices[k] = Part(id, filter)
    BY <1>2, <1>4
  <2>2. /\ Part(id, filter).device = id
        /\ Part(id, filter).measurements = Shown(id, filter)
    BY DEF Part
  <2>3. ASSUME LastOfItsDevice(selectors, k), NEW m \in Asked(filter)
        PROVE  \/ m \in DOMAIN Shown(id, filter)
               \/ /\ id \in DOMAIN body.unmatched.metrics
                  /\ m \in body.unmatched.metrics[id]
    <3>1. filter # <<>>
      BY <2>3 DEF Asked
    <3>2. CASE m \in DOMAIN store[id].metrics
      BY <3>1, <3>2 DEF Shown
    <3>3. CASE m \notin DOMAIN store[id].metrics
      <4>1. m \in MissingOf(id, filter)
        BY <3>3 DEF MissingOf
      <4>2. /\ id \in DOMAIN Unmatched(selectors).metrics
            /\ Unmatched(selectors).metrics[id] = MissingOf(id, filter)
        BY <1>4, <2>3, <4>1, LastIsReported
      <4>3. body.unmatched = Unmatched(selectors)
        BY <1>2
      <4> HIDE DEF body
      <4> QED BY <4>1, <4>2, <4>3
    <3> QED BY <3>2, <3>3
  <2> HIDE DEF body, filter
  <2> QED BY <2>1, <2>2, <2>3 DEF filter, body
<1> QED BY <1>3, <1>4

LEMMA Replied ==
  ASSUME NEW request, NEW status, NEW parts, NEW body
  PROVE  LET reply == Reply(request, status, parts, body)
         IN  /\ reply.request = request /\ reply.status = status
             /\ reply.body = body \/ reply.body = None
BY DEF Reply

LEMMA AskAccounts == Ask => BatchAccounts'
<1> SUFFICES ASSUME Ask, answer' # None, answer'.status = 200, answer'.body # None,
                    answer'.request.op = "batch"
             PROVE  BatchAccounts'
  BY DEF BatchAccounts
<1>1. PICK request \in Requests :
        answer' = IF request.op = "device" THEN DeviceMeasurements(request)
                  ELSE BatchPoll(request)
  BY DEF Ask
<1>3. DeviceMeasurements(request).request = request
  <2>1. CASE request.id \in Devices
    <3>1. DeviceMeasurements(request) =
            Reply(request, 200, <<Part(request.id, <<>>)>>, Part(request.id, <<>>))
      BY <2>1 DEF DeviceMeasurements
    <3> QED BY <3>1 DEF Reply
  <2>2. CASE request.id \notin Devices
    <3> DEFINE refusal == [error |-> "unknown device"]
    <3>1. DeviceMeasurements(request) = Reply(request, 404, <<>>, refusal)
      BY <2>2 DEF DeviceMeasurements
    <3> HIDE DEF refusal
    <3> QED BY <3>1 DEF Reply
  <2> QED BY <2>1, <2>2
<1>4. request.op # "device" /\ answer' = BatchPoll(request)
  <2>1. CASE request.op = "device"
    BY <1>1, <1>3, <2>1
  <2> QED BY <1>1, <2>1
<1> DEFINE body == Batch(request.selectors)
<1>5. /\ request.selectors # None
      /\ answer' = Reply(request, 200, body.devices, body)
  <2>1. CASE request.selectors = None
    <3>1. answer' = Reply(request, 400, <<>>, [error |-> "invalid JSON body"])
      BY <1>4, <2>1 DEF BatchPoll
    <3>2. answer'.status = 400
      BY <3>1 DEF Reply
    <3> QED BY <3>2
  <2> QED BY <1>4, <2>1 DEF BatchPoll
<1> HIDE DEF body
<1>6. answer'.request = request /\ answer'.body = body
  BY <1>5, Replied
<1>7. DOMAIN request.selectors \subseteq Nat
  BY <1>5, <1>6, SelectorsAreListed
<1> QED BY <1>6, <1>7, BatchIsAccounted DEF BatchAccounts, body

\* A batch accounts for all it asks, for any devices, any selectors and whatever
\* was read of each device: no selector is lost between the parts of the answer
\* and its list of what did not match (handleBatch).
THEOREM BatchesAreAccounted == Spec => []BatchAccounts
<1>1. Init => BatchAccounts
  BY DEF Init, BatchAccounts
<1>2. BatchAccounts /\ [Next]_vars => BatchAccounts'
  <2> SUFFICES ASSUME BatchAccounts, [Next]_vars PROVE BatchAccounts'
    OBVIOUS
  <2>1. CASE Ask
    BY <2>1, AskAccounts
  <2>2. CASE UNCHANGED vars
    BY <2>2 DEF vars, BatchAccounts
  <2>3. ASSUME ~Ask, ~UNCHANGED vars PROVE answer' = None
    BY <2>3 DEF Next, Start, StartRead, ReadRegister, Refused, WireFails, Undecodable,
                Panic, InProgress, Finish, PollMock, DeviceChanges
  <2> QED BY <2>1, <2>2, <2>3 DEF BatchAccounts
<1> QED BY <1>1, <1>2, PTL DEF Spec

-----------------------------------------------------------------------------
(* Decoding undoes the encoding of numbers of both signs and word orders,  *)
(* the bits tested are the bits set, and each element of an array is       *)
(* sliced where the profile places it.  First the arithmetic.              *)

LEMMA PowersArePositive ==
  ASSUME NEW n \in 0 .. WordBits - 1
  PROVE  2 ^ n \in Nat /\ 2 ^ n > 0
<1>1. 2 ^ n > 0
  BY PowersOfTwo, Zenon DEF PowersOfTwo
<1>2. n \in Nat
  BY Constants
<1> QED BY <1>1, <1>2

LEMMA BaseIsEven == \E half \in Nat : half > 0 /\ Base = 2 * half
<1>1. WordBits \in Nat /\ WordBits - 1 \in 0 .. WordBits - 1 /\ (WordBits - 1) + 1 = WordBits
  BY Constants
<1>2. 2 ^ ((WordBits - 1) + 1) = 2 * 2 ^ (WordBits - 1)
  BY <1>1, PowersOfTwo, Zenon DEF PowersOfTwo
<1>3. 2 ^ (WordBits - 1) \in Nat /\ 2 ^ (WordBits - 1) > 0
  BY <1>1, PowersArePositive
<1> QED BY <1>1, <1>2, <1>3 DEF Base

LEMMA Division ==
  ASSUME NEW a \in Nat, NEW b \in Nat, NEW size \in Nat, b < size
  PROVE  (a * size + b) \div size = a /\ (a * size + b) % size = b
OBVIOUS

LEMMA Divided ==
  ASSUME NEW n \in Nat, NEW size \in Nat, size > 0
  PROVE  \E q \in Nat : \E rest \in 0 .. size - 1 : n = q * size + rest /\ q = n \div size
<1>1. PICK q \in Int : q = n \div size
  OBVIOUS
<1>2. PICK rest \in Int : rest = n % size
  OBVIOUS
<1>3. rest = n - size * q
  BY <1>1, <1>2
<1>4. rest \in 0 .. size - 1
  BY <1>2
<1>5. n = q * size + rest
  BY <1>3
<1>6. q \in Nat
  <2>1. CASE q <= -1
    <3>1. q * size <= (-1) * size
      BY <2>1
    <3> QED BY <1>4, <1>5, <3>1
  <2> QED BY <2>1
<1> QED BY <1>1, <1>4, <1>5, <1>6

LEMMA NatTimes == \A a, b \in Nat : a * b \in Nat
OBVIOUS

\* Two words make a number of twice the width, and come back out of it.
LEMMA Combined ==
  ASSUME NEW high \in 0 .. Base - 1, NEW low \in 0 .. Base - 1
  PROVE  /\ high * Base + low \in 0 .. Base * Base - 1
         /\ (high * Base + low) \div Base = high
         /\ (high * Base + low) % Base = low
<1>1. high \in Nat /\ low \in Nat /\ Base \in Nat /\ low < Base /\ high <= Base - 1 /\ Base - 1 \in Nat
  BY BaseIsPositive
<1> HIDE DEF Base
<1>2. high * Base <= (Base - 1) * Base
  BY <1>1, MoreIsMore
<1>3. (Base - 1) * Base = Base * Base - Base
  BY <1>1
<1>4. high * Base \in Nat /\ Base * Base \in Nat
  BY <1>1, NatTimes
<1>5. \A a, s, b, l \in Nat : a <= s - b /\ l < b => a + l \in 0 .. s - 1
  OBVIOUS
<1>6. high * Base + low \in 0 .. Base * Base - 1
  BY <1>1, <1>2, <1>3, <1>4, <1>5
<1> QED BY <1>1, <1>6, Division

\* Two's complement.
LEMMA Signs ==
  ASSUME NEW half \in Nat, half > 0, NEW size \in Nat, size = 2 * half, NEW n \in 0 .. size - 1
  PROVE  /\ SignedIn(n, size) \in -(size \div 2) .. size \div 2 - 1
         /\ SignedIn(n, size) % size = n
<1>1. size \div 2 = half
  OBVIOUS
<1>2. CASE n >= half
  <2>1. SignedIn(n, size) = n - size
    BY <1>1, <1>2 DEF SignedIn
  <2>2. (n - size) % size = n
    OBVIOUS
  <2> QED BY <1>1, <1>2, <2>1, <2>2
<1>3. CASE ~(n >= half)
  <2>1. SignedIn(n, size) = n
    BY <1>1, <1>3 DEF SignedIn
  <2>2. n % size = n
    OBVIOUS
  <2> QED BY <1>1, <1>3, <2>1, <2>2
<1> QED BY <1>2, <1>3

\* The bit that is tested is set in the word.
LEMMA BitsAreSet ==
  ASSUME NEW word \in Nat, NEW b
  PROVE  bitSet(word, b) <=> b \in BitsOf(word)
<1> SUFFICES ASSUME b \in 0 .. WordBits - 1
             PROVE  (word \div 2 ^ b) % 2 = 1 <=>
                      \E high, low \in 0 .. word :
                        low < 2 ^ b /\ word = (2 * high + 1) * 2 ^ b + low
  BY DEF bitSet, BitsOf
<1>1. PICK power \in Nat : power = 2 ^ b /\ power > 0
  BY PowersArePositive
<1>2. ASSUME (word \div power) % 2 = 1
      PROVE  \E high, low \in 0 .. word : low < power /\ word = (2 * high + 1) * power + low
  <2>1. PICK q, low \in Nat : q = word \div power /\ word = q * power + low /\ low < power
    BY <1>1, Divided
  <2>2. PICK high \in Nat : q = 2 * high + 1
    <3>1. q = 2 * (q \div 2) + 1 /\ q \div 2 \in Nat
      BY <1>2, <2>1
    <3> QED BY <3>1
  <2>3. q * power >= q /\ q * power \in Nat
    BY <1>1, <2>1
  <2>4. q <= word /\ low <= word
    BY <2>1, <2>3
  <2>5. high <= word
    BY <2>2, <2>4
  <2>6. high \in 0 .. word /\ low \in 0 .. word /\ low < power
    BY <2>1, <2>4, <2>5
  <2>7. word = (2 * high + 1) * power + low
    BY <2>1, <2>2
  <2> QED BY <2>6, <2>7
<1>3. ASSUME NEW high \in 0 .. word, NEW low \in 0 .. word, low < power,
             word = (2 * high + 1) * power + low
      PROVE  (word \div power) % 2 = 1
  <2>1. 2 * high + 1 \in Nat /\ low \in Nat
    OBVIOUS
  <2>2. word \div power = 2 * high + 1
    BY <1>1, <1>3, <2>1, Division
  <2>3. \A h \in Nat : (2 * h + 1) % 2 = 1
    OBVIOUS
  <2>4. high \in Nat
    OBVIOUS
  <2> QED BY <2>2, <2>3, <2>4
<1> QED BY <1>1, <1>2, <1>3
-----------------------------------------------------------------------------
(* Numbers.                                                                *)

Word == 0 .. Base - 1

\* The two words of a wide number.
Pair(wo, high, low) == IF wo = "low_first" THEN <<low, high>> ELSE <<high, low>>

\* A number that leaves c as its bits is encoded as the halves of c.
LEMMA WideEncoded ==
  ASSUME NEW t \in Wide, NEW wo, NEW n, NEW high \in Word, NEW low \in Word,
         n % (Base * Base) = high * Base + low
  PROVE  Encoded(t, wo, n) = Pair(wo, high, low)
<1>1. Span(t) = Base * Base
  BY DEF Span
<1>2. (high * Base + low) \div Base = high /\ (high * Base + low) % Base = low
  BY Combined DEF Word
<1>3. (n % Span(t)) \div Base = high /\ (n % Span(t)) % Base = low
  BY <1>1, <1>2
<1> QED BY <1>3 DEF Encoded, Pair

LEMMA NarrowEncoded ==
  ASSUME NEW t, t \notin Wide, NEW wo, NEW n, NEW word \in Word, n % Base = word
  PROVE  Encoded(t, wo, n) = <<word>>
<1>1. Span(t) = Base
  BY DEF Span
<1>2. word % Base = word
  BY BaseIsPositive DEF Word
<1>3. (n % Span(t)) % Base = word
  BY <1>1, <1>2
<1> QED BY <1>3 DEF Encoded

\* Decoding a number gives the one whose encoding the words are.
LEMMA WideMeans ==
  ASSUME NEW t \in Wide, NEW r, NEW wo, NEW raw \in [1 .. 2 -> Word]
  PROVE  NumberMeans(t, r, wo, raw, decodeNumeric(t, raw, wo, r.scale))
<1> DEFINE high == IF wo = "low_first" THEN raw[2] ELSE raw[1]
           low == IF wo = "low_first" THEN raw[1] ELSE raw[2]
           c == combine32(raw, wo)
           n == IF t = "int32" THEN SignedIn(c, Base * Base) ELSE c
           value == decodeNumeric(t, raw, wo, r.scale)
<1>1. high \in Word /\ low \in Word /\ c = high * Base + low
  BY DEF combine32
<1>2. raw = Pair(wo, high, low)
  <2>1. raw = <<raw[1], raw[2]>>
    OBVIOUS
  <2> QED BY <2>1 DEF Pair
<1>3. c \in 0 .. Base * Base - 1
  BY <1>1, Combined DEF Word
<1>4. PICK half \in Nat : half > 0 /\ Base * Base = 2 * half
  <2>1. PICK h \in Nat : h > 0 /\ Base = 2 * h
    BY BaseIsEven
  <2>2. Base * Base = 2 * (h * Base) /\ h * Base \in Nat /\ h * Base > 0
    BY <2>1
  <2> QED BY <2>2
<1> HIDE DEF high, low, c
<1>5. n \in NumbersOf(t) /\ n % (Base * Base) = c
  <2>1. Base * Base \in Nat /\ Span(t) = Base * Base
    BY <1>4 DEF Span
  <2>2. CASE t = "int32"
    <3>1. /\ SignedIn(c, Base * Base) \in -((Base * Base) \div 2) .. (Base * Base) \div 2 - 1
          /\ SignedIn(c, Base * Base) % (Base * Base) = c
      BY <1>3, <1>4, <2>1, Signs
    <3> QED BY <2>1, <2>2, <3>1 DEF NumbersOf
  <2>3. CASE t # "int32"
    <3>1. n = c /\ t \notin {"int16", "int32"}
      BY <2>3 DEF Wide
    <3>2. \A size \in Nat : \A k \in 0 .. size - 1 : k % size = k
      OBVIOUS
    <3>3. c % (Base * Base) = c
      BY <1>3, <2>1, <3>2
    <3> QED BY <1>3, <2>1, <3>1, <3>3 DEF NumbersOf
  <2> QED BY <2>2, <2>3
<1>6. Encoded(t, wo, n) = raw
  BY <1>1, <1>2, <1>5, WideEncoded
<1>7. value = IF t = "float32" THEN [float |-> n, factor |-> Factor(r)]
              ELSE [number |-> n * Factor(r)]
  <2>1. CASE t = "uint32"
    <3>1. decodeNumeric(t, raw, wo, r.scale) = [number |-> c * Factor(r)]
      BY <2>1, Zenon DEF decodeNumeric, Factor, c
    <3> QED BY <2>1, <3>1
  <2>2. CASE t = "int32"
    <3>1. decodeNumeric(t, raw, wo, r.scale) = [number |-> SignedIn(c, Base * Base) * Factor(r)]
      BY <2>2, Zenon DEF decodeNumeric, Factor, c
    <3> QED BY <2>2, <3>1
  <2>3. CASE t = "float32"
    <3>1. decodeNumeric(t, raw, wo, r.scale) = [float |-> c, factor |-> Factor(r)]
      BY <2>3, Zenon DEF decodeNumeric, Factor, c
    <3> QED BY <2>3, <3>1
  <2> QED BY <2>1, <2>2, <2>3 DEF Wide
<1> HIDE DEF n, value
<1>8. NumberMeans(t, r, wo, raw, value)
  BY <1>5, <1>6, <1>7, Zenon DEF NumberMeans
<1> QED BY <1>8 DEF value

LEMMA NarrowMeans ==
  ASSUME NEW t \in Numeric \ Wide, NEW r, NEW wo, NEW raw \in [1 .. 1 -> Word]
  PROVE  NumberMeans(t, r, wo, raw, decodeNumeric(t, raw, wo, r.scale))
<1> DEFINE n == IF t = "int16" THEN SignedIn(raw[1], Base) ELSE raw[1]
           value == decodeNumeric(t, raw, wo, r.scale)
<1>1. raw[1] \in Word /\ raw = <<raw[1]>> /\ t \in {"uint16", "int16"}
  BY DEF Numeric
<1>2. Span(t) = Base /\ t \notin Wide
  BY DEF Span
<1>3. n \in NumbersOf(t) /\ n % Base = raw[1]
  <2>1. CASE t = "int16"
    <3>1. PICK half \in Nat : half > 0 /\ Base = 2 * half
      BY BaseIsEven
    <3>2. /\ SignedIn(raw[1], Base) \in -(Base \div 2) .. Base \div 2 - 1
          /\ SignedIn(raw[1], Base) % Base = raw[1]
      BY <1>1, <3>1, BaseIsPositive, Signs DEF Word
    <3> QED BY <1>2, <2>1, <3>2 DEF NumbersOf
  <2>2. CASE t = "uint16"
    <3>1. raw[1] % Base = raw[1]
      BY <1>1, BaseIsPositive DEF Word
    <3> QED BY <1>1, <1>2, <2>2, <3>1 DEF NumbersOf, Word
  <2> QED BY <1>1, <2>1, <2>2
<1>4. Encoded(t, wo, n) = raw
  BY <1>1, <1>2, <1>3, NarrowEncoded
<1>5. value = IF t = "float32" THEN [float |-> n, factor |-> Factor(r)]
              ELSE [number |-> n * Factor(r)]
  <2>1. CASE t = "uint16"
    <3>1. decodeNumeric(t, raw, wo, r.scale) = [number |-> raw[1] * Factor(r)]
      BY <2>1, Zenon DEF decodeNumeric, Factor
    <3> QED BY <2>1, <3>1
  <2>2. CASE t = "int16"
    <3>1. decodeNumeric(t, raw, wo, r.scale) = [number |-> SignedIn(raw[1], Base) * Factor(r)]
      BY <2>2, Zenon DEF decodeNumeric, Factor
    <3> QED BY <2>2, <3>1
  <2> QED BY <1>1, <2>1, <2>2
<1> HIDE DEF n, value
<1>6. NumberMeans(t, r, wo, raw, value)
  BY <1>3, <1>4, <1>5, Zenon DEF NumberMeans
<1> QED BY <1>6 DEF value

\* The words of a number, and what decoding makes of them.
LEMMA NumberDecoded ==
  ASSUME NEW t \in Numeric, NEW r, NEW wo, NEW raw \in [1 .. Width(t) -> Word]
  PROVE  NumberMeans(t, r, wo, raw, decodeNumeric(t, raw, wo, r.scale))
<1>1. CASE t \in Wide
  BY <1>1, WideMeans DEF Width
<1>2. CASE t \notin Wide
  BY <1>2, NarrowMeans DEF Width
<1> QED BY <1>1, <1>2
-----------------------------------------------------------------------------
(* The samples of an entry.                                                *)

WordsOf(p, mem) == mem[IF p.register_type = "input" THEN "input" ELSE "holding"]
HeldAt(words, at, t) == [k \in 1 .. Width(t) |-> words[at + k - 1]]
ElementType(r) == IF r.type = "array" THEN r.element ELSE r.type

\* What it takes for a value to be meant.
LEMMA MeantAt ==
  ASSUME NEW p, NEW k \in DOMAIN p.registers, NEW mem, NEW value,
         NEW place \in Places(p.registers[k]),
         p.registers[k].address + place[2] + Width(ElementType(p.registers[k])) <= Base,
         WordsMean(p, p.registers[k], mem, p.registers[k].address + place[2], place[1], value)
  PROVE  Means(p, mem, place[1], value)
BY Zenon DEF Means, ElementType

\* A request for an entry, and the words it brings back.
Requested(p, r, mem, raw) ==
  /\ FieldsTyped(r) /\ ValidRegister(r) /\ r.stride < Base
  /\ WordsOf(p, mem) \in [Word -> Word]
  /\ RegisterCount(r) \in Nat /\ r.address + RegisterCount(r) <= Base
  /\ raw = [k \in 1 .. RegisterCount(r) |-> WordsOf(p, mem)[r.address + k - 1]]
  /\ Complete(r, raw)

LEMMA RequestedWords ==
  ASSUME NEW p, NEW r, NEW mem, NEW raw, Requested(p, r, mem, raw)
  PROVE  /\ raw \in [1 .. RegisterCount(r) -> Word]
         /\ \A k \in 1 .. RegisterCount(r) : raw[k] = WordsOf(p, mem)[r.address + k - 1]
         /\ Len(raw) = RegisterCount(r) /\ raw \in Seq(Word)
<1>1. /\ r.address \in Nat /\ Base \in Nat /\ RegisterCount(r) \in Nat
      /\ r.address + RegisterCount(r) <= Base
  BY BaseIsPositive DEF Requested, FieldsTyped
<1>2. \A k \in 1 .. RegisterCount(r) : r.address + k - 1 \in Word
  BY <1>1 DEF Word
<1>3. raw = [k \in 1 .. RegisterCount(r) |-> WordsOf(p, mem)[r.address + k - 1]]
      /\ WordsOf(p, mem) \in [Word -> Word]
  BY DEF Requested
<1>4. raw \in [1 .. RegisterCount(r) -> Word]
  BY <1>2, <1>3
<1>5. raw \in Seq(Word) /\ DOMAIN raw = 1 .. RegisterCount(r)
  BY <1>1, <1>4, IsASeq
<1> QED BY <1>1, <1>3, <1>4, <1>5, LenProperties

\* An entry of one place: its words are the ones asked for.
LEMMA OneMeans ==
  ASSUME NEW p, NEW k \in DOMAIN p.registers, NEW mem, NEW raw,
         Requested(p, p.registers[k], mem, raw),
         p.registers[k].type \in Numeric \cup {"enum", "bool"},
         NEW outcome \in Decode(p.registers[k], raw, p.word_order)
  PROVE  \E value : /\ outcome = One(p.registers[k].metric, value)
                    /\ Means(p, mem, <<p.registers[k].metric>>, value)
<1> DEFINE r == p.registers[k]
           words == WordsOf(p, mem)
           place == << <<r.metric>>, 0 >>
<1>1. r.type # "array" /\ r.type # "bitflags" /\ Complete(r, raw)
  BY Types DEF Requested
<1>2. place \in Places(r) /\ place[1] = <<r.metric>> /\ place[2] = 0
  BY <1>1 DEF Places
<1>3. RegisterCount(r) = Width(r.type)
  <2>1. CASE r.type \in Numeric
    <3>1. RegisterCount(r) = numericWidth(r.type)
      BY <2>1, Types, Zenon DEF RegisterCount
    <3> QED BY <3>1, Types
  <2>2. CASE r.type \in {"enum", "bool"}
    <3>1. RegisterCount(r) = 1
      BY <2>2, Zenon DEF RegisterCount
    <3> QED BY <2>2, <3>1 DEF Width, Wide
  <2> QED BY <2>1, <2>2
<1>4. r.address \in Nat /\ r.address + 0 = r.address
  BY BaseIsPositive DEF Requested, FieldsTyped
<1>5. r.address + place[2] + Width(ElementType(r)) <= Base
  BY <1>1, <1>2, <1>3, <1>4 DEF Requested, ElementType
<1>6. raw = HeldAt(words, r.address, r.type) /\ raw \in [1 .. Width(r.type) -> Word]
  BY <1>3, RequestedWords DEF Requested, HeldAt
<1>7. raw[1] = words[r.address] /\ raw[1] \in Word
  <2>1. 1 \in 1 .. Width(r.type) /\ r.address + 1 - 1 = r.address
    BY <1>4, Types
  <2> QED BY <1>6, <2>1 DEF HeldAt
<1>8. ASSUME NEW value, outcome = One(r.metric, value),
             WordsMean(p, r, mem, r.address, <<r.metric>>, value)
      PROVE  \E v : outcome = One(r.metric, v) /\ Means(p, mem, <<r.metric>>, v)
  <2>1. WordsMean(p, r, mem, r.address + place[2], place[1], value)
    BY <1>2, <1>4, <1>8
  <2>2. Means(p, mem, place[1], value)
    BY <1>2, <1>5, <2>1, MeantAt
  <2> QED BY <1>2, <1>8, <2>2
<1>9. CASE r.type \in Numeric
  <2> DEFINE value == decodeNumeric(r.type, raw, p.word_order, r.scale)
  <2>1. outcome = One(r.metric, value)
    <3>1. Decode(r, raw, p.word_order) = {One(r.metric, value)}
      BY <1>1, <1>9, DecodeCases, Zenon
    <3> QED BY <3>1, Zenon
  <2>2. NumberMeans(r.type, r, p.word_order, HeldAt(words, r.address, r.type), value)
    BY <1>6, <1>9, NumberDecoded
  <2>3. WordsMean(p, r, mem, r.address, <<r.metric>>, value)
    <3>1. WordsMean(p, r, mem, r.address, <<r.metric>>, value) =
            NumberMeans(r.type, r, p.word_order, HeldAt(words, r.address, r.type), value)
      BY <1>1, <1>9, Types, Zenon DEF WordsMean, WordsOf, HeldAt
    <3> QED BY <2>2, <3>1, Zenon
  <2> QED BY <1>8, <2>1, <2>3
<1>10. CASE r.type = "enum"
  <2> DEFINE value == [label |-> IF raw[1] \in DOMAIN r.values THEN r.values[raw[1]]
                                 ELSE "unknown(" \o ToString(raw[1]) \o ")"]
  <2>1. outcome = DecodeEnum(r, raw[1])
    <3>1. Decode(r, raw, p.word_order) = {DecodeEnum(r, raw[1])}
      BY <1>1, <1>10, DecodeCases, Zenon
    <3> QED BY <3>1, Zenon
  <2>2. outcome = One(r.metric, value)
    BY <2>1, Zenon DEF DecodeEnum
  <2>3. WordsMean(p, r, mem, r.address, <<r.metric>>, value)
    <3>1. WordsMean(p, r, mem, r.address, <<r.metric>>, value) =
            (value = [label |->
               IF words[r.address] \in DOMAIN r.values THEN r.values[words[r.address]]
               ELSE "unknown(" \o ToString(words[r.address]) \o ")"])
      BY <1>1, <1>10, Types, Zenon DEF WordsMean, WordsOf, HeldAt
    <3> QED BY <1>7, <3>1, Zenon
  <2> QED BY <1>8, <2>2, <2>3
<1>11. CASE r.type = "bool"
  <2> DEFINE value == [flag |-> decodeBool(raw[1], r.bit)]
  <2>1. outcome = One(r.metric, value)
    <3>1. Decode(r, raw, p.word_order) = {One(r.metric, value)}
      BY <1>1, <1>11, DecodeCases, Zenon
    <3> QED BY <3>1, Zenon
  <2>2. decodeBool(raw[1], r.bit) =
          IF r.bit = {} THEN raw[1] # 0 ELSE r.bit \cap BitsOf(raw[1]) # {}
    <3>1. raw[1] \in Nat
      BY <1>7 DEF Word
    <3>2. \A b : bitSet(raw[1], b) <=> b \in BitsOf(raw[1])
      BY <3>1, BitsAreSet
    <3>3. (\E b \in r.bit : bitSet(raw[1], b)) <=> r.bit \cap BitsOf(raw[1]) # {}
      BY <3>2
    <3> QED BY <3>3 DEF decodeBool
  <2>3. value = [flag |-> IF r.bit = {} THEN words[r.address] # 0
                          ELSE r.bit \cap BitsOf(words[r.address]) # {}]
    BY <1>7, <2>2, Zenon
  <2>4. WordsMean(p, r, mem, r.address, <<r.metric>>, value)
    <3>1. WordsMean(p, r, mem, r.address, <<r.metric>>, value) =
            (value = [flag |-> IF r.bit = {} THEN words[r.address] # 0
                               ELSE r.bit \cap BitsOf(words[r.address]) # {}])
      BY <1>1, <1>11, Types, Zenon DEF WordsMean, WordsOf, HeldAt
    <3> QED BY <2>3, <3>1, Zenon
  <2> QED BY <1>8, <2>1, <2>4
<1> QED BY <1>9, <1>10, <1>11
\* Flags: one bit each of the word that was asked for.
LEMMA FlagsMean ==
  ASSUME NEW p, NEW k \in DOMAIN p.registers, NEW mem, NEW raw,
         Requested(p, p.registers[k], mem, raw), p.registers[k].type = "bitflags",
         NEW outcome \in Decode(p.registers[k], raw, p.word_order), outcome.status = "ok",
         NEW i \in DOMAIN outcome.readings
  PROVE  Means(p, mem, outcome.readings[i].metric, outcome.readings[i].value)
<1> DEFINE r == p.registers[k]
           words == WordsOf(p, mem)
<1>1. RegisterCount(r) = 1 /\ Width(ElementType(r)) = 1 /\ r.type \notin Numeric
  <2>1. RegisterCount(r) = 1
    BY Zenon DEF RegisterCount
  <2> QED BY <2>1, Types DEF ElementType, Width, Wide
<1>2. r.address \in Nat /\ r.address + 0 = r.address /\ r.address + 1 <= Base
  BY <1>1, BaseIsPositive DEF Requested, FieldsTyped
<1>3. raw[1] = words[r.address] /\ raw[1] \in Nat
  <2>1. 1 \in 1 .. RegisterCount(r) /\ r.address + 1 - 1 = r.address
    BY <1>1, <1>2
  <2>2. raw[1] \in Word /\ raw[1] = WordsOf(p, mem)[r.address + 1 - 1]
    BY <2>1, RequestedWords
  <2> QED BY <2>1, <2>2, BaseIsPositive DEF Word
<1>4. outcome \in DecodeBitflags(r, raw[1])
  <2>1. Decode(r, raw, p.word_order) = DecodeBitflags(r, raw[1])
    BY DecodeCases, ZenonT(40) DEF Requested
  <2> QED BY <2>1, Zenon
<1>5. PICK s \in SetToSeqs(r.flags) : outcome =
        Decoded([j \in DOMAIN s |-> [metric |-> <<label(r), s[j][2]>>,
                                     value |-> [flag |-> bitSet(raw[1], s[j][1])]]])
  <2>1. outcome # Undecoded("error")
    BY DEF Undecoded
  <2> QED BY <1>4, <2>1, Zenon DEF DecodeBitflags
<1>6. /\ i \in DOMAIN s
      /\ outcome.readings[i] = [metric |-> <<label(r), s[i][2]>>,
                                value |-> [flag |-> bitSet(raw[1], s[i][1])]]
  BY <1>5 DEF Decoded
<1>7. PICK f \in r.flags : f = s[i]
  <2>1. IsFiniteSet(r.flags)
    BY DEF Requested, FieldsTyped
  <2> QED BY <1>6, <2>1, OrderIsOnto
<1> DEFINE place == << <<label(r), f[2]>>, 0 >>
           value == [flag |-> f[1] \in BitsOf(words[r.address])]
<1>8. place \in Places(r) /\ place[1] = <<label(r), f[2]>> /\ place[2] = 0
  BY DEF Places
<1>9. outcome.readings[i].metric = place[1] /\ outcome.readings[i].value = value
  <2>1. bitSet(raw[1], f[1]) <=> f[1] \in BitsOf(words[r.address])
    BY <1>3, BitsAreSet
  <2>2. bitSet(raw[1], f[1]) \in BOOLEAN
    BY DEF bitSet
  <2>3. [flag |-> bitSet(raw[1], f[1])] = value
    BY <2>1, <2>2
  <2> QED BY <1>6, <1>7, <1>8, <2>3
<1>10. WordsMean(p, r, mem, r.address + place[2], place[1], value)
  <2>1. place[1][2] = f[2]
    BY <1>8
  <2>2. \E g \in r.flags : g[2] = place[1][2] /\ value = [flag |-> g[1] \in BitsOf(words[r.address])]
    BY <2>1, Zenon
  <2>3. r.address + place[2] = r.address
    BY <1>2, <1>8
  <2> HIDE DEF place, value
  <2> QED BY <1>1, <2>2, <2>3, Zenon DEF WordsMean, WordsOf
<1>11. r.address + place[2] + Width(ElementType(r)) <= Base
  BY <1>1, <1>2, <1>8
<1> HIDE DEF place, value
<1>12. Means(p, mem, place[1], value)
  BY <1>8, <1>10, <1>11, MeantAt
<1> QED BY <1>9, <1>12

\* The spacing of elements is the profile's, unless it is too wide for a word.
LEMMA StrideIsStep ==
  ASSUME NEW r, FieldsTyped(r), r.stride < Base
  PROVE  arrayStride(r) = Step(r) /\ Step(r) \in Nat
<1>1. r.stride \in Int
  BY DEF FieldsTyped
<1>2. numericWidth(r.element) \in Nat /\ Width(r.element) = numericWidth(r.element)
  BY Types
<1> QED BY <1>1, <1>2, SmallIsKept DEF arrayStride, Step

LEMMA ArrayDecoded ==
  ASSUME NEW r, NEW raw, NEW wo, Complete(r, raw), r.type = "array",
         NEW outcome \in Decode(r, raw, wo)
  PROVE  outcome = DecodeArray(r, raw, wo)
<1>1. Decode(r, raw, wo) = {DecodeArray(r, raw, wo)}
  BY DecodeCases, Zenon
<1> QED BY <1>1

LEMMA Slice ==
  ASSUME NEW raw, NEW o \in Nat, NEW w \in Nat, w >= 1,
         \A j \in o + 1 .. o + w : raw[j] \in Word
  PROVE  /\ SubSeq(raw, o + 1, o + w) \in Seq(Word)
         /\ Len(SubSeq(raw, o + 1, o + w)) = w
         /\ \A j \in 1 .. w : SubSeq(raw, o + 1, o + w)[j] = raw[o + j]
<1> DEFINE slice == SubSeq(raw, o + 1, o + w)
<1>1. o + 1 \in Int /\ o + w \in Int
  OBVIOUS
<1>2. /\ slice \in Seq(Word)
      /\ Len(slice) = IF o + 1 <= o + w THEN o + w - (o + 1) + 1 ELSE 0
      /\ \A j \in 1 .. o + w - (o + 1) + 1 : slice[j] = raw[o + 1 + j - 1]
  BY <1>1, SubSeqProperties
<1> HIDE DEF slice
<1>3. o + w - (o + 1) + 1 = w /\ o + 1 <= o + w
  OBVIOUS
<1>4. \A j \in 1 .. w : o + 1 + j - 1 = o + j
  OBVIOUS
<1>5. slice \in Seq(Word) /\ Len(slice) = w /\ \A j \in 1 .. w : slice[j] = raw[o + j]
  BY <1>2, <1>3, <1>4
<1> QED BY <1>5 DEF slice

LEMMA ElementsMean ==
  ASSUME NEW p, NEW k \in DOMAIN p.registers, NEW mem, NEW raw,
         Requested(p, p.registers[k], mem, raw), p.registers[k].type = "array",
         NEW outcome \in Decode(p.registers[k], raw, p.word_order), outcome.status = "ok",
         NEW i \in DOMAIN outcome.readings
  PROVE  Means(p, mem, outcome.readings[i].metric, outcome.readings[i].value)
<1> DEFINE r == p.registers[k]
           words == WordsOf(p, mem)
           width == numericWidth(r.element)
           offset == (i - 1) * arrayStride(r)
           slice == SubSeq(raw, offset + 1, offset + width)
           value == decodeNumeric(r.element, slice, p.word_order, r.scale)
           name == <<r.metric, ToString(FirstIndex(r) + i - 1)>>
           place == << <<r.metric, ToString(FirstIndex(r) + (i - 1))>>, (i - 1) * Step(r) >>
<1>1. /\ r.count \in Int /\ r.start \in Int /\ r.address \in Nat
      /\ r.element \in Numeric /\ r.type \notin Numeric
      /\ width \in Nat /\ width >= 1 /\ Width(r.element) = width
      /\ RegisterCount(r) \in Nat /\ r.address + RegisterCount(r) <= Base /\ Base \in Nat
  BY ValidTypes, Types, BaseIsPositive DEF Requested, FieldsTyped
<1>2. arrayStride(r) = Step(r) /\ arrayStride(r) \in Nat
  BY StrideIsStep DEF Requested
<1>3. outcome = DecodeArray(r, raw, p.word_order)
  BY ArrayDecoded DEF Requested
<1>4. /\ ~ \E j \in 1 .. r.count : (j - 1) * arrayStride(r) + width > Len(raw)
      /\ outcome = Decoded([j \in 1 .. r.count |->
           [metric |-> <<r.metric, ToString(FirstIndex(r) + j - 1)>>,
            value |-> decodeNumeric(r.element,
                        SubSeq(raw, (j - 1) * arrayStride(r) + 1,
                                    (j - 1) * arrayStride(r) + width),
                        p.word_order, r.scale)]])
  <2>1. outcome # Undecoded("panic")
    BY DEF Undecoded
  <2> QED BY <1>3, <2>1, Zenon DEF DecodeArray
<1>5. /\ i \in 1 .. r.count
      /\ outcome.readings[i].metric = name /\ outcome.readings[i].value = value
  BY <1>4 DEF Decoded
<1>6. /\ i - 1 \in Nat /\ offset \in Nat /\ offset + width <= RegisterCount(r)
      /\ offset = (i - 1) * Step(r)
  <2>1. i - 1 \in Nat
    BY <1>1, <1>5
  <2>2. offset \in Nat
    BY <1>2, <2>1, NatTimes
  <2>3. Len(raw) = RegisterCount(r)
    BY RequestedWords
  <2>4. ~(offset + width > Len(raw))
    BY <1>4, <1>5
  <2>5. offset = (i - 1) * Step(r)
    BY <1>2
  <2> HIDE DEF offset, width
  <2> QED BY <1>1, <2>1, <2>2, <2>3, <2>4, <2>5
<1>7. place \in Places(r) /\ place[1] = name /\ place[2] = offset
  <2>1. i - 1 \in 0 .. r.count - 1
    BY <1>1, <1>5, <1>6
  <2>2. FirstIndex(r) \in Int
    BY <1>1 DEF FirstIndex
  <2>3. FirstIndex(r) + i - 1 = FirstIndex(r) + (i - 1)
    BY <1>6, <2>2
  <2>4. place \in Places(r)
    BY <2>1, Zenon DEF Places
  <2>5. place[1] = <<r.metric, ToString(FirstIndex(r) + (i - 1))>> /\ place[2] = (i - 1) * Step(r)
    OBVIOUS
  <2> QED BY <1>6, <2>3, <2>4, <2>5, Zenon
<1> HIDE DEF offset, width, place, name
<1>8. slice = HeldAt(words, r.address + offset, r.element) /\ slice \in [1 .. width -> Word]
  <2>1. /\ \A j \in 1 .. RegisterCount(r) : raw[j] \in Word
        /\ \A j \in 1 .. RegisterCount(r) : raw[j] = words[r.address + j - 1]
        /\ raw \in Seq(Word)
    BY RequestedWords
  <2>2. \A j \in offset + 1 .. offset + width : raw[j] \in Word
    BY <1>1, <1>6, <2>1
  <2>3. /\ slice \in Seq(Word) /\ Len(slice) = width
        /\ \A j \in 1 .. width : slice[j] = raw[offset + j]
    BY <1>1, <1>6, <2>2, Slice
  <2> HIDE DEF slice, words
  <2>5. ASSUME NEW j \in 1 .. width PROVE slice[j] = words[r.address + offset + j - 1]
    <3>1. offset + j \in 1 .. RegisterCount(r)
      BY <1>1, <1>6
    <3>2. r.address + (offset + j) - 1 = r.address + offset + j - 1
      BY <1>1, <1>6
    <3> QED BY <2>1, <2>3, <3>1, <3>2
  <2>6. slice \in [1 .. width -> Word]
    BY <2>3, LenProperties
  <2> QED BY <1>1, <2>5, <2>6 DEF HeldAt
<1>9. NumberMeans(r.element, r, p.word_order,
                  HeldAt(words, r.address + offset, r.element), value)
  BY <1>1, <1>8, NumberDecoded
<1>10. WordsMean(p, r, mem, r.address + place[2], place[1], value)
  <2>1. NumberMeans(r.element, r, p.word_order,
                    HeldAt(words, r.address + place[2], r.element), value)
    BY <1>7, <1>9
  <2> HIDE DEF value
  <2> QED BY <1>1, <2>1, Zenon DEF WordsMean, WordsOf, HeldAt
<1>11. r.address + place[2] + Width(ElementType(r)) <= Base
  BY <1>1, <1>6, <1>7 DEF ElementType
<1> HIDE DEF value
<1>12. Means(p, mem, place[1], value)
  BY <1>7, <1>10, <1>11, MeantAt
<1> QED BY <1>5, <1>7, <1>12

\* Whatever is decoded is what the profile says of the words that were read.
LEMMA SamplesMean ==
  ASSUME NEW p, NEW k \in DOMAIN p.registers, NEW mem, NEW raw,
         Requested(p, p.registers[k], mem, raw),
         NEW outcome \in Decode(p.registers[k], raw, p.word_order), outcome.status = "ok",
         NEW i \in DOMAIN outcome.readings
  PROVE  Means(p, mem, outcome.readings[i].metric, outcome.readings[i].value)
<1> DEFINE r == p.registers[k]
<1>1. CASE r.type \in Numeric \cup {"enum", "bool"}
  <2>1. PICK value : outcome = One(r.metric, value) /\ Means(p, mem, <<r.metric>>, value)
    BY <1>1, OneMeans
  <2> DEFINE s == <<[metric |-> <<r.metric>>, value |-> value]>>
  <2>2. outcome.readings = s
    BY <2>1 DEF One, Decoded
  <2>3. DOMAIN s = {1} /\ s[1].metric = <<r.metric>> /\ s[1].value = value
    OBVIOUS
  <2> QED BY <2>1, <2>2, <2>3, Zenon
<1>2. CASE r.type = "bitflags"
  BY <1>2, FlagsMean
<1>3. CASE r.type = "array"
  BY <1>3, ElementsMean
<1> QED BY <1>1, <1>2, <1>3, ValidTypes DEF Requested
-----------------------------------------------------------------------------
(* The invariant of what is read and shown.                                *)

\* No array is spaced by more registers than there are: the code takes the
\* stride modulo the size of a word.
StridesFit ==
  \A files \in Directories : \A j \in DOMAIN files :
    files[j] # Unreadable =>
      \A k \in DOMAIN files[j].registers : files[j].registers[k].stride < Base

\* What was read so far is meant by words the device held since the start of
\* the reading, and those it holds now are among them.
ReadHonestly ==
  reading # None =>
    /\ memory[reading.device] \in reading.held
    /\ \A i \in DOMAIN reading.samples : \E mem \in reading.held :
         Means(ProfileFor(reading.device), mem,
               reading.samples[i].metric, reading.samples[i].value)

\* What is shown of one device.
ShownHonestly(d) ==
  \A m \in DOMAIN store[d].metrics : \E mem \in basis[d] :
    Means(ProfileFor(d), mem, m, store[d].metrics[m].value)

Honest == ReadHonestly /\ \A d \in Serial : ShownHonestly(d)

LEMMA LoadedStrides ==
  ASSUME StridesFit, NEW files \in Directories, Load(files) # None,
         NEW id \in DOMAIN Load(files)
  PROVE  \A k \in DOMAIN Load(files)[id].registers : Load(files)[id].registers[k].stride < Base
<1> DEFINE Ids == {files[k].id : k \in DOMAIN files}
           Named(i) == CHOOSE k \in DOMAIN files : files[k].id = i
           table == [i \in Ids |-> applyDefaults(files[Named(i)])]
<1>1. (\A k \in DOMAIN files : files[k] # Unreadable) /\ Load(files) = table
  BY DEF Load
<1>2. id \in Ids /\ Load(files)[id] = applyDefaults(files[Named(id)])
  BY <1>1
<1>3. Named(id) \in DOMAIN files
  BY <1>2
<1> DEFINE file == files[Named(id)]
<1>4. Parsed(file) /\ \A k \in DOMAIN file.registers : file.registers[k].stride < Base
  BY <1>1, <1>3, Constants DEF StridesFit
<1> HIDE DEF file
<1>5. applyDefaults(file).registers = file.registers
  BY <1>4 DEF applyDefaults, Parsed
<1> QED BY <1>2, <1>4, <1>5 DEF file

LEMMA MemoryTyped ==
  ASSUME NEW mem \in Memories, NEW p
  PROVE  WordsOf(p, mem) \in [Word -> Word]
<1>1. \A t \in {"input", "holding"} : mem[t] \in [Word -> Word]
  BY ReadingsAssumption, Zenon DEF ReadingsAssumption, Word
<1> QED BY <1>1 DEF WordsOf

\* The value that is kept for a name is that of a sample of this name.
LEMMA CollapsedValue ==
  ASSUME NEW samples, IsSequence(samples), NEW m \in NamesIn(samples)
  PROVE  \E i \in DOMAIN samples :
           samples[i].metric = m /\ Collapsed(samples)[m].value = samples[i].value
<1> DEFINE At == {k \in DOMAIN samples : samples[k].metric = m}
           last == CHOOSE k \in At : \A j \in At : j <= k
<1>1. PICK n \in Nat : DOMAIN samples = 1 .. n
  <2>1. PICK S : samples \in Seq(S)
    BY DEF IsSequence
  <2>2. Len(samples) \in Nat /\ DOMAIN samples = 1 .. Len(samples)
    BY <2>1, LenProperties
  <2> QED BY <2>2
<1>2. At \subseteq 1 .. n /\ At # {}
  BY <1>1 DEF NamesIn
<1>3. last \in At
  <2> HIDE DEF At
  <2>1. At \subseteq 0 .. n /\ At # {} /\ n \in Nat
    BY <1>1, <1>2
  <2>2. \E k \in At : \A j \in At : j <= k
    BY <2>1, Greatest
  <2> QED BY <2>2
<1>4. Collapsed(samples)[m] = [value |-> samples[last].value, stale |-> FALSE]
  BY Zenon DEF Collapsed, NamesIn
<1>5. Collapsed(samples)[m].value = samples[last].value
  BY <1>4
<1> QED BY <1>3, <1>5

-----------------------------------------------------------------------------
(* The steps.                                                              *)

LEMMA FailIsHonest ==
  ASSUME IInv, Honest, InProgress, NEW reason, FailRead(reason)
  PROVE  Honest'
<1> DEFINE d == reading.device
           record == RecordFailure(d, reason)
<1>1. proc = "up" /\ d \in Devices \ Mock /\ DOMAIN store = Devices
  BY DEF InProgress, IInv, TypeInv, ReadingSound, StoreTyped
<1>2. store' = [store EXCEPT ![d] = record] /\ reading' = None
      /\ UNCHANGED <<directory, proc, profiles, memory, basis>>
  BY DEF FailRead
<1>3. /\ DOMAIN record.metrics = DOMAIN store[d].metrics
      /\ \A m \in DOMAIN record.metrics :
           record.metrics[m] = [store[d].metrics[m] EXCEPT !.stale = TRUE]
  BY DEF RecordFailure
<1>4. \A m \in DOMAIN record.metrics : record.metrics[m].value = store[d].metrics[m].value
  <2> TAKE m \in DOMAIN record.metrics
  <2>1. PICK old : old = store[d].metrics[m] /\ DOMAIN old = {"value", "stale"}
    BY <1>1, <1>3 DEF IInv, MetricsWhole, Serial
  <2>2. record.metrics[m] = [old EXCEPT !.stale = TRUE]
    BY <1>3, <2>1
  <2> QED BY <2>1, <2>2
<1> HIDE DEF d, record
<1>5. DOMAIN store' = Devices /\ store'[d] = record /\ \A e \in Devices : e # d => store'[e] = store[e]
  BY <1>1, <1>2
<1>6. ASSUME NEW e \in Devices \ Mock PROVE ShownHonestly(e)'
  <2>1. ShownHonestly(e) /\ basis' = basis /\ ProfileFor(e)' = ProfileFor(e)
    BY <1>1, <1>2 DEF Honest, Serial, ProfileFor
  <2>2. CASE e = d
    <3>1. /\ DOMAIN store'[e].metrics = DOMAIN store[e].metrics
          /\ \A m \in DOMAIN store[e].metrics :
               store'[e].metrics[m].value = store[e].metrics[m].value
      BY <1>3, <1>4, <1>5, <2>2
    <3> QED BY <2>1, <3>1, Zenon DEF ShownHonestly
  <2>3. CASE e # d
    <3>1. store'[e] = store[e]
      BY <1>5, <2>3
    <3> QED BY <2>1, <3>1, Zenon DEF ShownHonestly
  <2> QED BY <2>2, <2>3
<1> QED BY <1>2, <1>5, <1>6 DEF Honest, ReadHonestly, Serial

LEMMA FinishIsHonest ==
  ASSUME IInv, Honest, Finish
  PROVE  Honest'
<1> DEFINE d == reading.device
           metrics == Collapsed(reading.samples)
           record == RecordSuccess(d, metrics)
<1>1. /\ reading # None /\ d \in Devices \ Mock /\ DOMAIN store = Devices
      /\ DOMAIN basis = Devices /\ IsSequence(reading.samples)
  BY DEF Finish, IInv, TypeInv, ReadingSound, StoreTyped
<1>2. /\ store' = [store EXCEPT ![d] = record] /\ basis' = [basis EXCEPT ![d] = reading.held]
      /\ reading' = None /\ UNCHANGED <<directory, proc, profiles, memory>>
  BY DEF Finish
<1>3. record.metrics = metrics
  BY SuccessFacts, Zenon
<1>4. ASSUME NEW m \in DOMAIN metrics
      PROVE  \E mem \in reading.held : Means(ProfileFor(d), mem, m, metrics[m].value)
  <2>1. m \in NamesIn(reading.samples)
    BY CollapsedFacts
  <2>2. PICK i \in DOMAIN reading.samples :
          reading.samples[i].metric = m /\ metrics[m].value = reading.samples[i].value
    BY <1>1, <2>1, CollapsedValue, ZenonT(40)
  <2>3. PICK mem \in reading.held :
          Means(ProfileFor(d), mem, reading.samples[i].metric, reading.samples[i].value)
    BY <1>1, Zenon DEF Honest, ReadHonestly
  <2> QED BY <2>2, <2>3, Zenon
<1> HIDE DEF d, metrics, record
<1>5. /\ DOMAIN store' = Devices /\ store'[d] = record
      /\ \A e \in Devices : e # d => store'[e] = store[e]
      /\ basis'[d] = reading.held
      /\ \A e \in Devices : e # d => basis'[e] = basis[e]
  BY <1>1, <1>2
<1>6. ASSUME NEW e \in Devices \ Mock PROVE ShownHonestly(e)'
  <2>1. ProfileFor(e)' = ProfileFor(e)
    BY <1>2 DEF ProfileFor
  <2>2. CASE e = d
    <3>1. store'[e].metrics = metrics /\ basis'[e] = reading.held
      BY <1>3, <1>5, <2>2
    <3> QED BY <1>4, <2>1, <2>2, <3>1, Zenon DEF ShownHonestly
  <2>3. CASE e # d
    <3>1. store'[e] = store[e] /\ basis'[e] = basis[e] /\ ShownHonestly(e)
      BY <1>1, <1>5, <2>3 DEF Honest, Serial
    <3> QED BY <2>1, <3>1, Zenon DEF ShownHonestly
  <2> QED BY <2>2, <2>3
<1> QED BY <1>2, <1>5, <1>6 DEF Honest, ReadHonestly, Serial
\* An element of a concatenation is one of either part.
LEMMA JoinedElements ==
  ASSUME NEW s, NEW t, IsSequence(s), IsSequence(t), NEW i \in DOMAIN (s \o t)
  PROVE  \/ \E j \in DOMAIN s : (s \o t)[i] = s[j]
         \/ \E j \in DOMAIN t : (s \o t)[i] = t[j]
<1>1. PICK S : s \in Seq(S)
  BY DEF IsSequence
<1>2. PICK T : t \in Seq(T)
  BY DEF IsSequence
<1>3. s \in Seq(S \cup T) /\ t \in Seq(S \cup T)
  BY <1>1, <1>2
<1> DEFINE u == s \o t
<1>4. /\ u \in Seq(S \cup T) /\ Len(u) = Len(s) + Len(t)
      /\ \A k \in 1 .. Len(s) + Len(t) : u[k] = IF k <= Len(s) THEN s[k] ELSE t[k - Len(s)]
  BY <1>3, ConcatProperties
<1>5. /\ Len(s) \in Nat /\ Len(t) \in Nat
      /\ DOMAIN s = 1 .. Len(s) /\ DOMAIN t = 1 .. Len(t) /\ DOMAIN u = 1 .. Len(s) + Len(t)
  BY <1>3, <1>4
<1> HIDE DEF u
<1>6. i \in 1 .. Len(s) + Len(t)
  BY <1>5 DEF u
<1>7. CASE i <= Len(s)
  <2>1. i \in DOMAIN s /\ u[i] = s[i]
    BY <1>4, <1>5, <1>6, <1>7
  <2> QED BY <2>1 DEF u
<1>8. CASE ~(i <= Len(s))
  <2>1. i - Len(s) \in DOMAIN t /\ u[i] = t[i - Len(s)]
    BY <1>4, <1>5, <1>6, <1>8
  <2> QED BY <2>1 DEF u
<1> QED BY <1>7, <1>8

\* One more entry: its words are read together, from what the device holds now.
LEMMA ReadIsHonest ==
  ASSUME IInv, Honest, StridesFit, ReadRegister
  PROVE  Honest'
<1> DEFINE d == reading.device
           p == ProfileFor(d)
           n == reading.next
           mem == memory[d]
<1>1. PICK outcome \in Outcomes :
        /\ outcome.status = "ok"
        /\ reading' = [reading EXCEPT !.next = @ + 1, !.samples = @ \o outcome.readings]
  BY DEF ReadRegister
<1>2. InProgress /\ Sendable /\ UNCHANGED <<directory, proc, profiles, memory, store, basis>>
  BY DEF ReadRegister
<1>3. /\ reading # None /\ Entry = p.registers[n] /\ n \in DOMAIN p.registers
      /\ FieldsTyped(Entry) /\ ValidRegister(Entry)
  BY <1>2, EntryFacts, Zenon DEF InProgress
<1>4. /\ d \in Devices \ Mock /\ DOMAIN reading = {"device", "next", "samples", "held"}
      /\ IsSequence(reading.samples) /\ mem \in Memories /\ mem \in reading.held
  BY <1>3 DEF IInv, TypeInv, ReadingSound, ProcTyped, Honest, ReadHonestly
<1>5. Requested(p, p.registers[n], mem, Raw)
  <2>1. p.registers[n].stride < Base
    <3>1. /\ directory \in Directories /\ Load(directory) # None
          /\ ProfileOf[d] \in DOMAIN Load(directory) /\ p = Load(directory)[ProfileOf[d]]
      BY <1>3, ReadProfile DEF IInv, TypeInv, ProcTyped
    <3> QED BY <1>3, <3>1, LoadedStrides
  <2>2. WordsOf(p, mem) \in [Word -> Word]
    BY <1>4, MemoryTyped
  <2>3. Complete(Entry, Raw)
    BY <1>2, RawFacts
  <2>4. RegisterCount(Entry) \in Nat /\ Entry.address + RegisterCount(Entry) <= Base
    BY <1>2, Constants DEF Sendable
  <2>5. Raw = [k \in 1 .. RegisterCount(Entry) |-> WordsOf(p, mem)[Entry.address + k - 1]]
    BY Zenon DEF Raw, WordsOf
  <2> HIDE DEF p, n, mem
  <2> QED BY <1>3, <2>1, <2>2, <2>3, <2>4, <2>5, Zenon DEF Requested
<1>6. ASSUME NEW i \in DOMAIN outcome.readings
      PROVE  Means(p, mem, outcome.readings[i].metric, outcome.readings[i].value)
  <2>1. outcome \in Decode(p.registers[n], Raw, p.word_order)
    BY <1>3 DEF Outcomes
  <2> HIDE DEF p, n, mem
  <2> QED BY <1>1, <1>3, <1>5, <2>1, SamplesMean
<1>7. IsSequence(outcome.readings)
  <2>1. outcome \in Decode(Entry, Raw, p.word_order) /\ Complete(Entry, Raw)
    BY <1>2, RawFacts DEF Outcomes
  <2> QED BY <1>1, <1>3, <2>1, DecodedNames, Zenon
<1> DEFINE more == reading.samples \o outcome.readings
<1>8. /\ reading'.device = d /\ reading'.samples = more /\ reading'.held = reading.held
  BY <1>1, <1>4
<1>9. ASSUME NEW i \in DOMAIN more
      PROVE  \E held \in reading.held : Means(p, held, more[i].metric, more[i].value)
  <2>1. CASE \E j \in DOMAIN reading.samples : more[i] = reading.samples[j]
    BY <1>3, <2>1, Zenon DEF Honest, ReadHonestly
  <2>2. CASE \E j \in DOMAIN outcome.readings : more[i] = outcome.readings[j]
    BY <1>4, <1>6, <2>2, Zenon
  <2>3. \/ \E j \in DOMAIN reading.samples : more[i] = reading.samples[j]
        \/ \E j \in DOMAIN outcome.readings : more[i] = outcome.readings[j]
    BY <1>4, <1>7, JoinedElements
  <2> QED BY <2>1, <2>2, <2>3
<1> HIDE DEF more
<1>10. ReadHonestly'
  <2>1. ProfileFor(reading.device)' = p /\ memory'[reading'.device] = mem
    BY <1>2, <1>8 DEF ProfileFor
  <2> HIDE DEF p, mem
  <2> QED BY <1>4, <1>8, <1>9, <2>1, Zenon DEF ReadHonestly
<1>11. \A e \in Serial' : ShownHonestly(e)'
  BY <1>2 DEF Honest, ShownHonestly, Serial, ProfileFor
<1> QED BY <1>10, <1>11 DEF Honest

LEMMA HonestKept == IInv /\ Honest /\ StridesFit /\ [Next]_vars => Honest'
<1> SUFFICES ASSUME IInv, Honest, StridesFit, [Next]_vars PROVE Honest'
  OBVIOUS
<1>1. CASE Start
  <2>1. /\ reading' = None
        /\ store' = [d \in Devices |-> [Fresh EXCEPT
             !.error = IF ProfileOf[d] \in DOMAIN profiles' THEN "" ELSE "unknown profile"]]
    BY <1>1 DEF Start
  <2>2. \A d \in DOMAIN store' : store'[d].metrics = <<>>
    <3> TAKE d \in DOMAIN store'
    <3> DEFINE reason == IF ProfileOf[d] \in DOMAIN profiles' THEN "" ELSE "unknown profile"
    <3>1. store'[d] = [Fresh EXCEPT !.error = reason]
      BY <2>1
    <3> HIDE DEF reason
    <3> QED BY <3>1 DEF Fresh
  <2>3. DOMAIN <<>> = {}
    OBVIOUS
  <2> QED BY <2>1, <2>2, <2>3 DEF Honest, ReadHonestly, ShownHonestly, Serial
<1>2. CASE ReadRegister
  BY <1>2, ReadIsHonest
<1>3. CASE Refused \/ WireFails \/ Undecodable
  BY <1>3, FailIsHonest DEF Refused, WireFails, Undecodable
<1>4. CASE Panic
  <2>1. reading' = None /\ store' = <<>> /\ DOMAIN <<>> = {}
    BY <1>4 DEF Panic
  <2> QED BY <2>1 DEF Honest, ReadHonestly, Serial
<1>5. CASE Finish
  BY <1>5, FinishIsHonest
<1>6. CASE Ask \/ UNCHANGED vars
  <2>1. UNCHANGED <<profiles, memory, reading, store, basis>>
    BY <1>6 DEF Ask, vars
  <2> QED BY <2>1 DEF Honest, ReadHonestly, ShownHonestly, Serial, ProfileFor
<1>7. ASSUME NEW d \in Devices, StartRead(d) PROVE Honest'
  <2>1. /\ reading' = [device |-> d, next |-> 1, samples |-> <<>>, held |-> {memory[d]}]
        /\ UNCHANGED <<profiles, memory, store, basis>>
    BY <1>7 DEF StartRead
  <2>2. reading'.device = d /\ reading'.samples = <<>> /\ reading'.held = {memory[d]} /\ DOMAIN <<>> = {}
    BY <2>1
  <2>3. ReadHonestly'
    BY <2>1, <2>2 DEF ReadHonestly
  <2> QED BY <2>1, <2>3 DEF Honest, ShownHonestly, Serial, ProfileFor
<1>8. ASSUME NEW d \in Devices, PollMock(d) PROVE Honest'
  <2>1. PICK metrics : store' = [store EXCEPT ![d] = RecordSuccess(d, metrics)]
    BY <1>8, Zenon DEF PollMock
  <2>2. reading = None /\ reading' = None /\ d \in Mock /\ UNCHANGED <<profiles, basis>>
    BY <1>8 DEF PollMock
  <2>3. DOMAIN store' = DOMAIN store /\ \A e \in Serial : store'[e] = store[e]
    BY <2>1, <2>2 DEF Serial
  <2> QED BY <2>2, <2>3 DEF Honest, ReadHonestly, ShownHonestly, Serial, ProfileFor
<1>9. ASSUME NEW d \in Devices, DeviceChanges(d) PROVE Honest'
  <2>1. PICK m \in Memories :
          /\ memory' = [memory EXCEPT ![d] = m]
          /\ reading' = IF reading # None /\ reading.device = d
                        THEN [reading EXCEPT !.held = @ \cup {m}] ELSE reading
    BY <1>9 DEF DeviceChanges
  <2>2. d \in Devices \ Mock /\ UNCHANGED <<profiles, store, basis>>
    BY <1>9 DEF DeviceChanges
  <2>3. DOMAIN memory = Devices \ Mock
    BY DEF IInv, TypeInv, ProcTyped
  <2>4. ReadHonestly'
    <3>1. CASE reading # None /\ reading.device = d
      <4>1. /\ DOMAIN reading = {"device", "next", "samples", "held"}
            /\ reading' = [reading EXCEPT !.held = @ \cup {m}]
        BY <2>1, <3>1 DEF IInv, TypeInv, ReadingSound
      <4>2. /\ reading'.device = d /\ reading'.samples = reading.samples
            /\ reading'.held = reading.held \cup {m} /\ memory'[d] = m
        BY <2>1, <2>2, <2>3, <3>1, <4>1
      <4> QED BY <2>2, <3>1, <4>2 DEF Honest, ReadHonestly, ProfileFor
    <3>2. CASE ~(reading # None /\ reading.device = d)
      <4>1. reading' = reading
        BY <2>1, <3>2
      <4>2. reading # None => memory'[reading.device] = memory[reading.device]
        BY <2>1, <2>3, <3>2 DEF IInv, TypeInv, ReadingSound
      <4> QED BY <2>2, <4>1, <4>2 DEF Honest, ReadHonestly, ProfileFor
    <3> QED BY <3>1, <3>2
  <2> QED BY <2>2, <2>4 DEF Honest, ShownHonestly, Serial, ProfileFor
<1> QED BY <1>1, <1>2, <1>3, <1>4, <1>5, <1>6, <1>7, <1>8, <1>9 DEF Next

\* Every value the store shows of a serial device is what its profile says of
\* words the device held during its last good reading, for words of any width,
\* any profiles whose strides are below the number of registers, and devices
\* that change their words between any two requests (Bus.Read, Register.Decode,
\* Store.RecordSuccess).
THEOREM ValuesAreHonest ==
  ASSUME StridesFit
  PROVE  Spec => []HonestValues
<1>1. Init => Honest
  <2>1. DOMAIN <<>> = {}
    OBVIOUS
  <2> QED BY <2>1 DEF Init, Honest, ReadHonestly, Serial
<1>2. IInv /\ Honest /\ [Next]_vars => Honest'
  BY HonestKept
<1>3. Honest => HonestValues
  BY DEF Honest, ShownHonestly, HonestValues
<1> QED BY <1>1, <1>2, <1>3, Invariance, PTL DEF Spec
===============================================================================
