------------------------------ MODULE Profile ------------------------------
(***************************************************************************)
(* internal/profile/profile.go: which profile files are accepted, how many *)
(* registers a profile entry reads and what its raw words mean.  Base are *)
(* WordBits wide (16 in the code), so that the 16-bit arithmetic can be    *)
(* explored to its limits.  A metric name is the sequence of the parts the *)
(* code joins with dots.  A value is tagged with its kind.                 *)
(***************************************************************************)
EXTENDS Integers, Sequences, FiniteSets, TLC, SequencesExt

CONSTANTS
  WordBits,    \* bits of a register
  Unreadable,  \* a file that cannot be read or parsed
  None

ASSUME WordAssumption == WordBits \in Nat \ {0}

\* Arithmetic, of which the provers know nothing beyond that powers are numbers.
ASSUME PowersOfTwo ==
  \A n \in 0 .. WordBits - 1 : 2 ^ n > 0 /\ 2 ^ (n + 1) = 2 * 2 ^ n

Base == 2 ^ WordBits
U16(n) == n % Base
SignedIn(n, size) == IF n >= size \div 2 THEN n - size ELSE n

Wide == {"uint32", "int32", "float32"}
Numeric == {"uint16", "int16"} \cup Wide
Categories == {"meter", "charge_controller", "shunt", "inverter", "bms"}
CurrentSchemaVersion == 2

-----------------------------------------------------------------------------
(* How much a register entry reads.                                        *)

numericWidth(t) == IF t \in Wide THEN 2 ELSE 1

arrayStride(r) == IF r.stride > 0 THEN U16(r.stride) ELSE numericWidth(r.element)

\* Fault: the last element of an array is taken to be one register wide.
CountOfStrides(r) ==
  IF r.type = "array" THEN U16((r.count - 1) * arrayStride(r) + 1)
  ELSE IF r.type \in Numeric THEN numericWidth(r.type) ELSE 1

RegisterCount(r) ==
  CASE r.type \in {"enum", "bool", "bitflags"} -> 1
    [] r.type = "array" /\ r.count > 0 ->
         U16(U16(r.count - 1) * arrayStride(r) + numericWidth(r.element))
    [] r.type = "array" /\ r.count <= 0 -> numericWidth(r.element)
    [] OTHER -> numericWidth(r.type)

label(r) == IF r.metric # "" THEN r.metric ELSE r.prefix

-----------------------------------------------------------------------------
(* What the words mean.                                                    *)

\* Fault: the word order of the profile is ignored.
HighFirstOnly(raw, wo) == raw[1] * Base + raw[2]

combine32(raw, wo) ==
  IF wo = "low_first" THEN raw[2] * Base + raw[1] ELSE raw[1] * Base + raw[2]

decodeNumeric(t, raw, wo, scale) ==
  LET factor == IF scale = 0 THEN 1 ELSE scale
  IN CASE t = "uint16" -> [number |-> raw[1] * factor]
       [] t = "int16" -> [number |-> SignedIn(raw[1], Base) * factor]
       [] t = "uint32" -> [number |-> combine32(raw, wo) * factor]
       [] t = "int32" ->
            [number |-> SignedIn(combine32(raw, wo), Base * Base) * factor]
       [] t = "float32" -> [float |-> combine32(raw, wo), factor |-> factor]

\* A negative bit becomes a huge shift, which leaves nothing of the word.
bitSet(word, bit) == bit \in 0 .. WordBits - 1 /\ (word \div 2 ^ bit) % 2 = 1

decodeBool(word, bit) ==
  IF bit = {} THEN word # 0 ELSE \E b \in bit : bitSet(word, b)

Decoded(readings) == [status |-> "ok", readings |-> readings]
Undecoded(status) == [status |-> status, readings |-> <<>>]

One(metric, value) == Decoded(<<[metric |-> <<metric>>, value |-> value]>>)

DecodeEnum(r, code) ==
  One(r.metric, [label |-> IF code \in DOMAIN r.values THEN r.values[code]
                           ELSE "unknown(" \o ToString(code) \o ")"])

\* One outcome per order in which Go may walk the map of flags.
DecodeBitflags(r, word) ==
  IF \A f \in r.flags : f[1] \in 0 .. WordBits - 1
  THEN {Decoded([k \in DOMAIN s |->
                   [metric |-> <<label(r), s[k][2]>>,
                    value |-> [flag |-> bitSet(word, s[k][1])]]]) :
          s \in SetToSeqs(r.flags)}
  ELSE {Undecoded("error")}

FirstIndex(r) == IF r.start = 0 THEN 1 ELSE r.start

\* Slicing beyond the words that were read panics.
DecodeArray(r, raw, wo) ==
  LET width == numericWidth(r.element)
      Offset(i) == (i - 1) * arrayStride(r)
  IN IF \E i \in 1 .. r.count : Offset(i) + width > Len(raw)
     THEN Undecoded("panic")
     ELSE Decoded([i \in 1 .. r.count |->
            [metric |-> <<r.metric, ToString(FirstIndex(r) + i - 1)>>,
             value |-> decodeNumeric(r.element,
                         SubSeq(raw, Offset(i) + 1, Offset(i) + width),
                         wo, r.scale)]])

\* The outcomes of Register.Decode.
Decode(r, raw, wo) ==
  CASE Len(raw) < RegisterCount(r) -> {Undecoded("error")}
    [] Len(raw) >= RegisterCount(r) /\ r.type \in Numeric ->
         {One(r.metric, decodeNumeric(r.type, raw, wo, r.scale))}
    [] Len(raw) >= RegisterCount(r) /\ r.type = "enum" -> {DecodeEnum(r, raw[1])}
    [] Len(raw) >= RegisterCount(r) /\ r.type = "bool" ->
         {One(r.metric, [flag |-> decodeBool(raw[1], r.bit)])}
    [] Len(raw) >= RegisterCount(r) /\ r.type = "bitflags" ->
         DecodeBitflags(r, raw[1])
    [] Len(raw) >= RegisterCount(r) /\ r.type = "array" ->
         {DecodeArray(r, raw, wo)}

-----------------------------------------------------------------------------
(* Which profiles are accepted.                                            *)

ValidRegister(r) ==
  \/ /\ r.type \in Numeric \cup {"enum", "bool"} /\ r.metric # ""
     /\ r.type = "enum" => DOMAIN r.values # {}
  \/ r.type = "bitflags" /\ label(r) # "" /\ r.flags # {}
  \/ r.type = "array" /\ r.metric # "" /\ r.count > 0 /\ r.element \in Numeric

ValidProfile(p) ==
  /\ p.id # "" /\ p.category \in Categories
  /\ p.schema_version <= CurrentSchemaVersion
  /\ p.registers # <<>>
  /\ \A k \in DOMAIN p.registers : ValidRegister(p.registers[k])

Or(given, default) == IF given = "" THEN default ELSE given

applyDefaults(p) ==
  [p EXCEPT !.register_type = Or(@, "holding"), !.word_order = Or(@, "high_first"),
            !.schema_version = IF @ = 0 THEN CurrentSchemaVersion ELSE @]

\* profile.Load of a directory: profiles by id, or None when any file is bad.
Load(files) ==
  LET Accepted(k) == files[k] # Unreadable /\ ValidProfile(files[k])
      Named(id) == CHOOSE k \in DOMAIN files : files[k].id = id
  IN IF /\ \A k \in DOMAIN files : Accepted(k)
        /\ \A j, k \in DOMAIN files : files[j].id = files[k].id => j = k
     THEN [id \in {files[k].id : k \in DOMAIN files} |->
             applyDefaults(files[Named(id)])]
     ELSE None
=============================================================================
