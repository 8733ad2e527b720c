----------------------------- MODULE MCReadings -----------------------------
EXTENDS Readings

Plain == [type |-> "uint16", metric |-> "m", address |-> 0, scale |-> 0,
          values |-> <<>>, bit |-> {}, flags |-> {}, prefix |-> "",
          element |-> "", count |-> 0, stride |-> 0, start |-> 0]

File(id, type, order, registers) ==
  [id |-> id, category |-> "meter", schema_version |-> 0,
   register_type |-> type, word_order |-> order, registers |-> registers]

Only(registers) == <<File("p", "", "", registers)>>

\* Integers of both widths, a name used twice; a second profile, for the device "other".
Integers2 ==
  <<File("p", "input", "low_first",
      << [Plain EXCEPT !.type = "int32", !.metric = "energy", !.scale = 3],
         Plain, [Plain EXCEPT !.type = "int16", !.address = 1] >>)>>
Two == Only(<< [Plain EXCEPT !.type = "uint32", !.metric = "energy"] >>)
         \o <<File("q", "", "", << Plain >>)>>

\* An enum, both kinds of bool, and two flags of one name.
Kinds == Only(
  << [Plain EXCEPT !.type = "enum", !.metric = "state", !.values = (0 :> "off")],
     [Plain EXCEPT !.type = "bool", !.metric = "fault", !.address = 1],
     [Plain EXCEPT !.type = "bool", !.metric = "alarm", !.bit = {3}],
     [Plain EXCEPT !.type = "bitflags", !.metric = "", !.prefix = "status",
        !.flags = {<<3, "low">>, <<1, "low">>}] >>)

\* Arrays: strided, of wide elements, with an index of its own.
Arrays == Only(
  << [Plain EXCEPT !.type = "array", !.metric = "cell", !.element = "int16",
        !.count = 2, !.stride = 2],
     [Plain EXCEPT !.type = "array", !.metric = "bank", !.element = "float32",
        !.count = 2, !.start = 7] >>)

\* Accepted, and yet never readable: flag bits that do not exist, an array
\* longer than a request, arrays whose register count wraps around.
BadFlag == Only(<< Plain, [Plain EXCEPT !.type = "bitflags", !.flags = {<<4, "hot">>}] >>)
LongArray == Only(<< [Plain EXCEPT !.type = "array", !.element = "int16", !.count = 9] >>)
Wrapping == Only(<< [Plain EXCEPT !.type = "array", !.element = "int16", !.count = 17] >>)

\* Directories that do not load.
Twice == Only(<< Plain >>) \o Only(<< Plain >>)
Newer == <<[File("p", "", "", << Plain >>) EXCEPT !.schema_version = 3]>>
Unnamed == Only(<< [Plain EXCEPT !.metric = ""] >>)
Broken == <<Unreadable>>

MCDirectories ==
  {Integers2, Two, Kinds, Arrays, BadFlag, LongArray, Wrapping, Twice, Newer, Unnamed, Broken}
FloatDirectory == {Only(<< [Plain EXCEPT !.type = "float32", !.address = 2] >>)}

MCDeviceOrder == <<"serial", "mock", "other">>
MCProfileOf == [serial |-> "p", mock |-> "p", other |-> "q"]
MCMock == {"mock"}

Memory(input, holding) == [input |-> [a \in 0 .. Base - 1 |-> input[(a % 4) + 1]],
                           holding |-> [a \in 0 .. Base - 1 |-> holding[(a % 4) + 1]]]
MCMemories == {Memory(<<1, 2, 3, 4>>, <<0, 9, 15, 8>>),
               Memory(<<8, 15, 0, 6>>, <<11, 0, 15, 7>>)}
MCUnencodable == {15 * Base + 7}

MCRequests ==
  {[op |-> "device", id |-> "serial"], [op |-> "device", id |-> "gone"]}
    \cup {[op |-> "batch", selectors |-> s] : s \in
      {None, <<>>,
       << [id |-> "serial", metrics |-> << <<"m">>, <<"energy">> >>],
          [id |-> "gone", metrics |-> <<>>] >>,
       << [id |-> "mock", metrics |-> << <<"y">> >>], [id |-> "mock", metrics |-> << <<"x">> >>],
          [id |-> "mock", metrics |-> <<>>] >>,
       << [id |-> "mock", metrics |-> << <<"y">> >>], [id |-> "mock", metrics |-> << <<"x">> >>] >>}}
=============================================================================
