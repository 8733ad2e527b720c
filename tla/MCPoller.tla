------------------------------ MODULE MCPoller ------------------------------
(* Configurations that put the interesting cases of reconcile next to each *)
(* other, for the runs of Poller.                                          *)
EXTENDS Poller

Device(id, profile, port, line, period) ==
  [id |-> id, profile |-> profile, port |-> port, line |-> line,
   period |-> period]

Of(period, devices) == [period |-> period, devices |-> devices]

\* Two devices share the bus on p1.
Shared == Of(2, <<Device("a", "meter", "p1", "9600", 0),
                  Device("b", "shunt", "p1", "9600", 0)>>)

\* a is gone, and the bus on p1 runs at another speed.
Rebauded == Of(1, <<Device("b", "meter", "p1", "19200", 0)>>)

\* The first entry of p1 has no usable parity; a moved to p2.
Moved == Of(1, <<Device("b", "shunt", "p1", "odd-ish", 2),
                 Device("a", "meter", "p2", "9600", 0)>>)

\* b refers to a profile that was not loaded; a is a mock device.
Unknown == Of(1, <<Device("a", "shunt", "mock", "9600", 0),
                   Device("b", "typo", "p1", "9600", 0)>>)

\* A hand-written file with the same id twice, and a profile Decode rejects.
Twice == Of(2, <<Device("a", "typo", "p1", "9600", 0),
                 Device("a", "badflag", "p2", "9600", 0)>>)

\* A parity that is not usable next to one that is, on the same port.
HalfUsable == Of(1, <<Device("a", "meter", "p1", "odd-ish", 0),
                      Device("b", "shunt", "p1", "9600", 0)>>)

OnlyMock == Of(1, <<Device("a", "shunt", "mock", "9600", 0)>>)

MCDevices   == {"a", "b"}
MCPorts     == {"p1", "p2"}
OnePort     == {"p1"}
MCLines     == {"9600", "19200", "odd-ish"}
MCValid     == {"9600", "19200"}
MCProfiles  == {"meter", "shunt", "badflag", "typo"}
MCKnown     == {"meter", "shunt", "badflag"}
MCUndecodable == {"badflag"}
MCPeriods   == {1, 2}

AllConfigs    == {Shared, Rebauded, Moved, Unknown, Twice, HalfUsable}
FewConfigs    == {Shared, Rebauded, Unknown}
GhostConfigs  == {Unknown, OnlyMock}

NoDisturbance == {}
AllDisturbances == {"edit during boot", "unreadable file"}
=============================================================================
