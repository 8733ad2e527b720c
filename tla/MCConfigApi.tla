---------------------------- MODULE MCConfigApi ----------------------------
(* Small sets of files, devices and addresses for the runs of ConfigApi.   *)
EXTENDS ConfigApi

MCData  == {"meter", "typo", "blank"}
MCValid == {"meter", "typo"}

\* Addresses by name: the default, one whose port another program has, a free
\* one, and one on a host that is not ours.
MCAddrs   == {"8090", "80", "nowhere"}
MCGood    == {"8090", "80"}
MCTaken   == {"80"}
HostAddrs == {"8090", "9090", "far:8090"}
Far       == {"far:8090"}
MCPorts   == [a \in MCAddrs \cup HostAddrs |->
                IF a = "far:8090" THEN "8090" ELSE a]

\* Directories: the default one, and one that does not load.
OneDir    == {"profiles"}
MCDirs    == {"profiles", "broken"}
MCBroken  == {"broken"}
NoDirs    == {}
Kept      == {None}
AnyDir    == {None, "broken"}
MCOffers  == [d \in OneDir |-> {"meter"}]
AllOffers == [d \in MCDirs |-> IF d = "profiles" THEN {"meter"} ELSE {}]

Dev(id, data) == [id |-> id, data |-> data]
With(devices) == [addr |-> "8090", dir |-> "profiles", devices |-> devices]

\* The file of the first start: Default() with its one device.
FirstRun  == With(<<Dev("a", "meter")>>)
OnlyFirst == {FirstRun}

\* What an operator may do to the file.
NoEdits   == {}
Mishaps   == {Missing, Garbage, With(<<Dev("b", "meter")>>)}
=============================================================================
