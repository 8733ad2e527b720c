---------------------------- MODULE WebUiProofs ----------------------------
(***************************************************************************)
(* The device page for any devices, profiles, adapters and number of       *)
(* requests under way: the drop-downs are well formed, and an edit that    *)
(* touches neither keeps both.                                             *)
(***************************************************************************)
EXTENDS WebUi, IndexLemmas, FiniteSetTheorems

\* The assumptions one by one; the provers do not look into a named ASSUME.
LEMMA Constants ==
  /\ Offered \subseteq Profiles /\ Profiles \subseteq Nat /\ Ports \subseteq Nat
  /\ Mock \notin Ports /\ MaxLoads \in Nat
  /\ None \notin Ids /\ None \notin Profiles /\ None \notin Ports /\ None # Mock
<1>1. /\ Offered \subseteq Profiles /\ Profiles \cup Ports \subseteq Nat
      /\ Mock \notin Ports /\ MaxLoads \in Nat
      /\ None \notin Ids \cup Profiles \cup Ports \cup {Mock}
  BY UiAssumption, Zenon DEF UiAssumption
<1> QED BY <1>1

Tables(K, V) == UNION {[S -> V] : S \in SUBSET K}
Port == Ports \cup {Mock}

Dialog == [open : BOOLEAN, editing : Ids \cup {None},
           profile : Profiles \cup {None}, port : Port \cup {None},
           profiles : SUBSET Profiles, ports : SUBSET Port]
Load == [stage : {"profiles", "ports"}, opens : BOOLEAN,
         profile : Profiles \cup {None}, port : Port \cup {None}]
Request == [method : {"POST", "PUT", "DELETE"}, id : Ids, profile : Profiles \cup {None},
            port : Port \cup {None}, status : {"ok", "refused", None}]

DevicesTyped == server \in Tables(Ids, Device) /\ listed \in Tables(Ids, Device)
DialogTyped ==
  /\ dialog \in Dialog
  /\ dialog.profile \in dialog.profiles \cup {None}
  /\ dialog.port \in dialog.ports \cup {None}
LoadsTyped == loads \in Tables(1 .. MaxLoads, Load)
SaveTyped == save \in Request \cup {None}
Opened == [profile : Profiles, port : Port, alone : BOOLEAN]
IntendedTyped == intended \in Opened \cup {None}

TypeInv == DevicesTyped /\ DialogTyped /\ LoadsTyped /\ SaveTyped /\ IntendedTyped

Carries(n) == loads[n].port = intended.port

\* Until it opens, the dialog has one load under way, the one that opens it.
Opening ==
  ~dialog.open =>
    /\ intended.alone
    /\ \E n \in DOMAIN loads : DOMAIN loads = {n} /\ loads[n].opens
    /\ \A n \in DOMAIN loads : loads[n].stage = "profiles" =>
         /\ loads[n].profile = intended.profile
         /\ dialog.profile = None /\ dialog.profiles = {}

\* After that all loads are rescans.  The device's port is among the options or
\* a load will bring it, and while no port is shown one that brings it is there.
Selectable ==
  dialog.open =>
    /\ \A n \in DOMAIN loads : loads[n].stage = "ports"
    /\ intended.port \in dialog.ports \/ \E n \in DOMAIN loads : Carries(n)
    /\ dialog.port = None => \E n \in DOMAIN loads : Carries(n)

\* Loads that come one after the other carry the device's port and empty the
\* drop-down; with none left it shows that port.
Alone ==
  intended.alone =>
    /\ \A m, n \in DOMAIN loads : m = n
    /\ \A n \in DOMAIN loads : Carries(n) /\ (loads[n].stage = "ports" => dialog.port = None)
    /\ DOMAIN loads = {} => dialog.port = intended.port

Tracked ==
  intended # None =>
    /\ Opening /\ Selectable /\ Alone
    /\ intended.profile \in Offered => dialog.profile \in {intended.profile, None}

IInv == TypeInv /\ Tracked

-----------------------------------------------------------------------------
(* Tables, and the first of a set of options.                              *)

LEMMA TableTypes ==
  ASSUME NEW K, NEW V, NEW f
  PROVE  f \in Tables(K, V) <=>
           /\ DOMAIN f \subseteq K
           /\ f = [x \in DOMAIN f |-> f[x]]
           /\ \A x \in DOMAIN f : f[x] \in V
<1>1. ASSUME f \in Tables(K, V)
      PROVE  DOMAIN f \subseteq K /\ f = [x \in DOMAIN f |-> f[x]] /\ \A x \in DOMAIN f : f[x] \in V
  <2>1. PICK S \in SUBSET K : f \in [S -> V]
    BY <1>1 DEF Tables
  <2> QED BY <2>1
<1>2. ASSUME DOMAIN f \subseteq K, f = [x \in DOMAIN f |-> f[x]], \A x \in DOMAIN f : f[x] \in V
      PROVE  f \in Tables(K, V)
  <2>1. f \in [DOMAIN f -> V]
    BY <1>2
  <2> QED BY <1>2, <2>1 DEF Tables
<1> QED BY <1>1, <1>2

LEMMA WithTypes ==
  ASSUME NEW K, NEW V, NEW f \in Tables(K, V), NEW x \in K, NEW v \in V
  PROVE  /\ With(f, x, v) \in Tables(K, V)
         /\ DOMAIN With(f, x, v) = DOMAIN f \cup {x}
         /\ \A y \in DOMAIN f \cup {x} : With(f, x, v)[y] = IF y = x THEN v ELSE f[y]
<1>1. DOMAIN f \subseteq K /\ \A y \in DOMAIN f : f[y] \in V
  BY TableTypes
<1>2. /\ DOMAIN With(f, x, v) = DOMAIN f \cup {x}
      /\ \A y \in DOMAIN f \cup {x} : With(f, x, v)[y] = IF y = x THEN v ELSE f[y]
      /\ With(f, x, v) = [y \in DOMAIN With(f, x, v) |-> With(f, x, v)[y]]
  BY DEF With
<1> QED BY <1>1, <1>2, TableTypes

LEMMA WithoutTypes ==
  ASSUME NEW K, NEW V, NEW f \in Tables(K, V), NEW x
  PROVE  /\ Without(f, x) \in Tables(K, V)
         /\ DOMAIN Without(f, x) = DOMAIN f \ {x}
         /\ \A y \in DOMAIN f \ {x} : Without(f, x)[y] = f[y]
<1>1. DOMAIN f \subseteq K /\ \A y \in DOMAIN f : f[y] \in V
  BY TableTypes
<1>2. /\ DOMAIN Without(f, x) = DOMAIN f \ {x}
      /\ \A y \in DOMAIN f \ {x} : Without(f, x)[y] = f[y]
      /\ Without(f, x) = [y \in DOMAIN Without(f, x) |-> Without(f, x)[y]]
  BY DEF Without
<1> QED BY <1>1, <1>2, TableTypes

LEMMA MinIsOne ==
  ASSUME NEW S, S \subseteq Nat, S # {}
  PROVE  Min(S) \in S
<1>1. \E m \in S : \A j \in S : m <= j
  BY Least
<1> QED BY <1>1 DEF Min

\* There is a number left for a new load.
LEMMA NewLoadIsNew ==
  ASSUME LoadsTyped, MayLoad
  PROVE  NewLoad \in 1 .. MaxLoads /\ NewLoad \notin DOMAIN loads
<1>1. DOMAIN loads \subseteq 1 .. MaxLoads
  BY TableTypes DEF LoadsTyped
<1>2. MaxLoads \in Nat
  BY Constants
<1>3. IsFiniteSet(1 .. MaxLoads) /\ Cardinality(1 .. MaxLoads) = MaxLoads
  <2>1. Cardinality(1 .. MaxLoads) = IF 1 > MaxLoads THEN 0 ELSE MaxLoads - 1 + 1
    BY <1>2, FS_Interval
  <2> QED BY <1>2, <2>1, FS_Interval
<1>4. \E n \in 1 .. MaxLoads : n \notin DOMAIN loads
  <2>1. SUFFICES ASSUME 1 .. MaxLoads \subseteq DOMAIN loads PROVE FALSE
    OBVIOUS
  <2>2. DOMAIN loads = 1 .. MaxLoads
    BY <1>1, <2>1
  <2>3. Cardinality(DOMAIN loads) = MaxLoads
    BY <1>3, <2>2
  <2> QED BY <1>2, <2>3 DEF MayLoad
<1> QED BY <1>4, Zenon DEF NewLoad

-----------------------------------------------------------------------------
(* The types.                                                              *)

\* What a record of the page has as its parts.
LEMMA Parts ==
  ASSUME TypeInv
  PROVE  /\ dialog.open \in BOOLEAN /\ dialog.editing \in Ids \cup {None}
         /\ dialog.profile \in Profiles \cup {None} /\ dialog.port \in Port \cup {None}
         /\ dialog.profiles \subseteq Profiles /\ dialog.ports \subseteq Port
         /\ DOMAIN loads \subseteq 1 .. MaxLoads /\ \A n \in DOMAIN loads : loads[n] \in Load
         /\ DOMAIN listed \subseteq Ids /\ \A id \in DOMAIN listed : listed[id] \in Device
<1>1. DOMAIN loads \subseteq 1 .. MaxLoads /\ \A n \in DOMAIN loads : loads[n] \in Load
  BY TableTypes DEF TypeInv, LoadsTyped
<1>2. DOMAIN listed \subseteq Ids /\ \A id \in DOMAIN listed : listed[id] \in Device
  BY TableTypes DEF TypeInv, DevicesTyped
<1> QED BY <1>1, <1>2 DEF TypeInv, DialogTyped, Dialog

LEMMA InitTypes == Init => TypeInv
<1> SUFFICES ASSUME Init PROVE TypeInv
  OBVIOUS
<1>1. server \in Tables(Ids, Device)
  BY Zenon DEF Init, Lists, Tables
<1>2. \A K, V : <<>> \in Tables(K, V)
  <2> TAKE K, V
  <2>1. DOMAIN <<>> = {} /\ <<>> = [x \in DOMAIN <<>> |-> <<>>[x]]
    OBVIOUS
  <2> QED BY <2>1, TableTypes
<1>3. DialogTyped
  BY DEF Init, DialogTyped, Dialog
<1> QED BY <1>1, <1>2, <1>3 DEF Init, TypeInv, DevicesTyped, LoadsTyped, SaveTyped, IntendedTyped

LEMMA OpenTypes ==
  ASSUME TypeInv, NEW id \in DOMAIN listed \cup {None}, OpenDialog(id)
  PROVE  TypeInv'
<1> DEFINE device == IF id = None THEN [profile |-> None, port |-> None] ELSE listed[id]
           load == [stage |-> "profiles", opens |-> TRUE,
                    profile |-> device.profile, port |-> device.port]
<1>1. id \in Ids \cup {None} /\ (id # None => device \in Device)
  BY Parts
<1>2. device.profile \in Profiles \cup {None} /\ device.port \in Port \cup {None}
  BY <1>1 DEF Device, Port
<1>3. load \in Load
  BY <1>2 DEF Load
<1>4. loads' = With(loads, NewLoad, load)
  BY Zenon DEF OpenDialog
<1> HIDE DEF load
<1>5. LoadsTyped'
  <2>1. LoadsTyped /\ MayLoad
    BY DEF OpenDialog, TypeInv
  <2>2. NewLoad \in 1 .. MaxLoads
    BY <2>1, NewLoadIsNew
  <2>3. With(loads, NewLoad, load) \in Tables(1 .. MaxLoads, Load)
    BY <1>3, <2>1, <2>2, WithTypes, Zenon DEF LoadsTyped
  <2> QED BY <1>4, <2>3 DEF LoadsTyped
<1>6. DialogTyped'
  BY <1>1 DEF OpenDialog, TypeInv, DialogTyped, Dialog
<1>7. IntendedTyped'
  <2>1. id # None => device.profile \in Profiles /\ device.port \in Port
    BY <1>1, Constants DEF Device, Port
  <2> QED BY <2>1 DEF OpenDialog, IntendedTyped, Opened
<1> QED BY <1>5, <1>6, <1>7 DEF OpenDialog, TypeInv, DevicesTyped, SaveTyped

LEMMA ProfilesTypes ==
  ASSUME TypeInv, NEW n \in DOMAIN loads, ProfilesArrive(n)
  PROVE  TypeInv'
<1>1. PICK arrived \in {Offered, {}} :
        dialog' = [dialog EXCEPT
          !.profile = SelectedProfile(loads[n].profile, arrived),
          !.profiles = @ \cup arrived, !.port = None, !.ports = {}]
  BY DEF ProfilesArrive
<1>2. arrived \subseteq Profiles /\ arrived \subseteq Nat
  BY Constants
<1>3. SelectedProfile(loads[n].profile, arrived) \in (dialog.profiles \cup arrived) \cup {None}
  <2>1. CASE arrived = {}
    BY <2>1 DEF SelectedProfile, TypeInv, DialogTyped
  <2>2. CASE arrived # {}
    BY <1>2, <2>2, MinIsOne DEF SelectedProfile, TypeInv, DialogTyped
  <2> QED BY <2>1, <2>2
<1>4. DialogTyped'
  <2> DEFINE shown == SelectedProfile(loads[n].profile, arrived)
  <2> HIDE DEF shown
  <2>1. dialog.profiles \cup arrived \in SUBSET Profiles /\ shown \in Profiles \cup {None}
    BY <1>2, <1>3, Parts DEF shown
  <2>2. dialog' = [dialog EXCEPT !.profile = shown,
          !.profiles = dialog.profiles \cup arrived, !.port = None, !.ports = {}]
    BY <1>1 DEF shown
  <2>3. shown \in (dialog.profiles \cup arrived) \cup {None}
    BY <1>3 DEF shown
  <2> QED BY <2>1, <2>2, <2>3 DEF TypeInv, DialogTyped, Dialog
<1>5. LoadsTyped'
  <2>1. loads' = [loads EXCEPT ![n].stage = "ports"]
    BY DEF ProfilesArrive
  <2>2. DOMAIN loads' \subseteq 1 .. MaxLoads /\ loads' = [k \in DOMAIN loads' |-> loads'[k]]
    BY <2>1, Parts
  <2>3. \A k \in DOMAIN loads' : loads'[k] \in Load
    BY <2>1, Parts DEF Load
  <2>4. loads' \in Tables(1 .. MaxLoads, Load)
    BY ZenonT(40), <2>2, <2>3, TableTypes
  <2> QED BY <2>4 DEF LoadsTyped
<1> QED BY <1>4, <1>5 DEF ProfilesArrive, TypeInv, DevicesTyped, SaveTyped, IntendedTyped

LEMMA PortsTypes ==
  ASSUME TypeInv, NEW n \in DOMAIN loads, PortsArrive(n)
  PROVE  TypeInv'
<1>1. PICK arrived \in SUBSET Ports :
        dialog' = [dialog EXCEPT
          !.ports = Appended(loads[n].port, arrived),
          !.port = SelectedPort(loads[n].port, arrived),
          !.open = @ \/ loads[n].opens]
  BY DEF PortsArrive
<1> DEFINE options == Appended(loads[n].port, arrived)
           shown == SelectedPort(loads[n].port, arrived)
           opened == dialog.open \/ loads[n].opens
<1>2. loads[n].port \in Port \cup {None} /\ loads[n].opens \in BOOLEAN
  BY Parts DEF Load
<1>3. options \in SUBSET Port
  BY <1>2, Parts DEF Appended, PortOptions, Port
<1>4. shown \in options \cup {None}
  BY DEF SelectedPort
<1>5. dialog' = [dialog EXCEPT !.ports = options, !.port = shown, !.open = opened]
  BY <1>1
<1>6. opened \in BOOLEAN
  OBVIOUS
<1> HIDE DEF options, shown, opened
<1>7. DialogTyped'
  BY <1>3, <1>4, <1>5, <1>6 DEF TypeInv, DialogTyped, Dialog
<1>8. LoadsTyped'
  BY WithoutTypes DEF PortsArrive, TypeInv, LoadsTyped
<1> QED BY <1>7, <1>8 DEF PortsArrive, TypeInv, DevicesTyped, SaveTyped, IntendedTyped

LEMMA RescanTypes ==
  ASSUME TypeInv, Rescan
  PROVE  TypeInv'
<1> DEFINE load == [stage |-> "ports", opens |-> FALSE, profile |-> None, port |-> dialog.port]
<1>1. load \in Load
  BY Parts DEF Load
<1>2. loads' = With(loads, NewLoad, load)
  BY Zenon DEF Rescan
<1> HIDE DEF load
<1>3. LoadsTyped'
  <2>1. LoadsTyped /\ MayLoad
    BY DEF Rescan, TypeInv
  <2>2. NewLoad \in 1 .. MaxLoads
    BY <2>1, NewLoadIsNew
  <2>3. With(loads, NewLoad, load) \in Tables(1 .. MaxLoads, Load)
    BY <1>1, <2>1, <2>2, WithTypes, Zenon DEF LoadsTyped
  <2> QED BY <1>2, <2>3 DEF LoadsTyped
<1>4. DialogTyped'
  BY DEF Rescan, TypeInv, DialogTyped, Dialog
<1>5. IntendedTyped'
  BY DEF Rescan, TypeInv, IntendedTyped, Opened
<1> QED BY <1>3, <1>4, <1>5 DEF Rescan, TypeInv, DevicesTyped, SaveTyped

LEMMA FormTypes ==
  ASSUME TypeInv, Choose \/ Cancel \/ Submit \/ \E id \in DOMAIN listed : Remove(id)
  PROVE  TypeInv'
<1>1. CASE Choose
  <2>1. DialogTyped'
    BY <1>1 DEF Choose, TypeInv, DialogTyped, Dialog
  <2> QED BY <1>1, <2>1 DEF Choose, TypeInv, DevicesTyped, LoadsTyped, SaveTyped, IntendedTyped
<1>2. CASE Cancel
  <2>1. DialogTyped'
    BY <1>2 DEF Cancel, TypeInv, DialogTyped, Dialog
  <2> QED BY <1>2, <2>1 DEF Cancel, TypeInv, DevicesTyped, LoadsTyped, SaveTyped, IntendedTyped
<1>3. CASE Submit
  <2>1. save' \in Request
    BY <1>3, Parts DEF Submit, Request
  <2> QED BY <1>3, <2>1
          DEF Submit, TypeInv, DevicesTyped, DialogTyped, LoadsTyped, SaveTyped, IntendedTyped
<1>4. CASE \E id \in DOMAIN listed : Remove(id)
  <2>1. PICK id \in DOMAIN listed : Remove(id)
    BY <1>4
  <2>2. save' \in Request
    BY <2>1, Parts DEF Remove, Request
  <2> QED BY <2>1, <2>2
          DEF Remove, TypeInv, DevicesTyped, DialogTyped, LoadsTyped, SaveTyped, IntendedTyped
<1> QED BY <1>1, <1>2, <1>3, <1>4

\* What the server accepts is a device.
LEMMA HandleTypes ==
  ASSUME TypeInv, Handle
  PROVE  TypeInv'
<1>1. save \in Request
  BY DEF TypeInv, SaveTyped, Handle
<1>2. save' \in Request
  BY <1>1 DEF Handle, Request
<1>3. server' \in Tables(Ids, Device)
  <2>1. CASE ~Accepted
    BY <2>1 DEF Handle, TypeInv, DevicesTyped
  <2>2. CASE Accepted /\ save.method = "DELETE"
    BY <2>2, WithoutTypes DEF Handle, TypeInv, DevicesTyped
  <2>3. CASE Accepted /\ save.method # "DELETE"
    <3> DEFINE device == [profile |-> save.profile, port |-> save.port]
    <3>1. device \in Device /\ save.id \in Ids
      BY <1>1, <2>3, Constants DEF Accepted, Request, Device, Port
    <3>2. server' = With(server, save.id, device)
      BY <2>3 DEF Handle
    <3> HIDE DEF device
    <3> QED BY <3>1, <3>2, WithTypes DEF TypeInv, DevicesTyped
  <2> QED BY <2>1, <2>2, <2>3
<1> QED BY <1>2, <1>3
        DEF Handle, TypeInv, DevicesTyped, DialogTyped, LoadsTyped, SaveTyped, IntendedTyped

LEMMA ServerTypes ==
  ASSUME TypeInv, Refresh \/ SaveAnswered \/ SaveFailed \/ OtherClient
  PROVE  TypeInv'
<1>1. CASE Refresh
  <2>1. listed' \in Tables(Ids, Device)
    BY <1>1, Zenon DEF Refresh, Lists, Tables
  <2> QED BY <1>1, <2>1
          DEF Refresh, TypeInv, DevicesTyped, DialogTyped, LoadsTyped, SaveTyped, IntendedTyped
<1>2. CASE SaveAnswered
  <2>1. DialogTyped'
    BY <1>2 DEF SaveAnswered, TypeInv, DialogTyped, Dialog
  <2> QED BY <1>2, <2>1
          DEF SaveAnswered, TypeInv, DevicesTyped, LoadsTyped, SaveTyped, IntendedTyped
<1>3. CASE SaveFailed
  BY <1>3 DEF SaveFailed, TypeInv, DevicesTyped, DialogTyped, LoadsTyped, SaveTyped, IntendedTyped
<1>4. CASE OtherClient
  <2>1. server' \in Tables(Ids, Device)
    <3>1. server \in Tables(Ids, Device)
      BY DEF TypeInv, DevicesTyped
    <3>2. PICK id \in Ids : \/ server' = Without(server, id)
                            \/ \E device \in Device : server' = With(server, id, device)
      BY <1>4 DEF OtherClient
    <3>3. CASE server' = Without(server, id)
      BY <3>1, <3>3, WithoutTypes, Zenon
    <3>4. CASE \E device \in Device : server' = With(server, id, device)
      <4>1. PICK device \in Device : server' = With(server, id, device)
        BY <3>4
      <4>2. With(server, id, device) \in Tables(Ids, Device)
        BY <3>1, WithTypes, Zenon
      <4> QED BY <4>1, <4>2
    <3> QED BY <3>2, <3>3, <3>4
  <2> QED BY <1>4, <2>1
          DEF OtherClient, TypeInv, DevicesTyped, DialogTyped, LoadsTyped, SaveTyped, IntendedTyped
<1> QED BY <1>1, <1>2, <1>3, <1>4

LEMMA TypesKept == TypeInv /\ [Next]_vars => TypeInv'
<1> SUFFICES ASSUME TypeInv, [Next]_vars PROVE TypeInv'
  OBVIOUS
<1>1. CASE UNCHANGED vars
  BY <1>1 DEF vars, TypeInv, DevicesTyped, DialogTyped, LoadsTyped, SaveTyped, IntendedTyped
<1>2. CASE \E id \in DOMAIN listed \cup {None} : OpenDialog(id)
  BY <1>2, OpenTypes
<1>3. CASE \E n \in DOMAIN loads : ProfilesArrive(n) \/ PortsArrive(n)
  BY <1>3, ProfilesTypes, PortsTypes
<1>4. CASE Rescan
  BY <1>4, RescanTypes
<1>5. CASE Choose \/ Cancel \/ Submit \/ \E id \in DOMAIN listed : Remove(id)
  BY <1>5, FormTypes
<1>6. CASE Handle
  BY <1>6, HandleTypes
<1>7. CASE Refresh \/ SaveAnswered \/ SaveFailed \/ OtherClient
  BY <1>7, ServerTypes
<1> QED BY <1>1, <1>2, <1>3, <1>4, <1>5, <1>6, <1>7 DEF Next

-----------------------------------------------------------------------------
(* What the dialog was opened with.                                        *)

LEMMA InitTracked == Init => Tracked
BY DEF Init, Tracked

\* A dialog that opens alone has one load under way, with the device's drop-downs.
LEMMA OpenTracked ==
  ASSUME TypeInv, NEW id \in DOMAIN listed \cup {None}, OpenDialog(id)
  PROVE  Tracked'
<1> SUFFICES ASSUME intended' # None PROVE Tracked'
  BY DEF Tracked
<1> DEFINE device == listed[id]
           load == [stage |-> "profiles", opens |-> TRUE,
                    profile |-> device.profile, port |-> device.port]
<1>1. /\ id \in DOMAIN listed /\ id # None /\ loads = <<>>
      /\ intended' = [profile |-> device.profile, port |-> device.port, alone |-> TRUE]
  BY DEF OpenDialog
<1>2. loads' = With(loads, NewLoad, load)
  BY <1>1, Zenon DEF OpenDialog
<1>3. DOMAIN loads' = {NewLoad} /\ loads'[NewLoad] = load
  BY <1>1, <1>2 DEF With
<1>4. dialog' = [dialog EXCEPT !.editing = id, !.profile = None, !.profiles = {}] /\ ~dialog.open
  BY DEF OpenDialog
<1>5. dialog'.profile = None /\ dialog'.profiles = {} /\ ~dialog'.open
  BY <1>4 DEF TypeInv, DialogTyped, Dialog
<1>6. /\ intended'.alone /\ intended'.profile = load.profile /\ intended'.port = load.port
      /\ load.stage = "profiles" /\ load.opens
  BY <1>1
<1> HIDE DEF load
<1>7. Opening' /\ Selectable' /\ Alone'
  BY <1>3, <1>5, <1>6 DEF Opening, Selectable, Alone, Carries
<1> QED BY <1>5, <1>7 DEF Tracked

\* The profiles arrive: the device's is shown if it is among them.
LEMMA ProfilesTracked ==
  ASSUME TypeInv, Tracked, NEW n \in DOMAIN loads, ProfilesArrive(n)
  PROVE  Tracked'
<1> SUFFICES ASSUME intended # None, intended' = intended PROVE Tracked'
  BY DEF Tracked, ProfilesArrive
<1>1. ~dialog.open /\ loads[n].stage = "profiles"
  BY DEF Tracked, Selectable, ProfilesArrive
<1>2. /\ DOMAIN loads = {n} /\ loads[n].opens /\ Carries(n) /\ intended.alone
      /\ loads[n].profile = intended.profile /\ dialog.profile = None /\ dialog.profiles = {}
  BY <1>1 DEF Tracked, Opening, Alone
<1>3. loads[n] \in Load
  BY Parts
<1>4. /\ DOMAIN loads' = {n} /\ loads'[n].stage = "ports" /\ loads'[n].opens
      /\ loads'[n].port = intended.port
  BY <1>2, <1>3 DEF ProfilesArrive, Load, Carries
<1>5. PICK arrived \in {Offered, {}} :
        dialog' = [dialog EXCEPT
          !.profile = SelectedProfile(loads[n].profile, arrived),
          !.profiles = @ \cup arrived, !.port = None, !.ports = {}]
  BY DEF ProfilesArrive
<1>6. /\ dialog'.port = None /\ dialog'.profile = SelectedProfile(loads[n].profile, arrived)
      /\ dialog'.open = dialog.open
  BY <1>5 DEF TypeInv, DialogTyped, Dialog
<1>7. intended.profile \in Offered => dialog'.profile \in {intended.profile, None}
  BY <1>2, <1>5, <1>6 DEF SelectedProfile
<1>8. Opening' /\ Selectable' /\ Alone'
  BY <1>1, <1>2, <1>4, <1>6 DEF Opening, Selectable, Alone, Carries
<1> QED BY <1>7, <1>8 DEF Tracked

\* What a drop-down shows when the ports have arrived is one of its options.
LEMMA PortShown ==
  ASSUME TypeInv, NEW n \in DOMAIN loads, NEW arrived \in SUBSET Ports
  PROVE  LET selected == loads[n].port
         IN /\ SelectedPort(selected, arrived) # None
            /\ selected # None => /\ selected \in Appended(selected, arrived)
                                  /\ SelectedPort(selected, arrived) = selected
<1> DEFINE selected == loads[n].port
<1>1. CASE selected # None
  <2>1. selected \in Appended(selected, arrived)
    BY <1>1 DEF Appended, PortOptions
  <2> QED BY <1>1, <2>1 DEF SelectedPort
<1>2. CASE selected = None
  <2> DEFINE wanted == IF arrived = {} THEN Mock ELSE Min(arrived)
  <2>1. wanted \in arrived \cup {Mock}
    BY Constants, MinIsOne
  <2>2. wanted \in Appended(selected, arrived) /\ wanted # None
    BY <2>1, Constants DEF Appended, PortOptions
  <2> QED BY <1>2, <2>2 DEF SelectedPort
<1> QED BY <1>1, <1>2

\* The ports arrive: what was among the options stays there, and the port that
\* the load carries is there now, too.
LEMMA PortsTracked ==
  ASSUME TypeInv, Tracked, NEW n \in DOMAIN loads, PortsArrive(n)
  PROVE  Tracked'
<1> SUFFICES ASSUME intended # None, intended' = intended PROVE Tracked'
  BY DEF Tracked, PortsArrive
<1> DEFINE selected == loads[n].port
<1>1. PICK arrived \in SUBSET Ports :
        dialog' = [dialog EXCEPT
          !.ports = Appended(selected, arrived),
          !.port = SelectedPort(selected, arrived),
          !.open = @ \/ loads[n].opens]
  BY DEF PortsArrive
<1>2. /\ dialog'.ports = Appended(selected, arrived) /\ dialog'.profile = dialog.profile
      /\ dialog'.port = SelectedPort(selected, arrived)
      /\ dialog'.open = (dialog.open \/ loads[n].opens)
  BY <1>1 DEF TypeInv, DialogTyped, Dialog
<1>3. intended.port # None
  BY Constants DEF TypeInv, IntendedTyped, Opened, Port
<1>4. /\ dialog'.port # None
      /\ Carries(n) => intended.port \in dialog'.ports /\ dialog'.port = intended.port
  BY <1>2, <1>3, PortShown DEF Carries
<1>5. dialog.ports \subseteq dialog'.ports
  BY <1>2 DEF Appended
<1>6. DOMAIN loads' = DOMAIN loads \ {n} /\ \A k \in DOMAIN loads' : loads'[k] = loads[k]
  BY DEF PortsArrive, Without
<1>7. dialog'.open
  <2>1. ~dialog.open => DOMAIN loads = {n} /\ loads[n].opens
    BY ZenonT(40) DEF Tracked, Opening
  <2> QED BY <1>2, <2>1
<1>8. Selectable'
  <2>1. CASE ~dialog.open
    <3>1. DOMAIN loads = {n} /\ Carries(n)
      BY <2>1, ZenonT(40) DEF Tracked, Opening, Alone
    <3> QED BY <1>4, <1>6, <3>1 DEF Selectable
  <2>2. CASE dialog.open
    <3>1. \A k \in DOMAIN loads' : loads'[k].stage = "ports"
      BY <1>6, <2>2 DEF Tracked, Selectable
    <3>2. intended.port \in dialog'.ports \/ \E k \in DOMAIN loads' : Carries(k)'
      BY <1>4, <1>5, <1>6, <2>2 DEF Tracked, Selectable, Carries
    <3> QED BY <1>4, <3>1, <3>2 DEF Selectable
  <2> QED BY <2>1, <2>2
<1>9. Alone'
  <2> SUFFICES ASSUME intended.alone PROVE DOMAIN loads' = {} /\ dialog'.port = intended.port
    BY DEF Alone
  <2>1. DOMAIN loads = {n} /\ Carries(n)
    BY DEF Tracked, Alone
  <2> QED BY <1>4, <1>6, <2>1
<1>10. Opening'
  BY <1>7 DEF Opening
<1> QED BY <1>2, <1>8, <1>9, <1>10 DEF Tracked

\* A rescan carries the port that is shown; if none is, an earlier load brings the
\* device's.
LEMMA RescanTracked ==
  ASSUME TypeInv, Tracked, Rescan
  PROVE  Tracked'
<1> SUFFICES ASSUME intended' # None PROVE Tracked'
  BY DEF Tracked
<1>1. /\ intended # None /\ dialog.port \in {intended.port, None}
      /\ intended' = [intended EXCEPT !.alone = @ /\ loads = <<>>]
  BY DEF Rescan
<1>2. /\ intended'.port = intended.port /\ intended'.profile = intended.profile
      /\ intended'.alone = (intended.alone /\ loads = <<>>)
  BY <1>1 DEF TypeInv, IntendedTyped, Opened
<1> DEFINE load == [stage |-> "ports", opens |-> FALSE, profile |-> None, port |-> dialog.port]
<1>3. loads' = With(loads, NewLoad, load)
  BY Zenon DEF Rescan
<1>4. NewLoad \notin DOMAIN loads
  BY NewLoadIsNew DEF TypeInv, Rescan
<1>5. /\ DOMAIN loads' = DOMAIN loads \cup {NewLoad} /\ loads'[NewLoad] = load
      /\ \A k \in DOMAIN loads : loads'[k] = loads[k]
  BY <1>3, <1>4 DEF With
<1>6. load.stage = "ports" /\ load.port = dialog.port
  OBVIOUS
<1> HIDE DEF load
<1>7. /\ dialog'.port = None /\ dialog'.profile = dialog.profile
      /\ dialog'.open = dialog.open /\ dialog.open
  BY DEF Rescan, TypeInv, DialogTyped, Dialog
<1>8. \E k \in DOMAIN loads' : Carries(k)'
  <2>1. CASE dialog.port = intended.port
    BY <1>2, <1>5, <1>6, <2>1 DEF Carries
  <2>2. CASE dialog.port = None
    <3>1. PICK k \in DOMAIN loads : Carries(k)
      BY <1>1, <1>7, <2>2 DEF Tracked, Selectable
    <3> QED BY <1>2, <1>5, <3>1 DEF Carries
  <2> QED BY <1>1, <2>1, <2>2
<1>9. \A k \in DOMAIN loads' : loads'[k].stage = "ports"
  BY <1>1, <1>5, <1>6, <1>7 DEF Tracked, Selectable
<1>10. Selectable' /\ Opening'
  BY <1>7, <1>8, <1>9 DEF Selectable, Opening
<1>11. Alone'
  <2> SUFFICES ASSUME intended.alone, loads = <<>> PROVE Alone'
    BY <1>2 DEF Alone
  <2>1. DOMAIN loads' = {NewLoad}
    BY <1>5
  <2> QED BY <1>7, <1>8, <2>1 DEF Alone, Carries
<1> QED BY <1>1, <1>2, <1>7, <1>10, <1>11 DEF Tracked

LEMMA TrackedKept == IInv /\ [Next]_vars => Tracked'
<1> SUFFICES ASSUME TypeInv, Tracked, [Next]_vars PROVE Tracked'
  BY DEF IInv
<1>1. CASE UNCHANGED <<dialog, loads, intended>>
  BY <1>1 DEF Tracked, Opening, Selectable, Alone, Carries
<1>2. CASE intended' = None
  BY <1>2 DEF Tracked
<1>3. CASE \E id \in DOMAIN listed \cup {None} : OpenDialog(id)
  BY <1>3, OpenTracked
<1>4. CASE \E n \in DOMAIN loads : ProfilesArrive(n) \/ PortsArrive(n)
  BY <1>4, ProfilesTracked, PortsTracked
<1>5. CASE Rescan
  BY <1>5, RescanTracked
<1>6. CASE SaveAnswered
  <2>1. CASE dialog' = dialog
    BY <1>1, <1>6, <2>1 DEF SaveAnswered
  <2>2. CASE dialog' # dialog
    BY <1>2, <1>6, <2>2 DEF SaveAnswered
  <2> QED BY <2>1, <2>2
<1>7. CASE Choose \/ Cancel
  BY <1>2, <1>7 DEF Choose, Cancel
<1>8. CASE \/ UNCHANGED vars
           \/ Submit \/ (\E id \in DOMAIN listed : Remove(id))
           \/ Refresh \/ Handle \/ SaveFailed \/ OtherClient
  BY <1>1, <1>8 DEF vars, Submit, Remove, Refresh, Handle, SaveFailed, OtherClient
<1> QED BY <1>3, <1>4, <1>5, <1>6, <1>7, <1>8 DEF Next

-----------------------------------------------------------------------------

\* The inductive invariant holds throughout.
THEOREM Invariance == Spec => []IInv
<1>1. Init => IInv
  BY InitTypes, InitTracked DEF IInv
<1>2. IInv /\ [Next]_vars => IInv'
  BY TypesKept, TrackedKept DEF IInv
<1> QED BY <1>1, <1>2, PTL DEF Spec

\* A drop-down shows one of its options or nothing, and what is listed,
\* configured, asked and loaded are devices, requests and loads (app.js).
THEOREM TypeCorrect == Spec => []TypeOK
<1>1. IInv => TypeOK
  <2> SUFFICES ASSUME TypeInv PROVE TypeOK
    BY DEF IInv
  <2>1. {server, listed} \subseteq Lists
    BY DEF TypeInv, DevicesTyped, Tables, Lists
  <2>2. dialog.profile \in dialog.profiles \cup {None} /\ dialog.port \in dialog.ports \cup {None}
    BY DEF TypeInv, DialogTyped
  <2>3. intended \in [profile : Profiles, port : Ports \cup {Mock}, alone : BOOLEAN] \cup {None}
    BY DEF TypeInv, IntendedTyped, Opened, Port
  <2> QED BY <2>1, <2>2, <2>3, Parts DEF TypeOK, Port
<1> QED BY <1>1, Invariance, PTL

\* In whatever order the answers of overlapping rescans arrive, whatever other
\* clients do and whichever adapters come and go: an edit of which nobody touched
\* a drop-down offers the device's port when they all have.  It shows that port,
\* and until then nothing, if no two loads overlapped; and it shows the device's
\* profile or nothing while there is such a profile (openDialog,
\* loadProfileOptions, loadSerialPorts).
THEOREM EditsKeepWhatTheyShow == Spec => []UntouchedIsKept
<1>1. IInv => UntouchedIsKept
  <2> SUFFICES ASSUME TypeInv, Tracked, dialog.open, intended # None
               PROVE  /\ loads = <<>> => intended.port \in dialog.ports
                      /\ intended.alone =>
                           dialog.port = IF loads = <<>> THEN intended.port ELSE None
                      /\ intended.profile \in Offered => dialog.profile \in {intended.profile, None}
    BY DEF IInv, UntouchedIsKept
  <2>1. loads = <<>> <=> DOMAIN loads = {}
    <3>1. ASSUME DOMAIN loads = {} PROVE loads = <<>>
      <4>1. loads = [n \in DOMAIN loads |-> loads[n]]
        BY TableTypes DEF TypeInv, LoadsTyped
      <4> QED BY <3>1, <4>1
    <3> QED BY <3>1
  <2>2. loads = <<>> => intended.port \in dialog.ports
    BY <2>1 DEF Tracked, Selectable
  <2>3. ASSUME intended.alone
        PROVE  dialog.port = IF loads = <<>> THEN intended.port ELSE None
    BY <2>1, <2>3 DEF Tracked, Selectable, Alone
  <2> QED BY <2>2, <2>3 DEF Tracked
<1> QED BY <1>1, Invariance, PTL
=============================================================================
