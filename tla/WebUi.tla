------------------------------- MODULE WebUi -------------------------------
(***************************************************************************)
(* The device page (web/app.js): the list that a timer refreshes, and the  *)
(* dialog that adds and edits a device.  JavaScript runs one handler at a  *)
(* time, from one await to the next; answers of the server arrive in any   *)
(* order, and the operator may click while they are under way.  Other      *)
(* clients change the devices too.  Of a device the page keeps what its    *)
(* two drop-downs show; the fields of plain text are set at once.          *)
(***************************************************************************)
EXTENDS Naturals, FiniteSets, FiniteSetsExt

CONSTANTS
  Ids,       \* device ids
  Profiles,  \* profile ids, numbered in the order the server lists them
  Offered,   \* those the server lists
  Ports,     \* serial adapters, numbered in the order of their names
  Mock,      \* the port of a device without hardware; greater than Ports
  MaxLoads,  \* bound: answers to the drop-downs' requests under way
  None

ASSUME UiAssumption ==
  /\ Offered \subseteq Profiles /\ Profiles \cup Ports \subseteq Nat /\ Mock \notin Ports
  /\ MaxLoads \in Nat /\ None \notin Ids \cup Profiles \cup Ports \cup {Mock}

VARIABLES
  server,    \* the configured devices: id -> its profile and port
  listed,    \* devicesById
  dialog,    \* open or not, editingId, and both drop-downs with their options
  loads,     \* number of a load -> what it still has to do to the drop-downs
  save,      \* the form's request under way, or None
  intended   \* history: what the edit was opened with, and whether its loads came
             \* one after the other; None once the operator chose otherwise, or
             \* rescanned while another port was shown

vars == <<server, listed, dialog, loads, save, intended>>

Device == [profile : Profiles, port : Ports \cup {Mock}]
Lists == UNION {[S -> Device] : S \in SUBSET Ids}
Without(f, x) == [y \in DOMAIN f \ {x} |-> f[y]]
With(f, x, value) == [y \in DOMAIN f \cup {x} |-> IF y = x THEN value ELSE f[y]]

Init ==
  /\ server \in Lists
  /\ listed = <<>>
  /\ dialog = [open |-> FALSE, editing |-> None, profile |-> None, port |-> None,
               profiles |-> {}, ports |-> {}]
  /\ loads = <<>> /\ save = None /\ intended = None

-----------------------------------------------------------------------------
(* The list.                                                               *)

\* A refresh is answered with the list of some moment since it was asked for; one
\* that fails changes nothing.  The answers of several may cross, and in the
\* meantime other clients may have had any devices there (OtherClient).
Refresh == listed' \in Lists /\ UNCHANGED <<server, dialog, loads, save, intended>>

-----------------------------------------------------------------------------
(* The dialog.                                                             *)

NewLoad == CHOOSE n \in 1 .. MaxLoads : n \notin DOMAIN loads
MayLoad == Cardinality(DOMAIN loads) < MaxLoads

\* openDialog up to its first await; None adds a device.
OpenDialog(id) ==
  LET device == IF id = None THEN [profile |-> None, port |-> None] ELSE listed[id]
  IN /\ ~dialog.open /\ MayLoad
     /\ dialog' = [dialog EXCEPT !.editing = id, !.profile = None, !.profiles = {}]
     /\ loads' = With(loads, NewLoad, [stage |-> "profiles", opens |-> TRUE,
                                       profile |-> device.profile, port |-> device.port])
     /\ intended' = IF id # None /\ loads = <<>>
                    THEN [profile |-> device.profile, port |-> device.port, alone |-> TRUE]
                    ELSE None
     /\ UNCHANGED <<server, listed, save>>

\* Fault: the saved profile is shown whether the server lists it or not.
SavedProfile(selected, arrived) == selected

\* An option that is not selected becomes so only in an empty drop-down.
SelectedProfile(selected, arrived) ==
  IF selected \in arrived THEN selected
  ELSE IF dialog.profiles # {} \/ arrived = {} THEN dialog.profile
  ELSE Min(arrived)

\* The profiles arrive, or cannot be had; loadSerialPorts begins.
ProfilesArrive(n) ==
  /\ loads[n].stage = "profiles"
  /\ \E arrived \in {Offered, {}} :
       dialog' = [dialog EXCEPT
         !.profile = SelectedProfile(loads[n].profile, arrived),
         !.profiles = @ \cup arrived, !.port = None, !.ports = {}]
  /\ loads' = [loads EXCEPT ![n].stage = "ports"]
  /\ UNCHANGED <<server, listed, save, intended>>

PortOptions(selected, arrived) ==
  {Mock} \cup arrived \cup (IF selected = None THEN {} ELSE {selected})

\* Fault: the drop-down is emptied when the answer is there.
Replaced(selected, arrived) == PortOptions(selected, arrived)

\* It was emptied when the load began: an overlapping one may have filled it since.
Appended(selected, arrived) == dialog.ports \cup PortOptions(selected, arrived)

\* A value that is not among the options leaves the drop-down empty.
SelectedPort(selected, arrived) ==
  LET wanted == IF selected # None THEN selected
                ELSE IF arrived = {} THEN Mock ELSE Min(arrived)
  IN IF wanted \in Appended(selected, arrived) THEN wanted ELSE None

\* The ports arrive: those plugged in by now, or none if the request failed.
PortsArrive(n) ==
  /\ loads[n].stage = "ports"
  /\ \E arrived \in SUBSET Ports :
       dialog' = [dialog EXCEPT
         !.ports = Appended(loads[n].port, arrived),
         !.port = SelectedPort(loads[n].port, arrived),
         !.open = @ \/ loads[n].opens]
  /\ loads' = Without(loads, n)
  /\ UNCHANGED <<server, listed, save, intended>>

\* Rescan keeps what the drop-down shows just now, which is nothing while an
\* earlier load has only emptied it.
Rescan ==
  /\ dialog.open /\ MayLoad
  /\ dialog' = [dialog EXCEPT !.port = None, !.ports = {}]
  /\ loads' = With(loads, NewLoad, [stage |-> "ports", opens |-> FALSE,
                                    profile |-> None, port |-> dialog.port])
  /\ intended' = IF intended = None \/ dialog.port \notin {intended.port, None} THEN None
                 ELSE [intended EXCEPT !.alone = @ /\ loads = <<>>]
  /\ UNCHANGED <<server, listed, save>>

Choose ==
  /\ dialog.open
  /\ \/ \E p \in dialog.profiles : dialog' = [dialog EXCEPT !.profile = p]
     \/ \E p \in dialog.ports : dialog' = [dialog EXCEPT !.port = p]
  /\ intended' = None
  /\ UNCHANGED <<server, listed, loads, save>>

Cancel ==
  /\ dialog.open /\ dialog' = [dialog EXCEPT !.open = FALSE]
  /\ intended' = None
  /\ UNCHANGED <<server, listed, loads, save>>

-----------------------------------------------------------------------------
(* Saving and removing.                                                    *)

\* Bound: one request under way.
Submit ==
  /\ dialog.open /\ save = None
  /\ \E id \in IF dialog.editing = None THEN Ids ELSE {dialog.editing} :
       save' = [method |-> IF dialog.editing = None THEN "POST" ELSE "PUT",
                id |-> id, profile |-> dialog.profile, port |-> dialog.port,
                status |-> None]
  /\ UNCHANGED <<server, listed, dialog, loads, intended>>

Remove(id) ==
  /\ ~dialog.open /\ save = None
  /\ save' = [method |-> "DELETE", id |-> id, profile |-> None, port |-> None,
              status |-> None]
  /\ UNCHANGED <<server, listed, dialog, loads, intended>>

\* What the endpoints accept; a POST must not find the id, the others must.
Accepted ==
  /\ (save.id \in DOMAIN server) = (save.method # "POST")
  /\ save.method # "DELETE" => save.profile \in Offered /\ save.port # None

Handle ==
  /\ save # None /\ save.status = None
  /\ server' = IF ~Accepted THEN server
               ELSE IF save.method = "DELETE" THEN Without(server, save.id)
               ELSE With(server, save.id, [profile |-> save.profile, port |-> save.port])
  /\ save' = [save EXCEPT !.status = IF Accepted THEN "ok" ELSE "refused"]
  /\ UNCHANGED <<listed, dialog, loads, intended>>

\* An accepted answer closes the dialog, whichever device it shows by now,
\* and refreshes the list.
SaveAnswered ==
  /\ save # None /\ save.status = "ok" /\ save' = None
  /\ dialog' = IF save.method = "DELETE" THEN dialog ELSE [dialog EXCEPT !.open = FALSE]
  /\ intended' = IF dialog' = dialog THEN intended ELSE None
  /\ UNCHANGED <<server, listed, loads>>

\* A refusal, or no answer, shows a message and changes nothing.
SaveFailed ==
  /\ save # None /\ save' = None
  /\ UNCHANGED <<server, listed, dialog, loads, intended>>

OtherClient ==
  /\ \E id \in Ids :
       \/ id \in DOMAIN server /\ server' = Without(server, id)
       \/ \E device \in Device : server' = With(server, id, device)
  /\ UNCHANGED <<listed, dialog, loads, save, intended>>

Next ==
  \/ Refresh
  \/ \E id \in DOMAIN listed \cup {None} : OpenDialog(id)
  \/ \E n \in DOMAIN loads : ProfilesArrive(n) \/ PortsArrive(n)
  \/ Rescan \/ Choose \/ Cancel \/ Submit \/ \E id \in DOMAIN listed : Remove(id)
  \/ Handle \/ SaveAnswered \/ SaveFailed \/ OtherClient

Spec == Init /\ [][Next]_vars

-----------------------------------------------------------------------------

\* Types of the variables: a drop-down shows one of its options or nothing.
TypeOK ==
  /\ {server, listed} \subseteq Lists
  /\ dialog.open \in BOOLEAN /\ dialog.editing \in Ids \cup {None}
  /\ dialog.profiles \subseteq Profiles /\ dialog.profile \in dialog.profiles \cup {None}
  /\ dialog.ports \subseteq Ports \cup {Mock} /\ dialog.port \in dialog.ports \cup {None}
  /\ DOMAIN loads \subseteq 1 .. MaxLoads
  /\ intended \in [profile : Profiles, port : Ports \cup {Mock}, alone : BOOLEAN] \cup {None}

\* "Keep a saved-but-unplugged interface selectable so editing doesn't drop
\* it" (loadSerialPorts): while the operator has chosen nothing, the saved port
\* is among the options once every load was answered, in whatever order those of
\* overlapping rescans were, and whatever was plugged in, unplugged or could not
\* be listed meanwhile.  It is the one that is shown, unless a rescan overlapped
\* another load.  The profile is kept if it still exists.
UntouchedIsKept ==
  (dialog.open /\ intended # None) =>
    /\ loads = <<>> => intended.port \in dialog.ports
    /\ intended.alone => dialog.port = IF loads = <<>> THEN intended.port ELSE None
    /\ intended.profile \in Offered => dialog.profile \in {intended.profile, None}
=============================================================================
