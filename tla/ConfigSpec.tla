----------------------------- MODULE ConfigSpec -----------------------------
(***************************************************************************)
(* What the write endpoints of the API promise: each request is carried    *)
(* out at once, on the configuration as it is then.  Devices are a mapping *)
(* from id to data here; the file's order of entries is left out.          *)
(***************************************************************************)
EXTENDS Naturals

CONSTANTS
  Ids,         \* device ids
  Data,        \* the rest of a device: name, profile, unit, serial settings
  Offers,      \* profiles directory -> valid data whose profile is in it
  Addrs,       \* listen addresses
  AskedDirs,   \* what a request may give as profiles_dir; None: nothing
  Requests,    \* HTTP requests in flight
  Initial,     \* the settings and devices to start from
  None

VARIABLES
  settings,  \* http_addr and profiles_dir in the configuration
  devices,   \* id -> data
  pending,   \* request -> operation asked for, or None
  reply      \* request -> status given, or None

specVars == <<settings, devices, pending, reply>>

Init ==
  /\ <<settings, devices>> \in Initial
  /\ pending = [r \in Requests |-> None]
  /\ reply = [r \in Requests |-> None]

Ask(r) ==
  /\ pending[r] = None
  /\ \E op \in [op : {"create", "update"}, id : Ids, data : Data]
              \cup [op : {"delete"}, id : Ids]
              \cup [op : {"settings"}, addr : Addrs, dir : AskedDirs]
              \cup [op : {"list"}] :
       pending' = [pending EXCEPT ![r] = op]
  /\ UNCHANGED <<settings, devices, reply>>

Waiting(r, op) == pending[r] # None /\ pending[r].op = op /\ reply[r] = None

Answer(r, status) ==
  reply' = [reply EXCEPT ![r] = status] /\ UNCHANGED pending

Create(r) ==
  /\ Waiting(r, "create")
  /\ pending[r].id \notin DOMAIN devices /\ pending[r].data \in Offers[settings.dir]
  /\ devices' = [id \in DOMAIN devices \cup {pending[r].id} |->
       IF id = pending[r].id THEN pending[r].data ELSE devices[id]]
  /\ Answer(r, "created") /\ UNCHANGED settings

Update(r) ==
  /\ Waiting(r, "update")
  /\ pending[r].id \in DOMAIN devices /\ pending[r].data \in Offers[settings.dir]
  /\ devices' = [devices EXCEPT ![pending[r].id] = pending[r].data]
  /\ Answer(r, "ok") /\ UNCHANGED settings

Delete(r) ==
  /\ Waiting(r, "delete")
  /\ pending[r].id \in DOMAIN devices
  /\ devices' = [id \in DOMAIN devices \ {pending[r].id} |-> devices[id]]
  /\ Answer(r, "ok") /\ UNCHANGED settings

PutSettings(r) ==
  /\ Waiting(r, "settings")
  /\ settings' = [addr |-> pending[r].addr,
                  dir |-> IF pending[r].dir = None THEN settings.dir
                          ELSE pending[r].dir]
  /\ Answer(r, "ok") /\ UNCHANGED devices

List(r) == Waiting(r, "list") /\ Answer(r, "ok") /\ UNCHANGED <<settings, devices>>

\* A refusal changes nothing, and is given for a reason.
Refuse(r) ==
  /\ \/ /\ Waiting(r, "create") /\ pending[r].id \in DOMAIN devices
        /\ Answer(r, "exists")
     \/ /\ Waiting(r, "update") \/ Waiting(r, "delete")
        /\ pending[r].id \notin DOMAIN devices
        /\ Answer(r, "unknown device")
     \/ /\ Waiting(r, "create") \/ Waiting(r, "update")
        /\ pending[r].data \notin Offers[settings.dir]
        /\ Answer(r, "bad request")
     \/ /\ Waiting(r, "settings")
        /\ Answer(r, "bad request") \/ Answer(r, "port in use")
     \/ /\ pending[r] # None /\ reply[r] = None
        /\ Answer(r, "internal error")
  /\ UNCHANGED <<settings, devices>>

Leave(r) ==
  /\ reply[r] # None
  /\ pending' = [pending EXCEPT ![r] = None]
  /\ reply' = [reply EXCEPT ![r] = None]
  /\ UNCHANGED <<settings, devices>>

\* A crash loses the requests, those carried out but not yet answered too; the
\* configuration stays.
Crash ==
  /\ pending' = [r \in Requests |-> None]
  /\ reply' = [r \in Requests |-> None]
  /\ UNCHANGED <<settings, devices>>

Next ==
  \/ \E r \in Requests :
       Ask(r) \/ Create(r) \/ Update(r) \/ Delete(r) \/ PutSettings(r)
         \/ List(r) \/ Refuse(r) \/ Leave(r)
  \/ Crash

Spec == Init /\ [][Next]_specVars
=============================================================================
