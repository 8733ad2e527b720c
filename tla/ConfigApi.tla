----------------------------- MODULE ConfigApi -----------------------------
(***************************************************************************)
(* The config endpoints (internal/api/server.go) over config.json          *)
(* (internal/config/config.go), and the process that serves them: what it  *)
(* needs of that file to start (main.go), and systemd, which starts it     *)
(* again.  Every write handler holds writeMu from Load to Save; the        *)
(* handlers that only read, and the poll loop, call Load without it, and   *)
(* Load itself writes the file when it is missing.                         *)
(***************************************************************************)
EXTENDS Naturals, Sequences

CONSTANTS
  Ids, Data, Addrs, Dirs,
  Valid,        \* data that Device.Validate accepts
  Offers,       \* profiles directory -> valid data whose profile is in it
  Unloadable,   \* directories that profile.Load rejects as a whole
  AskedDirs,    \* what a request may give as profiles_dir; None: nothing
  GoodAddrs,    \* addresses that Config.Validate accepts
  PortOf,       \* address -> port
  Unbindable,   \* addresses with a port of another program, or a foreign host
  DefaultFile,  \* what Load writes when there is no file
  InitialFiles, \* what the file may be at startup
  HandEdits,    \* what an operator may write into it later
  Requests,     \* HTTP requests in flight
  MaxHandEdits, \* bound: how often the operator writes
  Missing, Garbage, None

Config ==
  [addr : Addrs, dir : Dirs, devices : Seq([id : Ids, data : Data])]

ASSUME ApiAssumption ==
  /\ Valid \subseteq Data /\ Offers \in [Dirs -> SUBSET Valid]
  /\ Unloadable \subseteq Dirs /\ AskedDirs \subseteq Dirs \cup {None}
  /\ GoodAddrs \cup Unbindable \subseteq Addrs /\ Addrs \subseteq DOMAIN PortOf
  /\ DefaultFile \in Config /\ InitialFiles \subseteq Config
  /\ HandEdits \subseteq Config \cup {Missing, Garbage}
  /\ MaxHandEdits \in Nat

VARIABLES
  file,      \* config.json: a configuration, Garbage or Missing
  writeMu,   \* the request that holds the mutex, or None
  req,       \* request -> where it is, its operation, the config it loaded
  proc,      \* the process: "up", or "down" until systemd starts it
  bound,     \* the address it listens on; None when it could not bind
  edits      \* how often the operator has written

vars == <<file, writeMu, req, proc, bound, edits>>

Idle == [pc |-> "idle", op |-> None, seen |-> None, status |-> None]

Writes == {"create", "update", "delete", "settings"}

Ops == [op : {"create", "update"}, id : Ids, data : Data]
         \cup [op : {"delete"}, id : Ids]
         \cup [op : {"settings"}, addr : Addrs, dir : AskedDirs]
         \cup [op : {"list"}]

Answers == {"ok", "created", "bad request", "exists", "unknown device",
            "port in use", "internal error"}

\* Nothing that is there is named like what is missing.
ASSUME NamesAssumption ==
  /\ Missing \notin Config /\ Garbage \notin Config
  /\ None \notin Config \cup Requests \cup Ops \cup Answers

\* Data are taken after applyDefaults, which Load applies and Save keeps.
Positions(c, id) == {k \in DOMAIN c.devices : c.devices[k].id = id}

FirstAt(c, id) ==
  CHOOSE k \in Positions(c, id) : \A j \in Positions(c, id) : k <= j

Listed(c, id) == Positions(c, id) # {}

WithoutAt(s, k) == SubSeq(s, 1, k - 1) \o SubSeq(s, k + 1, Len(s))

\* Fault: settings are saved into a configuration without devices.
EditedFromRequest(op, c) ==
  CASE op.op = "create" ->
         [c EXCEPT !.devices = Append(@, [id |-> op.id, data |-> op.data])]
    [] op.op = "update" ->
         [c EXCEPT !.devices[FirstAt(c, op.id)] = [id |-> op.id, data |-> op.data]]
    [] op.op = "delete" ->
         [c EXCEPT !.devices = WithoutAt(@, FirstAt(c, op.id))]
    [] op.op = "settings" -> [addr |-> op.addr, dir |-> c.dir, devices |-> <<>>]

\* What the handler saves: the configuration it loaded, with its change made.
Edited(op, c) ==
  CASE op.op = "create" ->
         [c EXCEPT !.devices = Append(@, [id |-> op.id, data |-> op.data])]
    [] op.op = "update" ->
         [c EXCEPT !.devices[FirstAt(c, op.id)] = [id |-> op.id, data |-> op.data]]
    [] op.op = "delete" ->
         [c EXCEPT !.devices = WithoutAt(@, FirstAt(c, op.id))]
    [] op.op = "settings" ->
         [c EXCEPT !.addr = op.addr, !.dir = IF op.dir = None THEN @ ELSE op.dir]

\* checkAddrFree fails on a port that is bound, be it by our own server.
Free(a) == a \notin Unbindable /\ (bound = None \/ PortOf[a] # PortOf[bound])

\* checkProfile reads the profiles directory of the configuration.
ProfileVerdict(op, c) ==
  IF c.dir \in Unloadable THEN "internal error"
  ELSE IF op.data \notin Offers[c.dir] THEN "bad request" ELSE "save"

\* Fault: an id that is already there is not refused.
LaxVerdict(op, c) ==
  IF op.op \in {"update", "delete"} /\ ~Listed(c, op.id) THEN "unknown device"
  ELSE IF op.op \in {"create", "update"} THEN ProfileVerdict(op, c)
  ELSE "save"

\* The checks between Load and Save, in the order of the handlers.
Verdict(op, c) ==
  CASE op.op = "create" ->
         IF Listed(c, op.id) THEN "exists" ELSE ProfileVerdict(op, c)
    [] op.op = "update" ->
         IF Listed(c, op.id) THEN ProfileVerdict(op, c) ELSE "unknown device"
    [] op.op = "delete" ->
         IF Listed(c, op.id) THEN "save" ELSE "unknown device"
    [] op.op = "settings" ->
         IF op.addr \notin GoodAddrs THEN "bad request"
         ELSE IF PortOf[op.addr] # PortOf[c.addr] /\ ~Free(op.addr)
              THEN "port in use" ELSE "save"

Success(op) == IF op.op = "create" THEN "created" ELSE "ok"

-----------------------------------------------------------------------------
(* One request, step by step.                                              *)

Set(r, pc, status) ==
  req' = [req EXCEPT ![r].pc = pc, ![r].status = status]

\* The handler answers: the deferred Unlock follows.
Finish(r, status) == Set(r, "answered", status)

Receive(r) ==
  /\ proc = "up" /\ bound # None /\ req[r].pc = "idle"
  /\ \E op \in Ops :
       req' = [req EXCEPT ![r] = [Idle EXCEPT !.pc = "received", !.op = op]]
  /\ UNCHANGED <<file, writeMu, proc, bound, edits>>

\* Device.Validate is applied before the mutex is taken; a device body that
\* cannot be decoded counts as data that is not valid.
Acceptable(op) == op.op \in {"create", "update"} => op.data \in Valid

Validate(r) ==
  /\ req[r].pc = "received"
  /\ LET op == req[r].op
     IN  \/ /\ Acceptable(op)
            /\ Set(r, IF op.op \in Writes THEN "waiting" ELSE "loading", None)
         \/ /\ ~Acceptable(op) \/ op.op = "settings"
            /\ Finish(r, "bad request")
  /\ UNCHANGED <<file, writeMu, proc, bound, edits>>

\* Fault: the handler does not wait for the mutex.
MutexIgnored == TRUE

MutexFree == writeMu = None

Acquire(r) ==
  /\ req[r].pc = "waiting" /\ MutexFree
  /\ writeMu' = r
  /\ Set(r, "loading", None)
  /\ UNCHANGED <<file, proc, bound, edits>>

\* Load, of which reading the file is the first step.
ReadFile(r) ==
  /\ req[r].pc = "loading"
  /\ \/ /\ file = Garbage /\ Finish(r, "internal error")
     \/ /\ file = Missing /\ Set(r, "writing default", None)
     \/ /\ file \notin {Garbage, Missing}
        /\ req' = [req EXCEPT ![r].pc = "loaded", ![r].seen = file]
  /\ UNCHANGED <<file, writeMu, proc, bound, edits>>

\* Fault: the default configuration is written and no configuration returned.
NothingReturned == None

DefaultReturned == DefaultFile

\* Load of a missing file: the rename at the end of Save, or its failure.
WriteDefault(r) ==
  /\ req[r].pc = "writing default"
  /\ \/ /\ file' = DefaultFile
        /\ req' = [req EXCEPT ![r].pc = "loaded", ![r].seen = DefaultReturned]
     \/ UNCHANGED file /\ Finish(r, "internal error")
  /\ UNCHANGED <<writeMu, proc, bound, edits>>

\* GET devices, settings or profiles; the last reads the profiles directory.
Reply(r) ==
  /\ req[r].pc = "loaded" /\ req[r].op.op \notin Writes
  /\ \E status \in {"ok", "internal error"} : Finish(r, status)
  /\ UNCHANGED <<file, writeMu, proc, bound, edits>>

\* Reading the profiles directory may also fail this once.
Check(r) ==
  /\ req[r].pc = "loaded" /\ req[r].op.op \in Writes
  /\ LET v == Verdict(req[r].op, req[r].seen)
     IN  \/ v = "save" /\ Set(r, "saving", None)
         \/ v # "save" /\ Finish(r, v)
         \/ /\ req[r].op.op \in {"create", "update"}
            /\ v \in {"save", "bad request"}
            /\ Finish(r, "internal error")
  /\ UNCHANGED <<file, writeMu, proc, bound, edits>>

\* Save writes a temporary file of its own and renames it over config.json;
\* an error before the rename leaves config.json alone.
Rename(r) ==
  /\ req[r].pc = "saving"
  /\ \/ /\ file' = Edited(req[r].op, req[r].seen)
        /\ Finish(r, Success(req[r].op))
     \/ UNCHANGED file /\ Finish(r, "internal error")
  /\ UNCHANGED <<writeMu, proc, bound, edits>>

\* Fault: an early return keeps the mutex.
KeptOnError(r) == IF req[r].status \in {"ok", "created"} THEN None ELSE writeMu

Released(r) == IF writeMu = r THEN None ELSE writeMu

Respond(r) ==
  /\ req[r].pc = "answered"
  /\ req' = [req EXCEPT ![r] = Idle]
  /\ writeMu' = Released(r)
  /\ UNCHANGED <<file, proc, bound, edits>>

-----------------------------------------------------------------------------
\* The operator replaces or removes config.json, with no regard for writeMu.
HandEdit ==
  /\ edits < MaxHandEdits
  /\ edits' = edits + 1
  /\ file' \in HandEdits \ {file}
  /\ UNCHANGED <<writeMu, req, proc, bound>>

\* A file that is not there counts as the default configuration.
Effective == IF file = Missing THEN DefaultFile ELSE file

\* run needs a configuration it can parse and profiles it can load.
Startable(f) == f # Garbage /\ (f # Missing => f.dir \notin Unloadable)

\* A bind that fails is only logged: the process runs on without an API.
BoundAtStart(c) == IF c.addr \in Unbindable THEN None ELSE c.addr

\* run, up to the point where it serves.
Start ==
  /\ proc = "down" /\ Startable(Effective)
  /\ file' = Effective
  /\ proc' = "up" /\ bound' = BoundAtStart(Effective)
  /\ UNCHANGED <<writeMu, req, edits>>

\* run returns an error, and systemd tries again three seconds later.  A
\* missing configuration was written by then.
FailToStart ==
  /\ proc = "down" /\ ~Startable(Effective)
  /\ file' = Effective
  /\ UNCHANGED <<writeMu, req, proc, bound, edits>>

\* The process ends, and with it the requests it was serving.
Crash ==
  /\ proc = "up"
  /\ proc' = "down" /\ bound' = None
  /\ req' = [r \in Requests |-> Idle]
  /\ writeMu' = None
  /\ UNCHANGED <<file, edits>>

Init ==
  /\ file \in InitialFiles
  /\ writeMu = None
  /\ req = [r \in Requests |-> Idle]
  /\ proc = "down" /\ bound = None
  /\ edits = 0

Handle(r) ==
  \/ Validate(r) \/ Acquire(r) \/ ReadFile(r) \/ WriteDefault(r) \/ Reply(r) \/ Check(r)
  \/ Rename(r) \/ Respond(r)

Next ==
  \/ \E r \in Requests : Receive(r) \/ Handle(r)
  \/ HandEdit
  \/ Start \/ FailToStart \/ Crash

Spec == Init /\ [][Next]_vars

\* A handler goes on; a goroutine that waits for a sync.Mutex is handed it in
\* the end, however many others come and go.
FairSpec ==
  Spec /\ \A r \in Requests : WF_vars(Handle(r)) /\ SF_vars(Acquire(r))

-----------------------------------------------------------------------------
(* Properties.                                                             *)

\* Every variable has its type, and a handler past Load has a configuration.
TypeOK ==
  /\ file \in {Missing, Garbage} \/ file \in Config
  /\ writeMu \in Requests \cup {None}
  /\ \A r \in Requests :
       /\ req[r].pc \in {"idle", "received", "waiting", "loading", "writing default",
                         "loaded", "saving", "answered"}
       /\ req[r].op \in Ops \cup {None}
       /\ req[r].seen \in Config \/ (req[r].seen = None
                                       /\ req[r].pc \notin {"loaded", "saving"})
       /\ req[r].status \in Answers \cup {None}
  /\ proc \in {"up", "down"} /\ bound \in Addrs \cup {None}
  /\ edits \in 0..MaxHandEdits

UniqueIds(c) == \A j, k \in DOMAIN c.devices :
                  c.devices[j].id = c.devices[k].id => j = k

\* No sequence of requests puts an id into the file twice.
NoDuplicateIds == file \notin {Missing, Garbage} => UniqueIds(file)

\* Between Load and Save of a write the mutex is its own.
OneWriter ==
  \A r \in Requests :
    req[r].pc \in {"loaded", "saving"} /\ req[r].op.op \in Writes => writeMu = r

\* Every request is answered: no path keeps the mutex.
RequestsAnswered == \A r \in Requests : req[r].pc # "idle" ~> req[r].pc = "idle"

AsMapping(c) ==
  [id \in {c.devices[k].id : k \in DOMAIN c.devices} |->
     c.devices[FirstAt(c, id)].data]

\* A request counts as carried out when its status is decided.
Atomic == INSTANCE ConfigSpec WITH
  settings <- [addr |-> Effective.addr, dir |-> Effective.dir],
  devices  <- AsMapping(Effective),
  pending  <- [r \in Requests |-> req[r].op],
  reply    <- [r \in Requests |-> req[r].status],
  Initial  <- {<<[addr |-> c.addr, dir |-> c.dir], AsMapping(c)>> : c \in InitialFiles}

\* As long as nobody else writes the file, the handlers together do what one
\* request after the other would do.
AtomicRequests ==
  /\ Atomic!Init
  /\ [][edits' = 0 => [Atomic!Next]_(Atomic!specVars)]_vars

SavesUnloadable(r) ==
  req[r].pc = "saving" /\ req[r].op.op = "settings" /\ req[r].op.dir \in Unloadable

\* As long as nobody else writes the file, nothing but a PUT of a profiles_dir
\* that cannot be loaded makes a file the process cannot start from: no race of
\* requests, crashes and restarts brings back one that had been repaired.
OnlyProfilesDirWedges ==
  [][edits' = 0 /\ Startable(file) /\ ~Startable(file')
       => \E r \in Requests : SavesUnloadable(r)]_vars

-----------------------------------------------------------------------------
(* What a comment says and the code does not do.                           *)

\* server.go: a changed port is tried first, "otherwise the change would
\* silently break the server on next restart": what the settings endpoint has
\* accepted can be bound.
RestartKeepsApi == proc = "up" /\ edits = 0 => bound # None
=============================================================================
