----------------------------- MODULE StoreSpec -----------------------------
(***************************************************************************)
(* What telemetry.Store promises its callers: every call takes effect at   *)
(* once.  A reader asks, is answered with the store as it is at a single   *)
(* moment before it leaves, and the answer is its own from then on.        *)
(***************************************************************************)
EXTENDS Naturals, Sequences

CONSTANTS
  Ids,        \* device ids
  Profiles,   \* identities Register gives a device
  Keys,       \* metric names
  Times,      \* poll times, which double as the values read then
  Readers,    \* HTTP handlers
  All,        \* the question Snapshot answers; Get asks for one id
  None

Measurement == [value : Times, stale : BOOLEAN]

VARIABLES
  known,    \* id -> what is known of the device
  order,    \* ids in registration order
  asked,    \* reader -> its question, or None
  answer    \* reader -> its answer, or None while it waits

specVars == <<known, order, asked, answer>>

NewDevice(id, profile) ==
  [id |-> id, profile |-> profile, online |-> FALSE, failed |-> FALSE,
   lastRead |-> 0, metrics |-> <<>>]

Fresh(t) == [k \in Keys |-> [value |-> t, stale |-> FALSE]]

AllStale(metrics) == [k \in DOMAIN metrics |-> [metrics[k] EXCEPT !.stale = TRUE]]

Init ==
  /\ known = <<>> /\ order = <<>>
  /\ asked = [r \in Readers |-> None]
  /\ answer = [r \in Readers |-> None]

Register(id, profile) ==
  /\ known' = [i \in DOMAIN known \cup {id} |->
       IF i # id THEN known[i]
       ELSE IF id \in DOMAIN known THEN [known[id] EXCEPT !.profile = profile]
       ELSE NewDevice(id, profile)]
  /\ order' = IF id \in DOMAIN known THEN order ELSE Append(order, id)
  /\ UNCHANGED <<asked, answer>>

\* The other devices keep their order.
Remove(id) ==
  /\ id \in DOMAIN known
  /\ known' = [i \in DOMAIN known \ {id} |-> known[i]]
  /\ \E place \in DOMAIN order :
       /\ order[place] = id
       /\ order' = [n \in 1..Len(order) - 1 |->
                      IF n < place THEN order[n] ELSE order[n + 1]]
  /\ UNCHANGED <<asked, answer>>

RecordSuccess(id, t) ==
  /\ id \in DOMAIN known
  /\ known' = [known EXCEPT ![id].online = TRUE, ![id].failed = FALSE,
                            ![id].lastRead = t, ![id].metrics = Fresh(t)]
  /\ UNCHANGED <<order, asked, answer>>

RecordFailure(id) ==
  /\ id \in DOMAIN known
  /\ known' = [known EXCEPT ![id].online = FALSE, ![id].failed = TRUE,
                            ![id].metrics = AllStale(@)]
  /\ UNCHANGED <<order, asked, answer>>

\* The answer to a question: devices in registration order.
Answer(question) ==
  IF question = All THEN [n \in DOMAIN order |-> known[order[n]]]
  ELSE IF question \in DOMAIN known THEN <<known[question]>>
  ELSE <<>>

Ask(r, question) ==
  /\ asked[r] = None
  /\ asked' = [asked EXCEPT ![r] = question]
  /\ UNCHANGED <<known, order, answer>>

Reply(r) ==
  /\ asked[r] # None /\ answer[r] = None
  /\ answer' = [answer EXCEPT ![r] = Answer(asked[r])]
  /\ UNCHANGED <<known, order, asked>>

Leave(r) ==
  /\ answer[r] # None
  /\ asked' = [asked EXCEPT ![r] = None]
  /\ answer' = [answer EXCEPT ![r] = None]
  /\ UNCHANGED <<known, order>>

Write ==
  \E id \in Ids :
    \/ \E profile \in Profiles : Register(id, profile)
    \/ Remove(id)
    \/ \E t \in Times : RecordSuccess(id, t)
    \/ RecordFailure(id)

Read ==
  \E r \in Readers :
    \/ \E question \in Ids \cup {All} : Ask(r, question)
    \/ Reply(r)
    \/ Leave(r)

Spec == Init /\ [][Write \/ Read]_specVars
=============================================================================
