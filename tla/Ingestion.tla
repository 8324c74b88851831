------------------------------ MODULE Ingestion ------------------------------
(***************************************************************************)
(* Telemetry on its way into sensor_reading: the HTTP endpoint (api.py),   *)
(* the MQTT subscriber (mqtt_service.py) and the storage path they share   *)
(* (store.py).  A client that posts may time out and post again; the       *)
(* broker, the devices and the database are modelled from what the code    *)
(* relies on.                                                              *)
(*                                                                         *)
(* requirements.txt pins no FastAPI version, and versions differ in        *)
(* whether get_session commits before or after the answer is sent: order   *)
(* is the one that is installed.                                           *)
(***************************************************************************)
EXTENDS Integers, Sequences, FiniteSets, Functions

CONSTANTS Reading,     \* payloads
          NodeOf,      \* NodeOf[r]: its network_node_id
          Malformed,   \* payloads that do not validate
          MaxPosts,    \* bound: postings
          MaxPublished,\* bound: publications of one reading
          MaxTroubles  \* bound: database errors, lost links and crashes

ASSUME IngestionAssumption ==
  /\ DOMAIN NodeOf = Reading /\ Malformed \subseteq Reading
  /\ {MaxPosts, MaxPublished, MaxTroubles} \subseteq Nat

VARIABLES order,      \* "commit first" or "answer first"
          known,      \* committed network nodes
          stored,     \* stored[r]: committed rows of sensor_reading with payload r
          requests,   \* the postings: [reading, stage, answer]
          link,       \* the subscriber: "down", "connected", "subscribed"
          inbox,      \* messages sent to the subscriber and not handled
          published,  \* history: published[r]
          troubles    \* bound

vars == <<order, known, stored, requests, link, inbox, published, troubles>>

Posts(r) == {i \in DOMAIN requests : requests[i].reading = r}

Init ==
  /\ order \in {"commit first", "answer first"}
  /\ known = {}
  /\ stored = [r \in Reading |-> 0] /\ published = [r \in Reading |-> 0]
  /\ requests = <<>> /\ inbox = <<>>
  /\ link = "down" /\ troubles = 0

Trouble == troubles < MaxTroubles /\ troubles' = troubles + 1

\* Another session commits a node of the hierarchy.
Provision(n) ==
  /\ n \notin known /\ known' = known \cup {n}
  /\ UNCHANGED <<order, stored, requests, link, inbox, published, troubles>>

\* store_reading finds the node, and the payload validates.
Storable(r) == r \notin Malformed /\ NodeOf[r] \in known

Stored(r) == stored' = [stored EXCEPT ![r] = @ + 1]

(***************************************************************************)
(* POST /telemetry.  A request is sent, then its row is flushed (or it is  *)
(* refused), then the row is committed (or not); an answer goes out on the *)
(* way, and may not arrive.                                                *)
(***************************************************************************)
Post(r) ==
  /\ Len(requests) < MaxPosts
  /\ \A i \in Posts(r) : requests[i].answer # "201"
  /\ requests' = Append(requests, [reading |-> r, stage |-> "sent", answer |-> "none"])
  /\ UNCHANGED <<order, known, stored, link, inbox, published, troubles>>

Step(i, from, to) ==
  /\ requests[i].stage = from
  /\ requests' = [requests EXCEPT ![i].stage = to]

\* post_telemetry up to its return or its 422.
Receive(i) ==
  /\ Step(i, "sent", IF Storable(requests[i].reading) THEN "flushed" ELSE "refused")
  /\ UNCHANGED <<order, known, stored, link, inbox, published, troubles>>

\* get_session after its yield.
Commit(i) ==
  /\ order = "answer first" => requests[i].answer # "none"
  /\ Step(i, "flushed", "committed")
  /\ Stored(requests[i].reading)
  /\ UNCHANGED <<order, known, link, inbox, published, troubles>>

\* The database fails the flush or the commit: rollback.
DatabaseFails(i) ==
  /\ Trouble
  /\ requests[i].stage \in {"sent", "flushed"}
  /\ requests' = [requests EXCEPT ![i].stage = "failed"]
  /\ UNCHANGED <<order, known, stored, link, inbox, published>>

\* Mutant: the answer goes out as soon as the row is flushed.
ReadyEarly(i) == requests[i].stage # "sent"

\* The stage a request is answered from.
Ready(i) == requests[i].stage \in {"refused", "failed",
                                   IF order = "commit first" THEN "committed" ELSE "flushed"}

AnswerOf(i) == IF requests[i].stage = "refused" THEN "422"
               ELSE IF requests[i].stage = "failed" THEN "500"
               ELSE "201"

Answer(i) ==
  /\ requests[i].answer = "none" /\ Ready(i)
  /\ requests' = [requests EXCEPT ![i].answer = AnswerOf(i)]
  /\ UNCHANGED <<order, known, stored, link, inbox, published, troubles>>

(***************************************************************************)
(* MQTT.                                                                   *)
(***************************************************************************)

\* client.connect, and loop_forever after a lost link.
Connect ==
  /\ link = "down" /\ link' = "connected"
  /\ UNCHANGED <<order, known, stored, requests, inbox, published, troubles>>

\* Mutant: subscribe() is called once, after the first connect.
OnConnectOnce == troubles = 0 /\ link = "connected" /\ link' = "subscribed"
                 /\ UNCHANGED <<order, known, stored, requests, inbox, published, troubles>>

\* on_connect runs after every connect, and the broker forgets sessions.
OnConnect ==
  /\ link = "connected" /\ link' = "subscribed"
  /\ UNCHANGED <<order, known, stored, requests, inbox, published, troubles>>

\* A message goes to those subscribed when it is published.
Publish(r) ==
  /\ published[r] < MaxPublished
  /\ published' = [published EXCEPT ![r] = @ + 1]
  /\ inbox' = IF link = "subscribed" THEN Append(inbox, r) ELSE inbox
  /\ UNCHANGED <<order, known, stored, requests, link, troubles>>

\* The link breaks: what was on it is lost.
Disconnect ==
  /\ Trouble
  /\ link # "down" /\ link' = "down" /\ inbox' = <<>>
  /\ UNCHANGED <<order, known, stored, requests, published>>

\* Mutant: only an unknown node is caught, and another error ends the loop.
OnMessageUncaught ==
  /\ inbox # <<>> /\ Head(inbox) \notin Malformed
  /\ inbox' = Tail(inbox)
  /\ IF Storable(Head(inbox)) THEN Stored(Head(inbox)) ELSE UNCHANGED stored
  /\ UNCHANGED <<order, known, requests, link, published, troubles>>

\* Mutant: the message is acknowledged after the commit, and comes again when
\* that fails.
OnMessageAckedLate ==
  /\ inbox # <<>>
  /\ IF Storable(Head(inbox)) THEN Stored(Head(inbox)) ELSE UNCHANGED stored
  /\ \/ inbox' = Tail(inbox) /\ UNCHANGED troubles
     \/ Trouble /\ UNCHANGED inbox
  /\ UNCHANGED <<order, known, requests, link, published>>

\* on_message: decode_and_store commits, and every error is logged and the
\* message forgotten.
OnMessage ==
  /\ inbox # <<>>
  /\ inbox' = Tail(inbox)
  /\ \/ /\ IF Storable(Head(inbox)) THEN Stored(Head(inbox)) ELSE UNCHANGED stored
        /\ UNCHANGED troubles
     \/ Trouble /\ UNCHANGED stored
  /\ UNCHANGED <<order, known, requests, link, published>>

\* The services die and are started again.
Crash ==
  /\ Trouble
  /\ requests' = [i \in DOMAIN requests |->
                    IF requests[i].stage \in {"sent", "flushed"}
                    THEN [requests[i] EXCEPT !.stage = "lost"] ELSE requests[i]]
  /\ link' = "down" /\ inbox' = <<>>
  /\ UNCHANGED <<order, known, stored, published>>

Serve == \/ \E i \in DOMAIN requests : Receive(i) \/ Commit(i) \/ Answer(i)
         \/ OnMessage

Next ==
  \/ Serve \/ Connect \/ OnConnect \/ Disconnect \/ Crash
  \/ \E n \in Range(NodeOf) : Provision(n)
  \/ \E r \in Reading : Post(r) \/ Publish(r)
  \/ \E i \in DOMAIN requests : DatabaseFails(i)

\* The services keep running and the broker stays reachable.
Spec == Init /\ [][Next]_vars /\ WF_vars(Serve) /\ WF_vars(Connect) /\ WF_vars(OnConnect)

(***************************************************************************)
(* Properties.                                                             *)
(***************************************************************************)

\* The type invariant (a theorem of Ingestion_proofs).
Request == [reading : Reading, answer : {"none", "201", "422", "500"},
            stage : {"sent", "flushed", "committed", "refused", "failed", "lost"}]

TypeOK ==
  /\ order \in {"commit first", "answer first"}
  /\ known \subseteq Range(NodeOf)
  /\ stored \in [Reading -> Nat] /\ published \in [Reading -> 0..MaxPublished]
  /\ requests \in Seq(Request)
  /\ link \in {"down", "connected", "subscribed"}
  /\ inbox \in Seq(Reading) /\ (inbox # <<>> => link = "subscribed")
  /\ troubles \in 0..MaxTroubles

\* 201 means stored: a client that stops posting on 201 loses no reading, even
\* if the database fails or the service dies at any moment.  It takes a FastAPI
\* that ends its dependencies before it answers.
AcknowledgedStored ==
  order = "commit first" =>
    \A i \in DOMAIN requests : requests[i].answer = "201" => stored[requests[i].reading] > 0

\* Nothing recognises a reading that comes a second time, but nothing but a
\* second posting or publication makes a second row (a theorem of
\* Ingestion_proofs, and what KeepsLedger rests on).
RowPerSending == \A r \in Reading : stored[r] <= Cardinality(Posts(r)) + published[r]

(***************************************************************************)
(* What the requests and messages mean: readings sent by either way, and   *)
(* readings answered with a 201 that is given after the commit.            *)
(***************************************************************************)
SentOf == [r \in Reading |-> Cardinality(Posts(r)) + published[r]]

AckedOf == {r \in Reading : order = "commit first"
                            /\ \E i \in Posts(r) : requests[i].answer = "201"}

Ledger == INSTANCE SensorLedger WITH sent <- SentOf, rows <- stored, acked <- AckedOf

\* Ingestion implements the ledger: through retries, lost links, failures and
\* crashes, rows come one at a time, each for a sending of its own, none is
\* lost, and no reading is acknowledged before it has one.
KeepsLedger == Ledger!LedgerSpec

\* After any loss of the link the subscriber is subscribed again.
SubscribedAgain == []<>(link = "subscribed")

\* No message, however malformed, keeps those behind it from being handled.
InboxDrains == inbox # <<>> ~> inbox = <<>>
=============================================================================
