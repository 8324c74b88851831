--------------------------- MODULE Ingestion_proofs ---------------------------
(***************************************************************************)
(* What ingestion promises, for any readings, postings, publications and   *)
(* failures.  The invariant counts: rows stored and messages still to be   *)
(* handled are no more than postings committed and publications.           *)
(***************************************************************************)
EXTENDS Ingestion, FiniteSetTheorems, TLAPS

\* Where reading r is in a sequence of messages.
At(s, r) == {k \in DOMAIN s : s[k] = r}

\* The postings of r whose row is committed.
Committed(r) == {i \in Posts(r) : requests[i].stage = "committed"}

\* Once the commit precedes the answer, 201 is answered from "committed" only,
\* and that stage is never left.
AnsweredFromCommitted ==
  \A i \in DOMAIN requests :
    order = "commit first" /\ requests[i].answer = "201" => requests[i].stage = "committed"

CommittedStored == \A i \in DOMAIN requests :
                     requests[i].stage = "committed" => stored[requests[i].reading] > 0

Counted == \A r \in Reading :
             stored[r] + Cardinality(At(inbox, r)) <= Cardinality(Committed(r)) + published[r]

IngestInv == TypeOK /\ AnsweredFromCommitted /\ CommittedStored /\ Counted

(***************************************************************************)
(* Counting.                                                               *)
(***************************************************************************)
LEMMA AtFinite ==
  ASSUME NEW s \in Seq(Reading), NEW r
  PROVE  IsFiniteSet(At(s, r)) /\ Cardinality(At(s, r)) \in Nat
<1>1. IsFiniteSet(1..Len(s))
  BY FS_Interval
<1>2. At(s, r) \in SUBSET (1..Len(s))
  BY DEF At
<1>. QED BY <1>1, <1>2, FS_Subset, FS_CardinalityType

LEMMA AtAppend ==
  ASSUME NEW s \in Seq(Reading), NEW q \in Reading, NEW r
  PROVE  Cardinality(At(Append(s, q), r)) = Cardinality(At(s, r)) + (IF q = r THEN 1 ELSE 0)
<1>1. Len(s) + 1 \notin At(s, r)
  BY DEF At
<1>2. At(Append(s, q), r) = IF q = r THEN At(s, r) \cup {Len(s) + 1} ELSE At(s, r)
  BY DEF At
<1>3. IsFiniteSet(At(s, r)) /\ Cardinality(At(s, r)) \in Nat
  BY AtFinite
<1>4. Cardinality(At(s, r) \cup {Len(s) + 1}) = Cardinality(At(s, r)) + 1
  BY <1>1, <1>3, FS_AddElement
<1>. QED BY <1>2, <1>3, <1>4

\* Taking the head away takes one message of its reading away.
LEMMA AtTail ==
  ASSUME NEW s \in Seq(Reading), s # <<>>, NEW r
  PROVE  Cardinality(At(Tail(s), r)) + (IF Head(s) = r THEN 1 ELSE 0) <= Cardinality(At(s, r))
<1>. DEFINE rest == At(s, r) \ {1}
            shift == [k \in At(Tail(s), r) |-> k + 1]
<1>1. IsFiniteSet(At(s, r)) /\ Cardinality(At(s, r)) \in Nat
  BY AtFinite
<1>2. /\ IsFiniteSet(rest)
      /\ Cardinality(rest) = IF 1 \in At(s, r) THEN Cardinality(At(s, r)) - 1 ELSE Cardinality(At(s, r))
  BY <1>1, FS_RemoveElement
<1>3. 1 \in At(s, r) <=> Head(s) = r
  BY DEF At
<1>4. shift \in Injection(At(Tail(s), r), rest)
  <2>1. \A k \in At(Tail(s), r) : k \in Nat /\ k + 1 \in rest
    BY DEF At
  <2>2. shift \in [At(Tail(s), r) -> rest]
    BY <2>1
  <2>3. \A j, k \in At(Tail(s), r) : shift[j] = shift[k] => j = k
    BY <2>1
  <2>. QED BY <2>2, <2>3 DEF Injection, IsInjective
<1>5. Cardinality(At(Tail(s), r)) <= Cardinality(rest)
  BY <1>2, <1>4, FS_Injection
<1>6. Tail(s) \in Seq(Reading)
  OBVIOUS
<1>7. Cardinality(At(Tail(s), r)) \in Nat
  BY <1>6, AtFinite
<1>. QED BY <1>1, <1>2, <1>3, <1>5, <1>7

LEMMA PostsFinite ==
  ASSUME TypeOK, NEW r
  PROVE  /\ IsFiniteSet(Posts(r)) /\ Cardinality(Posts(r)) \in Nat
         /\ IsFiniteSet(Committed(r)) /\ Cardinality(Committed(r)) \in Nat
         /\ Cardinality(Committed(r)) <= Cardinality(Posts(r))
<1>0. requests \in Seq(Request)
  BY DEF TypeOK
<1>1. IsFiniteSet(1..Len(requests))
  <2>1. Len(requests) \in Int
    BY <1>0
  <2>. QED BY <2>1, FS_Interval
<1>2. Posts(r) \in SUBSET (1..Len(requests))
  BY <1>0 DEF Posts
<1>3. IsFiniteSet(Posts(r))
  BY <1>1, <1>2, FS_Subset
<1>4. Committed(r) \in SUBSET Posts(r)
  BY DEF Committed
<1>. QED BY <1>3, <1>4, FS_Subset, FS_CardinalityType

LEMMA CountsAreNumbers ==
  ASSUME TypeOK, NEW r \in Reading
  PROVE  stored[r] \in Nat /\ published[r] \in Nat
<1>1. stored \in [Reading -> Nat] /\ published \in [Reading -> 0..MaxPublished]
  BY DEF TypeOK
<1>. QED BY <1>1

(***************************************************************************)
(* Requests.                                                               *)
(***************************************************************************)

\* No posting is committed by a step, nor a 201 answered too early.
NoneCommitted ==
  /\ DOMAIN requests' = DOMAIN requests
  /\ \A i \in DOMAIN requests :
       /\ requests'[i].reading = requests[i].reading
       /\ requests'[i].stage = "committed" <=> requests[i].stage = "committed"
       /\ requests'[i].answer = "201" =>
            requests[i].answer = "201" \/ (order = "commit first" => requests[i].stage = "committed")

NoMoreMessages ==
  \A r \in Reading : Cardinality(At(inbox', r)) <= Cardinality(At(inbox, r))

RowsUntouched == UNCHANGED <<order, stored, published>>

LEMMA RequestsKeepInv ==
  ASSUME IngestInv, TypeOK', RowsUntouched, NoMoreMessages, NoneCommitted
  PROVE  IngestInv'
<1>0. TypeOK
  BY DEF IngestInv
<1>1. AnsweredFromCommitted'
  BY DEF IngestInv, AnsweredFromCommitted, NoneCommitted, RowsUntouched
<1>2. CommittedStored'
  BY DEF IngestInv, CommittedStored, NoneCommitted, RowsUntouched
<1>3. \A r \in Reading : Committed(r)' = Committed(r)
  BY DEF Committed, Posts, NoneCommitted
<1>4. ASSUME NEW r \in Reading
      PROVE  stored'[r] + Cardinality(At(inbox', r)) <= Cardinality(Committed(r)') + published'[r]
  <2>1. Cardinality(At(inbox, r)) \in Nat /\ Cardinality(At(inbox', r)) \in Nat
    <3>1. inbox \in Seq(Reading) /\ inbox' \in Seq(Reading)
      BY <1>0 DEF TypeOK
    <3>. QED BY <3>1, AtFinite
  <2>2. Cardinality(Committed(r)) \in Nat
    BY <1>0, PostsFinite
  <2>3. stored[r] \in Nat /\ published[r] \in Nat
    BY <1>0, CountsAreNumbers
  <2>4. stored[r] + Cardinality(At(inbox, r)) <= Cardinality(Committed(r)) + published[r]
    BY DEF IngestInv, Counted
  <2>5. Cardinality(At(inbox', r)) <= Cardinality(At(inbox, r))
    BY DEF NoMoreMessages
  <2>6. stored' = stored /\ published' = published
    BY DEF RowsUntouched
  <2>. QED BY <1>3, <2>1, <2>2, <2>3, <2>4, <2>5, <2>6
<1>5. Counted'
  BY <1>4 DEF Counted
<1>. QED BY <1>1, <1>2, <1>5 DEF IngestInv

\* A message is gone, or none is.
LEMMA FewerMessages ==
  ASSUME TypeOK, inbox' \in {inbox, <<>>, Tail(inbox)}
  PROVE  NoMoreMessages
<1>. SUFFICES ASSUME NEW r \in Reading
              PROVE  Cardinality(At(inbox', r)) <= Cardinality(At(inbox, r))
  BY DEF NoMoreMessages
<1>1. inbox \in Seq(Reading)
  BY DEF TypeOK
<1>2. Cardinality(At(inbox, r)) \in Nat
  BY <1>1, AtFinite
<1>3. CASE inbox' = inbox
  BY <1>2, <1>3
<1>4. CASE inbox' = <<>>
  <2>1. At(inbox', r) = {}
    BY <1>4 DEF At
  <2>2. Cardinality(At(inbox', r)) = 0
    BY <2>1, FS_EmptySet
  <2>. QED BY <1>2, <2>2
<1>5. CASE inbox # <<>> /\ inbox' = Tail(inbox)
  <2>1. Cardinality(At(Tail(inbox), r)) + (IF Head(inbox) = r THEN 1 ELSE 0) <= Cardinality(At(inbox, r))
    BY <1>1, <1>5, AtTail
  <2>2. Tail(inbox) \in Seq(Reading)
    BY <1>1, <1>5
  <2>3. Cardinality(At(Tail(inbox), r)) \in Nat
    BY <2>2, AtFinite
  <2>. QED BY <1>2, <1>5, <2>1, <2>3
<1>6. CASE inbox = <<>> /\ inbox' = Tail(inbox)
  <2>1. Tail(inbox) = <<>>
    BY <1>6
  <2>. QED BY <1>4, <1>6, <2>1
<1>. QED BY <1>3, <1>4, <1>5, <1>6

(***************************************************************************)
(* Types.                                                                  *)
(***************************************************************************)
LEMMA Typed ==
  ASSUME TypeOK
  PROVE  /\ requests \in Seq(Request) /\ \A i \in DOMAIN requests : requests[i] \in Request
         /\ stored \in [Reading -> Nat] /\ published \in [Reading -> 0..MaxPublished]
         /\ inbox \in Seq(Reading) /\ (inbox # <<>> => link = "subscribed")
         /\ link \in {"down", "connected", "subscribed"}
         /\ order \in {"commit first", "answer first"}
         /\ known \subseteq Range(NodeOf)
         /\ troubles \in 0..MaxTroubles
<1>1. requests \in Seq(Request)
  BY DEF TypeOK
<1>2. \A i \in DOMAIN requests : requests[i] \in Request
  BY <1>1
<1>3. stored \in [Reading -> Nat] /\ published \in [Reading -> 0..MaxPublished]
  BY DEF TypeOK
<1>4. inbox \in Seq(Reading) /\ (inbox # <<>> => link = "subscribed")
  BY DEF TypeOK
<1>5. /\ link \in {"down", "connected", "subscribed"}
      /\ order \in {"commit first", "answer first"}
      /\ known \subseteq Range(NodeOf)
      /\ troubles \in 0..MaxTroubles
  BY DEF TypeOK
<1>. QED BY <1>1, <1>2, <1>3, <1>4, <1>5

LEMMA StageChanged ==
  ASSUME TypeOK, NEW i \in DOMAIN requests,
         NEW stage \in {"sent", "flushed", "committed", "refused", "failed", "lost"}
  PROVE  [requests EXCEPT ![i].stage = stage] \in Seq(Request)
<1>1. requests \in Seq(Request) /\ requests[i] \in Request
  BY Typed
<1>2. [requests[i] EXCEPT !.stage = stage] \in Request
  BY <1>1 DEF Request
<1>3. [requests EXCEPT ![i] = [requests[i] EXCEPT !.stage = stage]] \in Seq(Request)
  BY <1>1, <1>2
<1>. QED BY <1>3

LEMMA AnswerChanged ==
  ASSUME TypeOK, NEW i \in DOMAIN requests, NEW answer \in {"none", "201", "422", "500"}
  PROVE  [requests EXCEPT ![i].answer = answer] \in Seq(Request)
<1>1. requests \in Seq(Request) /\ requests[i] \in Request
  BY Typed
<1>2. [requests[i] EXCEPT !.answer = answer] \in Request
  BY <1>1 DEF Request
<1>3. [requests EXCEPT ![i] = [requests[i] EXCEPT !.answer = answer]] \in Seq(Request)
  BY <1>1, <1>2
<1>. QED BY <1>3

LEMMA TroubleTyped == ASSUME TypeOK, Trouble PROVE troubles' \in 0..MaxTroubles
<1>1. troubles \in 0..MaxTroubles /\ MaxTroubles \in Nat
  BY Typed, IngestionAssumption
<1>. QED BY <1>1 DEF Trouble

LEMMA StoredTyped ==
  ASSUME TypeOK, NEW r \in Reading, Stored(r)
  PROVE  stored' \in [Reading -> Nat]
<1>1. stored \in [Reading -> Nat]
  BY Typed
<1>. QED BY <1>1 DEF Stored

LEMMA TypesKept == ASSUME TypeOK, Next PROVE TypeOK'
<1>1. ASSUME NEW i \in DOMAIN requests, Receive(i) PROVE TypeOK'
  <2>1. PICK to \in {"flushed", "refused"} : requests' = [requests EXCEPT ![i].stage = to]
    BY <1>1 DEF Receive, Step
  <2>3. requests' \in Seq(Request)
    BY <2>1, StageChanged
  <2>2. UNCHANGED <<order, known, stored, link, inbox, published, troubles>>
    BY <1>1 DEF Receive
  <2>. QED BY <2>2, <2>3, Typed DEF TypeOK
<1>2. ASSUME NEW i \in DOMAIN requests, Commit(i) PROVE TypeOK'
  <2>0. requests' = [requests EXCEPT ![i].stage = "committed"]
    BY <1>2 DEF Commit, Step
  <2>1. requests' \in Seq(Request)
    BY <2>0, StageChanged
  <2>2. requests[i].reading \in Reading
    BY Typed DEF Request
  <2>3. stored' \in [Reading -> Nat]
    BY <1>2, <2>2, StoredTyped DEF Commit
  <2>4. UNCHANGED <<order, known, link, inbox, published, troubles>>
    BY <1>2 DEF Commit
  <2>. QED BY <2>1, <2>3, <2>4, Typed DEF TypeOK
<1>3. ASSUME NEW i \in DOMAIN requests, Answer(i) PROVE TypeOK'
  <2>0. PICK answer \in {"none", "201", "422", "500"} : answer = AnswerOf(i)
    BY DEF AnswerOf
  <2>1. requests' = [requests EXCEPT ![i].answer = answer]
    BY <1>3, <2>0 DEF Answer
  <2>2. requests' \in Seq(Request)
    BY <2>0, <2>1, AnswerChanged
  <2>3. UNCHANGED <<order, known, stored, link, inbox, published, troubles>>
    BY <1>3 DEF Answer
  <2>. QED BY <2>2, <2>3, Typed DEF TypeOK
<1>4. ASSUME NEW i \in DOMAIN requests, DatabaseFails(i) PROVE TypeOK'
  <2>0. requests' = [requests EXCEPT ![i].stage = "failed"]
    BY <1>4 DEF DatabaseFails
  <2>1. requests' \in Seq(Request)
    BY <2>0, StageChanged
  <2>2. troubles' \in 0..MaxTroubles
    BY <1>4, TroubleTyped DEF DatabaseFails
  <2>3. UNCHANGED <<order, known, stored, link, inbox, published>>
    BY <1>4 DEF DatabaseFails
  <2>. QED BY <2>1, <2>2, <2>3, Typed DEF TypeOK
<1>5. ASSUME OnMessage PROVE TypeOK'
  <2>1. inbox \in Seq(Reading) /\ inbox # <<>> /\ inbox' = Tail(inbox) /\ link = "subscribed"
    BY <1>5, Typed DEF OnMessage
  <2>2. inbox' \in Seq(Reading) /\ Head(inbox) \in Reading
    BY <2>1
  <2>3. Stored(Head(inbox)) \/ UNCHANGED stored
    BY <1>5 DEF OnMessage
  <2>4. stored' \in [Reading -> Nat]
    BY <2>2, <2>3, StoredTyped, Typed
  <2>5. Trouble \/ UNCHANGED troubles
    BY <1>5 DEF OnMessage
  <2>6. troubles' \in 0..MaxTroubles
    BY <2>5, TroubleTyped, Typed
  <2>7. UNCHANGED <<order, known, requests, link, published>>
    BY <1>5 DEF OnMessage
  <2>. QED BY <2>1, <2>2, <2>4, <2>6, <2>7, Typed DEF TypeOK
<1>6. ASSUME Connect \/ OnConnect PROVE TypeOK'
  <2>1. UNCHANGED <<order, known, stored, requests, inbox, published, troubles>>
    BY <1>6 DEF Connect, OnConnect
  <2>2. link # "subscribed" /\ link' \in {"connected", "subscribed"}
    BY <1>6 DEF Connect, OnConnect
  <2>. QED BY <2>1, <2>2, Typed DEF TypeOK
<1>7. ASSUME Disconnect PROVE TypeOK'
  <2>1. troubles' \in 0..MaxTroubles
    BY <1>7, TroubleTyped DEF Disconnect
  <2>2. /\ link' = "down" /\ inbox' = <<>>
        /\ UNCHANGED <<order, known, stored, requests, published>>
    BY <1>7 DEF Disconnect
  <2>3. inbox' \in Seq(Reading)
    BY <2>2
  <2>. QED BY <2>1, <2>2, <2>3, Typed DEF TypeOK
<1>8. ASSUME Crash PROVE TypeOK'
  <2>1. troubles' \in 0..MaxTroubles
    BY <1>8, TroubleTyped DEF Crash
  <2>2. requests' \in Seq(Request)
    <3>. DEFINE After(i) == IF requests[i].stage \in {"sent", "flushed"}
                            THEN [requests[i] EXCEPT !.stage = "lost"] ELSE requests[i]
    <3>0. requests \in Seq(Request)
      BY Typed
    <3>1. requests \in Seq(Request) /\ Len(requests) \in Nat
      BY <3>0
    <3>2. ASSUME NEW i \in 1..Len(requests) PROVE After(i) \in Request
      <4>1. requests[i] \in Request
        BY <3>1
      <4>2. [requests[i] EXCEPT !.stage = "lost"] \in Request
        BY <4>1 DEF Request
      <4>. QED BY <4>1, <4>2
    <3>3. requests' = [i \in 1..Len(requests) |-> After(i)]
      BY <1>8, <3>1 DEF Crash
    <3>. HIDE DEF After
    <3>. QED BY <3>1, <3>2, <3>3
  <2>3. /\ link' = "down" /\ inbox' = <<>>
        /\ UNCHANGED <<order, known, stored, published>>
    BY <1>8 DEF Crash
  <2>4. inbox' \in Seq(Reading)
    BY <2>3
  <2>. QED BY <2>1, <2>2, <2>3, <2>4, Typed DEF TypeOK
<1>9. ASSUME NEW n \in Range(NodeOf), Provision(n) PROVE TypeOK'
  <2>1. /\ known' = known \cup {n}
        /\ UNCHANGED <<order, stored, requests, link, inbox, published, troubles>>
    BY <1>9 DEF Provision
  <2>. QED BY <2>1, Typed DEF TypeOK
<1>10. ASSUME NEW r \in Reading, Post(r) PROVE TypeOK'
  <2>1. [reading |-> r, stage |-> "sent", answer |-> "none"] \in Request
    BY DEF Request
  <2>0. requests \in Seq(Request) /\ requests' = Append(requests, [reading |-> r, stage |-> "sent", answer |-> "none"])
    BY <1>10, Typed DEF Post
  <2>2. requests' \in Seq(Request)
    BY <2>0, <2>1
  <2>3. UNCHANGED <<order, known, stored, link, inbox, published, troubles>>
    BY <1>10 DEF Post
  <2>. QED BY <2>2, <2>3, Typed DEF TypeOK
<1>11. ASSUME NEW r \in Reading, Publish(r) PROVE TypeOK'
  <2>1. published[r] < MaxPublished /\ published' = [published EXCEPT ![r] = @ + 1]
    BY <1>11 DEF Publish
  <2>2. published' \in [Reading -> 0..MaxPublished]
    <3>1. published \in [Reading -> 0..MaxPublished] /\ MaxPublished \in Nat
      BY Typed, IngestionAssumption
    <3>2. published[r] + 1 \in 0..MaxPublished
      BY <2>1, <3>1
    <3>. QED BY <2>1, <3>1, <3>2
  <2>3. inbox' = (IF link = "subscribed" THEN Append(inbox, r) ELSE inbox)
    BY <1>11 DEF Publish
  <2>4. inbox' \in Seq(Reading) /\ (inbox' # <<>> => link = "subscribed")
    <3>1. inbox \in Seq(Reading) /\ (inbox # <<>> => link = "subscribed")
      BY Typed
    <3>2. Append(inbox, r) \in Seq(Reading)
      BY <3>1
    <3>. QED BY <2>3, <3>1, <3>2
  <2>5. UNCHANGED <<order, known, stored, requests, link, troubles>>
    BY <1>11 DEF Publish
  <2>. QED BY <2>2, <2>4, <2>5, Typed DEF TypeOK
<1>. QED BY <1>1, <1>2, <1>3, <1>4, <1>5, <1>6, <1>7, <1>8, <1>9, <1>10, <1>11 DEF Next, Serve

(***************************************************************************)
(* The invariant.                                                          *)
(***************************************************************************)
LEMMA IngestInitially == Init => IngestInv
<1>. SUFFICES ASSUME Init PROVE IngestInv
  OBVIOUS
<1>0. requests = <<>> /\ inbox = <<>>
  BY DEF Init
<1>a. stored = [r \in Reading |-> 0] /\ published = [r \in Reading |-> 0] /\ troubles = 0
  BY DEF Init
<1>1. TypeOK
  <2>1. stored \in [Reading -> Nat] /\ published \in [Reading -> 0..MaxPublished] /\ troubles \in 0..MaxTroubles
    <3>1. 0 \in 0..MaxPublished /\ 0 \in 0..MaxTroubles
      BY IngestionAssumption
    <3>. QED BY <1>a, <3>1
  <2>2. requests \in Seq(Request) /\ inbox \in Seq(Reading) /\ inbox = <<>>
    BY <1>0
  <2>3. known \subseteq Range(NodeOf)
    BY DEF Init
  <2>. QED BY <2>1, <2>2, <2>3 DEF Init, TypeOK
<1>2. DOMAIN requests = {}
  BY <1>0
<1>3. AnsweredFromCommitted /\ CommittedStored
  BY <1>2 DEF AnsweredFromCommitted, CommittedStored
<1>4. ASSUME NEW r \in Reading
      PROVE  stored[r] + Cardinality(At(inbox, r)) <= Cardinality(Committed(r)) + published[r]
  <2>1. At(inbox, r) = {}
    BY <1>0 DEF At
  <2>2. Committed(r) = {}
    BY <1>2 DEF Committed, Posts
  <2>3. stored[r] = 0 /\ published[r] = 0
    BY <1>a
  <2>4. Cardinality(At(inbox, r)) = 0 /\ Cardinality(Committed(r)) = 0
    BY <2>1, <2>2, FS_EmptySet
  <2>. QED BY <2>3, <2>4
<1>5. Counted
  BY <1>4 DEF Counted
<1>. QED BY <1>1, <1>3, <1>5 DEF IngestInv

\* A step that leaves the requests alone commits none of them.
LEMMA UntouchedRequests == ASSUME UNCHANGED requests PROVE NoneCommitted
BY DEF NoneCommitted

LEMMA StageMoved ==
  ASSUME TypeOK, NEW i \in DOMAIN requests, NEW to,
         requests[i].stage # "committed", to # "committed",
         requests' = [requests EXCEPT ![i].stage = to]
  PROVE  NoneCommitted
<1>1. requests \in Seq(Request) /\ \A j \in DOMAIN requests : requests[j] \in Request
  BY Typed
<1>2. DOMAIN requests' = DOMAIN requests
  BY <1>1
<1>3. /\ requests'[i] = [requests[i] EXCEPT !.stage = to]
      /\ \A j \in DOMAIN requests : j # i => requests'[j] = requests[j]
  BY <1>1
<1>4. /\ requests'[i].reading = requests[i].reading
      /\ requests'[i].stage = to /\ requests'[i].answer = requests[i].answer
  BY <1>1, <1>3 DEF Request
<1>. QED BY <1>2, <1>3, <1>4 DEF NoneCommitted

\* With the commit first, 201 is the answer of a committed request only.
LEMMA AnswerKeepsInv ==
  ASSUME IngestInv, TypeOK', NEW i \in DOMAIN requests, Answer(i)
  PROVE  IngestInv'
<1>0. TypeOK
  BY DEF IngestInv
<1>1. requests \in Seq(Request) /\ \A j \in DOMAIN requests : requests[j] \in Request
  BY <1>0, Typed
<1>2. requests' = [requests EXCEPT ![i].answer = AnswerOf(i)]
  BY DEF Answer
<1>3. DOMAIN requests' = DOMAIN requests
  BY <1>1, <1>2
<1>4. /\ requests'[i] = [requests[i] EXCEPT !.answer = AnswerOf(i)]
      /\ \A j \in DOMAIN requests : j # i => requests'[j] = requests[j]
  BY <1>1, <1>2
<1>5. /\ requests'[i].reading = requests[i].reading
      /\ requests'[i].stage = requests[i].stage /\ requests'[i].answer = AnswerOf(i)
  BY <1>1, <1>4 DEF Request
<1>6. order = "commit first" /\ AnswerOf(i) = "201" => requests[i].stage = "committed"
  <2>1. Ready(i)
    BY DEF Answer
  <2>2. CASE order = "commit first"
    <3>1. requests[i].stage \in {"refused", "failed", "committed"}
      BY <2>1, <2>2 DEF Ready
    <3>. QED BY <3>1 DEF AnswerOf
  <2>. QED BY <2>2
<1>7. NoneCommitted
  BY <1>3, <1>4, <1>5, <1>6 DEF NoneCommitted
<1>8. RowsUntouched /\ UNCHANGED inbox
  BY DEF Answer, RowsUntouched
<1>9. NoMoreMessages
  BY <1>0, <1>8, FewerMessages
<1>. QED BY <1>7, <1>8, <1>9, RequestsKeepInv

\* What the counts of a reading are, before a step.
LEMMA CountsBefore ==
  ASSUME IngestInv, NEW r \in Reading
  PROVE  /\ stored[r] \in Nat /\ published[r] \in Nat
         /\ Cardinality(At(inbox, r)) \in Nat /\ Cardinality(Committed(r)) \in Nat
         /\ stored[r] + Cardinality(At(inbox, r)) <= Cardinality(Committed(r)) + published[r]
<1>0. TypeOK
  BY DEF IngestInv
<1>1. stored[r] \in Nat /\ published[r] \in Nat
  BY <1>0, CountsAreNumbers
<1>2. inbox \in Seq(Reading)
  BY <1>0, Typed
<1>3. Cardinality(At(inbox, r)) \in Nat
  BY <1>2, AtFinite
<1>4. Cardinality(Committed(r)) \in Nat
  BY <1>0, PostsFinite
<1>5. stored[r] + Cardinality(At(inbox, r)) <= Cardinality(Committed(r)) + published[r]
  BY DEF IngestInv, Counted
<1>. QED BY <1>1, <1>3, <1>4, <1>5

\* A row more of q, and of no other reading.
LEMMA StoredCounts ==
  ASSUME TypeOK, NEW q \in Reading, Stored(q), NEW r \in Reading
  PROVE  stored'[r] = stored[r] + (IF q = r THEN 1 ELSE 0)
<1>1. stored \in [Reading -> Nat]
  BY Typed
<1>. QED BY <1>1 DEF Stored

\* A commit makes one posting committed and one row.
LEMMA CommitKeepsInv ==
  ASSUME IngestInv, TypeOK', NEW i \in DOMAIN requests, Commit(i)
  PROVE  IngestInv'
<1>0. TypeOK
  BY DEF IngestInv
<1>. DEFINE q == requests[i].reading
<1>1. requests \in Seq(Request) /\ \A j \in DOMAIN requests : requests[j] \in Request
  BY <1>0, Typed
<1>2. requests[i].stage = "flushed" /\ requests' = [requests EXCEPT ![i].stage = "committed"]
  BY DEF Commit, Step
<1>3. DOMAIN requests' = DOMAIN requests
  BY <1>1, <1>2
<1>4. /\ requests'[i] = [requests[i] EXCEPT !.stage = "committed"]
      /\ \A j \in DOMAIN requests : j # i => requests'[j] = requests[j]
  BY <1>1, <1>2
<1>5. /\ requests'[i].reading = q
      /\ requests'[i].stage = "committed" /\ requests'[i].answer = requests[i].answer
  BY <1>1, <1>4 DEF Request
<1>6. q \in Reading
  BY <1>1 DEF Request
<1>7. Stored(q) /\ UNCHANGED <<order, inbox, published>>
  BY DEF Commit
<1>8. AnsweredFromCommitted'
  BY <1>3, <1>4, <1>5, <1>7 DEF IngestInv, AnsweredFromCommitted
<1>9. \A r \in Reading : stored'[r] = stored[r] + (IF q = r THEN 1 ELSE 0)
  BY <1>0, <1>6, <1>7, StoredCounts
<1>10. CommittedStored'
  <2>1. ASSUME NEW j \in DOMAIN requests, requests'[j].stage = "committed"
        PROVE  stored'[requests'[j].reading] > 0
    <3>1. CASE j = i
      <4>1. stored[q] \in Nat
        BY <1>0, <1>6, CountsAreNumbers
      <4>. QED BY <3>1, <4>1, <1>5, <1>6, <1>9
    <3>2. CASE j # i
      <4>1. requests'[j] = requests[j]
        BY <1>4, <3>2
      <4>2. requests[j].reading \in Reading
        BY <1>1 DEF Request
      <4>3. stored[requests[j].reading] > 0
        BY <2>1, <4>1 DEF IngestInv, CommittedStored
      <4>4. stored[requests[j].reading] \in Nat
        BY <1>0, <4>2, CountsAreNumbers
      <4>. QED BY <1>9, <4>1, <4>2, <4>3, <4>4
    <3>. QED BY <3>1, <3>2
  <2>. QED BY <1>3, <2>1 DEF CommittedStored
<1>11. ASSUME NEW r \in Reading
       PROVE  stored'[r] + Cardinality(At(inbox', r)) <= Cardinality(Committed(r)') + published'[r]
  <2>1. CASE r = q
    <3>1. Committed(r)' = Committed(r) \cup {i}
      BY <1>3, <1>4, <1>5, <2>1 DEF Committed, Posts
    <3>2. i \notin Committed(r)
      BY <1>2 DEF Committed
    <3>3. IsFiniteSet(Committed(r))
      BY <1>0, PostsFinite
    <3>4. Cardinality(Committed(r)') = Cardinality(Committed(r)) + 1
      BY <3>1, <3>2, <3>3, FS_AddElement
    <3>5. stored'[r] = stored[r] + 1 /\ inbox' = inbox /\ published' = published
      BY <1>7, <1>9, <2>1
    <3>. QED BY <3>4, <3>5, CountsBefore
  <2>2. CASE r # q
    <3>1. Committed(r)' = Committed(r)
      BY <1>3, <1>4, <1>5, <2>2 DEF Committed, Posts
    <3>2. stored[r] \in Nat
      BY <1>0, CountsAreNumbers
    <3>3. stored'[r] = stored[r] /\ inbox' = inbox /\ published' = published
      BY <1>7, <1>9, <2>2, <3>2
    <3>. QED BY <3>1, <3>3, CountsBefore
  <2>. QED BY <2>1, <2>2
<1>12. Counted'
  BY <1>11 DEF Counted
<1>. QED BY <1>8, <1>10, <1>12 DEF IngestInv

\* A new posting is neither committed nor answered.
LEMMA PostKeepsInv ==
  ASSUME IngestInv, TypeOK', NEW r \in Reading, Post(r)
  PROVE  IngestInv'
<1>. DEFINE new == [reading |-> r, stage |-> "sent", answer |-> "none"]
<1>0. TypeOK
  BY DEF IngestInv
<1>1. requests \in Seq(Request)
  BY <1>0, Typed
<1>2. requests' = Append(requests, new)
  BY DEF Post
<1>3. UNCHANGED <<order, stored, inbox, published>>
  BY DEF Post
<1>4. /\ \A j \in DOMAIN requests : j \in DOMAIN requests' /\ requests'[j] = requests[j]
      /\ \A j \in DOMAIN requests' : j \in DOMAIN requests \/ requests'[j] = new
  BY <1>1, <1>2
<1>5. new.stage # "committed" /\ new.answer # "201"
  OBVIOUS
<1>. HIDE DEF new
<1>6. AnsweredFromCommitted' /\ CommittedStored'
  BY <1>3, <1>4, <1>5 DEF IngestInv, AnsweredFromCommitted, CommittedStored
<1>7. \A q \in Reading : Committed(q)' = Committed(q)
  BY <1>4, <1>5 DEF Committed, Posts
<1>8. Counted'
  BY <1>3, <1>7 DEF IngestInv, Counted
<1>. QED BY <1>6, <1>8 DEF IngestInv

\* A publication may put one message into the inbox.
LEMMA PublishKeepsInv ==
  ASSUME IngestInv, TypeOK', NEW r \in Reading, Publish(r)
  PROVE  IngestInv'
<1>0. TypeOK
  BY DEF IngestInv
<1>1. inbox \in Seq(Reading) /\ published \in [Reading -> 0..MaxPublished]
  BY <1>0, Typed
<1>2. /\ published' = [published EXCEPT ![r] = @ + 1]
      /\ inbox' = (IF link = "subscribed" THEN Append(inbox, r) ELSE inbox)
      /\ UNCHANGED <<order, stored, requests>>
  BY DEF Publish
<1>3. AnsweredFromCommitted' /\ CommittedStored'
  BY <1>2 DEF IngestInv, AnsweredFromCommitted, CommittedStored
<1>4. ASSUME NEW q \in Reading
      PROVE  stored'[q] + Cardinality(At(inbox', q)) <= Cardinality(Committed(q)') + published'[q]
  <2>1. Committed(q)' = Committed(q)
    BY <1>2 DEF Committed, Posts
  <2>2. published'[q] = published[q] + (IF r = q THEN 1 ELSE 0)
    <3>1. published[q] \in Nat
      BY <1>0, CountsAreNumbers
    <3>. QED BY <1>1, <1>2, <3>1
  <2>3. Cardinality(At(Append(inbox, r), q)) = Cardinality(At(inbox, q)) + (IF r = q THEN 1 ELSE 0)
    BY <1>1, AtAppend
  <2>. QED BY <1>2, <2>1, <2>2, <2>3, CountsBefore
<1>5. Counted'
  BY <1>4 DEF Counted
<1>. QED BY <1>3, <1>5 DEF IngestInv

\* A message leaves the inbox, and is a row or nothing.
LEMMA OnMessageKeepsInv ==
  ASSUME IngestInv, TypeOK', OnMessage
  PROVE  IngestInv'
<1>0. TypeOK
  BY DEF IngestInv
<1>1. inbox \in Seq(Reading)
  BY <1>0, Typed
<1>2. inbox # <<>> /\ inbox' = Tail(inbox) /\ UNCHANGED <<order, requests, published>>
  BY DEF OnMessage
<1>3. Head(inbox) \in Reading
  BY <1>1, <1>2
<1>4. Stored(Head(inbox)) \/ UNCHANGED stored
  BY DEF OnMessage
<1>5. ASSUME NEW q \in Reading
      PROVE  stored'[q] \in {stored[q], stored[q] + (IF Head(inbox) = q THEN 1 ELSE 0)}
  BY <1>0, <1>3, <1>4, StoredCounts
<1>6. AnsweredFromCommitted'
  BY <1>2 DEF IngestInv, AnsweredFromCommitted
<1>7. CommittedStored'
  <2>1. ASSUME NEW j \in DOMAIN requests, requests[j].stage = "committed"
        PROVE  stored'[requests[j].reading] > 0
    <3>0. requests[j] \in Request
      BY <1>0, Typed
    <3>1. requests[j].reading \in Reading
      BY <3>0 DEF Request
    <3>2. stored[requests[j].reading] > 0 /\ stored[requests[j].reading] \in Nat
      BY <1>0, <2>1, <3>1, CountsAreNumbers DEF IngestInv, CommittedStored
    <3>. QED BY <1>5, <3>1, <3>2
  <2>. QED BY <1>2, <2>1 DEF CommittedStored
<1>8. ASSUME NEW q \in Reading
      PROVE  stored'[q] + Cardinality(At(inbox', q)) <= Cardinality(Committed(q)') + published'[q]
  <2>1. Committed(q)' = Committed(q)
    BY <1>2 DEF Committed, Posts
  <2>2. Cardinality(At(Tail(inbox), q)) + (IF Head(inbox) = q THEN 1 ELSE 0) <= Cardinality(At(inbox, q))
    BY <1>1, <1>2, AtTail
  <2>3. Tail(inbox) \in Seq(Reading)
    BY <1>1, <1>2
  <2>4. Cardinality(At(Tail(inbox), q)) \in Nat
    BY <2>3, AtFinite
  <2>5. /\ stored[q] \in Nat /\ published[q] \in Nat
        /\ Cardinality(At(inbox, q)) \in Nat /\ Cardinality(Committed(q)) \in Nat
        /\ stored[q] + Cardinality(At(inbox, q)) <= Cardinality(Committed(q)) + published[q]
    BY CountsBefore
  <2>6. stored'[q] \in {stored[q], stored[q] + (IF Head(inbox) = q THEN 1 ELSE 0)}
    BY <1>5
  <2>7. inbox' = Tail(inbox) /\ published' = published
    BY <1>2
  <2>8. stored'[q] + Cardinality(At(Tail(inbox), q)) <= stored[q] + Cardinality(At(inbox, q))
    BY <2>2, <2>4, <2>5, <2>6
  <2>9. stored'[q] + Cardinality(At(Tail(inbox), q)) <= Cardinality(Committed(q)) + published[q]
    BY <2>4, <2>5, <2>6, <2>8
  <2>. QED BY <2>1, <2>7, <2>9
<1>9. Counted'
  BY <1>8 DEF Counted
<1>. QED BY <1>6, <1>7, <1>9 DEF IngestInv

\* A crash stops the requests under way, and drops the inbox.
LEMMA CrashKeepsInv ==
  ASSUME IngestInv, TypeOK', Crash
  PROVE  IngestInv'
<1>0. TypeOK
  BY DEF IngestInv
<1>1. \A j \in DOMAIN requests : requests[j] \in Request
  BY <1>0, Typed
<1>2. DOMAIN requests' = DOMAIN requests
  BY DEF Crash
<1>3. ASSUME NEW j \in DOMAIN requests
      PROVE  /\ requests'[j].reading = requests[j].reading
             /\ requests'[j].answer = requests[j].answer
             /\ requests'[j].stage = "committed" <=> requests[j].stage = "committed"
  <2>1. requests'[j] = IF requests[j].stage \in {"sent", "flushed"}
                       THEN [requests[j] EXCEPT !.stage = "lost"] ELSE requests[j]
    BY DEF Crash
  <2>2. CASE requests[j].stage \in {"sent", "flushed"}
    <3>1. requests'[j] = [requests[j] EXCEPT !.stage = "lost"]
      BY <2>1, <2>2
    <3>. QED BY <1>1, <2>2, <3>1 DEF Request
  <2>. QED BY <2>1, <2>2
<1>4. NoneCommitted
  BY <1>2, <1>3 DEF NoneCommitted
<1>5. RowsUntouched /\ inbox' = <<>>
  BY DEF Crash, RowsUntouched
<1>6. NoMoreMessages
  BY <1>0, <1>5, FewerMessages
<1>. QED BY <1>4, <1>5, <1>6, RequestsKeepInv

LEMMA IngestInductive == IngestInv /\ [Next]_vars => IngestInv'
<1>. SUFFICES ASSUME IngestInv, [Next]_vars PROVE IngestInv'
  OBVIOUS
<1>0. TypeOK
  BY DEF IngestInv
<1>1. CASE UNCHANGED vars
  <2>1. UNCHANGED <<order, known, stored, requests, link, inbox, published, troubles>>
    BY <1>1 DEF vars
  <2>2. TypeOK'
    BY <1>0, <2>1 DEF TypeOK
  <2>3. NoneCommitted /\ RowsUntouched
    BY <2>1, UntouchedRequests DEF RowsUntouched
  <2>4. NoMoreMessages
    BY <1>0, <2>1, FewerMessages
  <2>. QED BY <2>2, <2>3, <2>4, RequestsKeepInv
<1>2. CASE Next
  <2>0. TypeOK'
    BY <1>0, <1>2, TypesKept
  <2>1. ASSUME NEW i \in DOMAIN requests, Receive(i) PROVE IngestInv'
    <3>1. PICK to \in {"flushed", "refused"} :
            requests[i].stage = "sent" /\ requests' = [requests EXCEPT ![i].stage = to]
      BY <2>1 DEF Receive, Step
    <3>2. NoneCommitted
      BY <1>0, <3>1, StageMoved
    <3>3. RowsUntouched /\ UNCHANGED inbox
      BY <2>1 DEF Receive, RowsUntouched
    <3>4. NoMoreMessages
      BY <1>0, <3>3, FewerMessages
    <3>. QED BY <2>0, <3>2, <3>3, <3>4, RequestsKeepInv
  <2>2. ASSUME NEW i \in DOMAIN requests, DatabaseFails(i) PROVE IngestInv'
    <3>1. requests[i].stage # "committed" /\ requests' = [requests EXCEPT ![i].stage = "failed"]
      BY <2>2 DEF DatabaseFails
    <3>2. NoneCommitted
      BY <1>0, <3>1, StageMoved
    <3>3. RowsUntouched /\ UNCHANGED inbox
      BY <2>2 DEF DatabaseFails, RowsUntouched
    <3>4. NoMoreMessages
      BY <1>0, <3>3, FewerMessages
    <3>. QED BY <2>0, <3>2, <3>3, <3>4, RequestsKeepInv
  <2>3. ASSUME Connect \/ OnConnect \/ Disconnect \/ \E n \in Range(NodeOf) : Provision(n)
        PROVE  IngestInv'
    <3>1. UNCHANGED requests /\ RowsUntouched /\ inbox' \in {inbox, <<>>}
      BY <2>3 DEF Connect, OnConnect, Disconnect, Provision, RowsUntouched
    <3>2. NoneCommitted
      BY <3>1, UntouchedRequests
    <3>3. NoMoreMessages
      BY <1>0, <3>1, FewerMessages
    <3>. QED BY <2>0, <3>1, <3>2, <3>3, RequestsKeepInv
  <2>. QED BY <1>2, <2>0, <2>1, <2>2, <2>3, CommitKeepsInv, AnswerKeepsInv, OnMessageKeepsInv,
              CrashKeepsInv, PostKeepsInv, PublishKeepsInv DEF Next, Serve
<1>. QED BY <1>1, <1>2

\* Counted, and a posting counted as committed was posted.
LEMMA IngestImplies == IngestInv => TypeOK /\ AcknowledgedStored /\ RowPerSending
<1>. SUFFICES ASSUME IngestInv PROVE TypeOK /\ AcknowledgedStored /\ RowPerSending
  OBVIOUS
<1>0. TypeOK
  BY DEF IngestInv
<1>1. AcknowledgedStored
  BY DEF IngestInv, AnsweredFromCommitted, CommittedStored, AcknowledgedStored
<1>2. ASSUME NEW r \in Reading
      PROVE  stored[r] <= Cardinality(Posts(r)) + published[r]
  <2>1. /\ Cardinality(Posts(r)) \in Nat /\ Cardinality(Committed(r)) \in Nat
        /\ Cardinality(Committed(r)) <= Cardinality(Posts(r))
    BY <1>0, PostsFinite
  <2>. QED BY <2>1, CountsBefore
<1>3. RowPerSending
  BY <1>2 DEF RowPerSending
<1>. QED BY <1>0, <1>1, <1>3

(***************************************************************************)
(* The ledger: what each step of ingestion is there.                       *)
(***************************************************************************)

\* The postings and their 201s stay what they were.
ClaimsKept ==
  /\ DOMAIN requests' = DOMAIN requests
  /\ \A i \in DOMAIN requests :
       /\ requests'[i].reading = requests[i].reading
       /\ requests'[i].answer = requests[i].answer

LEMMA LedgerUntouched ==
  ASSUME ClaimsKept, UNCHANGED <<order, published>>
  PROVE  UNCHANGED <<SentOf, AckedOf>>
<1>1. \A r \in Reading : Posts(r)' = Posts(r)
  BY DEF ClaimsKept, Posts
<1>2. UNCHANGED SentOf
  BY <1>1 DEF SentOf
<1>3. \A r \in Reading : (\E i \in Posts(r) : requests[i].answer = "201")'
                           <=> \E i \in Posts(r) : requests[i].answer = "201"
  BY <1>1 DEF ClaimsKept, Posts
<1>4. UNCHANGED AckedOf
  BY <1>3 DEF AckedOf
<1>. QED BY <1>2, <1>4

\* One request going from stage to stage makes no claim.
LEMMA StageClaims ==
  ASSUME TypeOK, NEW i \in DOMAIN requests, NEW to,
         requests' = [requests EXCEPT ![i].stage = to]
  PROVE  ClaimsKept
<1>1. requests \in Seq(Request) /\ \A j \in DOMAIN requests : requests[j] \in Request
  BY Typed
<1>2. DOMAIN requests' = DOMAIN requests
  BY <1>1
<1>3. /\ requests'[i] = [requests[i] EXCEPT !.stage = to]
      /\ \A j \in DOMAIN requests : j # i => requests'[j] = requests[j]
  BY <1>1
<1>4. requests'[i].reading = requests[i].reading /\ requests'[i].answer = requests[i].answer
  BY <1>1, <1>3 DEF Request
<1>. QED BY <1>2, <1>3, <1>4 DEF ClaimsKept

\* Nor do those that die in a crash.
LEMMA CrashClaims == ASSUME TypeOK, Crash PROVE ClaimsKept
<1>1. \A j \in DOMAIN requests : requests[j] \in Request
  BY Typed
<1>2. DOMAIN requests' = DOMAIN requests
  BY DEF Crash
<1>3. ASSUME NEW j \in DOMAIN requests
      PROVE  /\ requests'[j].reading = requests[j].reading
             /\ requests'[j].answer = requests[j].answer
  <2>1. requests'[j] = IF requests[j].stage \in {"sent", "flushed"}
                       THEN [requests[j] EXCEPT !.stage = "lost"] ELSE requests[j]
    BY DEF Crash
  <2>2. CASE requests[j].stage \in {"sent", "flushed"}
    <3>1. requests'[j] = [requests[j] EXCEPT !.stage = "lost"]
      BY <2>1, <2>2
    <3>. QED BY <1>1, <3>1 DEF Request
  <2>. QED BY <2>1, <2>2
<1>. QED BY <1>2, <1>3 DEF ClaimsKept

LEMMA SentTyped ==
  ASSUME TypeOK
  PROVE  SentOf \in [Reading -> Nat] /\ stored \in [Reading -> Nat]
<1>1. ASSUME NEW r \in Reading
      PROVE  Cardinality(Posts(r)) + published[r] \in Nat
  BY PostsFinite, CountsAreNumbers
<1>. QED BY <1>1 DEF SentOf, TypeOK

\* A row more, and nothing else: it was sent and not stored yet, as the counts
\* after the step show.
LEMMA RowKept ==
  ASSUME TypeOK, RowPerSending', NEW q \in Reading, Stored(q), UNCHANGED <<SentOf, AckedOf>>
  PROVE  Ledger!Keep(q)
<1>1. stored' = [stored EXCEPT ![q] = @ + 1]
  BY DEF Stored
<1>2. stored'[q] = stored[q] + 1 /\ stored[q] \in Nat
  BY StoredCounts, CountsAreNumbers
<1>3. stored'[q] <= SentOf'[q]
  BY DEF RowPerSending, SentOf
<1>4. SentOf[q] \in Nat
  BY SentTyped
<1>5. stored[q] < SentOf[q]
  BY <1>2, <1>3, <1>4
<1>. QED BY <1>1, <1>5 DEF Ledger!Keep

LEMMA PostSends ==
  ASSUME TypeOK, NEW r \in Reading, Post(r)
  PROVE  Ledger!Send(r)
<1>. DEFINE new == [reading |-> r, stage |-> "sent", answer |-> "none"]
<1>1. requests \in Seq(Request)
  BY Typed
<1>2. requests' = Append(requests, new) /\ UNCHANGED <<order, stored, published>>
  BY DEF Post
<1>3. Len(requests) \in Nat /\ DOMAIN requests = 1..Len(requests)
  BY <1>1
<1>4. /\ DOMAIN requests' = DOMAIN requests \cup {Len(requests) + 1}
      /\ \A j \in DOMAIN requests : requests'[j] = requests[j]
      /\ requests'[Len(requests) + 1] = new
      /\ Len(requests) + 1 \notin DOMAIN requests
  BY <1>1, <1>2, <1>3
<1>5. new.reading = r /\ new.answer # "201"
  OBVIOUS
<1>. HIDE DEF new
<1>6. ASSUME NEW q \in Reading
      PROVE  /\ Posts(q)' = IF q = r THEN Posts(q) \cup {Len(requests) + 1} ELSE Posts(q)
             /\ Len(requests) + 1 \notin Posts(q)
             /\ (\E i \in Posts(q) : requests[i].answer = "201")'
                  <=> \E i \in Posts(q) : requests[i].answer = "201"
  <2>1. Posts(q)' = IF q = r THEN Posts(q) \cup {Len(requests) + 1} ELSE Posts(q)
    BY <1>4, <1>5 DEF Posts
  <2>2. Posts(q) \subseteq DOMAIN requests
    BY DEF Posts
  <2>. QED BY <1>4, <1>5, <2>1, <2>2
<1>7. AckedOf' = AckedOf
  BY <1>2, <1>6 DEF AckedOf
<1>8. ASSUME NEW q \in Reading
      PROVE  SentOf'[q] = SentOf[q] + (IF q = r THEN 1 ELSE 0)
  <2>1. IsFiniteSet(Posts(q)) /\ Cardinality(Posts(q)) \in Nat /\ published[q] \in Nat
    BY PostsFinite, CountsAreNumbers
  <2>2. Cardinality(Posts(q) \cup {Len(requests) + 1}) = Cardinality(Posts(q)) + 1
    BY <1>6, <2>1, FS_AddElement
  <2>3. /\ SentOf[q] = Cardinality(Posts(q)) + published[q]
        /\ SentOf'[q] = Cardinality(Posts(q)') + published[q]
    BY <1>2 DEF SentOf
  <2>4. Cardinality(Posts(q)') = Cardinality(Posts(q)) + (IF q = r THEN 1 ELSE 0)
    <3>1. CASE q = r
      <4>1. Posts(q)' = Posts(q) \cup {Len(requests) + 1}
        BY <1>6, <3>1
      <4>. QED BY <2>2, <3>1, <4>1
    <3>2. CASE q # r
      <4>1. Posts(q)' = Posts(q)
        BY <1>6, <3>2
      <4>. QED BY <2>1, <3>2, <4>1
    <3>. QED BY <3>1, <3>2
  <2>. QED BY <2>1, <2>3, <2>4
<1>9. SentOf' = [SentOf EXCEPT ![r] = @ + 1]
  <2>1. SentOf \in [Reading -> Nat] /\ SentOf' = [q \in Reading |-> SentOf'[q]]
    BY SentTyped DEF SentOf
  <2>. QED BY <1>8, <2>1
<1>. QED BY <1>2, <1>7, <1>9 DEF Ledger!Send

LEMMA PublishSends ==
  ASSUME TypeOK, NEW r \in Reading, Publish(r)
  PROVE  Ledger!Send(r)
<1>1. /\ published' = [published EXCEPT ![r] = @ + 1]
      /\ UNCHANGED <<order, stored, requests>>
  BY DEF Publish
<1>2. AckedOf' = AckedOf
  BY <1>1 DEF AckedOf, Posts
<1>3. ASSUME NEW q \in Reading
      PROVE  SentOf'[q] = SentOf[q] + (IF q = r THEN 1 ELSE 0)
  <2>1. Cardinality(Posts(q)) \in Nat /\ published[q] \in Nat
    BY PostsFinite, CountsAreNumbers
  <2>2. published'[q] = published[q] + (IF q = r THEN 1 ELSE 0)
    <3>1. published \in [Reading -> 0..MaxPublished]
      BY Typed
    <3>. QED BY <1>1, <2>1, <3>1
  <2>3. Posts(q)' = Posts(q)
    BY <1>1 DEF Posts
  <2>4. /\ SentOf[q] = Cardinality(Posts(q)) + published[q]
        /\ SentOf'[q] = Cardinality(Posts(q)) + published'[q]
    BY <2>3 DEF SentOf
  <2>. QED BY <2>1, <2>2, <2>4
<1>4. SentOf' = [SentOf EXCEPT ![r] = @ + 1]
  <2>1. SentOf \in [Reading -> Nat] /\ SentOf' = [q \in Reading |-> SentOf'[q]]
    BY SentTyped DEF SentOf
  <2>. QED BY <1>3, <2>1
<1>. QED BY <1>1, <1>2, <1>4 DEF Ledger!Send

\* An answer says something of its own reading only, and a 201 that counts is
\* of a reading that has its row.
LEMMA AnswerAcknowledges ==
  ASSUME TypeOK, AcknowledgedStored', NEW i \in DOMAIN requests, Answer(i)
  PROVE  UNCHANGED <<SentOf, stored, AckedOf>> \/ Ledger!Acknowledge(requests[i].reading)
<1>. DEFINE q == requests[i].reading
<1>1. requests \in Seq(Request) /\ \A j \in DOMAIN requests : requests[j] \in Request
  BY Typed
<1>2. /\ requests' = [requests EXCEPT ![i].answer = AnswerOf(i)]
      /\ requests[i].answer = "none" /\ UNCHANGED <<order, stored, published>>
  BY DEF Answer
<1>3. DOMAIN requests' = DOMAIN requests
  BY <1>1, <1>2
<1>4. /\ requests'[i] = [requests[i] EXCEPT !.answer = AnswerOf(i)]
      /\ \A j \in DOMAIN requests : j # i => requests'[j] = requests[j]
  BY <1>1, <1>2
<1>5. requests'[i].reading = q /\ requests'[i].answer = AnswerOf(i)
  BY <1>1, <1>4 DEF Request
<1>6. \A r \in Reading : Posts(r)' = Posts(r)
  BY <1>3, <1>4, <1>5 DEF Posts
<1>7. SentOf' = SentOf
  BY <1>2, <1>6 DEF SentOf
<1>8. q \in Reading
  BY <1>1 DEF Request
<1>9. CASE order = "commit first" /\ AnswerOf(i) = "201"
  <2>1. stored[q] > 0
    BY <1>2, <1>3, <1>5, <1>9 DEF AcknowledgedStored
  <2>2. ASSUME NEW r \in Reading
        PROVE  r \in AckedOf' <=> r \in AckedOf \/ r = q
    <3>1. r \in AckedOf' <=> \E j \in Posts(r) : requests'[j].answer = "201"
      BY <1>2, <1>6, <1>9 DEF AckedOf
    <3>2. r \in AckedOf <=> \E j \in Posts(r) : requests[j].answer = "201"
      BY <1>9 DEF AckedOf
    <3>3. i \in Posts(r) <=> r = q
      BY DEF Posts
    <3>4. Posts(r) \subseteq DOMAIN requests
      BY DEF Posts
    <3>. QED BY <1>2, <1>4, <1>5, <1>9, <3>1, <3>2, <3>3, <3>4
  <2>3. AckedOf \subseteq Reading /\ AckedOf' \subseteq Reading
    BY DEF AckedOf
  <2>4. AckedOf' = AckedOf \cup {q}
    BY <1>8, <2>2, <2>3
  <2>. QED BY <1>2, <1>7, <2>1, <2>4 DEF Ledger!Acknowledge
<1>10. CASE ~ (order = "commit first" /\ AnswerOf(i) = "201")
  <2>1. ASSUME NEW r \in Reading, order = "commit first"
        PROVE  (\E j \in Posts(r) : requests'[j].answer = "201")
                 <=> \E j \in Posts(r) : requests[j].answer = "201"
    <3>1. Posts(r) \subseteq DOMAIN requests
      BY DEF Posts
    <3>2. \A j \in DOMAIN requests : requests'[j].answer = "201" <=> requests[j].answer = "201"
      BY <1>2, <1>4, <1>5, <1>10, <2>1
    <3>. QED BY <3>1, <3>2
  <2>2. AckedOf' = AckedOf
    BY <1>2, <1>6, <2>1 DEF AckedOf
  <2>. QED BY <1>2, <1>7, <2>2
<1>. QED BY <1>9, <1>10

\* Every step is a step of the ledger or none.
LEMMA LedgerStep ==
  ASSUME TypeOK, AcknowledgedStored', RowPerSending', [Next]_vars
  PROVE  [Ledger!LedgerNext]_(Ledger!ledgerVars)
<1>. SUFFICES UNCHANGED <<SentOf, stored, AckedOf>> \/ Ledger!LedgerNext
  BY DEF Ledger!ledgerVars
<1>2. ASSUME UNCHANGED <<order, stored, requests, published>>
      PROVE  UNCHANGED <<SentOf, stored, AckedOf>>
  BY <1>2, LedgerUntouched DEF ClaimsKept
<1>3. CASE \/ UNCHANGED vars \/ Connect \/ OnConnect \/ Disconnect
           \/ \E n \in Range(NodeOf) : Provision(n)
  BY <1>2, <1>3 DEF vars, Connect, OnConnect, Disconnect, Provision
<1>4. ASSUME NEW i \in DOMAIN requests, Receive(i) \/ DatabaseFails(i)
      PROVE  UNCHANGED <<SentOf, stored, AckedOf>>
  <2>1. PICK to : requests' = [requests EXCEPT ![i].stage = to]
    BY <1>4 DEF Receive, Step, DatabaseFails
  <2>2. UNCHANGED <<order, stored, published>>
    BY <1>4 DEF Receive, DatabaseFails
  <2>. QED BY <2>1, <2>2, StageClaims, LedgerUntouched
<1>5. ASSUME NEW i \in DOMAIN requests, Commit(i)
      PROVE  Ledger!LedgerNext
  <2>1. /\ requests' = [requests EXCEPT ![i].stage = "committed"]
        /\ Stored(requests[i].reading) /\ UNCHANGED <<order, published>>
    BY <1>5 DEF Commit, Step
  <2>2. UNCHANGED <<SentOf, AckedOf>>
    BY <2>1, StageClaims, LedgerUntouched
  <2>3. requests[i].reading \in Reading
    BY Typed DEF Request
  <2>. QED BY <2>1, <2>2, <2>3, RowKept DEF Ledger!LedgerNext
<1>6. ASSUME NEW i \in DOMAIN requests, Answer(i)
      PROVE  UNCHANGED <<SentOf, stored, AckedOf>> \/ Ledger!LedgerNext
  <2>1. requests[i].reading \in Reading
    BY Typed DEF Request
  <2>. QED BY <1>6, <2>1, AnswerAcknowledges DEF Ledger!LedgerNext
<1>7. ASSUME OnMessage
      PROVE  UNCHANGED <<SentOf, stored, AckedOf>> \/ Ledger!LedgerNext
  <2>1. inbox # <<>> /\ UNCHANGED <<order, requests, published>>
    BY <1>7 DEF OnMessage
  <2>2. UNCHANGED <<SentOf, AckedOf>>
    BY <2>1, LedgerUntouched DEF ClaimsKept
  <2>3. UNCHANGED stored \/ Stored(Head(inbox))
    BY <1>7 DEF OnMessage
  <2>4. Head(inbox) \in Reading
    <3>1. inbox \in Seq(Reading)
      BY Typed
    <3>. QED BY <2>1, <3>1
  <2>. QED BY <2>2, <2>3, <2>4, RowKept DEF Ledger!LedgerNext
<1>8. CASE Crash
  <2>1. UNCHANGED <<order, stored, published>>
    BY <1>8 DEF Crash
  <2>. QED BY <1>8, <2>1, CrashClaims, LedgerUntouched
<1>9. ASSUME NEW r \in Reading, Post(r) \/ Publish(r)
      PROVE  Ledger!LedgerNext
  BY <1>9, PostSends, PublishSends DEF Ledger!LedgerNext
<1>. QED BY <1>3, <1>4, <1>5, <1>6, <1>7, <1>8, <1>9 DEF Next, Serve

LEMMA LedgerInitially == Init => Ledger!LedgerInit
<1>. SUFFICES ASSUME Init PROVE Ledger!LedgerInit
  OBVIOUS
<1>1. requests = <<>> /\ stored = [r \in Reading |-> 0] /\ published = [r \in Reading |-> 0]
  BY DEF Init
<1>2. \A r \in Reading : Posts(r) = {}
  BY <1>1 DEF Posts
<1>3. Cardinality({}) = 0
  BY FS_EmptySet
<1>4. SentOf = [r \in Reading |-> 0]
  <2>1. \A r \in Reading : Cardinality(Posts(r)) + published[r] = 0
    BY <1>1, <1>2, <1>3
  <2>. QED BY <2>1 DEF SentOf
<1>5. AckedOf = {}
  BY <1>2 DEF AckedOf
<1>. QED BY <1>1, <1>4, <1>5 DEF Ledger!LedgerInit

(***************************************************************************)
(* The theorems.                                                           *)
(***************************************************************************)

\* Every variable keeps its type, and no message waits without a subscription.
THEOREM TypesAlways == Spec => []TypeOK
<1>. QED BY IngestInitially, IngestInductive, IngestImplies, PTL DEF Spec

\* With the commit first, no 201 is sent for a reading that is not stored,
\* for any number of clients, retries and failures.
THEOREM AcknowledgedAlwaysStored == Spec => []AcknowledgedStored
<1>. QED BY IngestInitially, IngestInductive, IngestImplies, PTL DEF Spec

\* A reading never has more rows than it was posted and published.
THEOREM RowAlwaysPerSending == Spec => []RowPerSending
<1>. QED BY IngestInitially, IngestInductive, IngestImplies, PTL DEF Spec

\* Ingestion implements SensorLedger, for any number of clients, messages and
\* failures: a step of it sends a reading, stores one that was sent, or
\* acknowledges one that is stored, and takes nothing back.
THEOREM LedgerAlwaysKept == Spec => KeepsLedger
<1>1. /\ TypeOK /\ (AcknowledgedStored /\ RowPerSending)' /\ [Next]_vars
      => [Ledger!LedgerNext]_(Ledger!ledgerVars)
  BY LedgerStep
<1>. QED BY <1>1, LedgerInitially, TypesAlways, AcknowledgedAlwaysStored, RowAlwaysPerSending, PTL
        DEF Spec, KeepsLedger, Ledger!LedgerSpec
==============================================================================
