------------------------ MODULE BillingOutboxProofs ------------------------
(***************************************************************************)
(* The outbox keeps its types, never lets two deliveries of one report     *)
(* overlap, and implements the ledger, for every set of replicas and       *)
(* reports, every batch size, and all clocks, latencies and backoffs that  *)
(* BackoffAssumption allows.                                               *)
(***************************************************************************)
EXTENDS BillingOutbox, TLAPS


-----------------------------------------------------------------------------
(* Types. *)

\* A backoff is a number of ticks, longer than clocks and statements may be
\* late and never longer than maxBackoff (outbox.go:48).
LEMMA BackoffBounds ==
    ASSUME NEW n \in 0..MaxTries
    PROVE  Backoff(n) \in Int /\ Backoff(n) > MaxSkew + MaxLatency /\ Backoff(n) <= MaxBackoff
<1>. DEFINE b == MinBackoff * 2^n
<1>1. b \in Nat /\ Backoff(n) > MaxSkew + MaxLatency
  BY BackoffAssumption
<1>2. Backoff(n) = IF b < MaxBackoff THEN b ELSE MaxBackoff
  BY DEF Backoff
<1>. HIDE DEF b
<1>. QED
  BY <1>1, <1>2, TimesAssumption

\* The time a claim has read is not ahead of any clock (deliverer.go:41).
LEMMA NowBounds ==
    ASSUME TypeOK, NEW i \in Replicas
    PROVE  Now(i) \in Int /\ -MaxLatency <= Now(i) /\ Now(i) <= MaxSkew
  BY TimesAssumption DEF Now, TypeOK, Delivery

\* A claimed row is a row, and is put off by a delivery and a backoff
\* (outbox.go:45-48).
LEMMA ScheduledRow ==
    ASSUME TypeOK, NEW i \in Replicas, NEW r \in Reports
    PROVE  /\ Scheduled(i, r) \in Row
           /\ Scheduled(i, r).at = "queued"
           /\ Scheduled(i, r).due > Now(i) + ReportTimeout + MaxSkew + MaxLatency
<1>1. row[r] \in Row
  BY DEF TypeOK
<1>2. row[r].tries \in 0..MaxTries
  BY <1>1 DEF Row
<1>3. /\ Backoff(row[r].tries) \in Int
      /\ Backoff(row[r].tries) > MaxSkew + MaxLatency
      /\ Backoff(row[r].tries) <= MaxBackoff
  BY <1>2, BackoffBounds
<1>. DEFINE t == IF row[r].tries < MaxTries THEN row[r].tries + 1 ELSE row[r].tries
            d == Now(i) + ReportTimeout + Backoff(row[r].tries)
<1>4. Scheduled(i, r) = [at |-> "queued", due |-> d, tries |-> t]
  BY DEF Scheduled
<1>5. t \in 0..MaxTries
  BY <1>2, TimesAssumption
<1>6. /\ d \in Past..Horizon
      /\ d > Now(i) + ReportTimeout + MaxSkew + MaxLatency
  BY <1>3, NowBounds, TimesAssumption DEF Past, Horizon
<1>. HIDE DEF t, d
<1>. QED
  BY <1>4, <1>5, <1>6 DEF Row

\* The type invariant is inductive: no action takes a variable out of its type.
LEMMA TypeStep ==
    ASSUME TypeOK, [Next]_vars
    PROVE  TypeOK'
<1>. USE DEF TypeOK
<1>1. CASE UNCHANGED vars
  BY <1>1 DEF vars
<1>2. ASSUME NEW r \in Reports, NEW i \in Replicas, Record(r, i)
      PROVE  TypeOK'
  BY <1>2, TimesAssumption DEF Record, Stored, Row, Past, Horizon
<1>3. ASSUME NEW r \in Reports, RecordFails(r)
      PROVE  TypeOK'
  BY <1>3, CountsAssumption DEF RecordFails, Fault
<1>4. ASSUME NEW i \in Replicas, StartClaim(i)
      PROVE  TypeOK'
  <2>1. [delivery[i] EXCEPT !.pc = "claim"] \in Delivery
    BY Zenon DEF Delivery
  <2>. QED
    BY <1>4, <2>1, Zenon DEF StartClaim
<1>5. ASSUME NEW i \in Replicas, Claim(i)
      PROVE  TypeOK'
  <2>1. PICK S \in Claimable(i) :
            /\ row' = [r \in Reports |-> IF r \in S THEN Scheduled(i, r) ELSE row[r]]
            /\ delivery' = [delivery EXCEPT ![i] =
                              IF S = {} THEN Asleep ELSE [@ EXCEPT !.pc = "claimed", !.batch = S]]
    BY <1>5, Zenon DEF Claim
  <2>2. S \subseteq Reports
    BY <2>1, Zenon DEF Claimable, Due
  <2>3. row' \in [Reports -> Row]
    BY <2>1, ScheduledRow
  <2>4. delivery' \in [Replicas -> Delivery]
    <3>1. Asleep \in Delivery
      BY TimesAssumption DEF Asleep, Idle, Delivery
    <3>2. [delivery[i] EXCEPT !.pc = "claimed", !.batch = S] \in Delivery
      BY <2>2, Zenon DEF Delivery
    <3>. QED
      BY <2>1, <3>1, <3>2
  <2>. QED
    BY <1>5, <2>3, <2>4, Zenon DEF Claim
<1>6. ASSUME NEW i \in Replicas, Post(i)
      PROVE  TypeOK'
  <2>1. delivery[i].batch \subseteq Reports
    BY DEF Delivery
  <2>2. delivery' \in [Replicas -> Delivery]
    <3>1. [delivery[i] EXCEPT !.pc = "post", !.lag = 0] \in Delivery
      <4>1. delivery[i] \in Delivery /\ 0 \in 0..MaxLatency
        BY TimesAssumption
      <4>. QED
        BY <4>1, Zenon DEF Delivery
    <3>. QED
      BY <1>6, <3>1, Zenon DEF Post
  <2>3. wire' \subseteq Message
    <3>1. [report : delivery[i].batch, by : {i}, age : {0}] \subseteq Message
      BY <2>1, TimesAssumption DEF Message
    <3>. QED
      BY <1>6, <3>1 DEF Post
  <2>. QED
    BY <1>6, <2>2, <2>3, Zenon DEF Post
<1>7. ASSUME NEW i \in Replicas, DeliveryFails(i)
      PROVE  TypeOK'
  BY <1>7, TimesAssumption, CountsAssumption DEF DeliveryFails, Fault, Delivery, Asleep, Idle
<1>8. ASSUME NEW i \in Replicas, Reply(i)
      PROVE  TypeOK'
  <2>1. delivery[i].batch \subseteq Reports
    BY DEF Delivery
  <2>2. [delivery[i] EXCEPT !.pc = "settle", !.ok = delivery[i].batch \cap Valid,
                            !.bad = delivery[i].batch \ Valid] \in Delivery
    BY <2>1, Zenon DEF Delivery
  <2>. QED
    BY <1>8, <2>2, Zenon DEF Reply, Posted
<1>9. ASSUME NEW i \in Replicas, ReplyInPart(i)
      PROVE  TypeOK'
  <2>1. PICK S \in SUBSET delivery[i].batch :
            delivery' = [delivery EXCEPT ![i].pc = "settle", ![i].ok = S \cap Valid,
                                         ![i].bad = S \ Valid]
    BY <1>9, Zenon DEF ReplyInPart
  <2>2. [delivery[i] EXCEPT !.pc = "settle", !.ok = S \cap Valid, !.bad = S \ Valid] \in Delivery
    BY Zenon DEF Delivery
  <2>3. delivery' \in [Replicas -> Delivery]
    BY <2>1, <2>2, Zenon
  <2>4. faults' \in 0..MaxFaults
    BY <1>9, CountsAssumption DEF ReplyInPart, Fault
  <2>. QED
    BY <1>9, <2>3, <2>4, Zenon DEF ReplyInPart, Posted
<1>10. ASSUME NEW i \in Replicas, NEW r \in Reports, Park(i, r)
       PROVE  TypeOK'
  <2>1. row' \in [Reports -> Row]
    <3>1. [row[r] EXCEPT !.at = "parked", !.due = 0] \in Row
      <4>1. row[r] \in Row /\ 0 \in Past..Horizon
        BY TimesAssumption DEF Past, Horizon
      <4>. QED
        BY <4>1, Zenon DEF Row
    <3>2. row' = row \/ row' = [row EXCEPT ![r] = [row[r] EXCEPT !.at = "parked", !.due = 0]]
      BY <1>10, Zenon DEF Park
    <3>. QED
      BY <3>1, <3>2, Zenon
  <2>2. delivery' \in [Replicas -> Delivery]
    <3>1. [delivery[i] EXCEPT !.bad = delivery[i].bad \ {r}] \in Delivery
      BY Zenon DEF Delivery
    <3>. QED
      BY <1>10, <3>1, Zenon DEF Park
  <2>. QED
    BY <1>10, <2>1, <2>2, Zenon DEF Park
<1>11. ASSUME NEW i \in Replicas, NEW r \in Reports, ParkFails(i, r)
       PROVE  TypeOK'
  <2>1. [delivery[i] EXCEPT !.bad = delivery[i].bad \ {r}] \in Delivery
    BY Zenon DEF Delivery
  <2>2. faults' \in 0..MaxFaults
    BY <1>11, CountsAssumption DEF ParkFails, Fault
  <2>. QED
    BY <1>11, <2>1, <2>2, Zenon DEF ParkFails
<1>12. ASSUME NEW i \in Replicas, Remove(i)
       PROVE  TypeOK'
  <2>1. NoRow \in Row
    BY TimesAssumption DEF NoRow, Row, Past, Horizon
  <2>2. Idle \in Delivery
    BY TimesAssumption DEF Idle, Delivery
  <2>. QED
    BY <1>12, <2>1, <2>2, Zenon DEF Remove
<1>13. ASSUME NEW m \in wire, LyCharges(m) \/ LyEnds(m)
       PROVE  TypeOK'
  BY <1>13, Zenon DEF LyCharges, LyEnds, Message
<1>14. CASE Tick
  <2>1. row' \in [Reports -> Row]
    <3>1. ASSUME NEW r \in Reports
          PROVE  row'[r] \in Row
      <4>. DEFINE d == IF row[r].at = "queued" /\ row[r].due > Past
                         THEN row[r].due - 1 ELSE row[r].due
      <4>1. row'[r] = [at |-> row[r].at, due |-> d, tries |-> row[r].tries]
        BY <1>14, Zenon DEF Tick, Row
      <4>2. row[r] \in Row
        OBVIOUS
      <4>3. d \in Past..Horizon
        BY TimesAssumption DEF Row, Past, Horizon
      <4>. HIDE DEF d
      <4>. QED
        BY <4>1, <4>3 DEF Row
    <3>. QED
      BY <1>14, <3>1, Zenon DEF Tick
  <2>2. delivery' \in [Replicas -> Delivery]
    <3>1. ASSUME NEW i \in Replicas
          PROVE  delivery'[i] \in Delivery
      <4>. DEFINE l == IF delivery[i].pc \in {"claim", "claimed"}
                         THEN delivery[i].lag + 1 ELSE delivery[i].lag
                  p == IF delivery[i].pc = "sleep" THEN "idle" ELSE delivery[i].pc
      <4>1. delivery'[i] = [delivery[i] EXCEPT !.lag = l, !.pc = p]
        BY <1>14, Zenon DEF Tick
      <4>2. delivery[i] \in Delivery
        OBVIOUS
      <4>3. l \in 0..MaxLatency
        <5>1. delivery[i].lag \in 0..MaxLatency
          BY <4>2 DEF Delivery
        <5>2. delivery[i].pc \in {"claim", "claimed"} => delivery[i].lag < MaxLatency
          BY <1>14, Zenon DEF Tick, MayTick
        <5>. QED
          BY <5>1, <5>2, TimesAssumption
      <4>4. p \in {"idle", "claim", "claimed", "post", "settle"}
        BY <4>2 DEF Delivery
      <4>. HIDE DEF l, p
      <4>. QED
        BY <4>1, <4>2, <4>3, <4>4, Zenon DEF Delivery
    <3>. QED
      BY <1>14, <3>1, Zenon DEF Tick
  <2>3. wire' \subseteq Message
    <3>1. ASSUME NEW m \in wire
          PROVE  [m EXCEPT !.age = @ + 1] \in Message
      <4>1. m \in Message /\ m.age < ReportTimeout
        BY <1>14, <3>1, Zenon DEF Tick, MayTick
      <4>2. m.age \in 0..ReportTimeout
        BY <4>1 DEF Message
      <4>3. m.age + 1 \in 0..ReportTimeout
        BY <4>1, <4>2, TimesAssumption
      <4>. QED
        BY <4>1, <4>3 DEF Message
    <3>. QED
      BY <1>14, <3>1, Zenon DEF Tick
  <2>. QED
    BY <1>14, <2>1, <2>2, <2>3, Zenon DEF Tick
<1>. QED
  BY <1>1, <1>2, <1>3, <1>4, <1>5, <1>6, <1>7, <1>8, <1>9, <1>10, <1>11, <1>12, <1>13, <1>14, Zenon
     DEF Next, DeliveryStep, FaultStep

-----------------------------------------------------------------------------
(* What the table, the deliveries and Lingying know of a report. *)

\* r has been claimed by a delivery that has not ended, or Lingying has it.
UnderWay(r) ==
    (\E m \in wire : m.report = r) \/ (\E i \in Replicas : r \in delivery[i].batch)

\* A delivery removes what was charged and parks what is rejected.
Results(d) ==
    /\ d.ok \subseteq charged
    /\ d.bad \subseteq d.batch \ Valid
    /\ d.pc # "settle" => d.ok = {} /\ d.bad = {}

Booked ==
    /\ charged \subseteq Valid
    /\ \A r \in Reports : r \in serving => row[r].at = "none" /\ r \notin charged
    /\ \A r \in Reports : row[r].at = "parked" => r \notin Valid
    /\ \A r \in Reports : UnderWay(r) => /\ r \notin serving
                                         /\ r \in Valid => r \in charged \/ row[r].at = "queued"
    /\ \A i \in Replicas : Results(delivery[i])

\* A step that stores, claims and charges nothing and puts nothing under way
\* keeps the books.
LEMMA BookedFrame ==
    ASSUME Booked, serving' \subseteq serving, row' = row, charged' = charged,
           \A r \in Reports : UnderWay(r)' => UnderWay(r),
           \A i \in Replicas : Results(delivery'[i])
    PROVE  Booked'
  BY Zenon DEF Booked, Results

\* Booked is inductive: a report is parked only if Lingying rejects it and is
\* removed only after Lingying charged it (deliverer.go:64-90).
LEMMA BookedStep ==
    ASSUME TypeOK, Booked, [Next]_vars
    PROVE  Booked'
<1>1. CASE UNCHANGED vars
  BY <1>1, Zenon DEF vars, Booked, UnderWay, Results
<1>2. ASSUME NEW r \in Reports, NEW i \in Replicas, Record(r, i)
      PROVE  Booked'
  <2>1. /\ row' = [row EXCEPT ![r] = [at |-> "queued", due |-> Skew[i], tries |-> 0]]
        /\ UNCHANGED <<delivery, wire, charged>> /\ serving' = serving \ {r}
    BY <1>2 DEF Record, Stored
  <2>2. row'[r].at = "queued" /\ \A q \in Reports : q # r => row'[q] = row[q]
    BY <2>1 DEF TypeOK
  <2>3. \A q \in Reports : UnderWay(q)' <=> UnderWay(q)
    BY <2>1 DEF UnderWay
  <2>. QED
    BY <2>1, <2>3 DEF Booked, Results
<1>3. ASSUME NEW r \in Reports, RecordFails(r)
      PROVE  Booked'
  BY <1>3, BookedFrame, Zenon DEF RecordFails, UnderWay, Booked, Results
<1>4. ASSUME NEW i \in Replicas, StartClaim(i)
      PROVE  Booked'
  <2>1. \A j \in Replicas : /\ delivery'[j].batch = delivery[j].batch
                            /\ delivery'[j].ok = delivery[j].ok
                            /\ delivery'[j].bad = delivery[j].bad
                            /\ delivery'[j].pc = "settle" <=> delivery[j].pc = "settle"
    BY <1>4 DEF StartClaim, TypeOK, Delivery
  <2>. QED
    BY <1>4 DEF StartClaim, UnderWay, Booked, Results
<1>5. ASSUME NEW i \in Replicas, Claim(i)
      PROVE  Booked'
  <2>1. PICK S \in Claimable(i) :
            /\ row' = [r \in Reports |-> IF r \in S THEN Scheduled(i, r) ELSE row[r]]
            /\ delivery' = [delivery EXCEPT ![i] =
                              IF S = {} THEN Asleep ELSE [@ EXCEPT !.pc = "claimed", !.batch = S]]
    BY <1>5, Zenon DEF Claim
  <2>2. \A r \in S : r \in Reports /\ row[r].at = "queued"
    BY <2>1, Zenon DEF Claimable, Due
  <2>3. \A r \in Reports : row'[r].at = row[r].at
    BY <2>1, <2>2, ScheduledRow
  <2>4. /\ \A j \in Replicas : j # i => delivery'[j] = delivery[j]
        /\ delivery'[i].batch \subseteq S
        /\ delivery'[i].ok = {} /\ delivery'[i].bad = {}
    <3>1. delivery[i] \in Delivery /\ delivery[i].ok = {} /\ delivery[i].bad = {}
      BY <1>5, Zenon DEF Claim, TypeOK, Booked, Results
    <3>2. CASE S = {}
      BY <2>1, <3>2 DEF Asleep, Idle, TypeOK
    <3>3. CASE S # {}
      <4>1. delivery' = [delivery EXCEPT ![i] = [@ EXCEPT !.pc = "claimed", !.batch = S]]
        BY <2>1, <3>3, Zenon
      <4>. QED
        BY <3>1, <4>1, Zenon DEF TypeOK, Delivery
    <3>. QED
      BY <3>2, <3>3, Zenon
  <2>5. UNCHANGED <<serving, wire, charged>>
    BY <1>5 DEF Claim
  <2>. QED
    BY <2>2, <2>3, <2>4, <2>5 DEF Booked, UnderWay, Results
<1>6. ASSUME NEW i \in Replicas, Post(i)
      PROVE  Booked'
  <2>1. \A j \in Replicas : /\ delivery'[j].batch = delivery[j].batch
                            /\ delivery'[j].ok = delivery[j].ok
                            /\ delivery'[j].bad = delivery[j].bad
                            /\ delivery'[j].pc = "settle" <=> delivery[j].pc = "settle"
    BY <1>6, Zenon DEF Post, TypeOK, Delivery
  <2>2. \A m \in wire' : m \in wire \/ m.report \in delivery[i].batch
    BY <1>6 DEF Post
  <2>. QED
    <3>1. \A r \in Reports : UnderWay(r)' => UnderWay(r)
      BY <2>1, <2>2 DEF UnderWay
    <3>2. \A j \in Replicas : Results(delivery'[j])
      BY <2>1 DEF Booked, Results
    <3>. QED
      BY <1>6, <3>1, <3>2, BookedFrame, Zenon DEF Post
<1>7. ASSUME NEW i \in Replicas, DeliveryFails(i)
      PROVE  Booked'
  <2>1. /\ \A j \in Replicas : j # i => delivery'[j] = delivery[j]
        /\ delivery'[i].batch = {} /\ delivery'[i].ok = {} /\ delivery'[i].bad = {}
    BY <1>7 DEF DeliveryFails, Asleep, Idle, TypeOK
  <2>. QED
    BY <1>7, <2>1 DEF DeliveryFails, UnderWay, Booked, Results
<1>8. ASSUME NEW i \in Replicas, Reply(i) \/ ReplyInPart(i)
      PROVE  Booked'
  <2>1. PICK S \in SUBSET delivery[i].batch :
            /\ S \cap Valid \subseteq charged
            /\ delivery' = [delivery EXCEPT ![i].pc = "settle", ![i].ok = S \cap Valid,
                                            ![i].bad = S \ Valid]
    BY <1>8, Zenon DEF Reply, ReplyInPart
  <2>2. /\ \A j \in Replicas : j # i => delivery'[j] = delivery[j]
        /\ delivery'[i].batch = delivery[i].batch
        /\ delivery'[i].ok = S \cap Valid /\ delivery'[i].bad = S \ Valid
        /\ delivery'[i].pc = "settle"
    BY <2>1, Zenon DEF TypeOK, Delivery
  <2>3. wire' \subseteq wire /\ UNCHANGED <<serving, row, charged>>
    BY <1>8, Zenon DEF Reply, ReplyInPart
  <2>. QED
    <3>1. \A r \in Reports : UnderWay(r)' => UnderWay(r)
      BY <2>2, <2>3, Zenon DEF UnderWay
    <3>2. \A j \in Replicas : Results(delivery'[j])
      <4>1. Results(delivery'[i])
        BY <2>1, <2>2, Zenon DEF Results
      <4>2. \A j \in Replicas : j # i => Results(delivery'[j])
        BY <2>2, Zenon DEF Booked
      <4>. QED
        BY <4>1, <4>2, Zenon
    <3>. QED
      BY <2>3, <3>1, <3>2, BookedFrame, Zenon
<1>9. ASSUME NEW i \in Replicas, NEW r \in Reports, Park(i, r) \/ ParkFails(i, r)
      PROVE  Booked'
  <2>1. /\ \A j \in Replicas : j # i => delivery'[j] = delivery[j]
        /\ delivery'[i].batch = delivery[i].batch
        /\ delivery'[i].ok = delivery[i].ok
        /\ delivery'[i].bad = delivery[i].bad \ {r}
        /\ delivery'[i].pc = delivery[i].pc
    BY <1>9 DEF Park, ParkFails, TypeOK, Delivery
  <2>2. r \notin Valid
    BY <1>9, Zenon DEF Park, ParkFails, Booked, Results
  <2>3. /\ \A q \in Reports : q # r => row'[q] = row[q]
        /\ row'[r].at = row[r].at \/ (row[r].at # "none" /\ row'[r].at = "parked")
    <3>. DEFINE p == [row[r] EXCEPT !.at = "parked", !.due = 0]
    <3>1. p.at = "parked"
      BY DEF TypeOK, Row
    <3>2. row' = row \/ (row[r].at # "none" /\ row' = [row EXCEPT ![r] = p])
      BY <1>9, Zenon DEF Park, ParkFails
    <3>. HIDE DEF p
    <3>. QED
      BY <3>1, <3>2, Zenon DEF TypeOK
  <2>4. UNCHANGED <<serving, wire, charged>>
    BY <1>9, Zenon DEF Park, ParkFails
  <2>. QED
    BY <2>1, <2>2, <2>3, <2>4 DEF UnderWay, Booked, Results
<1>10. ASSUME NEW i \in Replicas, Remove(i)
       PROVE  Booked'
  <2>1. /\ \A j \in Replicas : j # i => delivery'[j] = delivery[j]
        /\ delivery'[i].batch = {} /\ delivery'[i].ok = {} /\ delivery'[i].bad = {}
    BY <1>10, Zenon DEF Remove, Idle, TypeOK
  <2>2. \A q \in Reports : IF q \in delivery[i].ok THEN row'[q] = NoRow ELSE row'[q] = row[q]
    BY <1>10 DEF Remove, Accepted
  <2>3. delivery[i].ok \subseteq charged /\ UNCHANGED <<serving, wire, charged>>
    BY <1>10, Zenon DEF Remove, Booked, Results
  <2>. QED
    BY <2>1, <2>2, <2>3 DEF UnderWay, Booked, Results, NoRow
<1>11. ASSUME NEW m \in wire, LyCharges(m)
       PROVE  Booked'
  <2>1. m.report \in Reports /\ UnderWay(m.report) /\ m.report \in Valid
    BY <1>11 DEF LyCharges, UnderWay, TypeOK, Message
  <2>2. charged' = charged \cup {m.report} /\ UNCHANGED <<serving, row, delivery, wire>>
    BY <1>11 DEF LyCharges
  <2>. QED
    BY <2>1, <2>2, Zenon DEF Booked, UnderWay, Results
<1>12. ASSUME NEW m \in wire, LyEnds(m)
       PROVE  Booked'
  BY <1>12, BookedFrame, Zenon DEF LyEnds, UnderWay, Booked, Results
<1>13. CASE Tick
  <2>1. \A r \in Reports : row'[r].at = row[r].at
    BY <1>13, Zenon DEF Tick, TypeOK, Row
  <2>2. \A j \in Replicas : /\ delivery'[j].batch = delivery[j].batch
                            /\ delivery'[j].ok = delivery[j].ok
                            /\ delivery'[j].bad = delivery[j].bad
                            /\ delivery'[j].pc = "settle" <=> delivery[j].pc = "settle"
    BY <1>13, Zenon DEF Tick, TypeOK, Delivery
  <2>3. \A m \in wire' : \E n \in wire : m.report = n.report
    BY <1>13, Zenon DEF Tick, TypeOK, Message
  <2>4. UNCHANGED <<serving, charged>>
    BY <1>13, Zenon DEF Tick
  <2>. QED
    BY <2>1, <2>2, <2>3, <2>4 DEF UnderWay, Booked, Results
<1>. QED
  BY <1>1, <1>2, <1>3, <1>4, <1>5, <1>6, <1>7, <1>8, <1>9, <1>10, <1>11, <1>12, <1>13, Zenon DEF
     Next, DeliveryStep, FaultStep

-----------------------------------------------------------------------------
(* Deliveries do not overlap. *)

\* A report that Lingying may be working on, or that a replica is about to
\* post, is not due on any clock until that work has timed out.  A replica that
\* is about to post a report is the only one, and Lingying does not have it.
Margin ==
    /\ \A m \in wire : row[m.report].at = "queued" =>
                          row[m.report].due > ReportTimeout - m.age + MaxSkew
    /\ \A i \in Replicas : delivery[i].pc = "claimed" =>
           \A r \in delivery[i].batch :
               /\ row[r].at = "queued" =>
                      row[r].due > Now(i) + ReportTimeout + MaxSkew + MaxLatency
               /\ \A m \in wire : m.report # r
               /\ \A j \in Replicas : delivery[j].pc = "claimed" /\ r \in delivery[j].batch => i = j
    /\ DeliveriesDoNotOverlap

\* A step that schedules and posts nothing keeps the margin.
LEMMA MarginFrame ==
    ASSUME TypeOK, Margin, wire' \subseteq wire,
           \A r \in Reports : row'[r].at = "queued" => row'[r] = row[r],
           \A i \in Replicas : delivery'[i].pc = "claimed" => delivery'[i] = delivery[i]
    PROVE  Margin'
<1>1. \A m \in wire : m.report \in Reports
  BY DEF TypeOK, Message
<1>2. \A i \in Replicas : delivery[i].batch \subseteq Reports
  BY DEF TypeOK, Delivery
<1>. QED
  BY <1>1, <1>2 DEF Margin, Now, DeliveriesDoNotOverlap

\* Margin is inductive (outbox.go:40-48, client.go:18-19).
LEMMA MarginStep ==
    ASSUME TypeOK, Booked, Margin, [Next]_vars
    PROVE  Margin'
<1>1. CASE UNCHANGED vars
  BY <1>1, MarginFrame DEF vars
<1>2. ASSUME NEW r \in Reports, NEW i \in Replicas, Record(r, i)
      PROVE  Margin'
  <2>1. ~UnderWay(r)
    BY <1>2 DEF Record, Booked
  <2>2. UNCHANGED <<delivery, wire>> /\ \A q \in Reports : q # r => row'[q] = row[q]
    BY <1>2 DEF Record, Stored, TypeOK
  <2>3. \A m \in wire : m.report \in Reports
    BY DEF TypeOK, Message
  <2>4. \A j \in Replicas : delivery[j].batch \subseteq Reports
    BY DEF TypeOK, Delivery
  <2>. QED
    BY <2>1, <2>2, <2>3, <2>4 DEF Margin, UnderWay, Now, DeliveriesDoNotOverlap
<1>3. ASSUME NEW r \in Reports, RecordFails(r)
      PROVE  Margin'
  BY <1>3, MarginFrame DEF RecordFails
<1>4. ASSUME NEW i \in Replicas, StartClaim(i)
      PROVE  Margin'
  <2>1. delivery'[i].pc = "claim" /\ \A j \in Replicas : j # i => delivery'[j] = delivery[j]
    BY <1>4 DEF StartClaim, TypeOK, Delivery
  <2>. QED
    BY <1>4, <2>1, MarginFrame DEF StartClaim
<1>5. ASSUME NEW i \in Replicas, Claim(i)
      PROVE  Margin'
  <2>1. PICK S \in Claimable(i) :
            /\ row' = [r \in Reports |-> IF r \in S THEN Scheduled(i, r) ELSE row[r]]
            /\ delivery' = [delivery EXCEPT ![i] =
                              IF S = {} THEN Asleep ELSE [@ EXCEPT !.pc = "claimed", !.batch = S]]
    BY <1>5, Zenon DEF Claim
  <2>2. \A r \in S : r \in Reports /\ row[r].at = "queued" /\ row[r].due <= Now(i)
    BY <2>1, Zenon DEF Claimable, Due
  <2>3. \A r \in S : \A m \in wire : m.report # r
    <3>. SUFFICES ASSUME NEW m \in wire, m.report \in S PROVE FALSE
      OBVIOUS
    <3>1. m.age \in 0..ReportTimeout /\ row[m.report].due \in Past..Horizon
      BY <2>2, Zenon DEF TypeOK, Message, Row
    <3>2. row[m.report].due > ReportTimeout - m.age + MaxSkew /\ row[m.report].due <= Now(i)
      BY <2>2, Zenon DEF Margin
    <3>. QED
      BY <3>1, <3>2, NowBounds, TimesAssumption DEF Past
  <2>4. \A r \in S : \A j \in Replicas : ~(delivery[j].pc = "claimed" /\ r \in delivery[j].batch)
    <3>. SUFFICES ASSUME NEW r \in S, NEW j \in Replicas,
                         delivery[j].pc = "claimed", r \in delivery[j].batch
                  PROVE FALSE
      OBVIOUS
    <3>1. row[r].due \in Past..Horizon
      BY <2>2, Zenon DEF TypeOK, Row
    <3>2. row[r].due > Now(j) + ReportTimeout + MaxSkew + MaxLatency /\ row[r].due <= Now(i)
      BY <2>2, Zenon DEF Margin
    <3>. QED
      BY <3>1, <3>2, NowBounds, TimesAssumption DEF Past, Horizon
  <2>5. \A r \in Reports \ S : row'[r] = row[r]
    BY <2>1
  <2>6. \A r \in S : row'[r].due > Now(i) + ReportTimeout + MaxSkew + MaxLatency
    BY <2>1, <2>2, ScheduledRow, Zenon
  <2>7. \A j \in Replicas : j # i => delivery'[j] = delivery[j]
    BY <2>1 DEF TypeOK
  <2>8. delivery'[i].pc = "claimed" => delivery'[i].batch = S /\ delivery'[i].lag = delivery[i].lag
    <3>1. CASE S = {}
      BY <2>1, <3>1 DEF Asleep, Idle, TypeOK
    <3>2. CASE S # {}
      <4>1. delivery' = [delivery EXCEPT ![i] = [@ EXCEPT !.pc = "claimed", !.batch = S]]
        BY <2>1, <3>2, Zenon
      <4>. QED
        BY <4>1 DEF TypeOK, Delivery
    <3>. QED
      BY <3>1, <3>2, Zenon
  <2>9. wire' = wire /\ \A m \in wire : m.report \in Reports
    BY <1>5 DEF Claim, TypeOK, Message
  <2>10. \A j \in Replicas : delivery[j].batch \subseteq Reports
    BY DEF TypeOK, Delivery
  <2>. QED
    BY <2>3, <2>4, <2>5, <2>6, <2>7, <2>8, <2>9, <2>10 DEF Margin, Now, DeliveriesDoNotOverlap
<1>6. ASSUME NEW i \in Replicas, Post(i)
      PROVE  Margin'
  <2>1. delivery'[i].pc = "post" /\ \A j \in Replicas : j # i => delivery'[j] = delivery[j]
    BY <1>6, Zenon DEF Post, TypeOK, Delivery
  <2>2. \A m \in wire' : m \in wire \/ m \in [report : delivery[i].batch, by : {i}, age : {0}]
    BY <1>6 DEF Post
  <2>3. \A r \in delivery[i].batch : /\ r \in Reports
                                     /\ row[r].at = "queued" => row[r].due > ReportTimeout + MaxSkew
    <3>1. ASSUME NEW r \in delivery[i].batch, row[r].at = "queued"
          PROVE  row[r].due > ReportTimeout + MaxSkew
      <4>1. r \in Reports /\ row[r].due \in Past..Horizon
        BY DEF TypeOK, Delivery, Row
      <4>2. row[r].due > Now(i) + ReportTimeout + MaxSkew + MaxLatency
        BY <1>6, <3>1, Zenon DEF Post, Margin
      <4>. QED
        BY <4>1, <4>2, NowBounds, TimesAssumption DEF Past, Horizon
    <3>. QED
      BY <3>1 DEF TypeOK, Delivery
  <2>4. delivery[i].pc = "claimed" /\ row' = row
    BY <1>6 DEF Post
  <2>5. \A m \in wire' : row'[m.report].at = "queued" =>
                            row'[m.report].due > ReportTimeout - m.age + MaxSkew
    <3>. SUFFICES ASSUME NEW m \in wire', m \notin wire, row[m.report].at = "queued"
                  PROVE  row[m.report].due > ReportTimeout - m.age + MaxSkew
      BY <2>4, Zenon DEF Margin
    <3>1. m.report \in delivery[i].batch /\ m.age = 0
      BY <2>2
    <3>. QED
      BY <2>3, <3>1, TimesAssumption
  <2>6. \A j \in Replicas : delivery'[j].pc = "claimed" =>
            \A r \in delivery'[j].batch : \A m \in wire' : m.report # r
    BY <2>1, <2>2, <2>4 DEF Margin
  <2>7. DeliveriesDoNotOverlap'
    BY <2>2, <2>4 DEF Margin, DeliveriesDoNotOverlap
  <2>. QED
    BY <2>1, <2>4, <2>5, <2>6, <2>7 DEF Margin, Now
<1>7. ASSUME NEW i \in Replicas, DeliveryFails(i)
      PROVE  Margin'
  <2>1. delivery'[i].pc # "claimed" /\ \A j \in Replicas : j # i => delivery'[j] = delivery[j]
    BY <1>7 DEF DeliveryFails, Asleep, Idle, TypeOK
  <2>. QED
    BY <1>7, <2>1, MarginFrame, Zenon DEF DeliveryFails
<1>8. ASSUME NEW i \in Replicas, Reply(i) \/ ReplyInPart(i)
      PROVE  Margin'
  <2>1. delivery'[i].pc = "settle" /\ \A j \in Replicas : j # i => delivery'[j] = delivery[j]
    <3>1. \E ok, bad : delivery' = [delivery EXCEPT ![i].pc = "settle", ![i].ok = ok, ![i].bad = bad]
      BY <1>8, Zenon DEF Reply, ReplyInPart
    <3>2. delivery \in [Replicas -> Delivery]
      BY Zenon DEF TypeOK
    <3>. QED
      BY <3>1, <3>2 DEF Delivery
  <2>. QED
    BY <1>8, <2>1, MarginFrame, Zenon DEF Reply, ReplyInPart
<1>9. ASSUME NEW i \in Replicas, NEW r \in Reports, Park(i, r) \/ ParkFails(i, r)
      PROVE  Margin'
  <2>1. delivery'[i].pc = "settle" /\ \A j \in Replicas : j # i => delivery'[j] = delivery[j]
    BY <1>9, Zenon DEF Park, ParkFails, TypeOK, Delivery
  <2>2. \A q \in Reports : row'[q].at = "queued" => row'[q] = row[q]
    <3>. DEFINE p == [row[r] EXCEPT !.at = "parked", !.due = 0]
    <3>1. p.at = "parked"
      BY DEF TypeOK, Row
    <3>2. row' = row \/ row' = [row EXCEPT ![r] = p]
      BY <1>9, Zenon DEF Park, ParkFails
    <3>. HIDE DEF p
    <3>. QED
      BY <3>1, <3>2 DEF TypeOK
  <2>. QED
    BY <1>9, <2>1, <2>2, MarginFrame, Zenon DEF Park, ParkFails
<1>10. ASSUME NEW i \in Replicas, Remove(i)
       PROVE  Margin'
  <2>1. delivery'[i].pc = "idle" /\ \A j \in Replicas : j # i => delivery'[j] = delivery[j]
    BY <1>10, Zenon DEF Remove, Idle, TypeOK
  <2>2. \A q \in Reports : row'[q].at = "queued" => row'[q] = row[q]
    BY <1>10, Zenon DEF Remove, NoRow
  <2>. QED
    BY <1>10, <2>1, <2>2, MarginFrame, Zenon DEF Remove
<1>11. ASSUME NEW m \in wire, LyCharges(m) \/ LyEnds(m)
       PROVE  Margin'
  BY <1>11, MarginFrame, Zenon DEF LyCharges, LyEnds
<1>12. CASE Tick
  <2>1. \A r \in Reports : /\ row'[r].at = row[r].at
                           /\ row[r].at = "queued" /\ row[r].due > Past => row'[r].due = row[r].due - 1
    BY <1>12, Zenon DEF Tick, TypeOK, Row
  <2>2. \A i \in Replicas : /\ delivery'[i].pc = "claimed" <=> delivery[i].pc = "claimed"
                            /\ delivery'[i].batch = delivery[i].batch
                            /\ delivery[i].pc = "claimed" => delivery'[i].lag = delivery[i].lag + 1
    BY <1>12, Zenon DEF Tick, TypeOK, Delivery
  <2>3. ASSUME NEW m \in wire'
        PROVE  \E n \in wire : m.report = n.report /\ m.age = n.age + 1 /\ m = [n EXCEPT !.age = @ + 1]
    BY <1>12, <2>3, Zenon DEF Tick, TypeOK, Message
  <2>4. ASSUME NEW m \in wire', row'[m.report].at = "queued"
        PROVE  row'[m.report].due > ReportTimeout - m.age + MaxSkew
    <3>1. PICK n \in wire : m.report = n.report /\ m.age = n.age + 1
      BY <2>3
    <3>2. n.report \in Reports /\ n.age \in 0..ReportTimeout
      BY DEF TypeOK, Message
    <3>3. row[n.report].due \in Past..Horizon /\ row[n.report].at = "queued"
      BY <2>1, <2>4, <3>1, <3>2, Zenon DEF TypeOK, Row
    <3>4. row[n.report].due > ReportTimeout - n.age + MaxSkew
      BY <3>3, Zenon DEF Margin
    <3>5. row[n.report].due > Past
      BY <3>2, <3>3, <3>4, TimesAssumption DEF Past, Horizon
    <3>6. row'[m.report].due = row[n.report].due - 1
      BY <2>1, <3>1, <3>2, <3>3, <3>5, Zenon
    <3>. QED
      BY <3>1, <3>2, <3>3, <3>4, <3>6, TimesAssumption DEF Past
  <2>5. ASSUME NEW i \in Replicas, delivery[i].pc = "claimed", NEW r \in delivery[i].batch,
               row'[r].at = "queued"
        PROVE  row'[r].due > Now(i)' + ReportTimeout + MaxSkew + MaxLatency
    <3>1. r \in Reports
      BY DEF TypeOK, Delivery
    <3>2. row[r].due \in Past..Horizon /\ row[r].at = "queued"
      BY <2>1, <2>5, <3>1, Zenon DEF TypeOK, Row
    <3>3. row[r].due > Now(i) + ReportTimeout + MaxSkew + MaxLatency
      BY <2>5, <3>2, Zenon DEF Margin
    <3>4. row[r].due > Past
      BY <3>2, <3>3, NowBounds, TimesAssumption DEF Past
    <3>5. Now(i)' = Now(i) - 1
      BY <2>2, <2>5, TimesAssumption DEF Now, TypeOK, Delivery
    <3>6. row'[r].due = row[r].due - 1
      BY <2>1, <3>1, <3>2, <3>4, Zenon
    <3>. QED
      BY <3>2, <3>3, <3>5, <3>6, NowBounds, TimesAssumption DEF Past, Horizon
  <2>6. DeliveriesDoNotOverlap'
    BY <2>3 DEF Margin, DeliveriesDoNotOverlap
  <2>. QED
    BY <2>2, <2>3, <2>4, <2>5, <2>6 DEF Margin
<1>. QED
  BY <1>1, <1>2, <1>3, <1>4, <1>5, <1>6, <1>7, <1>8, <1>9, <1>10, <1>11, <1>12, Zenon DEF Next,
     DeliveryStep, FaultStep

\* The three invariants hold in every state.
THEOREM Invariant == Spec => [](TypeOK /\ Booked /\ Margin)
<1>1. Init => TypeOK
  BY TimesAssumption, CountsAssumption DEF Init, TypeOK, NoRow, Row, Past, Horizon, Idle, Delivery
<1>2. Init => Booked /\ Margin
  BY DEF Init, Booked, Results, UnderWay, Margin, DeliveriesDoNotOverlap, NoRow, Idle
<1>3. TypeOK /\ Booked /\ Margin /\ [Next]_vars => (TypeOK /\ Booked /\ Margin)'
  BY TypeStep, BookedStep, MarginStep
<1>. QED
  BY <1>1, <1>2, <1>3, PTL DEF Spec

\* Rows, deliveries, requests on the wire and charges keep their types, however
\* claims, posts, recoveries and crashes interleave: attempts and times never
\* leave the bounds the columns are given.
THEOREM TypeCorrect == Spec => []TypeOK
BY Invariant, PTL

\* Lingying never works on one report for two posts, whatever replicas die and
\* posts time out (outbox.go:42-43).
THEOREM NoOverlap == Spec => []DeliveriesDoNotOverlap
<1>1. Margin => DeliveriesDoNotOverlap
  BY DEF Margin
<1>. QED
  BY <1>1, Invariant, PTL

-----------------------------------------------------------------------------
(* The outbox implements the ledger. *)

\* The ledger's step for one report, from what the outbox's step does to it.
LEMMA LedgerStep ==
    ASSUME NEW r \in Reports,
           \A q \in Reports : q # r => Bill(q)' = Bill(q),
           \/ Bill(r)' = Bill(r)
           \/ Bill(r) = "open" /\ Bill(r)' \in {"owed", "unbilled"}
           \/ Bill(r) = "owed" /\ Bill(r)' \in {"charged", "refused"}
    PROVE  [Ledger!Next]_Bills
<1>. DEFINE b == [q \in Reports |-> Bill(q)]
            c == [q \in Reports |-> Bill(q)']
<1>. USE DEF Bills
<1>1. CASE Bill(r)' = Bill(r)
  <2>1. c = b
    BY <1>1
  <2>. QED
    BY <2>1
<1>2. ASSUME NEW to, Bill(r)' = to
      PROVE  c = [b EXCEPT ![r] = to]
  BY <1>2, Zenon
<1>3. CASE Bill(r) = "open" /\ Bill(r)' \in {"owed", "unbilled"}
  BY <1>2, <1>3, Zenon DEF Ledger!Next, Ledger!Owe, Ledger!Forgo, Ledger!Become
<1>4. CASE Bill(r) = "owed" /\ Bill(r)' \in {"charged", "refused"}
  BY <1>2, <1>4, Zenon DEF Ledger!Next, Ledger!Charge, Ledger!Refuse, Ledger!Become
<1>. QED
  BY <1>1, <1>3, <1>4, Zenon

\* Every step of the outbox is one of the ledger or leaves it as it is.
LEMMA Simulation ==
    ASSUME TypeOK, Booked, [Next]_vars
    PROVE  [Ledger!Next]_Bills
<1>1. CASE UNCHANGED <<serving, row, charged>>
  BY <1>1 DEF Bills, Bill
<1>2. ASSUME NEW r \in Reports, NEW i \in Replicas, Record(r, i)
      PROVE  [Ledger!Next]_Bills
  <2>1. row'[r].at = "queued" /\ \A q \in Reports : q # r => row'[q] = row[q]
    BY <1>2 DEF Record, Stored, TypeOK
  <2>2. r \in serving /\ serving' = serving \ {r} /\ charged' = charged /\ r \notin charged
    BY <1>2 DEF Record, Booked
  <2>3. ASSUME NEW q \in Reports, q # r
        PROVE  Bill(q)' = Bill(q)
    <3>1. (q \in serving' <=> q \in serving) /\ (q \in charged' <=> q \in charged) /\ row'[q] = row[q]
      BY <2>1, <2>2, <2>3
    <3>. QED
      BY <3>1 DEF Bill
  <2>4. Bill(r) = "open" /\ Bill(r)' = "owed"
    BY <2>1, <2>2 DEF Bill
  <2>. QED
    BY <2>3, <2>4, LedgerStep
<1>3. ASSUME NEW r \in Reports, RecordFails(r)
      PROVE  [Ledger!Next]_Bills
  <2>1. /\ r \in serving /\ serving' = serving \ {r} /\ UNCHANGED <<row, charged>>
        /\ r \notin charged /\ row[r].at = "none"
    BY <1>3 DEF RecordFails, Booked
  <2>2. ASSUME NEW q \in Reports, q # r
        PROVE  Bill(q)' = Bill(q)
    <3>1. (q \in serving' <=> q \in serving) /\ (q \in charged' <=> q \in charged) /\ row'[q] = row[q]
      BY <2>1, <2>2
    <3>. QED
      BY <3>1 DEF Bill
  <2>3. Bill(r) = "open" /\ Bill(r)' = "unbilled"
    BY <2>1 DEF Bill
  <2>. QED
    BY <2>2, <2>3, LedgerStep
<1>4. ASSUME NEW i \in Replicas, Claim(i)
      PROVE  [Ledger!Next]_Bills
  <2>1. PICK S \in Claimable(i) :
            row' = [r \in Reports |-> IF r \in S THEN Scheduled(i, r) ELSE row[r]]
    BY <1>4 DEF Claim
  <2>2. \A r \in S : row[r].at = "queued"
    BY DEF Claimable, Due
  <2>3. \A r \in Reports : row'[r].at = row[r].at
    BY <2>1, <2>2, ScheduledRow
  <2>4. \A r \in Reports : Bill(r)' = Bill(r)
    BY <1>4, <2>3, Zenon DEF Claim, Bill
  <2>. QED
    BY <2>4 DEF Bills
<1>5. ASSUME NEW i \in Replicas, NEW r \in Reports, Park(i, r)
      PROVE  [Ledger!Next]_Bills
  <2>1. r \notin serving /\ r \notin charged
    BY <1>5, Zenon DEF Park, Booked, Results, UnderWay
  <2>2. /\ \A q \in Reports : q # r => row'[q] = row[q]
        /\ row'[r].at = IF row[r].at = "none" THEN "none" ELSE "parked"
    <3>. DEFINE p == [row[r] EXCEPT !.at = "parked", !.due = 0]
    <3>1. p.at = "parked"
      BY DEF TypeOK, Row
    <3>2. row' = IF row[r].at = "none" THEN row ELSE [row EXCEPT ![r] = p]
      BY <1>5 DEF Park
    <3>. HIDE DEF p
    <3>. QED
      BY <3>1, <3>2 DEF TypeOK
  <2>3. UNCHANGED <<serving, charged>>
    BY <1>5 DEF Park
  <2>4. \A q \in Reports : q # r => Bill(q)' = Bill(q)
    BY <2>2, <2>3, Zenon DEF Bill
  <2>5. row[r].at \in {"none", "queued", "parked"}
    BY DEF TypeOK, Row
  <2>6. Bill(r)' = Bill(r) \/ (Bill(r) = "owed" /\ Bill(r)' = "refused")
    BY <2>1, <2>2, <2>3, <2>5, Zenon DEF Bill
  <2>. QED
    BY <2>4, <2>6, LedgerStep
<1>6. ASSUME NEW i \in Replicas, Remove(i)
      PROVE  [Ledger!Next]_Bills
  <2>1. \A r \in Reports : r \in charged \/ row'[r] = row[r]
    BY <1>6, Zenon DEF Remove, Accepted, Booked, Results
  <2>2. UNCHANGED <<serving, charged>>
    BY <1>6 DEF Remove
  <2>3. \A r \in Reports : Bill(r)' = Bill(r)
    BY <2>1, <2>2, Zenon DEF Bill, Booked
  <2>. QED
    BY <2>3 DEF Bills
<1>7. ASSUME NEW m \in wire, LyCharges(m)
      PROVE  [Ledger!Next]_Bills
  <2>. DEFINE r == m.report
  <2>1. r \in Reports /\ r \in Valid /\ UnderWay(r)
    BY <1>7 DEF LyCharges, TypeOK, Message, UnderWay
  <2>2. r \notin serving /\ (r \in charged \/ row[r].at = "queued")
    BY <2>1 DEF Booked
  <2>3. charged' = charged \cup {r} /\ UNCHANGED <<serving, row>>
    BY <1>7 DEF LyCharges
  <2>4. \A q \in Reports : q # r => Bill(q)' = Bill(q)
    BY <2>3 DEF Bill
  <2>5. Bill(r)' = Bill(r) \/ (Bill(r) = "owed" /\ Bill(r)' = "charged")
    BY <2>2, <2>3, Zenon DEF Bill
  <2>. HIDE DEF r
  <2>. QED
    BY <2>1, <2>4, <2>5, LedgerStep, Zenon
<1>8. CASE Tick
  <2>1. \A r \in Reports : row'[r].at = row[r].at
    BY <1>8, Zenon DEF Tick, TypeOK, Row
  <2>2. \A r \in Reports : Bill(r)' = Bill(r)
    BY <1>8, <2>1, Zenon DEF Tick, Bill
  <2>. QED
    BY <2>2 DEF Bills
<1>. QED
  BY <1>1, <1>2, <1>3, <1>4, <1>5, <1>6, <1>7, <1>8, Zenon DEF Next, DeliveryStep, FaultStep, vars,
     StartClaim, Post, Reply, DeliveryFails, ReplyInPart, ParkFails, LyEnds

\* A stored report is charged or refused, once, and one that was not stored is
\* not charged, whatever fails on the way (deliverer.go:15-17).
THEOREM Refinement == Spec => ImplementsLedger
<1>1. Init => Ledger!Init
  BY DEF Init, Bills, Bill, Ledger!Init
<1>2. TypeOK /\ Booked /\ [Next]_vars => [Ledger!Next]_Bills
  BY Simulation
<1>. QED
  BY <1>1, <1>2, Invariant, PTL DEF Spec, ImplementsLedger, Ledger!Spec

=============================================================================
