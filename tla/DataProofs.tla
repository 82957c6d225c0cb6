------------------------------ MODULE DataProofs ------------------------------
(***************************************************************************)
(* What the dataserver's parts keep, for any records, items, editors and   *)
(* faults.                                                                 *)
(*                                                                         *)
(* Ingest.  That what was acknowledged is stored needs the history of each *)
(* request: the records it is past are stored or bad (WorkIsBacked), and a *)
(* mark is only on a stored record (MarksAreStored).  That the copies are  *)
(* cuts needs that without a timeout there is one request at a time        *)
(* (OneAtATime), and, for each record, whether a copy more than the cuts   *)
(* is marked or about to be (CopiesSoFar).                                 *)
(*                                                                         *)
(* Names.  A lookup may use what an earlier one left in the cache.  That   *)
(* this is no older than what was answered follows from the version: what  *)
(* was read at the current version was read after the last answer          *)
(* (LoadedIsAnswered, LookupsAreCurrent), and no version comes twice while *)
(* the process lives (RoomForVersions keeps the model's bound from being   *)
(* the reason).  An endpoint's last sighting is in the first place of      *)
(* dirty, taken and endpoint that has any (SightingsAreTraced).            *)
(*                                                                         *)
(* Retention.  A round acts on what it planned: the items it has still to  *)
(* visit are those its phase looks for (TodoIsDue), a deadline is not      *)
(* before the end of the days the item was last noted with (PlansAreLate), *)
(* and between the loop of the series and the end of the round nothing old *)
(* is left in the series but what arrived meanwhile (SeriesAreClean).      *)
(***************************************************************************)
EXTENDS DataIngest, ApmNames, DataRetention, FiniteSetTheorems, TLAPS

\* The agent waits for one request at a time, on the batch at its head.
OnePosted ==
    /\ \A p, q \in reqs : p.waiting /\ q.waiting => p = q
    /\ \A q \in reqs : q.waiting => q.batch = head
    /\ Len(mishaps) <= MaxMishaps

\* What a request is past it has stored, and what it is at is as far as its
\* pc says.
Backed(q) ==
    /\ \A k \in DOMAIN Batch(q) : k < q.at /\ Batch(q)[k] \notin Bad => Stored(Batch(q)[k])
    /\ q.pc # "check" => InRecords(q) /\ Rec(q) \notin Bad
    /\ q.pc = "observe" => Kind[Rec(q)] = "traces" /\ (Rec(q) \in Short \/ docs[Rec(q)] > 0)
    /\ q.pc = "mark" => Stored(Rec(q))

WorkIsBacked == \A q \in reqs : Backed(q)

MarksAreStored == \A r \in marked : Stored(r)

OneAtATime ==
    /\ \A q \in reqs : q.waiting
    /\ \A q \in reqs : q.pc # "check" => Rec(q) \notin marked

\* A record has at most one copy more than cuts, and none more if no request
\* has written or marked it.
CopiesSoFar ==
    \A r \in AllRecords :
        /\ docs[r] <= 1 + cut[r] /\ absorbed[r] <= 1 + cut[r]
        /\ r \notin marked /\ (\A q \in reqs : q.pc \in {"observe", "mark"} => Rec(q) # r) =>
             docs[r] <= cut[r] /\ absorbed[r] <= cut[r]
        /\ \A q \in reqs : q.pc = "observe" /\ Rec(q) = r => absorbed[r] <= cut[r]

IngestInv ==
    /\ IngestTypeOK /\ OnePosted /\ WorkIsBacked /\ MarksAreStored /\ AcknowledgedIsStored
    /\ ~Happened("timeout") => OneAtATime /\ CopiesSoFar

-----------------------------------------------------------------------------

LEMMA RecIsRecord ==
    ASSUME NEW q \in Request
    PROVE  /\ Batch(q) \in Seq(AllRecords)
           /\ InRecords(q) => q.at \in DOMAIN Batch(q) /\ Rec(q) \in AllRecords
BY IngestAssumption DEF Request, InRecords, Rec, Batch

\* No step takes anything from a store, nor forgets a mishap.
Grows ==
    /\ \A r \in AllRecords : docs[r] <= docs'[r] /\ absorbed[r] <= absorbed'[r]
    /\ kept \subseteq kept'
    /\ Happened("sink") => Happened("sink")'

LEMMA GrowthKeeps ==
    ASSUME IngestTypeOK, IngestTypeOK', Grows
    PROVE  /\ \A r \in AllRecords : Stored(r) => Stored(r)'
           /\ \A q \in Request : Backed(q) => Backed(q)'
           /\ MarksAreStored /\ marked' = marked => MarksAreStored'
           /\ AcknowledgedIsStored /\ outcome' = outcome => AcknowledgedIsStored'
<1>1. ASSUME NEW r \in AllRecords, Stored(r)
      PROVE  Stored(r)'
  <2>2. /\ docs[r] \in Nat /\ absorbed[r] \in Nat /\ docs'[r] \in Nat /\ absorbed'[r] \in Nat
        /\ docs[r] <= docs'[r] /\ absorbed[r] <= absorbed'[r]
    BY DEF Grows, IngestTypeOK
  <2> QED
    BY <1>1, <2>2 DEF Stored, Grows
<1>2. ASSUME NEW q \in Request, Backed(q)
      PROVE  Backed(q)'
  <2>1. \A k \in DOMAIN Batch(q) : Batch(q)[k] \in AllRecords
    BY RecIsRecord
  <2>2. InRecords(q) => Rec(q) \in AllRecords
    BY RecIsRecord
  <2>3. q.pc = "observe" => (Rec(q) \in Short \/ docs'[Rec(q)] > 0)
    BY <1>2, <2>2 DEF Backed, Grows, IngestTypeOK
  <2> QED
    BY <1>1, <1>2, <2>1, <2>2, <2>3 DEF Backed, Batch, Rec, InRecords
<1>3. \A b \in DOMAIN Batches : RecordsOf(b) \subseteq AllRecords
  BY IngestAssumption DEF RecordsOf
<1> QED
  BY <1>1, <1>2, <1>3 DEF IngestTypeOK, MarksAreStored, AcknowledgedIsStored

LEMMA MishapAdds ==
    ASSUME IngestTypeOK, NEW m, Mishap(m)
    PROVE  /\ mishaps' \in Seq(Mishaps) /\ Len(mishaps') <= MaxMishaps
           /\ \A x : Happened(x)' <=> Happened(x) \/ x = m
<1>1. mishaps \in Seq(Mishaps) /\ m \in Mishaps /\ Len(mishaps) < MaxMishaps /\ mishaps' = Append(mishaps, m)
  BY DEF IngestTypeOK, Mishap
<1>2. /\ mishaps' \in Seq(Mishaps) /\ Len(mishaps') = Len(mishaps) + 1 /\ Len(mishaps) \in Nat
      /\ DOMAIN mishaps' = 1 .. Len(mishaps) + 1 /\ DOMAIN mishaps = 1 .. Len(mishaps)
      /\ \A n \in DOMAIN mishaps : mishaps'[n] = mishaps[n]
      /\ mishaps'[Len(mishaps) + 1] = m
  BY <1>1
<1>3. MaxMishaps \in Nat
  BY IngestAssumption
<1> QED
  BY <1>1, <1>2, <1>3 DEF Happened

LEMMA IngestInitially == IngestInit => IngestInv
<1> SUFFICES ASSUME IngestInit PROVE IngestInv
  OBVIOUS
<1>1. IngestTypeOK
  BY IngestAssumption DEF IngestInit, IngestTypeOK, NoCopies, Outcomes
<1>2. OnePosted /\ WorkIsBacked /\ MarksAreStored /\ AcknowledgedIsStored
  BY IngestAssumption DEF IngestInit, OnePosted, WorkIsBacked, MarksAreStored, AcknowledgedIsStored
<1>3. OneAtATime /\ CopiesSoFar
  BY DEF IngestInit, OneAtATime, CopiesSoFar, NoCopies
<1> QED
  BY <1>1, <1>2, <1>3 DEF IngestInv

\* What a request becomes that goes on with the record it is at, or with the next.
LEMMA GoesOnIsRequest ==
    ASSUME NEW q \in Request
    PROVE  /\ \A pc \in {"check", "write", "observe", "mark"} : [q EXCEPT !.pc = pc] \in Request
           /\ \A n \in Nat : [q EXCEPT !.pc = "check", !.at = @ + 1, !.accepted = @ + n] \in Request
           /\ [q EXCEPT !.waiting = FALSE] \in Request
<1>1. q = [no |-> q.no, batch |-> q.batch, at |-> q.at, pc |-> q.pc, accepted |-> q.accepted,
           waiting |-> q.waiting]
  BY DEF Request
<1>2. ASSUME NEW pc \in {"check", "write", "observe", "mark"}
      PROVE  [q EXCEPT !.pc = pc] \in Request
  BY <1>2 DEF Request
<1>3. ASSUME NEW n \in Nat
      PROVE  [q EXCEPT !.pc = "check", !.at = @ + 1, !.accepted = @ + n] \in Request
  <2>1. q.at + 1 \in Nat \ {0} /\ q.accepted + n \in Nat
    BY DEF Request
  <2> QED
    BY <2>1 DEF Request
<1>4. [q EXCEPT !.waiting = FALSE] \in Request
  BY DEF Request
<1> QED
  BY <1>2, <1>3, <1>4

\* A request becomes p, and the stores grow by what backs it.
GoesOn(q, p) ==
    /\ reqs' = (reqs \ {q}) \cup {p}
    /\ p.waiting = q.waiting /\ p.batch = q.batch
    /\ head' = head /\ outcome' = outcome /\ Len(mishaps') <= MaxMishaps
    /\ IngestTypeOK' /\ Grows /\ Backed(p)' /\ MarksAreStored'

LEMMA GoesOnKeeps ==
    ASSUME IngestInv, NEW q \in reqs, NEW p, GoesOn(q, p)
    PROVE  IngestTypeOK' /\ OnePosted' /\ WorkIsBacked' /\ MarksAreStored' /\ AcknowledgedIsStored'
<1>1. OnePosted'
  BY DEF GoesOn, IngestInv, OnePosted
<1>2. \A a \in reqs : Backed(a)'
  BY GrowthKeeps DEF GoesOn, IngestInv, WorkIsBacked, IngestTypeOK
<1>3. WorkIsBacked'
  BY <1>2 DEF GoesOn, WorkIsBacked
<1>4. AcknowledgedIsStored'
  BY GrowthKeeps DEF GoesOn, IngestInv
<1> QED
  BY <1>1, <1>3, <1>4 DEF GoesOn

\* While the agent never gave up, a request that is worked on is the only one.
LEMMA AloneWithoutTimeout ==
    ASSUME IngestInv, NEW q \in reqs, ~Happened("timeout")
    PROVE  reqs = {q} /\ q.waiting /\ OneAtATime /\ CopiesSoFar
BY DEF IngestInv, OnePosted, OneAtATime

LEMMA CheckKeeps ==
    ASSUME IngestInv, NEW q \in reqs, Check(q)
    PROVE  IngestInv'
<1>1. /\ q.pc = "check" /\ InRecords(q)
      /\ UNCHANGED <<head, docs, kept, absorbed, marked, stream, outcome, cut, mishaps>>
  BY DEF Check, stores
<1>2. IngestTypeOK /\ OnePosted /\ MarksAreStored /\ q \in Request /\ Backed(q)
  BY DEF IngestInv, IngestTypeOK, WorkIsBacked
<1>3. Rec(q) \in AllRecords /\ DOMAIN Batch(q) = 1 .. Len(Batch(q)) /\ Len(Batch(q)) \in Nat
  BY <1>1, <1>2, RecIsRecord
<1>4. Grows /\ (\A x : Happened(x)' <=> Happened(x)) /\ MarksAreStored' /\ Len(mishaps') <= MaxMishaps
  BY <1>1, <1>2 DEF Grows, IngestTypeOK, Happened, MarksAreStored, Stored, OnePosted
<1>5. \A r \in AllRecords : Stored(r) => Stored(r)'
  BY <1>1, <1>4 DEF Stored
<1>6. ASSUME NEW n \in {0, 1}, Passed(q, n), Rec(q) \in Bad \/ Rec(q) \in marked
      PROVE  IngestInv'
  <2> DEFINE p == [q EXCEPT !.pc = "check", !.at = @ + 1, !.accepted = @ + n]
  <2>1. reqs' = (reqs \ {q}) \cup {p} /\ p \in Request
    BY <1>2, <1>6, GoesOnIsRequest DEF Passed
  <2>2. p.pc = "check" /\ p.at = q.at + 1 /\ p.batch = q.batch /\ p.waiting = q.waiting
    BY <1>2 DEF Request
  <2> HIDE DEF p
  <2>3. IngestTypeOK'
    BY <1>1, <1>2, <2>1 DEF IngestTypeOK
  <2>4. Backed(p)'
    <3>1. Rec(q) \notin Bad => Stored(Rec(q))'
      BY <1>2, <1>3, <1>5, <1>6 DEF MarksAreStored
    <3>2. \A k \in DOMAIN Batch(q) : k < q.at /\ Batch(q)[k] \notin Bad => Stored(Batch(q)[k])'
      BY <1>2, <1>5, RecIsRecord DEF Backed
    <3>3. \A k \in DOMAIN Batch(p) : k < p.at /\ Batch(p)[k] \notin Bad => Stored(Batch(p)[k])'
      BY <1>2, <1>3, <2>2, <3>1, <3>2 DEF Batch, Rec, Request
    <3> QED
      BY <2>2, <3>3 DEF Backed, Batch
  <2>5. GoesOn(q, p)
    BY <1>1, <1>4, <2>1, <2>2, <2>3, <2>4 DEF GoesOn
  <2>6. ASSUME ~Happened("timeout")'
        PROVE  OneAtATime' /\ CopiesSoFar'
    <3>1. reqs = {q} /\ q.waiting /\ OneAtATime /\ CopiesSoFar
      BY <1>4, <2>6, AloneWithoutTimeout
    <3> QED
      BY <1>1, <2>1, <2>2, <3>1 DEF OneAtATime, CopiesSoFar
  <2> QED
    BY <2>5, <2>6, GoesOnKeeps DEF IngestInv
<1>7. ASSUME To(q, "write"), Rec(q) \notin Bad, Rec(q) \notin marked
      PROVE  IngestInv'
  <2> DEFINE p == [q EXCEPT !.pc = "write"]
  <2>1. reqs' = (reqs \ {q}) \cup {p} /\ p \in Request
    BY <1>2, <1>7, GoesOnIsRequest DEF To
  <2>2. p.pc = "write" /\ p.at = q.at /\ p.batch = q.batch /\ p.waiting = q.waiting
    BY <1>2 DEF Request
  <2> HIDE DEF p
  <2>3. IngestTypeOK'
    BY <1>1, <1>2, <2>1 DEF IngestTypeOK
  <2>4. Backed(p)'
    <3>1. \A k \in DOMAIN Batch(q) : k < q.at /\ Batch(q)[k] \notin Bad => Stored(Batch(q)[k])'
      BY <1>2, <1>5, RecIsRecord DEF Backed
    <3> QED
      BY <1>1, <1>7, <2>2, <3>1 DEF Backed, Batch, Rec, InRecords
  <2>5. GoesOn(q, p)
    BY <1>1, <1>4, <2>1, <2>2, <2>3, <2>4 DEF GoesOn
  <2>6. ASSUME ~Happened("timeout")'
        PROVE  OneAtATime' /\ CopiesSoFar'
    <3>1. reqs = {q} /\ q.waiting /\ OneAtATime /\ CopiesSoFar
      BY <1>4, <2>6, AloneWithoutTimeout
    <3> QED
      BY <1>1, <1>7, <2>1, <2>2, <3>1 DEF OneAtATime, CopiesSoFar, Rec, Batch
  <2> QED
    BY <2>5, <2>6, GoesOnKeeps DEF IngestInv
<1> QED
  BY <1>6, <1>7 DEF Check, AlreadyAccepted

LEMMA PostKeeps ==
    ASSUME IngestInv, Post
    PROVE  IngestInv'
<1> PICK p : p = [no |-> Len(mishaps), batch |-> head, at |-> 1, pc |-> "check",
                  accepted |-> 0, waiting |-> TRUE]
  OBVIOUS
<1>1. /\ head <= Len(Batches) /\ (\A q \in reqs : ~q.waiting) /\ reqs' = reqs \cup {p}
      /\ UNCHANGED <<head, docs, kept, absorbed, marked, stream, outcome, cut, mishaps>>
  BY DEF Post, stores
<1>2. IngestTypeOK /\ OnePosted /\ Len(mishaps) \in Nat /\ MaxMishaps \in Nat /\ DOMAIN Batches = 1 .. Len(Batches)
  BY IngestAssumption DEF IngestInv, IngestTypeOK
<1>3. p \in Request
  BY <1>1, <1>2 DEF IngestTypeOK, OnePosted, Request
<1>4. p.waiting /\ p.batch = head /\ p.pc = "check" /\ p.at = 1
  OBVIOUS
<1>5. IngestTypeOK'
  BY <1>1, <1>2, <1>3 DEF IngestTypeOK
<1>6. OnePosted'
  BY <1>1, <1>2, <1>4 DEF OnePosted
<1>7. Grows /\ (\A x : Happened(x)' <=> Happened(x))
  BY <1>1, <1>2 DEF Grows, IngestTypeOK, Happened
<1>8. Backed(p)'
  <2>1. DOMAIN Batch(p) = 1 .. Len(Batch(p)) /\ Len(Batch(p)) \in Nat
    BY <1>3, RecIsRecord
  <2>2. \A k \in DOMAIN Batch(p) : ~(k < p.at)
    BY <1>4, <2>1
  <2> QED
    BY <1>4, <2>2 DEF Backed, Batch
<1>9. WorkIsBacked' /\ MarksAreStored' /\ AcknowledgedIsStored'
  <2>1. \A q \in reqs : Backed(q)'
    BY <1>2, <1>5, <1>7, GrowthKeeps DEF IngestInv, WorkIsBacked, IngestTypeOK
  <2>2. WorkIsBacked'
    BY <1>1, <1>8, <2>1 DEF WorkIsBacked
  <2> QED
    BY <1>1, <1>2, <1>5, <1>7, <2>2, GrowthKeeps DEF IngestInv
<1>10. ASSUME ~Happened("timeout")'
       PROVE  OneAtATime' /\ CopiesSoFar'
  BY <1>1, <1>4, <1>7, <1>10 DEF IngestInv, OneAtATime, CopiesSoFar, Rec, Batch
<1> QED
  BY <1>5, <1>6, <1>9, <1>10 DEF IngestInv

LEMMA GiveUpKeeps ==
    ASSUME IngestInv, NEW q \in reqs, GiveUp(q)
    PROVE  IngestInv'
<1> DEFINE p == [q EXCEPT !.waiting = FALSE]
<1>1. /\ q.waiting /\ Mishap("timeout") /\ reqs' = (reqs \ {q}) \cup {p}
      /\ UNCHANGED <<head, docs, kept, absorbed, marked, stream, outcome, cut>>
  BY DEF GiveUp, stores
<1>2. IngestTypeOK /\ OnePosted /\ q \in Request
  BY DEF IngestInv, IngestTypeOK
<1>3. p \in Request /\ ~p.waiting /\ p.batch = q.batch /\ p.pc = q.pc /\ p.at = q.at
  BY <1>2, GoesOnIsRequest DEF Request
<1> HIDE DEF p
<1>4. /\ mishaps' \in Seq(Mishaps) /\ Len(mishaps') <= MaxMishaps /\ Happened("timeout")'
      /\ Happened("sink") => Happened("sink")'
  BY <1>1, <1>2, MishapAdds
<1>5. IngestTypeOK'
  BY <1>1, <1>2, <1>3, <1>4 DEF IngestTypeOK
<1>6. OnePosted'
  BY <1>1, <1>2, <1>3, <1>4 DEF OnePosted
<1>7. Grows
  BY <1>1, <1>2, <1>4 DEF Grows, IngestTypeOK
<1>8. Backed(q)' /\ \A a \in reqs : Backed(a)'
  BY <1>2, <1>5, <1>7, GrowthKeeps DEF IngestInv, WorkIsBacked, IngestTypeOK
<1>9. Backed(p)'
  BY <1>3, <1>8 DEF Backed, Batch, Rec, InRecords
<1>10. WorkIsBacked' /\ MarksAreStored' /\ AcknowledgedIsStored'
  BY <1>1, <1>2, <1>5, <1>7, <1>8, <1>9, GrowthKeeps DEF IngestInv, WorkIsBacked, IngestTypeOK
<1> QED
  BY <1>4, <1>5, <1>6, <1>10 DEF IngestInv

LEMMA WriteKeeps ==
    ASSUME IngestInv, NEW q \in reqs, Write(q)
    PROVE  IngestInv'
<1>1. IngestTypeOK /\ OnePosted /\ MarksAreStored /\ q \in Request /\ Backed(q)
  BY DEF IngestInv, IngestTypeOK, WorkIsBacked
<1>2. /\ q.pc = "write" /\ InRecords(q) /\ Rec(q) \notin Bad
      /\ UNCHANGED <<head, absorbed, marked, stream, outcome, cut>>
  BY <1>1 DEF Write, Backed
<1>3. Rec(q) \in AllRecords
  BY <1>1, <1>2, RecIsRecord
<1> PICK pc \in {"observe", "mark"} :
      /\ To(q, pc)
      /\ pc = "observe" <=> Kind[Rec(q)] = "traces"
  BY <1>2 DEF Write
<1>4. PICK p : p = [q EXCEPT !.pc = pc]
  OBVIOUS
<1>5. reqs' = (reqs \ {q}) \cup {p} /\ p \in Request
  BY <1>1, <1>4, GoesOnIsRequest DEF To
<1>6. p.pc = pc /\ p.at = q.at /\ p.batch = q.batch /\ p.waiting = q.waiting
  BY <1>1, <1>4 DEF Request
<1>7. UNCHANGED mishaps \/ (Mishap("sink") /\ Kind[Rec(q)] = "edges" /\ UNCHANGED <<docs, kept>>)
  BY DEF Write
<1>8. /\ mishaps' \in Seq(Mishaps) /\ Len(mishaps') <= MaxMishaps
      /\ \A x : Happened(x) => Happened(x)'
  BY <1>1, <1>7, MishapAdds DEF IngestTypeOK, OnePosted, Happened
<1>9. /\ docs' \in [AllRecords -> Nat] /\ kept' \subseteq AllRecords /\ kept \subseteq kept'
      /\ \A r \in AllRecords : docs'[r] = docs[r] \/ (r = Rec(q) /\ docs'[r] = docs[r] + 1)
  <2>1. docs' = docs \/ docs' = [docs EXCEPT ![Rec(q)] = @ + 1]
    BY DEF Write, AppendDoc
  <2>2. kept' = kept \/ kept' = kept \cup {Rec(q)}
    BY DEF Write
  <2>3. docs \in [AllRecords -> Nat] /\ kept \subseteq AllRecords
    BY <1>1 DEF IngestTypeOK
  <2> QED
    BY <1>3, <2>1, <2>2, <2>3
<1>10. IngestTypeOK'
  BY <1>1, <1>2, <1>5, <1>8, <1>9 DEF IngestTypeOK
<1>11. Grows
  <2>1. docs \in [AllRecords -> Nat] /\ absorbed \in [AllRecords -> Nat]
    BY <1>1 DEF IngestTypeOK
  <2>2. \A r \in AllRecords : docs[r] <= docs'[r] /\ absorbed[r] <= absorbed'[r]
    BY <1>2, <1>9, <2>1
  <2> QED
    BY <1>8, <1>9, <2>2 DEF Grows
<1>12. MarksAreStored' /\ (\A r \in AllRecords : Stored(r) => Stored(r)')
  BY <1>1, <1>2, <1>10, <1>11, GrowthKeeps
<1>13. pc = "mark" => Stored(Rec(q))'
  <2>1. CASE Kind[Rec(q)] = "logs"
    BY <1>1, <1>3, <2>1 DEF Write, AppendDoc, Stored, IngestTypeOK
  <2>2. CASE Kind[Rec(q)] \in {"metrics", "edges"}
    <3>1. Rec(q) \in kept' \/ (Kind[Rec(q)] = "edges" /\ Mishap("sink"))
      BY <2>2 DEF Write
    <3> QED
      BY <1>1, <2>2, <3>1, MishapAdds DEF Stored
  <2> QED
    BY <1>3, <2>1, <2>2, IngestAssumption DEF Kinds
<1>14. pc = "observe" => (Rec(q) \in Short \/ docs'[Rec(q)] > 0)
  BY <1>1, <1>3 DEF Write, AppendDoc, IngestTypeOK
<1>15. Backed(p)'
  <2>1. \A k \in DOMAIN Batch(q) : k < q.at /\ Batch(q)[k] \notin Bad => Stored(Batch(q)[k])'
    BY <1>1, <1>12, RecIsRecord DEF Backed
  <2> QED
    BY <1>2, <1>6, <1>13, <1>14, <2>1 DEF Backed, Batch, Rec, InRecords
<1>16. GoesOn(q, p)
  BY <1>2, <1>5, <1>6, <1>8, <1>10, <1>11, <1>12, <1>15 DEF GoesOn
<1>17. ASSUME ~Happened("timeout")'
       PROVE  OneAtATime' /\ CopiesSoFar'
  <2>1. reqs = {q} /\ q.waiting /\ OneAtATime /\ CopiesSoFar /\ reqs' = {p}
    BY <1>5, <1>8, <1>17, AloneWithoutTimeout
  <2>2. Rec(q) \notin marked /\ docs[Rec(q)] <= cut[Rec(q)] /\ absorbed[Rec(q)] <= cut[Rec(q)]
    BY <1>2, <1>3, <2>1 DEF OneAtATime, CopiesSoFar
  <2>3. Rec(p) = Rec(q)
    BY <1>6 DEF Rec, Batch
  <2>4. OneAtATime'
    BY <1>2, <1>6, <2>1, <2>2, <2>3 DEF OneAtATime
  <2>5. CopiesSoFar'
    BY <1>1, <1>2, <1>3, <1>6, <1>9, <2>1, <2>2, <2>3, SMTT(60) DEF CopiesSoFar, IngestTypeOK
  <2> QED
    BY <2>4, <2>5
<1> QED
  BY <1>16, <1>17, GoesOnKeeps DEF IngestInv

LEMMA AbsorbKeeps ==
    ASSUME IngestInv, NEW q \in reqs, Absorb(q)
    PROVE  IngestInv'
<1>1. IngestTypeOK /\ OnePosted /\ MarksAreStored /\ q \in Request /\ Backed(q)
  BY DEF IngestInv, IngestTypeOK, WorkIsBacked
<1>2. /\ q.pc = "observe" /\ InRecords(q) /\ Rec(q) \notin Bad
      /\ Kind[Rec(q)] = "traces" /\ (Rec(q) \in Short \/ docs[Rec(q)] > 0)
      /\ absorbed' = [absorbed EXCEPT ![Rec(q)] = @ + 1] /\ To(q, "mark")
      /\ UNCHANGED <<head, docs, kept, marked, stream, outcome, cut, mishaps>>
  BY <1>1 DEF Absorb, Backed
<1>3. Rec(q) \in AllRecords
  BY <1>1, <1>2, RecIsRecord
<1>4. PICK p : p = [q EXCEPT !.pc = "mark"]
  OBVIOUS
<1>5. reqs' = (reqs \ {q}) \cup {p} /\ p \in Request
  BY <1>1, <1>2, <1>4, GoesOnIsRequest DEF To
<1>6. p.pc = "mark" /\ p.at = q.at /\ p.batch = q.batch /\ p.waiting = q.waiting
  BY <1>1, <1>4 DEF Request
<1>7. (\A x : Happened(x)' <=> Happened(x)) /\ Len(mishaps') <= MaxMishaps
  BY <1>1, <1>2 DEF OnePosted, Happened
<1>8. /\ absorbed' \in [AllRecords -> Nat]
      /\ \A r \in AllRecords : absorbed'[r] = IF r = Rec(q) THEN absorbed[r] + 1 ELSE absorbed[r]
  BY <1>1, <1>2, <1>3 DEF IngestTypeOK
<1>9. IngestTypeOK'
  BY <1>1, <1>2, <1>5, <1>8 DEF IngestTypeOK
<1>10. Grows
  BY <1>1, <1>2, <1>7, <1>8 DEF Grows, IngestTypeOK
<1>11. MarksAreStored' /\ (\A r \in AllRecords : Stored(r) => Stored(r)')
  BY <1>1, <1>2, <1>9, <1>10, GrowthKeeps
<1>12. Stored(Rec(q))'
  BY <1>1, <1>2, <1>3, <1>8 DEF Stored, IngestTypeOK
<1>13. Backed(p)'
  <2>1. \A k \in DOMAIN Batch(q) : k < q.at /\ Batch(q)[k] \notin Bad => Stored(Batch(q)[k])'
    BY <1>1, <1>11, RecIsRecord DEF Backed
  <2> QED
    BY <1>2, <1>6, <1>12, <2>1 DEF Backed, Batch, Rec, InRecords
<1>14. GoesOn(q, p)
  BY <1>2, <1>5, <1>6, <1>7, <1>9, <1>10, <1>11, <1>13 DEF GoesOn
<1>15. ASSUME ~Happened("timeout")'
       PROVE  OneAtATime' /\ CopiesSoFar'
  <2>1. reqs = {q} /\ q.waiting /\ OneAtATime /\ CopiesSoFar /\ reqs' = {p}
    BY <1>5, <1>7, <1>15, AloneWithoutTimeout
  <2>2. Rec(q) \notin marked /\ absorbed[Rec(q)] <= cut[Rec(q)]
    BY <1>2, <1>3, <2>1 DEF OneAtATime, CopiesSoFar
  <2>3. Rec(p) = Rec(q)
    BY <1>6 DEF Rec, Batch
  <2>4. OneAtATime'
    BY <1>2, <1>6, <2>1, <2>2, <2>3 DEF OneAtATime
  <2>5. CopiesSoFar'
    BY <1>1, <1>2, <1>3, <1>6, <1>8, <2>1, <2>2, <2>3, SMTT(60) DEF CopiesSoFar, IngestTypeOK
  <2> QED
    BY <2>4, <2>5
<1> QED
  BY <1>14, <1>15, GoesOnKeeps DEF IngestInv

LEMMA MarkKeeps ==
    ASSUME IngestInv, NEW q \in reqs, Mark(q)
    PROVE  IngestInv'
<1>1. IngestTypeOK /\ OnePosted /\ MarksAreStored /\ q \in Request /\ Backed(q)
  BY DEF IngestInv, IngestTypeOK, WorkIsBacked
<1>2. /\ q.pc = "mark" /\ InRecords(q) /\ Stored(Rec(q))
      /\ marked' = marked \cup {Rec(q)} /\ Passed(q, 1)
      /\ UNCHANGED <<head, docs, kept, absorbed, stream, outcome, cut, mishaps>>
  BY <1>1 DEF Mark, Backed
<1>3. Rec(q) \in AllRecords /\ DOMAIN Batch(q) = 1 .. Len(Batch(q)) /\ Len(Batch(q)) \in Nat
  BY <1>1, <1>2, RecIsRecord
<1>4. PICK p : p = [q EXCEPT !.pc = "check", !.at = @ + 1, !.accepted = @ + 1]
  OBVIOUS
<1>5. reqs' = (reqs \ {q}) \cup {p} /\ p \in Request
  BY <1>1, <1>2, <1>4, GoesOnIsRequest DEF Passed
<1>6. p.pc = "check" /\ p.at = q.at + 1 /\ p.batch = q.batch /\ p.waiting = q.waiting
  BY <1>1, <1>4 DEF Request
<1>7. (\A x : Happened(x)' <=> Happened(x)) /\ Len(mishaps') <= MaxMishaps
  BY <1>1, <1>2 DEF OnePosted, Happened
<1>8. IngestTypeOK'
  BY <1>1, <1>2, <1>3, <1>5 DEF IngestTypeOK
<1>9. Grows
  BY <1>1, <1>2, <1>7 DEF Grows, IngestTypeOK
<1>10. \A r \in AllRecords : Stored(r) => Stored(r)'
  BY <1>1, <1>8, <1>9, GrowthKeeps
<1>11. MarksAreStored'
  BY <1>1, <1>2, <1>3, <1>10 DEF MarksAreStored, IngestTypeOK
<1>12. Backed(p)'
  <2>1. \A k \in DOMAIN Batch(q) : k < q.at /\ Batch(q)[k] \notin Bad => Stored(Batch(q)[k])'
    BY <1>1, <1>10, RecIsRecord DEF Backed
  <2>2. Stored(Rec(q))'
    BY <1>2, <1>3, <1>10
  <2>3. \A k \in DOMAIN Batch(p) : k < p.at /\ Batch(p)[k] \notin Bad => Stored(Batch(p)[k])'
    <3> SUFFICES ASSUME NEW k \in DOMAIN Batch(p), k < p.at, Batch(p)[k] \notin Bad
                 PROVE  Stored(Batch(p)[k])'
      OBVIOUS
    <3>1. Batch(p) = Batch(q) /\ k \in Nat /\ q.at \in Nat /\ k < q.at + 1
      BY <1>1, <1>3, <1>6 DEF Batch, Request
    <3>2. CASE k < q.at
      BY <2>1, <3>1, <3>2
    <3>3. CASE k = q.at
      BY <2>2, <3>1, <3>3 DEF Rec
    <3> QED
      BY <3>1, <3>2, <3>3
  <2> QED
    BY <1>6, <2>3 DEF Backed, Batch
<1>13. GoesOn(q, p)
  BY <1>2, <1>5, <1>6, <1>7, <1>8, <1>9, <1>11, <1>12 DEF GoesOn
<1>14. ASSUME ~Happened("timeout")'
       PROVE  OneAtATime' /\ CopiesSoFar'
  <2>1. reqs = {q} /\ q.waiting /\ OneAtATime /\ CopiesSoFar /\ reqs' = {p}
    BY <1>5, <1>7, <1>14, AloneWithoutTimeout
  <2> QED
    BY <1>2, <1>6, <2>1 DEF OneAtATime, CopiesSoFar
<1> QED
  BY <1>13, <1>14, GoesOnKeeps DEF IngestInv

\* A request ends, with the records it wrote and did not mark counted as cut.
Ends(q) ==
    /\ reqs' = reqs \ {q}
    /\ cut' \in [AllRecords -> Nat]
    /\ \A r \in AllRecords :
         cut'[r] = IF q.pc \in {"observe", "mark"} /\ Rec(q) = r THEN cut[r] + 1 ELSE cut[r]
    /\ UNCHANGED <<head, docs, kept, absorbed, marked, stream, outcome>>
    /\ UNCHANGED mishaps \/ \E m : Mishap(m)

LEMMA EndsKeeps ==
    ASSUME IngestInv, NEW q \in reqs, Ends(q)
    PROVE  IngestInv'
<1>1. IngestTypeOK /\ OnePosted /\ MarksAreStored /\ q \in Request /\ Backed(q)
  BY DEF IngestInv, IngestTypeOK, WorkIsBacked
<1>2. mishaps' \in Seq(Mishaps) /\ Len(mishaps') <= MaxMishaps /\ (\A x : Happened(x) => Happened(x)')
  BY <1>1, MishapAdds DEF Ends, IngestTypeOK, OnePosted, Happened
<1>3. IngestTypeOK'
  BY <1>1, <1>2 DEF IngestTypeOK, Ends
<1>4. OnePosted'
  BY <1>1, <1>2 DEF OnePosted, Ends
<1>5. Grows
  BY <1>1, <1>2 DEF Grows, Ends, IngestTypeOK
<1>6. WorkIsBacked' /\ MarksAreStored' /\ AcknowledgedIsStored'
  <2>1. \A a \in reqs : Backed(a)'
    BY <1>1, <1>3, <1>5, GrowthKeeps DEF IngestInv, WorkIsBacked, IngestTypeOK
  <2>2. WorkIsBacked'
    BY <2>1 DEF WorkIsBacked, Ends
  <2> QED
    BY <1>1, <1>3, <1>5, <2>2, GrowthKeeps DEF IngestInv, Ends
<1>7. ASSUME ~Happened("timeout")'
      PROVE  OneAtATime' /\ CopiesSoFar'
  <2>1. reqs = {q} /\ OneAtATime /\ CopiesSoFar /\ reqs' = {}
    BY <1>2, <1>7, AloneWithoutTimeout DEF Ends
  <2>2. ASSUME NEW r \in AllRecords
        PROVE  /\ docs[r] <= 1 + cut'[r] /\ absorbed[r] <= 1 + cut'[r]
               /\ r \notin marked => docs[r] <= cut'[r] /\ absorbed[r] <= cut'[r]
    <3>1. docs[r] \in Nat /\ absorbed[r] \in Nat /\ cut[r] \in Nat
      BY <1>1 DEF IngestTypeOK
    <3>2. /\ docs[r] <= 1 + cut[r] /\ absorbed[r] <= 1 + cut[r]
          /\ r \notin marked /\ ~(q.pc \in {"observe", "mark"} /\ Rec(q) = r) =>
               docs[r] <= cut[r] /\ absorbed[r] <= cut[r]
      BY <2>1 DEF CopiesSoFar
    <3>3. cut'[r] = IF q.pc \in {"observe", "mark"} /\ Rec(q) = r THEN cut[r] + 1 ELSE cut[r]
      BY DEF Ends
    <3> QED
      BY <3>1, <3>2, <3>3
  <2>4. UNCHANGED <<docs, absorbed, marked>>
    BY DEF Ends
  <2> QED
    BY <2>1, <2>2, <2>4 DEF OneAtATime, CopiesSoFar
<1> QED
  BY <1>1, <1>3, <1>4, <1>6, <1>7 DEF IngestInv

LEMMA EngineFailsKeeps ==
    ASSUME IngestInv, NEW q \in reqs, EngineFails(q) \/ Dropped(q)
    PROVE  IngestInv'
<1>1. Finish(q) /\ Cut({q}) /\ UNCHANGED <<head, docs, kept, absorbed, marked, stream, outcome>>
  BY DEF EngineFails, Failed, Dropped, stores
<1>2. UNCHANGED mishaps \/ \E m : Mishap(m)
  BY DEF EngineFails, Dropped
<1>3. cut \in [AllRecords -> Nat]
  BY DEF IngestInv, IngestTypeOK
<1>4. Ends(q)
  BY <1>1, <1>2, <1>3 DEF Ends, Finish, Cut
<1> QED
  BY <1>4, EndsKeeps

LEMMA ReplyKeeps ==
    ASSUME IngestInv, NEW q \in reqs, Reply(q)
    PROVE  IngestInv'
<1>1. IngestTypeOK /\ OnePosted /\ MarksAreStored /\ AcknowledgedIsStored /\ q \in Request /\ Backed(q)
  BY DEF IngestInv, IngestTypeOK, WorkIsBacked
<1>2. /\ q.pc = "check" /\ ~InRecords(q) /\ reqs' = reqs \ {q}
      /\ UNCHANGED <<docs, kept, absorbed, marked, cut, mishaps>>
  BY DEF Reply, Finish
<1>3. /\ head' \in 1 .. Len(Batches) + 1 /\ stream' \in Nat /\ outcome' \in [DOMAIN Batches -> Outcomes]
      /\ q.waiting => head' = head + 1 /\ outcome' = [outcome EXCEPT ![q.batch] = "stored"]
      /\ ~q.waiting => head' = head /\ outcome' = outcome
  <2>1. q.waiting => head \in DOMAIN Batches
    BY <1>1 DEF OnePosted, Request
  <2>2. DOMAIN Batches = 1 .. Len(Batches) /\ Len(Batches) \in Nat
    BY IngestAssumption
  <2>3. /\ q.waiting => head' = head + 1 /\ outcome' = [outcome EXCEPT ![q.batch] = "stored"]
        /\ ~q.waiting => head' = head /\ outcome' = outcome
        /\ stream' \in Nat
    BY <1>1, <1>2 DEF Reply, Confirm, IngestTypeOK, Request
  <2>4. head' \in 1 .. Len(Batches) + 1
    <3>1. head \in 1 .. Len(Batches) + 1
      BY <1>1 DEF IngestTypeOK
    <3>2. CASE q.waiting
      BY <2>1, <2>2, <2>3, <3>2
    <3> QED
      BY <2>3, <3>1, <3>2
  <2>5. outcome' \in [DOMAIN Batches -> Outcomes]
    <3>1. outcome \in [DOMAIN Batches -> Outcomes] /\ "stored" \in Outcomes
      BY <1>1 DEF IngestTypeOK, Outcomes
    <3> QED
      BY <2>3, <3>1
  <2> QED
    BY <2>3, <2>4, <2>5
<1>4. IngestTypeOK'
  BY <1>1, <1>2, <1>3 DEF IngestTypeOK
<1>5. OnePosted'
  BY <1>1, <1>2, <1>3 DEF OnePosted
<1>6. (\A x : Happened(x)' <=> Happened(x)) /\ (\A r : Stored(r)' <=> Stored(r))
  BY <1>2 DEF Happened, Stored
<1>7. WorkIsBacked' /\ MarksAreStored'
  BY <1>1, <1>2, <1>6 DEF IngestInv, WorkIsBacked, MarksAreStored, Backed
<1>8. AcknowledgedIsStored'
  <2>1. \A r \in RecordsOf(q.batch) \ Bad : Stored(r)
    <3>1. DOMAIN Batch(q) = 1 .. Len(Batch(q)) /\ Len(Batch(q)) \in Nat
      BY <1>1, RecIsRecord
    <3>2. \A k \in DOMAIN Batch(q) : k < q.at
      BY <1>1, <1>2, <3>1 DEF InRecords, Request
    <3> QED
      BY <1>1, <3>2 DEF Backed, RecordsOf, Batch
  <2> QED
    BY <1>1, <1>3, <1>6, <2>1 DEF AcknowledgedIsStored, IngestTypeOK
<1>9. ASSUME ~Happened("timeout")'
      PROVE  OneAtATime' /\ CopiesSoFar'
  <2>1. reqs = {q} /\ OneAtATime /\ CopiesSoFar /\ reqs' = {}
    BY <1>2, <1>6, <1>9, AloneWithoutTimeout
  <2> QED
    BY <1>2, <2>1 DEF OneAtATime, CopiesSoFar
<1> QED
  BY <1>4, <1>5, <1>7, <1>8, <1>9 DEF IngestInv

LEMMA RefuseKeeps ==
    ASSUME IngestInv, NEW q \in reqs, Refuse(q)
    PROVE  IngestInv'
<1>1. IngestTypeOK /\ OnePosted /\ MarksAreStored /\ AcknowledgedIsStored /\ q \in Request
  BY DEF IngestInv, IngestTypeOK
<1>2. /\ q.pc = "write" /\ reqs' = reqs \ {q}
      /\ UNCHANGED <<docs, kept, absorbed, marked, stream, cut, mishaps>>
  BY DEF Refuse, Refused, Finish, stores
<1>3. /\ head' \in 1 .. Len(Batches) + 1 /\ outcome' \in [DOMAIN Batches -> Outcomes]
      /\ q.waiting => head' = head + 1 /\ outcome' = [outcome EXCEPT ![q.batch] = "refused"]
      /\ ~q.waiting => head' = head /\ outcome' = outcome
  <2>1. q.waiting => head \in DOMAIN Batches
    BY <1>1 DEF OnePosted, Request
  <2>2. DOMAIN Batches = 1 .. Len(Batches) /\ Len(Batches) \in Nat
    BY IngestAssumption
  <2>3. /\ q.waiting => head' = head + 1 /\ outcome' = [outcome EXCEPT ![q.batch] = "refused"]
        /\ ~q.waiting => head' = head /\ outcome' = outcome
        /\ stream' \in Nat
    BY <1>1, <1>2 DEF Refuse, Refused, Confirm, IngestTypeOK, Request
  <2>4. head' \in 1 .. Len(Batches) + 1
    <3>1. head \in 1 .. Len(Batches) + 1
      BY <1>1 DEF IngestTypeOK
    <3>2. CASE q.waiting
      BY <2>1, <2>2, <2>3, <3>2
    <3> QED
      BY <2>3, <3>1, <3>2
  <2>5. outcome' \in [DOMAIN Batches -> Outcomes]
    <3>1. outcome \in [DOMAIN Batches -> Outcomes] /\ "refused" \in Outcomes
      BY <1>1 DEF IngestTypeOK, Outcomes
    <3> QED
      BY <2>3, <3>1
  <2> QED
    BY <2>3, <2>4, <2>5
<1>4. IngestTypeOK'
  BY <1>1, <1>2, <1>3 DEF IngestTypeOK
<1>5. OnePosted'
  BY <1>1, <1>2, <1>3 DEF OnePosted
<1>6. (\A x : Happened(x)' <=> Happened(x)) /\ (\A r : Stored(r)' <=> Stored(r))
  BY <1>2 DEF Happened, Stored
<1>7. WorkIsBacked' /\ MarksAreStored' /\ AcknowledgedIsStored'
  BY <1>1, <1>2, <1>3, <1>6 DEF IngestInv, WorkIsBacked, MarksAreStored, AcknowledgedIsStored, Backed, IngestTypeOK
<1>8. ASSUME ~Happened("timeout")'
      PROVE  OneAtATime' /\ CopiesSoFar'
  <2>1. reqs = {q} /\ OneAtATime /\ CopiesSoFar /\ reqs' = {}
    BY <1>2, <1>6, <1>8, AloneWithoutTimeout
  <2> QED
    BY <1>2, <2>1 DEF OneAtATime, CopiesSoFar
<1> QED
  BY <1>4, <1>5, <1>7, <1>8 DEF IngestInv

LEMMA CrashIngestKeeps ==
    ASSUME IngestInv, CrashIngest
    PROVE  IngestInv'
<1>1. /\ reqs' = {} /\ Cut(reqs) /\ Mishap("crash")
      /\ UNCHANGED <<head, docs, kept, absorbed, marked, stream, outcome>>
  BY DEF CrashIngest, stores
<1>2. IngestTypeOK /\ OnePosted
  BY DEF IngestInv
<1>3. mishaps' \in Seq(Mishaps) /\ Len(mishaps') <= MaxMishaps /\ (\A x : Happened(x) => Happened(x)')
  BY <1>1, <1>2, MishapAdds
<1>4. IngestTypeOK'
  BY <1>1, <1>2, <1>3 DEF IngestTypeOK, Cut
<1>5. Grows
  BY <1>1, <1>2, <1>3 DEF Grows, IngestTypeOK
<1>6. OnePosted' /\ WorkIsBacked' /\ MarksAreStored' /\ AcknowledgedIsStored'
  BY <1>1, <1>2, <1>3, <1>4, <1>5, GrowthKeeps DEF IngestInv, OnePosted, WorkIsBacked
<1>7. ASSUME ~Happened("timeout")'
      PROVE  OneAtATime' /\ CopiesSoFar'
  <2>1. OneAtATime /\ CopiesSoFar
    BY <1>3, <1>7 DEF IngestInv
  <2>2. ASSUME NEW r \in AllRecords
        PROVE  /\ docs[r] <= 1 + cut'[r] /\ absorbed[r] <= 1 + cut'[r]
               /\ r \notin marked => docs[r] <= cut'[r] /\ absorbed[r] <= cut'[r]
    <3>1. docs[r] \in Nat /\ absorbed[r] \in Nat /\ cut[r] \in Nat
      BY <1>2 DEF IngestTypeOK
    <3>2. CASE \E q \in reqs : q.pc \in {"observe", "mark"} /\ Rec(q) = r
      <4>1. cut'[r] = cut[r] + 1
        BY <1>1, <3>2 DEF Cut
      <4> QED
        BY <2>1, <3>1, <4>1 DEF CopiesSoFar
    <3>3. CASE ~\E q \in reqs : q.pc \in {"observe", "mark"} /\ Rec(q) = r
      <4>1. cut'[r] = cut[r]
        BY <1>1, <3>3 DEF Cut
      <4> QED
        BY <2>1, <3>1, <3>3, <4>1 DEF CopiesSoFar
    <3> QED
      BY <3>2, <3>3
  <2> QED
    BY <1>1, <2>2 DEF OneAtATime, CopiesSoFar
<1> QED
  BY <1>4, <1>6, <1>7 DEF IngestInv

LEMMA IngestStep == IngestInv /\ [IngestNext]_ingestVars => IngestInv'
<1> SUFFICES ASSUME IngestInv, [IngestNext]_ingestVars
             PROVE  IngestInv'
  OBVIOUS
<1>1. CASE Post
  BY <1>1, PostKeeps
<1>2. ASSUME NEW q \in reqs, GiveUp(q) \/ HandlerStep(q)
      PROVE  IngestInv'
  BY <1>2, GiveUpKeeps, CheckKeeps, WriteKeeps, AbsorbKeeps, MarkKeeps, ReplyKeeps, RefuseKeeps,
     EngineFailsKeeps DEF HandlerStep
<1>3. CASE CrashIngest
  BY <1>3, CrashIngestKeeps
<1>4. CASE UNCHANGED ingestVars
  BY <1>4 DEF ingestVars, IngestInv, IngestTypeOK, OnePosted, WorkIsBacked, MarksAreStored,
     AcknowledgedIsStored, OneAtATime, CopiesSoFar, Backed, Stored, Happened
<1> QED
  BY <1>1, <1>2, <1>3, <1>4 DEF IngestNext

\* Whatever crashes, retries, overlapping requests and engine errors there
\* are, what the ingest acknowledged is stored, and a record is stored twice
\* only when a request was cut between the write and the mark.
THEOREM BatchesStayStored == IngestSpec => []BatchesAreStored
<1>1. IngestInv => BatchesAreStored
  BY DEF IngestInv, BatchesAreStored, CopiesAreCuts, CopiesSoFar
<1> QED
  BY <1>1, IngestInitially, IngestStep, PTL DEF IngestSpec

-----------------------------------------------------------------------------
(* Names                                                                   *)

\* No editor has answered, or will, for a change that was not made.
AnswersAreChanges == answered <= revision /\ \A w \in Editors : editor[w].revision <= revision

LoadedIsAnswered ==
    /\ loaded = NotLoaded \/ loaded.version <= version
    /\ loaded.version = version => answered <= loaded.revision

\* A lookup that began at the current version began after the last answer.
LookupsAreCurrent ==
    \A r \in Lookups :
        /\ lookup[r].version <= version /\ lookup[r].floor <= answered
        /\ lookup[r].step # "waiting" /\ lookup[r].version = version => lookup[r].floor = answered
        /\ lookup[r].step \in {"listed", "found"} => lookup[r].floor <= lookup[r].revision

AtWork == {w \in Editors : editor[w] # Waiting}

\* Each editor at work may invalidate the cache once more.
RoomForVersions == version + Cardinality(AtWork) <= MaxVersions

SightingsAreTraced ==
    \A i \in Instances :
        /\ dirty[i] > 0 => dirty[i] = seen[i]
        /\ dirty[i] = 0 /\ taken[i] > 0 => taken[i] = seen[i]
        /\ dirty[i] = 0 /\ taken[i] = 0 /\ i \notin dropped => endpoint[i] = seen[i]

NamesInv ==
    /\ NamesTypeOK /\ AnswersAreChanges /\ LoadedIsAnswered /\ LookupsAreCurrent /\ RoomForVersions
    /\ SightingsAreTraced

LEMMA NamesInitially == NamesInit => NamesInv
<1> SUFFICES ASSUME NamesInit PROVE NamesInv
  OBVIOUS
<1>1. MaxRevisions \in Nat /\ MaxVersions \in Nat /\ MaxSightings \in Nat /\ MaxNameFaults \in Nat
  BY NamesAssumption
<1>2. NamesTypeOK
  <2>1. Waiting \in [step : {"waiting", "put", "deleted", "counted"}, hit : BOOLEAN, revision : Revisions]
    BY <1>1 DEF Waiting, Revisions
  <2>2. NoLookup \in [step : {"waiting", "read", "listed", "found"}, version : 0 .. MaxVersions,
                      revision : Revisions, floor : Revisions]
    BY <1>1 DEF NoLookup, Revisions
  <2>3. NotLoaded \in [version : 0 .. MaxVersions + 1, revision : Revisions]
    BY <1>1 DEF NotLoaded, Revisions
  <2>4. Unseen \in [Instances -> 0 .. MaxSightings]
    BY <1>1 DEF Unseen
  <2>5. 0 \in Revisions /\ 0 \in 0 .. MaxVersions /\ 0 \in 0 .. 1 /\ 0 \in 0 .. MaxNameFaults
    BY <1>1 DEF Revisions
  <2>6. editor \in [Editors -> [step : {"waiting", "put", "deleted", "counted"}, hit : BOOLEAN,
                               revision : Revisions]]
    BY <2>1 DEF NamesInit
  <2>7. lookup \in [Lookups -> [step : {"waiting", "read", "listed", "found"}, version : 0 .. MaxVersions,
                               revision : Revisions, floor : Revisions]]
    BY <2>2 DEF NamesInit
  <2> QED
    BY <2>3, <2>4, <2>5, <2>6, <2>7 DEF NamesInit, NamesTypeOK
<1>3. AtWork = {}
  BY DEF NamesInit, AtWork
<1>4. AnswersAreChanges /\ LoadedIsAnswered /\ LookupsAreCurrent /\ SightingsAreTraced
  BY <1>1 DEF NamesInit, AnswersAreChanges, LoadedIsAnswered, LookupsAreCurrent, SightingsAreTraced,
     NotLoaded, Waiting, NoLookup, Unseen
<1>5. RoomForVersions
  BY <1>1, <1>3, FS_EmptySet DEF NamesInit, RoomForVersions
<1> QED
  BY <1>2, <1>4, <1>5 DEF NamesInv

\* How many editors are at work after one of them started or ended.
LEMMA WorkCounted ==
    ASSUME NEW w \in Editors, editor \in [Editors -> [step : {"waiting", "put", "deleted", "counted"},
                                                      hit : BOOLEAN, revision : Revisions]]
    PROVE  /\ Cardinality(AtWork) \in Nat /\ Cardinality(AtWork) <= Cardinality(Editors)
           /\ Cardinality(Editors) \in Nat
           /\ \A e : editor' = [editor EXCEPT ![w] = e] =>
                /\ editor[w] # Waiting /\ e # Waiting => Cardinality(AtWork') = Cardinality(AtWork)
                /\ editor[w] # Waiting /\ e = Waiting => Cardinality(AtWork') = Cardinality(AtWork) - 1
                /\ editor[w] = Waiting => Cardinality(AtWork') <= Cardinality(Editors)
<1>1. IsFiniteSet(Editors) /\ AtWork \in SUBSET Editors
  BY NamesAssumption DEF AtWork
<1>2. IsFiniteSet(AtWork) /\ Cardinality(AtWork) <= Cardinality(Editors)
  BY <1>1, FS_Subset
<1>3. Cardinality(Editors) \in Nat /\ Cardinality(AtWork) \in Nat
  BY <1>1, <1>2, FS_CardinalityType
<1>4. ASSUME NEW e, editor' = [editor EXCEPT ![w] = e]
      PROVE  /\ editor[w] # Waiting /\ e # Waiting => Cardinality(AtWork') = Cardinality(AtWork)
             /\ editor[w] # Waiting /\ e = Waiting => Cardinality(AtWork') = Cardinality(AtWork) - 1
             /\ editor[w] = Waiting => Cardinality(AtWork') <= Cardinality(Editors)
  <2>1. \A v \in Editors : editor'[v] = IF v = w THEN e ELSE editor[v]
    BY <1>4
  <2>2. editor[w] # Waiting /\ e # Waiting => AtWork' = AtWork
    BY <2>1 DEF AtWork
  <2>3. editor[w] # Waiting /\ e = Waiting => AtWork' = AtWork \ {w} /\ w \in AtWork
    BY <2>1 DEF AtWork
  <2>4. AtWork' \in SUBSET Editors
    BY DEF AtWork
  <2> QED
    BY <1>1, <1>2, <2>2, <2>3, <2>4, FS_RemoveElement, FS_Subset
<1> QED
  BY <1>2, <1>3, <1>4

\* A statement that changes the aliases, or none, and starts or ends no
\* invalidation.
LEMMA StartKeeps ==
    ASSUME NamesInv, NEW w \in Editors, PutAlias(w) \/ DeleteAlias(w)
    PROVE  NamesInv'
<1>1. NamesTypeOK /\ MaxRevisions \in Nat
  BY NamesAssumption DEF NamesInv
<1>2. CanStart(w) /\ UNCHANGED <<version, loaded, lookup, answered, endpointVars, nameFaults>>
  BY DEF PutAlias, DeleteAlias
<1>3. /\ revision' \in Revisions /\ revision <= revision'
      /\ present' \in BOOLEAN /\ changes' \in 0 .. 1
  <2>1. revision < MaxRevisions /\ revision \in 0 .. MaxRevisions /\ present \in BOOLEAN
    BY <1>1, <1>2 DEF CanStart, NamesTypeOK, Revisions
  <2>2. revision' \in {revision, revision + 1} /\ changes' \in 0 .. 1
    BY DEF PutAlias, DeleteAlias
  <2>3. revision' \in Revisions /\ revision <= revision'
    BY <1>1, <2>1, <2>2 DEF Revisions
  <2>4. present' \in BOOLEAN
    BY <2>1, Zenon DEF PutAlias, DeleteAlias
  <2> QED
    BY <2>2, <2>3, <2>4
<1>4. PICK e \in [step : {"put", "deleted"}, hit : BOOLEAN, revision : Revisions] :
        editor' = [editor EXCEPT ![w] = e] /\ e.revision = revision'
  <2>1. CASE PutAlias(w)
    <3>1. /\ [step |-> "put", hit |-> TRUE, revision |-> revision + 1] \in
               [step : {"put", "deleted"}, hit : BOOLEAN, revision : Revisions]
          /\ revision' = revision + 1
      BY <1>3, <2>1 DEF PutAlias
    <3> QED
      BY <2>1, <3>1 DEF PutAlias
  <2>2. CASE DeleteAlias(w)
    <3>1. [step |-> "deleted", hit |-> FALSE, revision |-> revision'] \in
             [step : {"put", "deleted"}, hit : BOOLEAN, revision : Revisions]
      BY <1>3
    <3> QED
      BY <2>2, <3>1 DEF DeleteAlias
  <2> QED
    BY <2>1, <2>2
<1>5. NamesTypeOK'
  BY <1>1, <1>2, <1>3, <1>4 DEF NamesTypeOK, endpointVars
<1>6. AnswersAreChanges'
  BY <1>1, <1>2, <1>3, <1>4 DEF NamesInv, AnswersAreChanges, NamesTypeOK, Revisions
<1>7. LoadedIsAnswered' /\ LookupsAreCurrent' /\ SightingsAreTraced'
  BY <1>2 DEF NamesInv, LoadedIsAnswered, LookupsAreCurrent, SightingsAreTraced, endpointVars
<1>8. RoomForVersions'
  <2>1. editor[w] = Waiting /\ version + Cardinality(Editors) <= MaxVersions /\ version' = version
    BY <1>2 DEF CanStart
  <2>2. Cardinality(AtWork') <= Cardinality(Editors) /\ Cardinality(Editors) \in Nat
    BY <1>1, <1>4, <2>1, WorkCounted DEF NamesTypeOK
  <2>3. Cardinality(AtWork') \in Nat
    BY <1>1, <1>5, NamesAssumption, FS_Subset, FS_CardinalityType DEF AtWork
  <2> QED
    BY <1>1, <2>1, <2>2, <2>3, NamesAssumption DEF NamesTypeOK, RoomForVersions
<1> QED
  BY <1>5, <1>6, <1>7, <1>8 DEF NamesInv

\* A request that goes on from its count, or ends with no invalidation.
LEMMA CountKeeps ==
    ASSUME NamesInv, NEW w \in Editors, CountChanges(w) \/ NotFound(w) \/ HangUp(w)
    PROVE  NamesInv'
<1>1. NamesTypeOK /\ MaxRevisions \in Nat /\ MaxNameFaults \in Nat
  BY NamesAssumption DEF NamesInv
<1>2. /\ UNCHANGED <<revision, present, changes, version, loaded, lookup, answered, endpointVars>>
      /\ editor[w] # Waiting /\ nameFaults' \in 0 .. MaxNameFaults
  BY <1>1 DEF CountChanges, NotFound, HangUp, NameFault, NamesTypeOK, Waiting
<1>3. PICK e \in [step : {"waiting", "put", "deleted", "counted"}, hit : BOOLEAN, revision : Revisions] :
        /\ editor' = [editor EXCEPT ![w] = e] /\ e.revision <= revision
  <2>1. CASE CountChanges(w)
    <3> DEFINE e == [editor[w] EXCEPT !.step = "counted", !.hit = changes > 0]
    <3>1. editor[w] \in [step : {"waiting", "put", "deleted", "counted"}, hit : BOOLEAN, revision : Revisions]
      BY <1>1 DEF NamesTypeOK
    <3>2. /\ e \in [step : {"waiting", "put", "deleted", "counted"}, hit : BOOLEAN, revision : Revisions]
          /\ e.revision = editor[w].revision
      <4>1. (changes > 0) \in BOOLEAN
        OBVIOUS
      <4> QED
        BY <3>1, <4>1
    <3>3. editor' = [editor EXCEPT ![w] = e]
      BY <2>1 DEF CountChanges
    <3> QED
      BY <3>2, <3>3 DEF NamesInv, AnswersAreChanges
  <2>2. CASE NotFound(w) \/ HangUp(w)
    <3>1. /\ Waiting \in [step : {"waiting", "put", "deleted", "counted"}, hit : BOOLEAN, revision : Revisions]
          /\ Waiting.revision <= revision
      BY <1>1 DEF Waiting, NamesTypeOK, Revisions
    <3> QED
      BY <2>2, <3>1 DEF NotFound, HangUp
  <2> QED
    BY <2>1, <2>2
<1>4. NamesTypeOK'
  BY <1>1, <1>2, <1>3 DEF NamesTypeOK, endpointVars
<1>5. AnswersAreChanges'
  BY <1>1, <1>2, <1>3 DEF NamesInv, AnswersAreChanges, NamesTypeOK
<1>6. LoadedIsAnswered' /\ LookupsAreCurrent' /\ SightingsAreTraced'
  BY <1>2 DEF NamesInv, LoadedIsAnswered, LookupsAreCurrent, SightingsAreTraced, endpointVars
<1>7. RoomForVersions'
  <2>1. Cardinality(AtWork') \in {Cardinality(AtWork), Cardinality(AtWork) - 1} /\ Cardinality(AtWork) \in Nat
    BY <1>1, <1>2, <1>3, WorkCounted DEF NamesTypeOK
  <2> QED
    BY <1>1, <1>2, <2>1, NamesAssumption DEF NamesInv, NamesTypeOK, RoomForVersions
<1> QED
  BY <1>4, <1>5, <1>6, <1>7 DEF NamesInv

LEMMA ChangedKeeps ==
    ASSUME NamesInv, NEW w \in Editors, Changed(w)
    PROVE  NamesInv'
<1>1. NamesTypeOK /\ MaxRevisions \in Nat /\ MaxVersions \in Nat
  BY NamesAssumption DEF NamesInv
<1>2. /\ UNCHANGED <<revision, present, changes, loaded, lookup, endpointVars, nameFaults>>
      /\ editor[w] # Waiting /\ editor' = [editor EXCEPT ![w] = Waiting] /\ version' = version + 1
      /\ answered' = IF editor[w].revision > answered THEN editor[w].revision ELSE answered
  BY DEF Changed, Invalidated, Waiting
<1>3. /\ Cardinality(AtWork') = Cardinality(AtWork) - 1 /\ Cardinality(AtWork) \in Nat
      /\ Cardinality(AtWork') \in Nat
  <2>1. Cardinality(AtWork') = Cardinality(AtWork) - 1 /\ Cardinality(AtWork) \in Nat
    BY <1>1, <1>2, WorkCounted DEF NamesTypeOK
  <2>2. w \in AtWork /\ IsFiniteSet(AtWork)
    BY <1>2, NamesAssumption, FS_Subset DEF AtWork
  <2> QED
    BY <2>1, <2>2, FS_EmptySet
<1>4. RoomForVersions' /\ version' \in 0 .. MaxVersions
  BY <1>1, <1>2, <1>3 DEF NamesInv, NamesTypeOK, RoomForVersions
<1>5. answered' \in Revisions /\ answered <= answered' /\ answered' <= revision
  BY <1>1, <1>2 DEF NamesInv, AnswersAreChanges, NamesTypeOK, Revisions
<1>6. Waiting \in [step : {"waiting", "put", "deleted", "counted"}, hit : BOOLEAN, revision : Revisions]
  BY <1>1 DEF Waiting, Revisions
<1>7. NamesTypeOK'
  BY <1>1, <1>2, <1>4, <1>5, <1>6 DEF NamesTypeOK, endpointVars
<1>8. AnswersAreChanges'
  BY <1>1, <1>2, <1>5 DEF NamesInv, AnswersAreChanges, Waiting, NamesTypeOK, Revisions
<1>9. LoadedIsAnswered'
  BY <1>1, <1>2, <1>4 DEF NamesInv, LoadedIsAnswered, NotLoaded, NamesTypeOK
<1>10. LookupsAreCurrent'
  BY <1>1, <1>2, <1>5 DEF NamesInv, LookupsAreCurrent, NamesTypeOK, Revisions
<1>11. SightingsAreTraced'
  BY <1>2 DEF NamesInv, SightingsAreTraced, endpointVars
<1> QED
  BY <1>4, <1>7, <1>8, <1>9, <1>10, <1>11 DEF NamesInv

LEMMA LookupKeeps ==
    ASSUME NamesInv, NEW r \in Lookups,
           BeginLookup(r) \/ ListAliases(r) \/ StoreLoaded(r) \/ EndLookup(r)
    PROVE  NamesInv'
<1> DEFINE LookupType == [step : {"waiting", "read", "listed", "found"}, version : 0 .. MaxVersions,
                          revision : Revisions, floor : Revisions]
<1>1. NamesTypeOK /\ MaxRevisions \in Nat /\ MaxVersions \in Nat /\ LookupsAreCurrent
  BY NamesAssumption DEF NamesInv
<1>2. UNCHANGED <<revision, present, changes, version, editor, answered, endpointVars, nameFaults>>
  BY DEF BeginLookup, ListAliases, StoreLoaded, EndLookup
<1>3. /\ revision \in Nat /\ answered \in Nat /\ version \in Nat /\ answered <= revision
      /\ revision \in Revisions /\ answered \in Revisions /\ version \in 0 .. MaxVersions
      /\ 0 \in Revisions /\ 0 \in 0 .. MaxVersions
      /\ loaded \in [version : 0 .. MaxVersions + 1, revision : Revisions]
      /\ lookup \in [Lookups -> LookupType]
  BY <1>1 DEF NamesInv, NamesTypeOK, AnswersAreChanges, Revisions
<1>4. lookup[r] \in LookupType
  BY <1>3
<1>5. /\ lookup[r].version <= version /\ lookup[r].floor <= answered
      /\ lookup[r].step # "waiting" /\ lookup[r].version = version => lookup[r].floor = answered
      /\ lookup[r].step \in {"listed", "found"} => lookup[r].floor <= lookup[r].revision
  BY <1>1 DEF LookupsAreCurrent
<1> DEFINE Current(l) ==
             /\ l.version <= version /\ l.floor <= answered
             /\ l.step # "waiting" /\ l.version = version => l.floor = answered
             /\ l.step \in {"listed", "found"} => l.floor <= l.revision
<1>6. PICK l \in LookupType : lookup' = [lookup EXCEPT ![r] = l] /\ Current(l)
  <2>1. CASE BeginLookup(r)
    <3> DEFINE f == [step |-> "found", version |-> version, revision |-> loaded.revision, floor |-> answered]
               g == [step |-> "read", version |-> version, revision |-> 0, floor |-> answered]
    <3>1. f \in LookupType /\ g \in LookupType /\ Current(g)
      BY <1>3
    <3>2. loaded.version = version => Current(f)
      BY <1>3 DEF NamesInv, LoadedIsAnswered
    <3>3. lookup' = [lookup EXCEPT ![r] = IF loaded.version = version THEN f ELSE g]
      BY <2>1 DEF BeginLookup
    <3> HIDE DEF f, g, Current, LookupType
    <3> QED
      BY <3>1, <3>2, <3>3
  <2>2. CASE ListAliases(r)
    <3> DEFINE l == [lookup[r] EXCEPT !.step = "listed", !.revision = revision]
    <3>1. /\ l \in LookupType /\ l.version = lookup[r].version /\ l.floor = lookup[r].floor
          /\ l.revision = revision /\ l.step = "listed"
      BY <1>3, <1>4
    <3>2. lookup[r].step = "read" /\ lookup' = [lookup EXCEPT ![r] = l]
      BY <2>2 DEF ListAliases
    <3>3. lookup[r].floor \in Nat
      BY <1>1, <1>4 DEF Revisions
    <3> HIDE DEF l
    <3>4. Current(l)
      BY <1>3, <1>5, <3>1, <3>2, <3>3
    <3> HIDE DEF Current
    <3> QED
      BY <3>1, <3>2, <3>4
  <2>3. CASE StoreLoaded(r)
    <3> DEFINE l == [lookup[r] EXCEPT !.step = "found"]
    <3>1. /\ l \in LookupType /\ l.version = lookup[r].version /\ l.floor = lookup[r].floor
          /\ l.revision = lookup[r].revision /\ l.step = "found"
      BY <1>4
    <3>2. lookup[r].step = "listed" /\ lookup' = [lookup EXCEPT ![r] = l]
      BY <2>3 DEF StoreLoaded
    <3> HIDE DEF l
    <3>3. Current(l)
      BY <1>5, <3>1, <3>2
    <3> HIDE DEF Current
    <3> QED
      BY <3>1, <3>2, <3>3
  <2>4. CASE EndLookup(r)
    <3>1. NoLookup \in LookupType /\ Current(NoLookup)
      BY <1>3 DEF NoLookup
    <3>2. lookup' = [lookup EXCEPT ![r] = NoLookup]
      BY <2>4 DEF EndLookup
    <3> HIDE DEF Current
    <3> QED
      BY <3>1, <3>2
  <2> QED
    BY <2>1, <2>2, <2>3, <2>4
<1>7. /\ loaded' \in [version : 0 .. MaxVersions + 1, revision : Revisions] /\ LoadedIsAnswered'
  <2>1. CASE StoreLoaded(r)
    <3>1. loaded' = [version |-> lookup[r].version, revision |-> lookup[r].revision] /\ lookup[r].step = "listed"
      BY <2>1 DEF StoreLoaded, VersionLoaded
    <3>2. /\ loaded' \in [version : 0 .. MaxVersions + 1, revision : Revisions]
          /\ loaded'.version = lookup[r].version /\ loaded'.revision = lookup[r].revision
      BY <1>1, <1>4, <3>1
    <3> QED
      BY <1>2, <1>5, <3>1, <3>2 DEF LoadedIsAnswered
  <2>2. CASE loaded' = loaded
    BY <1>2, <1>3, <2>2 DEF NamesInv, LoadedIsAnswered
  <2> QED
    BY <2>1, <2>2 DEF BeginLookup, ListAliases, EndLookup
<1>8. NamesTypeOK'
  BY <1>1, <1>2, <1>3, <1>6, <1>7 DEF NamesTypeOK, endpointVars
<1>9. LookupsAreCurrent'
  BY <1>1, <1>2, <1>3, <1>6 DEF LookupsAreCurrent
<1>10. AnswersAreChanges' /\ RoomForVersions' /\ SightingsAreTraced'
  BY <1>2 DEF NamesInv, AnswersAreChanges, RoomForVersions, AtWork, SightingsAreTraced, endpointVars
<1> QED
  BY <1>7, <1>8, <1>9, <1>10 DEF NamesInv

\* The cache is emptied, or another statement changes the count.
LEMMA ExpiresKeeps ==
    ASSUME NamesInv, CacheExpires \/ AnotherStatement
    PROVE  NamesInv'
<1>1. NamesTypeOK /\ MaxRevisions \in Nat /\ MaxVersions \in Nat
  BY NamesAssumption DEF NamesInv
<1>2. /\ UNCHANGED <<revision, present, version, editor, lookup, answered, endpointVars, nameFaults>>
      /\ loaded' \in {loaded, NotLoaded} /\ changes' \in 0 .. 1
  BY <1>1 DEF CacheExpires, AnotherStatement, NamesTypeOK
<1>3. NotLoaded \in [version : 0 .. MaxVersions + 1, revision : Revisions] /\ version # NotLoaded.version
  BY <1>1 DEF NotLoaded, Revisions, NamesTypeOK
<1>4. NamesTypeOK'
  BY <1>1, <1>2, <1>3 DEF NamesTypeOK, endpointVars
<1>5. LoadedIsAnswered'
  BY <1>2, <1>3 DEF NamesInv, LoadedIsAnswered
<1>6. AnswersAreChanges' /\ LookupsAreCurrent' /\ RoomForVersions' /\ SightingsAreTraced'
  BY <1>2 DEF NamesInv, AnswersAreChanges, LookupsAreCurrent, RoomForVersions, AtWork, SightingsAreTraced,
     endpointVars
<1> QED
  BY <1>4, <1>5, <1>6 DEF NamesInv

LEMMA EndpointKeeps ==
    ASSUME NamesInv,
           TakeDirty \/ \E i \in Instances : ObserveEndpoint(i) \/ UpsertEndpoint(i) \/ UpsertFails(i)
    PROVE  NamesInv'
<1> DEFINE Sightings == [Instances -> 0 .. MaxSightings]
<1>1. /\ NamesTypeOK /\ SightingsAreTraced /\ MaxSightings \in Nat /\ MaxNameFaults \in Nat
      /\ dirty \in Sightings /\ taken \in Sightings /\ endpoint \in Sightings /\ seen \in Sightings
  BY NamesAssumption DEF NamesInv, NamesTypeOK
<1>2. /\ UNCHANGED <<revision, present, version, loaded, editor, lookup, answered>>
      /\ changes' \in 0 .. 1 /\ nameFaults' \in 0 .. MaxNameFaults
  BY <1>1 DEF TakeDirty, ObserveEndpoint, UpsertEndpoint, UpsertFails, aliasVars, NameFault, NamesTypeOK
<1>3. /\ dirty' \in Sightings /\ taken' \in Sightings /\ endpoint' \in Sightings /\ seen' \in Sightings
      /\ dropped' \subseteq Instances /\ SightingsAreTraced'
  <2>1. CASE TakeDirty
    BY <1>1, <2>1 DEF TakeDirty, Unseen, SightingsAreTraced, NamesTypeOK
  <2>2. ASSUME NEW i \in Instances, ObserveEndpoint(i)
        PROVE  <1>3!:
    BY <1>1, <2>2 DEF ObserveEndpoint, SightingsAreTraced, NamesTypeOK
  <2>3. ASSUME NEW i \in Instances, UpsertEndpoint(i)
        PROVE  <1>3!:
    BY <1>1, <2>3 DEF UpsertEndpoint, RowWritten, SightingsAreTraced, NamesTypeOK
  <2>4. ASSUME NEW i \in Instances, UpsertFails(i)
        PROVE  <1>3!:
    BY <1>1, <2>4 DEF UpsertFails, SightingsAreTraced, NamesTypeOK
  <2> QED
    BY <2>1, <2>2, <2>3, <2>4
<1>4. NamesTypeOK'
  BY <1>1, <1>2, <1>3 DEF NamesTypeOK
<1>5. AnswersAreChanges' /\ LoadedIsAnswered' /\ LookupsAreCurrent' /\ RoomForVersions'
  BY <1>2 DEF NamesInv, AnswersAreChanges, LoadedIsAnswered, LookupsAreCurrent, RoomForVersions, AtWork
<1> QED
  BY <1>3, <1>4, <1>5 DEF NamesInv

LEMMA CrashNamesKeeps ==
    ASSUME NamesInv, CrashNames
    PROVE  NamesInv'
<1>1. NamesTypeOK /\ MaxRevisions \in Nat /\ MaxVersions \in Nat /\ MaxSightings \in Nat /\ MaxNameFaults \in Nat
  BY NamesAssumption DEF NamesInv
<1>2. /\ Waiting \in [step : {"waiting", "put", "deleted", "counted"}, hit : BOOLEAN, revision : Revisions]
      /\ Waiting.revision = 0
  BY <1>1 DEF Waiting, Revisions
<1>3. /\ NoLookup \in [step : {"waiting", "read", "listed", "found"}, version : 0 .. MaxVersions,
                       revision : Revisions, floor : Revisions]
      /\ NoLookup.version = 0 /\ NoLookup.floor = 0 /\ NoLookup.step = "waiting"
  BY <1>1 DEF NoLookup, Revisions
<1>4. NotLoaded \in [version : 0 .. MaxVersions + 1, revision : Revisions] /\ NotLoaded.version # 0
  BY <1>1 DEF NotLoaded, Revisions
<1>5. /\ version' = 0 /\ loaded' = NotLoaded /\ changes' = 0
      /\ editor' = [w \in Editors |-> Waiting] /\ lookup' = [r \in Lookups |-> NoLookup]
      /\ dirty' = Unseen /\ taken' = Unseen
      /\ dropped' = dropped \cup {i \in Instances : dirty[i] > 0 \/ taken[i] > 0}
      /\ UNCHANGED <<revision, present, answered, endpoint, seen>>
      /\ nameFaults' \in 0 .. MaxNameFaults
  BY <1>1 DEF CrashNames, NameFault, NamesTypeOK
<1>6. Unseen \in [Instances -> 0 .. MaxSightings] /\ \A i \in Instances : Unseen[i] = 0
  BY <1>1 DEF Unseen
<1>7. NamesTypeOK'
  BY <1>1, <1>2, <1>3, <1>4, <1>5, <1>6 DEF NamesTypeOK
<1>8. AnswersAreChanges'
  BY <1>1, <1>2, <1>5 DEF NamesInv, AnswersAreChanges, NamesTypeOK, Revisions
<1>9. LoadedIsAnswered' /\ LookupsAreCurrent'
  BY <1>1, <1>3, <1>4, <1>5 DEF LoadedIsAnswered, LookupsAreCurrent, NamesTypeOK, Revisions
<1>10. RoomForVersions'
  <2>1. AtWork' = {}
    BY <1>5 DEF AtWork
  <2> QED
    BY <1>1, <1>5, <2>1, FS_EmptySet DEF RoomForVersions
<1>11. SightingsAreTraced'
  BY <1>1, <1>5, <1>6 DEF NamesInv, SightingsAreTraced, NamesTypeOK
<1> QED
  BY <1>7, <1>8, <1>9, <1>10, <1>11 DEF NamesInv

LEMMA NamesStep == NamesInv /\ [NamesNext]_nameVars => NamesInv'
<1> SUFFICES ASSUME NamesInv, [NamesNext]_nameVars
             PROVE  NamesInv'
  OBVIOUS
<1>1. CASE NamesNext
  BY <1>1, StartKeeps, CountKeeps, ChangedKeeps, LookupKeeps, ExpiresKeeps, EndpointKeeps, CrashNamesKeeps
     DEF NamesNext
<1>2. CASE UNCHANGED nameVars
  BY <1>2 DEF nameVars, aliasVars, endpointVars, NamesInv, NamesTypeOK, AnswersAreChanges, LoadedIsAnswered,
     LookupsAreCurrent, RoomForVersions, AtWork, SightingsAreTraced
<1> QED
  BY <1>1, <1>2

\* However lookups, changes of the aliases, expiries and crashes interleave, a
\* lookup sees every change that was answered before it began, and an endpoint
\* that was seen is not lost without an error or a crash.
THEOREM NamesStayKept == NamesSpec => []NamesAreKept
<1>1. NamesInv => NamesAreKept
  BY DEF NamesInv, NamesAreKept, AnsweredAliasIsSeen, SightingsAreKept, LookupsAreCurrent, SightingsAreTraced,
     NamesTypeOK, Revisions
<1> QED
  BY <1>1, NamesInitially, NamesStep, PTL DEF NamesSpec

-----------------------------------------------------------------------------
(* Retention                                                               *)

\* The time by which a round, or the next one, judges.
RoundTime == IF run.phase = "idle" THEN now ELSE run.at

\* What a round has still to visit is what its phase looks for, and it deletes
\* edges of one item at a time.
TodoIsDue ==
    /\ run.at <= now
    /\ run.phase = "left" => \A i \in run.todo : live[i] > 0 /\ i \in absent
    /\ run.phase \in {"live", "logs", "series"} => \A i \in run.todo : run.list[i] > 0
    /\ run.phase = "series" => \A i \in run.todo : run.at > run.list[i]
    /\ run.phase \in {"dueSeries", "dueLogs"} => \A i \in run.todo : IsDue(i, run.at)
    /\ run.phase \in {"idle", "fetch"} => run.todo = {}
    /\ \A i \in run.asked : holds[i] = "edges" /\ i \in run.todo /\ run.phase \in {"logs", "dueLogs"}

\* A deadline is only for items that left, and not before their days are over.
PlansAreLate ==
    \A i \in Items :
        /\ live[i] > 0 => keepUntil[i] <= RoundTime + live[i]
        /\ retain[i] > 0 => i \in absent /\ keepUntil[i] <= retain[i]

\* After its visit an expired series holds nothing old but what arrived since.
SeriesAreClean ==
    \A i \in Items :
        /\ holds[i] = "metrics" /\ IsDue(i, run.at)
        /\ run.phase \in {"logs", "dueLogs"} \/ (run.phase = "dueSeries" /\ i \notin run.todo)
        => {t \in data[i] : t < retain[i]} \subseteq fresh[i]

RetentionInv == RetentionTypeOK /\ TodoIsDue /\ PlansAreLate /\ SeriesAreClean

RunType == [phase : Phases, at : 0 .. Horizon, list : [Items -> Days],
            todo : SUBSET Items, asked : SUBSET Items]

LEMMA BoundsAreNats ==
    /\ MaxDays \in Nat \ {0} /\ GlobalDays \in Nat \ {0} /\ BatchSize \in Nat \ {0} /\ Horizon \in Nat \ {0}
    /\ 0 \in Days /\ Days \subseteq Nat /\ Times \subseteq Nat
BY RetentionAssumption DEF Days, Times

LEMMA ZeroIsTyped == Zero \in [Items -> Days] /\ Zero \in [Items -> Nat] /\ \A i \in Items : Zero[i] = 0
BY BoundsAreNats DEF Zero

LEMMA IdleIsTyped ==
    Idle \in RunType /\ Idle.phase = "idle" /\ Idle.at = 0 /\ Idle.todo = {} /\ Idle.asked = {}
BY BoundsAreNats, ZeroIsTyped DEF Idle, RunType, Phases

LEMMA AfterPhases ==
    /\ AfterPhase("left") = "live" /\ AfterPhase("live") = "series" /\ AfterPhase("series") = "dueSeries"
    /\ AfterPhase("dueSeries") = "logs" /\ AfterPhase("logs") = "dueLogs" /\ AfterPhase("dueLogs") = "idle"
BY DEF AfterPhase

LoopPhases == Phases \ {"idle", "fetch"}

LEMMA EnterIsTyped ==
    ASSUME NEW p \in LoopPhases, NEW at \in 0 .. Horizon, NEW list \in [Items -> Days]
    PROVE  /\ Enter(p, at, list) \in RunType
           /\ Enter(p, at, list).phase = p /\ Enter(p, at, list).at = at /\ Enter(p, at, list).list = list
           /\ Enter(p, at, list).todo = Visits(p, at, list) /\ Enter(p, at, list).asked = {}
<1>1. Visits(p, at, list) \subseteq Items /\ p # "idle" /\ p \in Phases
  BY DEF Visits, LoopPhases
<1> QED
  BY <1>1 DEF Enter, RunType

LEMMA DoneIsTyped ==
    ASSUME run \in RunType, NEW i, Done(i)
    PROVE  /\ run' \in RunType /\ run'.phase = run.phase /\ run'.at = run.at /\ run'.list = run.list
           /\ run'.todo = run.todo \ {i} /\ run'.asked = {}
BY DEF Done, RunType

LEMMA RetentionInitially == RetentionInit => RetentionInv
<1> SUFFICES ASSUME RetentionInit PROVE RetentionInv
  OBVIOUS
<1>1. RetentionTypeOK
  <2>1. 1 \in Times /\ wanted \in [Items -> Days] /\ \A i \in Items : {} \in Records
    BY BoundsAreNats DEF RetentionInit, Times, Records, Days
  <2>2. run \in RunType
    BY IdleIsTyped DEF RetentionInit
  <2> QED
    BY <2>1, <2>2, BoundsAreNats, ZeroIsTyped DEF RetentionInit, RetentionTypeOK, RunType, Records
<1>2. TodoIsDue
  BY IdleIsTyped, BoundsAreNats DEF RetentionInit, TodoIsDue
<1>3. PlansAreLate
  BY ZeroIsTyped DEF RetentionInit, PlansAreLate
<1>4. SeriesAreClean
  BY IdleIsTyped DEF RetentionInit, SeriesAreClean
<1> QED
  BY <1>1, <1>2, <1>3, <1>4 DEF RetentionInv

\* What happens around a round changes neither its plans nor its marks.
Around ==
    /\ now <= now' /\ (now' # now => run.phase \in {"idle", "fetch"})
    /\ UNCHANGED <<run, live, retain, keepUntil, absent, holds>>
    /\ \A i \in Items : \A t \in data'[i] \ data[i] : run.phase # "idle" => t \in fresh'[i]
    /\ \A i \in Items : fresh[i] \subseteq fresh'[i]

LEMMA AroundKeeps ==
    ASSUME RetentionInv, RetentionTypeOK', Around
    PROVE  RetentionInv'
<1>1. now \in Nat /\ now' \in Nat /\ run.at \in Nat /\ run.phase \in Phases
  BY BoundsAreNats DEF RetentionInv, RetentionTypeOK
<1>2. TodoIsDue'
  BY <1>1 DEF Around, RetentionInv, TodoIsDue, IsDue
<1>3. PlansAreLate'
  <2>1. RoundTime <= RoundTime' /\ RoundTime \in Nat /\ RoundTime' \in Nat
    BY <1>1 DEF Around, RoundTime
  <2>2. \A i \in Items : live[i] \in Nat /\ keepUntil[i] \in Nat
    BY BoundsAreNats DEF RetentionInv, RetentionTypeOK
  <2> QED
    BY <2>1, <2>2 DEF Around, RetentionInv, PlansAreLate
<1>4. SeriesAreClean'
  BY DEF Around, RetentionInv, SeriesAreClean, IsDue
<1> QED
  BY <1>2, <1>3, <1>4 DEF RetentionInv

LEMMA AroundSteps ==
    ASSUME RetentionInv,
           \/ DayPasses \/ OtherStatement
           \/ \E i \in Items : SpecChanges(i) \/ Measure(i) \/ Expire(i)
           \/ \E i \in Items, t \in Times : Arrive(i, t)
    PROVE  RetentionInv'
<1>1. RetentionTypeOK /\ now \in Nat /\ now \in Times
  BY BoundsAreNats DEF RetentionInv, RetentionTypeOK
<1>2. CASE DayPasses
  <2>1. RetentionTypeOK'
    BY <1>1, <1>2, BoundsAreNats DEF DayPasses, RetentionTypeOK, specs, ghosts, Times
  <2>2. Around
    BY <1>1, <1>2 DEF DayPasses, Around, specs, ghosts
  <2> QED
    BY <2>1, <2>2, AroundKeeps
<1>3. CASE OtherStatement
  <2>1. RetentionTypeOK'
    BY <1>1, <1>3 DEF OtherStatement, RetentionTypeOK, specs, ghosts
  <2>2. Around
    BY <1>1, <1>3 DEF OtherStatement, Around, specs, ghosts
  <2> QED
    BY <2>1, <2>2, AroundKeeps
<1>4. ASSUME NEW i \in Items, SpecChanges(i)
      PROVE  RetentionInv'
  <2>1. RetentionTypeOK'
    BY <1>1, <1>4 DEF SpecChanges, RetentionTypeOK, ghosts
  <2>2. Around
    BY <1>1, <1>4 DEF SpecChanges, Around, ghosts
  <2> QED
    BY <2>1, <2>2, AroundKeeps
<1>5. ASSUME NEW i \in Items, Measure(i)
      PROVE  RetentionInv'
  <2>1. sent' \in [Items -> Records] /\ measured' \in [Items -> Nat]
    BY <1>1, <1>5 DEF Measure, RetentionTypeOK, Records
  <2>2. RetentionTypeOK'
    BY <1>1, <1>5, <2>1 DEF Measure, RetentionTypeOK, specs, ghosts
  <2>3. Around
    BY <1>1, <1>5 DEF Measure, Around, specs, ghosts
  <2> QED
    BY <2>2, <2>3, AroundKeeps
<1>6. ASSUME NEW i \in Items, Expire(i)
      PROVE  RetentionInv'
  <2>1. data' \in [Items -> Records] /\ \A j \in Items : data'[j] \subseteq data[j]
    BY <1>1, <1>6 DEF Expire, RetentionTypeOK, Records
  <2>2. RetentionTypeOK'
    BY <1>1, <1>6, <2>1 DEF Expire, RetentionTypeOK, specs, ghosts
  <2>3. Around
    BY <1>1, <1>6, <2>1 DEF Expire, Around, specs, ghosts
  <2> QED
    BY <2>2, <2>3, AroundKeeps
<1>7. ASSUME NEW i \in Items, NEW t \in Times, Arrive(i, t)
      PROVE  RetentionInv'
  <2>1. /\ sent' \in [Items -> Records] /\ data' \in [Items -> Records] /\ fresh' \in [Items -> Records]
        /\ sqlChanges' \in Nat
    BY <1>1, <1>7 DEF Arrive, RetentionTypeOK, Records
  <2>2. RetentionTypeOK'
    BY <1>1, <1>7, <2>1 DEF Arrive, RetentionTypeOK, specs
  <2>3. Around
    <3>1. /\ \A j \in Items : data'[j] = IF j = i THEN data[j] \cup {t} ELSE data[j]
          /\ run.phase # "idle" => \A j \in Items : fresh'[j] = IF j = i THEN fresh[j] \cup {t} ELSE fresh[j]
          /\ run.phase = "idle" => fresh' = fresh
      BY <1>1, <1>7, ZenonT(60) DEF Arrive, RetentionTypeOK
    <3> QED
      BY <1>1, <1>7, <3>1 DEF Arrive, Around, specs
  <2> QED
    BY <2>2, <2>3, AroundKeeps
<1> QED
  BY <1>2, <1>3, <1>4, <1>5, <1>6, <1>7

\* A round ends or goes on with another loop, and nothing else changes but
\* what no part of the invariant speaks of.
Turns ==
    /\ UNCHANGED <<now, live, retain, keepUntil, data, holds>>
    /\ run' \in RunType /\ run'.asked = {} /\ absent \subseteq absent'
    /\ \/ run'.phase = "idle" /\ run'.todo = {} /\ run'.at = 0
       \/ run.phase = "idle" /\ run'.phase = "fetch" /\ run'.todo = {} /\ run'.at = now
       \/ /\ run'.phase \in LoopPhases /\ run'.at = run.at /\ run.phase # "idle"
          /\ run'.todo = Visits(run'.phase, run'.at, run'.list) /\ fresh' = fresh
          /\ run'.phase = "left" => \A i \in Items : run'.list[i] = 0 => i \in absent'
          /\ run'.phase = "logs" => run.phase = "dueSeries" /\ run.todo = {}
          /\ run'.phase = "dueLogs" => run.phase = "logs"

LEMMA TurnsKeeps ==
    ASSUME RetentionInv, RetentionTypeOK', Turns
    PROVE  RetentionInv'
<1>1. /\ now \in Nat /\ run.at \in Nat /\ run.at <= now /\ run'.at \in Nat /\ run.phase \in Phases
      /\ run'.list \in [Items -> Days]
  BY BoundsAreNats DEF RetentionInv, RetentionTypeOK, TodoIsDue, Turns, RunType
<1>2. TodoIsDue'
  <2>1. CASE run'.phase \in {"idle", "fetch"}
    BY <1>1, <2>1 DEF Turns, TodoIsDue, LoopPhases
  <2>2. CASE run'.phase \in LoopPhases
    <3>1. run'.at = run.at /\ run'.todo = Visits(run'.phase, run'.at, run'.list)
      BY <2>2 DEF Turns, LoopPhases
    <3>2. \A i \in run'.todo :
            /\ run'.phase = "left" => live[i] > 0 /\ i \in absent'
            /\ run'.phase \in {"live", "logs", "series"} => run'.list[i] > 0
            /\ run'.phase = "series" => run'.at > run'.list[i]
            /\ run'.phase \in {"dueSeries", "dueLogs"} => IsDue(i, run'.at)
      BY <2>2, <3>1, BoundsAreNats DEF Turns, Visits, LoopPhases
    <3> QED
      BY <1>1, <2>2, <3>1, <3>2 DEF Turns, TodoIsDue, LoopPhases, IsDue
  <2> QED
    BY <2>1, <2>2 DEF Turns
<1>3. PlansAreLate'
  <2>1. RoundTime <= RoundTime' /\ RoundTime \in Nat /\ RoundTime' \in Nat
    BY <1>1 DEF Turns, RoundTime, LoopPhases
  <2>2. \A i \in Items : live[i] \in Nat /\ keepUntil[i] \in Nat
    BY BoundsAreNats DEF RetentionInv, RetentionTypeOK
  <2> QED
    BY <2>1, <2>2 DEF Turns, RetentionInv, PlansAreLate
<1>4. SeriesAreClean'
  <2>1. ASSUME NEW i \in Items, IsDue(i, run'.at),
               run'.phase \in {"logs", "dueLogs"} \/ (run'.phase = "dueSeries" /\ i \notin run'.todo)
        PROVE  /\ run'.phase # "dueSeries" /\ run'.at = run.at /\ fresh' = fresh
               /\ run.phase = "logs" \/ (run.phase = "dueSeries" /\ i \notin run.todo)
    BY <2>1 DEF Turns, Visits, LoopPhases
  <2>2. UNCHANGED <<data, retain, holds>>
    BY DEF Turns
  <2> QED
    BY <2>1, <2>2 DEF RetentionInv, SeriesAreClean, IsDue
<1> QED
  BY <1>2, <1>3, <1>4 DEF RetentionInv

LEMMA TurnSteps ==
    ASSUME RetentionInv,
           Begin \/ Fetch \/ FetchFails \/ MarkFails \/ NextLoop \/ RoundFails
    PROVE  RetentionInv'
<1>1. RetentionTypeOK /\ now \in Times /\ now \in 0 .. Horizon /\ run \in RunType /\ run.at \in 0 .. Horizon
      /\ run.list \in [Items -> Days] /\ run.phase \in Phases /\ wanted \in [Items -> Days] /\ failures \in Nat
  BY BoundsAreNats DEF RetentionInv, RetentionTypeOK, Times, RunType
<1>2. CASE Begin
  <2> DEFINE r == [Idle EXCEPT !.phase = "fetch", !.at = now]
  <2>1. r \in RunType /\ r.phase = "fetch" /\ r.at = now /\ r.todo = {} /\ r.asked = {}
    BY <1>1, IdleIsTyped DEF RunType, Phases
  <2>2. run' = r /\ fresh' = [i \in Items |-> {}] /\ run.phase = "idle"
    BY <1>2 DEF Begin
  <2> HIDE DEF r
  <2>3. fresh' \in [Items -> Records]
    BY <2>2 DEF Records
  <2>4. RetentionTypeOK'
    BY <1>1, <1>2, <2>1, <2>2, <2>3 DEF Begin, RetentionTypeOK, RunType, specs
  <2>5. Turns
    BY <1>2, <2>1, <2>2 DEF Begin, Turns, specs
  <2> QED
    BY <2>4, <2>5, TurnsKeeps
<1>3. CASE Fetch
  <2>1. "left" \in LoopPhases
    BY DEF LoopPhases, Phases
  <2>2. /\ run' = Enter("left", run.at, wanted) /\ absent' = absent \cup {i \in Items : wanted[i] = 0}
        /\ UNCHANGED <<now, live, retain, keepUntil, data, holds, fresh>> /\ run.phase = "fetch"
    BY <1>3 DEF Fetch, specs
  <2>3. /\ run' \in RunType /\ run'.phase = "left" /\ run'.at = run.at /\ run'.list = wanted
        /\ run'.todo = Visits("left", run.at, wanted) /\ run'.asked = {}
    BY <1>1, <2>1, <2>2, EnterIsTyped
  <2>4. RetentionTypeOK'
    BY <1>1, <1>3, <2>2, <2>3 DEF Fetch, RetentionTypeOK, RunType, specs
  <2>5. Turns
    BY <2>1, <2>2, <2>3 DEF Turns
  <2> QED
    BY <2>4, <2>5, TurnsKeeps
<1>4. CASE FetchFails \/ MarkFails
  <2>1. "series" \in LoopPhases
    BY DEF LoopPhases, Phases
  <2>2. PICK list \in [Items -> Days] : run' = Enter("series", run.at, list)
    BY <1>1, <1>4, AfterPhases, ZeroIsTyped DEF FetchFails, MarkFails, WithoutList
  <2>3. UNCHANGED <<now, live, retain, keepUntil, data, holds, absent, fresh>> /\ run.phase # "idle"
    BY <1>4 DEF FetchFails, MarkFails, specs, ghosts
  <2>4. /\ run' \in RunType /\ run'.phase = "series" /\ run'.at = run.at /\ run'.list = list
        /\ run'.todo = Visits("series", run.at, list) /\ run'.asked = {}
    BY <1>1, <2>1, <2>2, EnterIsTyped
  <2>5. RetentionTypeOK'
    BY <1>1, <1>4, <2>4 DEF FetchFails, MarkFails, Failure, RetentionTypeOK, RunType, specs, ghosts
  <2>6. Turns
    BY <2>1, <2>3, <2>4 DEF Turns
  <2> QED
    BY <2>5, <2>6, TurnsKeeps
<1>5. CASE NextLoop
  <2>1. /\ run.phase \in LoopPhases /\ run.todo = {} /\ run' = Enter(AfterPhase(run.phase), run.at, run.list)
        /\ UNCHANGED <<now, live, retain, keepUntil, data, holds, absent, fresh>>
    BY <1>1, <1>5 DEF NextLoop, LoopPhases, specs, ghosts
  <2>2. CASE run.phase = "dueLogs"
    <3>1. run' = Idle
      BY <2>1, <2>2, AfterPhases DEF Enter
    <3>2. RetentionTypeOK'
      BY <1>1, <1>5, <3>1, IdleIsTyped DEF NextLoop, RetentionTypeOK, RunType, specs, ghosts
    <3>3. Turns
      BY <2>1, <3>1, IdleIsTyped DEF Turns
    <3> QED
      BY <3>2, <3>3, TurnsKeeps
  <2>3. CASE run.phase # "dueLogs"
    <3>1. PICK p \in LoopPhases : /\ p = AfterPhase(run.phase) /\ p # "left"
                                  /\ p = "logs" => run.phase = "dueSeries"
                                  /\ p = "dueLogs" => run.phase = "logs"
      BY <2>1, <2>3, AfterPhases DEF LoopPhases, Phases
    <3>2. /\ run' \in RunType /\ run'.phase = p /\ run'.at = run.at /\ run'.list = run.list
          /\ run'.todo = Visits(p, run.at, run.list) /\ run'.asked = {}
      BY <1>1, <2>1, <3>1, EnterIsTyped
    <3>3. RetentionTypeOK'
      BY <1>1, <1>5, <3>2 DEF NextLoop, RetentionTypeOK, RunType, specs, ghosts
    <3>4. Turns
      BY <2>1, <3>1, <3>2 DEF Turns, LoopPhases
    <3> QED
      BY <3>3, <3>4, TurnsKeeps
  <2> QED
    BY <2>2, <2>3
<1>6. CASE RoundFails
  <2>1. RetentionTypeOK'
    BY <1>1, <1>6, IdleIsTyped DEF RoundFails, Failure, RetentionTypeOK, RunType, specs, ghosts
  <2>2. Turns
    BY <1>6, IdleIsTyped DEF RoundFails, Turns, specs, ghosts
  <2> QED
    BY <2>1, <2>2, TurnsKeeps
<1> QED
  BY <1>2, <1>3, <1>4, <1>5, <1>6

LEMMA PlanDeletionKeeps ==
    ASSUME RetentionInv, NEW i \in Items, PlanDeletion(i)
    PROVE  RetentionInv'
<1>1. /\ RetentionTypeOK /\ now \in Nat /\ run \in RunType /\ run.at \in Nat /\ run.at <= now
      /\ run.phase = "left" /\ i \in run.todo /\ live[i] \in Nat /\ live[i] > 0 /\ i \in absent
      /\ keepUntil[i] \in Nat /\ retain[i] \in Nat /\ RoundTime = run.at
      /\ keepUntil[i] <= run.at + live[i]
  <2>1. RetentionTypeOK /\ TodoIsDue /\ PlansAreLate /\ run.phase = "left" /\ i \in run.todo
    BY DEF RetentionInv, PlanDeletion
  <2>2. RoundTime = run.at
    BY <2>1 DEF RoundTime
  <2>3. run \in RunType /\ now \in Nat /\ live[i] \in Nat /\ keepUntil[i] \in Nat /\ retain[i] \in Nat
    BY <2>1, BoundsAreNats DEF RetentionTypeOK, RunType
  <2>4. run.at \in Nat
    BY <2>3, BoundsAreNats DEF RunType
  <2> QED
    BY <2>1, <2>2, <2>3, <2>4 DEF TodoIsDue, PlansAreLate
<1>2. UNCHANGED <<now, wanted, holds, specChanges, sent, data, sqlChanges, keepUntil, absent, fresh, measured, failures>>
  BY DEF PlanDeletion, specs, ghosts
<1>3. CASE retain' = [retain EXCEPT ![i] = run.at + live[i]] /\ UNCHANGED <<live, run>>
  <2>1. RetentionTypeOK'
    BY <1>1, <1>2, <1>3 DEF RetentionTypeOK
  <2>2. TodoIsDue'
    BY <1>1, <1>2, <1>3 DEF RetentionInv, TodoIsDue
  <2>3. PlansAreLate'
    BY <1>1, <1>2, <1>3 DEF RetentionInv, RetentionTypeOK, PlansAreLate, RoundTime
  <2>4. SeriesAreClean'
    BY <1>1, <1>3 DEF SeriesAreClean
  <2> QED
    BY <2>1, <2>2, <2>3, <2>4 DEF RetentionInv
<1>4. CASE live' = [live EXCEPT ![i] = 0] /\ Done(i) /\ UNCHANGED retain
  <2>1. /\ run' \in RunType /\ run'.phase = run.phase /\ run'.at = run.at /\ run'.list = run.list
        /\ run'.todo = run.todo \ {i} /\ run'.asked = {}
    BY <1>1, <1>4, DoneIsTyped
  <2>2. live' \in [Items -> Days] /\ \A j \in Items : live'[j] = IF j = i THEN 0 ELSE live[j]
    BY <1>1, <1>4, BoundsAreNats DEF RetentionTypeOK
  <2>3. RetentionTypeOK'
    BY <1>1, <1>2, <1>4, <2>1, <2>2 DEF RetentionTypeOK, RunType
  <2>4. TodoIsDue'
    BY <1>1, <1>2, <2>1, <2>2 DEF RetentionInv, TodoIsDue, RunType
  <2>5. PlansAreLate'
    BY <1>1, <1>2, <1>4, <2>1, <2>2 DEF RetentionInv, PlansAreLate, RoundTime
  <2>6. SeriesAreClean'
    BY <1>1, <2>1 DEF SeriesAreClean
  <2> QED
    BY <2>3, <2>4, <2>5, <2>6 DEF RetentionInv
<1> QED
  BY <1>3, <1>4 DEF PlanDeletion

LEMMA NoteLiveKeeps ==
    ASSUME RetentionInv, NEW i \in Items, NoteLive(i)
    PROVE  RetentionInv'
<1>1. /\ RetentionTypeOK /\ now \in Nat /\ run \in RunType /\ run.at \in Nat /\ run.at <= now
      /\ run.phase = "live" /\ i \in run.todo /\ retain[i] \in Nat /\ RoundTime = run.at
      /\ run.list[i] \in Days /\ run.list[i] \in Nat
  <2>1. RetentionTypeOK /\ TodoIsDue /\ run.phase = "live" /\ i \in run.todo
    BY DEF RetentionInv, NoteLive
  <2>2. RoundTime = run.at
    BY <2>1 DEF RoundTime
  <2>3. run \in RunType /\ now \in Nat /\ retain[i] \in Nat
    BY <2>1, BoundsAreNats DEF RetentionTypeOK, RunType
  <2>4. run.at \in Nat /\ run.list[i] \in Days /\ run.list[i] \in Nat
    <3>1. run.list \in [Items -> Days] /\ run.at \in 0 .. Horizon
      BY <2>3 DEF RunType
    <3>2. run.list[i] \in Days
      BY <3>1
    <3>3. run.list[i] \in Nat
      BY <3>2, BoundsAreNats DEF Days
    <3>4. run.at \in Nat
      BY <3>1, BoundsAreNats
    <3> QED
      BY <3>2, <3>3, <3>4
  <2> QED
    BY <2>1, <2>2, <2>3, <2>4 DEF TodoIsDue
<1>2. UNCHANGED <<now, wanted, holds, specChanges, sent, data, sqlChanges, fresh, measured, failures>>
  BY DEF NoteLive, specs
<1>3. CASE retain' = [retain EXCEPT ![i] = 0] /\ UNCHANGED <<live, run, keepUntil, absent>>
  <2>1. RetentionTypeOK'
    BY <1>1, <1>2, <1>3 DEF RetentionTypeOK
  <2>2. TodoIsDue'
    BY <1>1, <1>2, <1>3 DEF RetentionInv, TodoIsDue
  <2>3. PlansAreLate'
    BY <1>1, <1>2, <1>3 DEF RetentionInv, RetentionTypeOK, PlansAreLate, RoundTime
  <2>4. SeriesAreClean'
    BY <1>1, <1>3 DEF SeriesAreClean
  <2> QED
    BY <2>1, <2>2, <2>3, <2>4 DEF RetentionInv
<1>4. CASE /\ retain[i] = 0 /\ live' = [live EXCEPT ![i] = run.list[i]] /\ Done(i)
           /\ keepUntil' = [keepUntil EXCEPT ![i] = run.at + run.list[i]] /\ absent' = absent \ {i}
           /\ UNCHANGED retain
  <2>1. /\ run' \in RunType /\ run'.phase = run.phase /\ run'.at = run.at /\ run'.list = run.list
        /\ run'.todo = run.todo \ {i} /\ run'.asked = {}
    BY <1>1, <1>4, DoneIsTyped
  <2>2. /\ live' \in [Items -> Days] /\ keepUntil' \in [Items -> Nat]
        /\ \A j \in Items : /\ live'[j] = IF j = i THEN run.list[i] ELSE live[j]
                            /\ keepUntil'[j] = IF j = i THEN run.at + run.list[i] ELSE keepUntil[j]
    BY <1>1, <1>4 DEF RetentionTypeOK
  <2>3. RetentionTypeOK'
    BY <1>1, <1>2, <1>4, <2>1, <2>2 DEF RetentionTypeOK, RunType
  <2>4. TodoIsDue'
    BY <1>1, <1>2, <2>1 DEF RetentionInv, TodoIsDue, RunType
  <2>5. PlansAreLate'
    BY <1>1, <1>2, <1>4, <2>1, <2>2 DEF RetentionInv, PlansAreLate, RoundTime
  <2>6. SeriesAreClean'
    BY <1>1, <2>1 DEF SeriesAreClean
  <2> QED
    BY <2>3, <2>4, <2>5, <2>6 DEF RetentionInv
<1> QED
  BY <1>1, <1>3, <1>4 DEF NoteLive, Planned

\* A visit of an item deletes some of its data, may forget its deadline, and
\* goes on to the next item, to the same one, or ends the round.
Visited(i) ==
    /\ UNCHANGED <<now, wanted, holds, specChanges, sent, live, keepUntil, absent, fresh, measured>>
    /\ failures' \in Nat /\ sqlChanges' \in Nat
    /\ run.phase \in {"series", "dueSeries", "logs", "dueLogs"} /\ i \in run.todo /\ run' \in RunType
    /\ data' \in [Items -> Records] /\ \A j \in Items : data'[j] \subseteq data[j]
    /\ \/ /\ Done(i)
          /\ retain' = retain \/ (run.phase = "dueLogs" /\ retain' = [retain EXCEPT ![i] = 0])
       \/ /\ run.phase \in {"logs", "dueLogs"} /\ retain' = retain
          /\ run'.phase = run.phase /\ run'.at = run.at /\ run'.list = run.list /\ run'.todo = run.todo
          /\ run'.asked = {} \/ (run'.asked = {i} /\ holds[i] = "edges")
       \/ run' = Idle /\ retain' = retain
    /\ run.phase = "dueSeries" /\ holds[i] = "metrics" => \A t \in data'[i] : ~(t < retain[i])

LEMMA VisitedKeeps ==
    ASSUME RetentionInv, NEW i \in Items, Visited(i)
    PROVE  RetentionInv'
<1>1. /\ RetentionTypeOK /\ now \in Nat /\ run \in RunType /\ run.at \in Nat /\ run.at <= now
      /\ RoundTime = run.at /\ retain \in [Items -> Nat] /\ run.phase \in Phases /\ run.todo \subseteq Items
  BY BoundsAreNats DEF RetentionInv, RetentionTypeOK, Visited, TodoIsDue, RoundTime, RunType
<1>2. retain' \in [Items -> Nat] /\ \A j \in Items : retain'[j] = retain[j] \/ (j = i /\ retain'[j] = 0)
  BY <1>1 DEF Visited
<1>3. RetentionTypeOK'
  BY <1>1, <1>2 DEF Visited, RetentionTypeOK, RunType
<1>4. \/ /\ run'.phase = run.phase /\ run'.at = run.at /\ run'.list = run.list
         /\ run'.todo = run.todo \ {i} /\ run'.asked = {}
      \/ /\ run'.phase = run.phase /\ run'.at = run.at /\ run'.list = run.list /\ run'.todo = run.todo
         /\ retain' = retain /\ run.phase \in {"logs", "dueLogs"}
         /\ run'.asked = {} \/ (run'.asked = {i} /\ holds[i] = "edges")
      \/ run'.phase = "idle" /\ run'.at = 0 /\ run'.todo = {} /\ run'.asked = {}
  BY <1>1, DoneIsTyped, IdleIsTyped DEF Visited
<1>5. TodoIsDue'
  BY <1>1, <1>2, <1>4 DEF RetentionInv, TodoIsDue, IsDue, Visited
<1>6. PlansAreLate'
  <2>1. RoundTime <= RoundTime' /\ RoundTime \in Nat /\ RoundTime' \in Nat
    BY <1>1, <1>4 DEF RoundTime, Visited
  <2>2. \A j \in Items : live[j] \in Nat /\ keepUntil[j] \in Nat
    BY <1>1, BoundsAreNats DEF RetentionTypeOK
  <2> QED
    BY <1>1, <1>2, <2>1, <2>2 DEF RetentionInv, PlansAreLate, Visited
<1>7. SeriesAreClean'
  <2>1. ASSUME NEW j \in Items, holds[j] = "metrics", IsDue(j, run.at)',
               run'.phase \in {"logs", "dueLogs"} \/ (run'.phase = "dueSeries" /\ j \notin run'.todo)
        PROVE  {t \in data'[j] : t < retain'[j]} \subseteq fresh'[j]
    <3>1. retain'[j] = retain[j] /\ run'.at = run.at /\ run'.phase = run.phase /\ IsDue(j, run.at)
      BY <1>1, <1>2, <1>4, <2>1 DEF IsDue
    <3>2. data'[j] \subseteq data[j] /\ fresh' = fresh
      BY DEF Visited
    <3>3. CASE run.phase = "dueSeries" /\ j = i
      BY <2>1, <3>1, <3>3 DEF Visited
    <3>4. CASE ~(run.phase = "dueSeries" /\ j = i)
      <4>1. run.phase \in {"logs", "dueLogs"} \/ (run.phase = "dueSeries" /\ j \notin run.todo)
        BY <1>4, <2>1, <3>1, <3>4
      <4> QED
        BY <2>1, <3>1, <3>2, <4>1 DEF RetentionInv, SeriesAreClean
    <3> QED
      BY <3>3, <3>4
  <2>2. holds' = holds
    BY DEF Visited
  <2> QED
    BY <2>1, <2>2 DEF SeriesAreClean, IsDue
<1> QED
  BY <1>3, <1>5, <1>6, <1>7 DEF RetentionInv

LEMMA DropIsTyped ==
    ASSUME RetentionTypeOK, NEW i \in Items, NEW old, Drop(i, old)
    PROVE  /\ data' \in [Items -> Records] /\ \A j \in Items : data'[j] \subseteq data[j]
           /\ data'[i] = data[i] \ old /\ \A j \in Items \ {i} : data'[j] = data[j]
BY DEF Drop, RetentionTypeOK, Records

LEMMA SomeIsCounted ==
    ASSUME RetentionTypeOK, NEW i \in Items, NEW some \in SUBSET data[i]
    PROVE  Cardinality(some) \in Nat
<1>1. IsFiniteSet(Times)
  BY BoundsAreNats, FS_Interval DEF Times
<1>2. some \in SUBSET Times
  BY DEF RetentionTypeOK, Records
<1> QED
  BY <1>1, <1>2, FS_Subset, FS_CardinalityType

LEMMA VisitSteps ==
    ASSUME RetentionInv, NEW i \in Items,
           CleanSeries(i) \/ CleanLogs(i) \/ DeleteEdges(i) \/ ReadChanges(i) \/ ForgetFails(i)
    PROVE  Visited(i)
<1>1. /\ RetentionTypeOK /\ run \in RunType /\ data \in [Items -> Records] /\ retain \in [Items -> Nat]
      /\ failures \in Nat /\ sqlChanges \in Nat
      /\ \A j \in run.asked : holds[j] = "edges" /\ j \in run.todo /\ run.phase \in {"logs", "dueLogs"}
  BY DEF RetentionInv, RetentionTypeOK, RunType, TodoIsDue
<1>2. CASE CleanSeries(i)
  <2>1. /\ data' \in [Items -> Records] /\ \A j \in Items : data'[j] \subseteq data[j]
        /\ run.phase = "dueSeries" /\ holds[i] = "metrics" => \A t \in data'[i] : ~(t < retain[i])
    BY <1>1, <1>2, DropIsTyped DEF CleanSeries
  <2>2. Done(i) /\ run' \in RunType
    BY <1>1, <1>2, DoneIsTyped DEF CleanSeries
  <2> QED
    BY <1>1, <1>2, <2>1, <2>2 DEF CleanSeries, Visited, specs, ghosts
<1>3. CASE CleanLogs(i)
  <2>1. data' \in [Items -> Records] /\ \A j \in Items : data'[j] \subseteq data[j]
    BY <1>1, <1>3, DropIsTyped DEF CleanLogs
  <2>2. Done(i) /\ run' \in RunType
    BY <1>1, <1>3, DoneIsTyped DEF CleanLogs
  <2> QED
    BY <1>1, <1>3, <2>1, <2>2 DEF CleanLogs, Forget, Visited, specs, ghosts
<1>4. CASE DeleteEdges(i)
  <2>1. PICK some \in SUBSET OldEdges(i) : Drop(i, some) /\ sqlChanges' = Cardinality(some)
    BY <1>4 DEF DeleteEdges
  <2>2. data' \in [Items -> Records] /\ (\A j \in Items : data'[j] \subseteq data[j]) /\ sqlChanges' \in Nat
    BY <1>1, <2>1, DropIsTyped, SomeIsCounted DEF OldEdges
  <2>3. /\ run' \in RunType /\ run'.phase = run.phase /\ run'.at = run.at /\ run'.list = run.list
        /\ run'.todo = run.todo /\ run'.asked = {i}
    BY <1>1, <1>4 DEF DeleteEdges, RunType
  <2> QED
    BY <1>1, <1>4, <2>2, <2>3 DEF DeleteEdges, Visited, specs, ghosts
<1>5. CASE ReadChanges(i)
  <2>1. i \in run.todo /\ run.phase \in {"logs", "dueLogs"} /\ holds[i] = "edges"
    BY <1>1, <1>5 DEF ReadChanges
  <2>2. CASE Forget(i) /\ Done(i)
    <3>1. run' \in RunType
      BY <1>1, <2>2, DoneIsTyped
    <3> QED
      BY <1>1, <1>5, <2>1, <2>2, <3>1 DEF ReadChanges, Forget, Visited, specs, ghosts
  <2>3. CASE run' = [run EXCEPT !.asked = {}] /\ UNCHANGED retain
    <3>1. /\ run' \in RunType /\ run'.phase = run.phase /\ run'.at = run.at /\ run'.list = run.list
          /\ run'.todo = run.todo /\ run'.asked = {}
      BY <1>1, <2>3 DEF RunType
    <3> QED
      BY <1>1, <1>5, <2>1, <2>3, <3>1 DEF ReadChanges, Visited, specs, ghosts
  <2> QED
    BY <1>5, <2>2, <2>3 DEF ReadChanges
<1>6. CASE ForgetFails(i)
  <2>1. data' \in [Items -> Records] /\ \A j \in Items : data'[j] \subseteq data[j]
    BY <1>1, <1>6, DropIsTyped DEF ForgetFails
  <2> QED
    BY <1>1, <1>6, <2>1, IdleIsTyped DEF ForgetFails, Failure, Visited, specs, ghosts
<1> QED
  BY <1>2, <1>3, <1>4, <1>5, <1>6

LEMMA RetentionStep == RetentionInv /\ [RetentionNext]_retentionVars => RetentionInv'
<1> SUFFICES ASSUME RetentionInv, [RetentionNext]_retentionVars
             PROVE  RetentionInv'
  OBVIOUS
<1>1. ASSUME NEW i \in Items, ItemStep(i)
      PROVE  RetentionInv'
  BY <1>1, PlanDeletionKeeps, NoteLiveKeeps, VisitSteps, VisitedKeeps DEF ItemStep
<1>2. CASE UNCHANGED retentionVars
  BY <1>2 DEF retentionVars, specs, ghosts, RetentionInv, RetentionTypeOK, TodoIsDue, PlansAreLate,
     RoundTime, SeriesAreClean, IsDue
<1> QED
  BY <1>1, <1>2, AroundSteps, TurnSteps DEF RetentionNext

\* The steps that take data away: the window of the series, and the visits.
OnlyOldGoes ==
    \A i \in Items : \A t \in data[i] \ data'[i] :
        \/ run.list[i] > 0 /\ t + run.list[i] <= run.at
        \/ holds[i] = "metrics" /\ t + GlobalDays < now
        \/ Expired(i)

LEMMA OnlyOldGoesStep == RetentionInv /\ [RetentionNext]_retentionVars => [OnlyOldGoes]_retentionVars
<1> SUFFICES ASSUME RetentionInv, RetentionNext
             PROVE  OnlyOldGoes
  BY Zenon
<1>1. /\ RetentionTypeOK /\ TodoIsDue /\ PlansAreLate /\ data \in [Items -> Records] /\ now \in Nat
      /\ run.at \in Nat /\ run.at <= now /\ run.list \in [Items -> Days]
      /\ keepUntil \in [Items -> Nat] /\ retain \in [Items -> Nat] /\ run.todo \subseteq Items
  BY BoundsAreNats DEF RetentionInv, RetentionTypeOK, TodoIsDue
<1>2. ASSUME NEW i \in Items, i \in run.todo, run.phase \in {"dueSeries", "dueLogs"}
      PROVE  Expired(i)
  BY <1>1, <1>2 DEF TodoIsDue, IsDue, PlansAreLate, Expired
<1>3. ASSUME NEW i \in Items, CleanSeries(i)
      PROVE  OnlyOldGoes
  <2>1. CASE UNCHANGED data
    BY <2>1 DEF OnlyOldGoes
  <2>2. CASE run.phase = "series" /\ Drop(i, {t \in data[i] : t + run.list[i] < run.at})
    <3>1. \A t \in data[i] \ data'[i] : t + run.list[i] < run.at
      BY <1>1, <2>2, DropIsTyped
    <3>2. run.list[i] > 0 /\ run.list[i] \in Nat
      BY <1>1, <1>3, <2>2, BoundsAreNats DEF CleanSeries, TodoIsDue
    <3>3. \A t \in data[i] : t \in Nat
      BY <1>1, BoundsAreNats DEF Records
    <3> QED
      BY <1>1, <2>2, <3>1, <3>2, <3>3, DropIsTyped DEF OnlyOldGoes
  <2>3. CASE run.phase = "dueSeries" /\ Drop(i, {t \in data[i] : t < retain[i]})
    BY <1>1, <1>2, <1>3, <2>3, DropIsTyped DEF CleanSeries, OnlyOldGoes
  <2> QED
    BY <1>3, <2>1, <2>2, <2>3 DEF CleanSeries
<1>4. ASSUME NEW i \in Items, CleanLogs(i) \/ ForgetFails(i)
      PROVE  OnlyOldGoes
  <2>1. CASE UNCHANGED data
    BY <2>1 DEF OnlyOldGoes
  <2>2. CASE run.phase = "logs" /\ Drop(i, OldLogs(i))
    <3>1. \A t \in data[i] \ data'[i] : t + run.list[i] <= run.at
      BY <1>1, <2>2, DropIsTyped DEF OldLogs
    <3>2. run.list[i] > 0
      BY <1>1, <1>4, <2>2 DEF CleanLogs, ForgetFails, TodoIsDue
    <3> QED
      BY <1>1, <2>2, <3>1, <3>2, DropIsTyped DEF OnlyOldGoes
  <2>3. CASE run.phase = "dueLogs" /\ Drop(i, OldLogs(i))
    BY <1>1, <1>2, <1>4, <2>3, DropIsTyped DEF CleanLogs, ForgetFails, OnlyOldGoes
  <2> QED
    BY <1>4, <2>1, <2>2, <2>3 DEF CleanLogs, ForgetFails
<1>5. ASSUME NEW i \in Items, DeleteEdges(i)
      PROVE  OnlyOldGoes
  <2>1. PICK some \in SUBSET OldEdges(i) : Drop(i, some)
    BY <1>5 DEF DeleteEdges
  <2>2. CASE run.phase = "logs"
    <3>1. \A t \in data[i] \ data'[i] : t + run.list[i] < run.at
      BY <1>1, <2>1, <2>2, DropIsTyped DEF OldEdges
    <3>2. run.list[i] > 0 /\ run.list[i] \in Nat
      BY <1>1, <1>5, <2>2, BoundsAreNats DEF DeleteEdges, TodoIsDue
    <3>3. \A t \in data[i] : t \in Nat
      BY <1>1, BoundsAreNats DEF Records
    <3> QED
      BY <1>1, <2>1, <3>1, <3>2, <3>3, DropIsTyped DEF OnlyOldGoes
  <2>3. CASE run.phase = "dueLogs"
    BY <1>1, <1>2, <1>5, <2>1, <2>3, DropIsTyped DEF DeleteEdges, OnlyOldGoes
  <2> QED
    BY <1>5, <2>2, <2>3 DEF DeleteEdges
<1>6. ASSUME NEW i \in Items, Expire(i)
      PROVE  OnlyOldGoes
  <2>1. \A t \in data[i] \ data'[i] : ~(t + GlobalDays >= now)
    BY <1>1, <1>6 DEF Expire
  <2>2. \A t \in data[i] : t \in Nat
    BY <1>1, BoundsAreNats DEF Records
  <2>3. \A j \in Items \ {i} : data'[j] = data[j]
    BY <1>1, <1>6 DEF Expire
  <2> QED
    BY <1>1, <1>6, <2>1, <2>2, <2>3, BoundsAreNats DEF Expire, OnlyOldGoes
<1>7. ASSUME NEW i \in Items, NEW t \in Times, Arrive(i, t)
      PROVE  OnlyOldGoes
  BY <1>1, <1>7 DEF Arrive, OnlyOldGoes
<1>8. CASE UNCHANGED data
  BY <1>8 DEF OnlyOldGoes
<1> QED
  BY <1>3, <1>4, <1>5, <1>6, <1>7, <1>8 DEF RetentionNext, ItemStep, DayPasses, Begin, Fetch, FetchFails,
     MarkFails, OtherStatement, NextLoop, RoundFails, SpecChanges, Measure, PlanDeletion, NoteLive, ReadChanges

NothingIsLeft == \A i \in Items : holds[i] # "edges" /\ Forgotten(i) => Leftovers(i) = {}

LEMMA NothingIsLeftStep == RetentionInv /\ [RetentionNext]_retentionVars => [NothingIsLeft]_retentionVars
<1> SUFFICES ASSUME RetentionInv, RetentionNext
             PROVE  NothingIsLeft
  BY Zenon
<1> SUFFICES ASSUME NEW i \in Items, holds[i] # "edges", Forgotten(i)
             PROVE  Leftovers(i) = {}
  BY DEF NothingIsLeft
<1>1. /\ RetentionTypeOK /\ TodoIsDue /\ SeriesAreClean /\ retain \in [Items -> Nat] /\ holds[i] \in {"logs", "metrics"}
      /\ retain[i] > 0 /\ retain'[i] = 0 /\ run.phase = "dueLogs"
  BY DEF RetentionInv, RetentionTypeOK, Stores, Forgotten
<1>2. CleanLogs(i)
  <2>1. ASSUME NEW j \in Items, CleanLogs(j) \/ ReadChanges(j)
        PROVE  CleanLogs(i)
    BY <1>1, <2>1 DEF CleanLogs, ReadChanges, Forget, TodoIsDue
  <2>2. ASSUME NEW j \in Items, PlanDeletion(j) \/ NoteLive(j)
        PROVE  FALSE
    BY <1>1, <2>2 DEF PlanDeletion, NoteLive
  <2>3. retain' # retain
    BY <1>1
  <2> QED
    BY <2>1, <2>2, <2>3 DEF RetentionNext, ItemStep, DayPasses, Begin, Fetch, FetchFails,
       MarkFails, OtherStatement, NextLoop, RoundFails, SpecChanges, Measure, Expire, CleanSeries, DeleteEdges,
       ForgetFails, Arrive
<1>3. IsDue(i, run.at)
  BY <1>1, <1>2 DEF CleanLogs, TodoIsDue
<1>4. CASE holds[i] = "logs"
  <2>1. data'[i] = {}
    BY <1>1, <1>2, <1>4, DropIsTyped DEF CleanLogs, OldLogs
  <2> QED
    BY <2>1 DEF Leftovers
<1>5. CASE holds[i] = "metrics"
  <2>1. data' = data
    BY <1>2, <1>5 DEF CleanLogs
  <2> QED
    BY <1>1, <1>3, <1>5, <2>1 DEF SeriesAreClean, Leftovers
<1> QED
  BY <1>1, <1>4, <1>5

\* Whatever lists, marks and rounds fail and whatever days pass between them,
\* data goes only when its item's days are over or the item left for as long,
\* and when the deadline of an item that left is dropped its data is gone.
THEOREM RetentionStaysKept == RetentionSpec => RetentionIsKept
<1> QED
  BY RetentionInitially, RetentionStep, OnlyOldGoesStep, NothingIsLeftStep, PTL
     DEF RetentionSpec, RetentionIsKept, YoungDataIsKept, RemovalIsComplete, OnlyOldGoes, NothingIsLeft
=============================================================================
