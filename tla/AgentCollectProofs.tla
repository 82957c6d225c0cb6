------------------------- MODULE AgentCollectProofs -------------------------
(***************************************************************************)
(* For any items, any number of connections and any faults: every batch a  *)
(* collector of gse-agent pushed is in one place, one report loop sends in *)
(* order, the buffer exceeds its capacity only by what is put back, and    *)
(* the collectors that run are those the supervisors want.                 *)
(***************************************************************************)
EXTENDS AgentCollect, FiniteSetTheorems, SequenceTheorems, WellFoundedInduction, TLAPS

USE DEF vars, procVars

-----------------------------------------------------------------------------
(* The inductive invariant                                                 *)

Message == [what : {"spec", "pull"}, items : [Items -> 0 .. MaxSpecs], rebind : BOOLEAN]
Runners == [Items -> [version : 0 .. MaxSpecs, task : Nat]]

CollectTypes ==
    /\ buffer \in Seq(Batch)
    /\ url \in Addrs \cup {None}
    /\ wanted \in [Items -> 0 .. MaxSpecs]
    /\ specs \in 1 .. MaxSpecs
    /\ sups \in Seq([inbox : Seq(Message), started : BOOLEAN, open : BOOLEAN, runners : Runners])
    /\ tasks \in Seq([item : Items, st : TaskStates])
    /\ port \in 0 .. Len(tasks)
    /\ loops \in Seq([pc : {"idle", "held", "posting"}, batch : Batch \cup {NoBatch},
                      base : Addrs \cup {None}, failures : 0 .. FailLimit + 1])
    /\ ds \in Addrs
    /\ arrived \in 0 .. MaxBatches
    /\ fate \in [1 .. MaxBatches -> Fates]
    /\ faults \in 0 .. MaxFaults

\* A runner's task was spawned.
RunnersAreSpawned == \A c \in Conns, i \in Items : sups[c].runners[i].task <= Len(tasks)

\* A loop that is not idle has a batch, an idle one has none.
HandsAreFull == \A l \in DOMAIN loops : loops[l].pc # "idle" <=> loops[l].batch \in Batch

\* No batch is in two places.
PlacedOnce ==
    /\ \A j, k \in DOMAIN buffer : buffer[j].id = buffer[k].id => j = k
    /\ \A l, m \in Held : loops[l].batch.id = loops[m].batch.id => l = m
    /\ \A k \in DOMAIN buffer, l \in Held : buffer[k].id # loops[l].batch.id

InBuffer(b) == \E k \in DOMAIN buffer : buffer[k].id = b
InHand(b)   == \E l \in Held : loops[l].batch.id = b

OpenIsPlaced == \A b \in 1 .. MaxBatches : fate[b] = "open" <=> InBuffer(b) \/ InHand(b)

\* Batches are numbered as they are born.
BornInOrder == \E m \in 0 .. MaxBatches : \A b \in 1 .. MaxBatches : fate[b] # "unborn" <=> b <= m

\* A task that was not aborted is the one its open supervisor counts on.
TasksHaveRunners ==
    \A t \in DOMAIN tasks : tasks[t].st # "ended" =>
        \E c \in Conns : sups[c].open /\ sups[c].runners[tasks[t].item].task = t

\* With one report loop: what it holds is older than what is in the buffer, and
\* nothing that is still to be sent is older than what arrived.
SentInOrder ==
    Len(loops) <= 1 =>
        /\ \A j, k \in DOMAIN buffer : j < k => buffer[j].id < buffer[k].id
        /\ \A l \in Held, k \in DOMAIN buffer : loops[l].batch.id < buffer[k].id
        /\ \A k \in DOMAIN buffer : arrived <= buffer[k].id
        /\ \A l \in Held : arrived <= loops[l].batch.id
ArrivedWasBorn == arrived # 0 => fate[arrived] # "unborn"

CollectInv ==
    /\ CollectTypes /\ RunnersAreSpawned /\ HandsAreFull
    /\ PlacedOnce /\ OpenIsPlaced /\ BornInOrder
    /\ TasksHaveRunners
    /\ SentInOrder /\ ArrivedWasBorn

-----------------------------------------------------------------------------
(* Sequences and finite sets                                               *)

LEMMA TailShifts ==
    ASSUME NEW S, NEW q \in Seq(S), q # <<>>
    PROVE  /\ Len(q) \in Nat \ {0} /\ Head(q) = q[1] /\ q[1] \in S
           /\ Tail(q) \in Seq(S) /\ Len(Tail(q)) = Len(q) - 1 /\ DOMAIN Tail(q) = 1 .. Len(q) - 1
           /\ \A k \in 1 .. Len(q) - 1 : Tail(q)[k] = q[k + 1]
  BY HeadTailProperties, LenProperties

LEMMA FrontShifts ==
    ASSUME NEW S, NEW q \in Seq(S), NEW b \in S
    PROVE  /\ <<b>> \o q \in Seq(S) /\ Len(<<b>> \o q) = Len(q) + 1 /\ DOMAIN (<<b>> \o q) = 1 .. Len(q) + 1
           /\ (<<b>> \o q)[1] = b
           /\ \A k \in 1 .. Len(q) : (<<b>> \o q)[k + 1] = q[k]
<1>1. <<b>> \in Seq(S) /\ Len(<<b>>) = 1 /\ <<b>>[1] = b
  OBVIOUS
<1>2. /\ <<b>> \o q \in Seq(S) /\ Len(<<b>> \o q) = 1 + Len(q)
      /\ \A i \in 1 .. 1 + Len(q) : (<<b>> \o q)[i] = IF i <= 1 THEN <<b>>[i] ELSE q[i - 1]
  BY <1>1, ConcatProperties
<1> QED
  BY <1>1, <1>2, LenProperties

LEMMA JoinShifts ==
    ASSUME NEW S, NEW p \in Seq(S), NEW q \in Seq(S)
    PROVE  /\ p \o q \in Seq(S) /\ Len(p \o q) = Len(p) + Len(q) /\ DOMAIN (p \o q) = 1 .. Len(p) + Len(q)
           /\ \A k \in 1 .. Len(p) : (p \o q)[k] = p[k]
           /\ \A k \in 1 .. Len(q) : (p \o q)[Len(p) + k] = q[k]
<1>1. /\ p \o q \in Seq(S) /\ Len(p \o q) = Len(p) + Len(q)
      /\ \A i \in 1 .. Len(p) + Len(q) : (p \o q)[i] = IF i <= Len(p) THEN p[i] ELSE q[i - Len(p)]
  BY ConcatProperties
<1>2. Len(p) \in Nat /\ Len(q) \in Nat
  BY LenProperties
<1>3. ASSUME NEW k \in 1 .. Len(p)
      PROVE  (p \o q)[k] = p[k]
  BY <1>1, <1>2
<1>4. ASSUME NEW k \in 1 .. Len(q)
      PROVE  (p \o q)[Len(p) + k] = q[k]
  <2>1. Len(p) + k \in 1 .. Len(p) + Len(q) /\ ~(Len(p) + k <= Len(p)) /\ (Len(p) + k) - Len(p) = k
    BY <1>2
  <2> QED
    BY <1>1, <2>1
<1> QED
  BY <1>1, <1>3, <1>4, LenProperties

\* SetToSeq lists every element of a finite set, once.
LEMMA SetToSeqLists ==
    ASSUME NEW S, IsFiniteSet(S)
    PROVE  /\ SetToSeq(S) \in Seq(S) /\ DOMAIN SetToSeq(S) = 1 .. Len(SetToSeq(S))
           /\ \A j, k \in DOMAIN SetToSeq(S) : SetToSeq(S)[j] = SetToSeq(S)[k] => j = k
           /\ \A x \in S : \E k \in DOMAIN SetToSeq(S) : SetToSeq(S)[k] = x
<1> DEFINE n == Cardinality(S)
<1>1. n \in Nat /\ \E f \in [1 .. n -> S] : IsInjective(f)
  BY FS_CardinalityType DEF ExistsBijection, Bijection, Injection
<1>2. PICK f \in [1 .. n -> S] : f = SetToSeq(S) /\ IsInjective(f)
  BY <1>1 DEF SetToSeq
<1>3. f \in Seq(S) /\ DOMAIN f = 1 .. Len(f) /\ \A j, k \in 1 .. n : f[j] = f[k] => j = k
  BY <1>1, <1>2 DEF IsInjective
<1>4. \A x \in S : \E k \in 1 .. n : f[k] = x
  <2> DEFINE R == {f[k] : k \in 1 .. n}
  <2>1. R \subseteq S
    BY <1>2
  <2>2. f \in Bijection(1 .. n, R)
    BY <1>2, <1>3 DEF Bijection, Injection, Surjection, IsInjective
  <2>3. IsFiniteSet(1 .. n) /\ Cardinality(1 .. n) = n
    BY <1>1, FS_Interval
  <2>4. Cardinality(R) = n /\ IsFiniteSet(R)
    BY <2>2, <2>3, FS_Bijection DEF ExistsBijection
  <2>5. R = S
    BY <2>1, <2>4, FS_Subset
  <2> QED
    BY <2>5
<1> QED
  BY <1>2, <1>3, <1>4

-----------------------------------------------------------------------------
(* The batches                                                             *)

Loop == [pc : {"idle", "held", "posting"}, batch : Batch \cup {NoBatch},
         base : Addrs \cup {None}, failures : 0 .. FailLimit + 1]

\* What a step of one report loop changes in the table of loops.
Becomes(l, r) == loops' = [loops EXCEPT ![l] = r]

LEMMA NoBatchIsNone == NoBatch \notin Batch
  BY DEF NoBatch, Batch

LEMMA LoopsAndBuffer ==
    ASSUME CollectInv
    PROVE  /\ loops \in Seq(Loop) /\ DOMAIN loops = 1 .. Len(loops) /\ Len(loops) \in Nat
           /\ \A l \in DOMAIN loops : loops[l] \in Loop
           /\ buffer \in Seq(Batch) /\ DOMAIN buffer = 1 .. Len(buffer) /\ Len(buffer) \in Nat
           /\ \A k \in DOMAIN buffer : buffer[k] \in Batch /\ buffer[k].id \in 1 .. MaxBatches
           /\ Held = {l \in DOMAIN loops : loops[l].pc # "idle"}
           /\ \A l \in Held : loops[l].batch \in Batch /\ loops[l].batch.id \in 1 .. MaxBatches
<1>1. /\ loops \in Seq(Loop) /\ buffer \in Seq(Batch)
      /\ \A l \in DOMAIN loops : loops[l].pc # "idle" <=> loops[l].batch \in Batch
  BY DEF CollectInv, CollectTypes, Loop, HandsAreFull
<1>2. \A b \in Batch : b.id \in 1 .. MaxBatches
  BY DEF Batch
<1>3. /\ \A l \in DOMAIN loops : loops[l] \in Loop
      /\ \A k \in DOMAIN buffer : buffer[k] \in Batch
  BY <1>1, ElementOfSeq, LenProperties
<1> QED
  BY <1>1, <1>2, <1>3, LenProperties DEF Held

LEMMA LoopBecomes ==
    ASSUME CollectInv, NEW l \in DOMAIN loops, NEW r \in Loop, Becomes(l, r)
    PROVE  /\ loops' \in Seq(Loop) /\ DOMAIN loops' = DOMAIN loops /\ Len(loops') = Len(loops)
           /\ loops'[l] = r /\ \A m \in DOMAIN loops \ {l} : loops'[m] = loops[m]
           /\ Held' = {m \in DOMAIN loops : IF m = l THEN r.pc # "idle" ELSE loops[m].pc # "idle"}
<1>1. loops \in Seq(Loop) /\ DOMAIN loops = 1 .. Len(loops)
  BY LenProperties DEF CollectInv, CollectTypes, Loop
<1>2. /\ loops' \in Seq(Loop) /\ Len(loops') = Len(loops) /\ DOMAIN loops' = DOMAIN loops
      /\ loops'[l] = r /\ \A m \in DOMAIN loops \ {l} : loops'[m] = loops[m]
  BY <1>1, ExceptSeq DEF Becomes
<1> QED
  BY <1>2 DEF Held

\* What a step must keep of where the batches are.
Places == HandsAreFull /\ PlacedOnce /\ OpenIsPlaced /\ BornInOrder /\ SentInOrder /\ ArrivedWasBorn

LEMMA PlacesAreSaid == CollectInv => Places
  BY DEF CollectInv, Places

LEMMA TakeKeepsPlaces ==
    ASSUME CollectInv, NEW l \in DOMAIN loops, Take(l)
    PROVE  Places' /\ loops' \in Seq(Loop) /\ buffer' \in Seq(Batch)
<1> DEFINE r == [loops[l] EXCEPT !.pc = "held", !.batch = Head(buffer)]
<1>1. /\ buffer \in Seq(Batch) /\ buffer # <<>> /\ DOMAIN buffer = 1 .. Len(buffer) /\ Len(buffer) \in Nat \ {0}
      /\ Head(buffer) = buffer[1] /\ buffer[1] \in Batch
      /\ buffer' \in Seq(Batch) /\ Len(buffer') = Len(buffer) - 1 /\ DOMAIN buffer' = 1 .. Len(buffer) - 1
      /\ \A k \in 1 .. Len(buffer) - 1 : buffer'[k] = buffer[k + 1]
  BY TailShifts, LenProperties DEF Take, CollectInv, CollectTypes
<1>2. loops[l] \in Loop /\ loops[l].pc = "idle"
  BY LoopsAndBuffer DEF Take
<1>3. r \in Loop /\ r.pc = "held" /\ r.batch = buffer[1]
  BY <1>1, <1>2 DEF Loop
<1>4. Becomes(l, r)
  BY DEF Take, Becomes
<1> HIDE DEF r
<1>5. /\ loops' \in Seq(Loop) /\ DOMAIN loops' = DOMAIN loops /\ Len(loops') = Len(loops)
      /\ loops'[l] = r /\ (\A m \in DOMAIN loops \ {l} : loops'[m] = loops[m])
      /\ Held' = Held \cup {l} /\ l \notin Held
  BY <1>2, <1>3, <1>4, LoopBecomes DEF Held
<1>6. UNCHANGED <<arrived, fate>> /\ Places
  BY PlacesAreSaid DEF Take
<1>7. HandsAreFull'
  BY <1>1, <1>3, <1>5, <1>6 DEF Places, HandsAreFull
<1>8. PlacedOnce'
  <2>0. PlacedOnce
    BY <1>6 DEF Places
  <2>1. ASSUME NEW j \in DOMAIN buffer', NEW k \in DOMAIN buffer', buffer'[j].id = buffer'[k].id
        PROVE  j = k
    <3>1. /\ j + 1 \in DOMAIN buffer /\ k + 1 \in DOMAIN buffer
          /\ buffer'[j] = buffer[j + 1] /\ buffer'[k] = buffer[k + 1]
      BY <1>1
    <3>2. j + 1 = k + 1
      BY <2>0, <2>1, <3>1 DEF PlacedOnce
    <3> QED
      BY <1>1, <3>2
  <2>2. \A m \in Held : loops'[m].batch.id = loops[m].batch.id /\ loops[m].batch.id # r.batch.id
    BY <1>1, <1>3, <1>5, <2>0, SMTT(60) DEF PlacedOnce, Held
  <2>3. \A m, o \in Held' : loops'[m].batch.id = loops'[o].batch.id => m = o
    BY <1>5, <2>0, <2>2 DEF PlacedOnce
  <2>4. \A k \in DOMAIN buffer', m \in Held' : buffer'[k].id # loops'[m].batch.id
    <3>1. \A k \in DOMAIN buffer' : k + 1 \in DOMAIN buffer /\ buffer'[k] = buffer[k + 1] /\ buffer[k + 1].id # buffer[1].id
      BY <1>1, <2>0 DEF PlacedOnce
    <3> QED
      BY <1>3, <1>5, <2>0, <2>2, <3>1 DEF PlacedOnce
  <2> QED
    BY <2>1, <2>3, <2>4 DEF PlacedOnce
<1>9. OpenIsPlaced'
  <2> SUFFICES ASSUME NEW b \in 1 .. MaxBatches
               PROVE  (InBuffer(b) \/ InHand(b))' <=> InBuffer(b) \/ InHand(b)
    BY <1>6 DEF Places, OpenIsPlaced
  <2>1. InBuffer(b)' => InBuffer(b)
    <3> SUFFICES ASSUME NEW k \in DOMAIN buffer', buffer'[k].id = b
                 PROVE  InBuffer(b)
      BY DEF InBuffer
    <3>1. k + 1 \in DOMAIN buffer /\ buffer'[k] = buffer[k + 1]
      BY <1>1
    <3> QED
      BY <3>1 DEF InBuffer
  <2>2. InHand(b)' => InHand(b) \/ InBuffer(b)
    <3> SUFFICES ASSUME NEW m \in Held', loops'[m].batch.id = b
                 PROVE  InHand(b) \/ InBuffer(b)
      BY DEF InHand
    <3>1. CASE m = l
      <4>1. 1 \in DOMAIN buffer /\ buffer[1].id = b
        BY <1>1, <1>3, <1>5, <3>1
      <4> QED
        BY <4>1 DEF InBuffer
    <3>2. CASE m # l
      <4>1. m \in Held /\ loops[m].batch.id = b
        BY <1>5, <3>2 DEF Held
      <4> QED
        BY <4>1 DEF InHand
    <3> QED
      BY <3>1, <3>2
  <2>3. InHand(b) => InHand(b)'
    BY <1>5 DEF InHand, Held
  <2>4. InBuffer(b) => InBuffer(b)' \/ InHand(b)'
    <3> SUFFICES ASSUME NEW k \in DOMAIN buffer, buffer[k].id = b
                 PROVE  InBuffer(b)' \/ InHand(b)'
      BY DEF InBuffer
    <3>1. CASE k = 1
      BY <1>3, <1>5, <3>1 DEF InHand
    <3>2. CASE k # 1
      <4>1. k - 1 \in DOMAIN buffer' /\ buffer'[k - 1] = buffer[k]
        BY <1>1, <3>2
      <4> QED
        BY <4>1 DEF InBuffer
    <3> QED
      BY <3>1, <3>2
  <2> QED
    BY <2>1, <2>2, <2>3, <2>4
<1>10. BornInOrder' /\ ArrivedWasBorn'
  BY <1>6 DEF Places, BornInOrder, ArrivedWasBorn
<1>11. SentInOrder'
  <2> SUFFICES ASSUME Len(loops) <= 1
               PROVE  /\ \A j, k \in DOMAIN buffer' : j < k => buffer'[j].id < buffer'[k].id
                      /\ \A m \in Held', k \in DOMAIN buffer' : loops'[m].batch.id < buffer'[k].id
                      /\ \A k \in DOMAIN buffer' : arrived <= buffer'[k].id
                      /\ \A m \in Held' : arrived <= loops'[m].batch.id
    BY <1>5, <1>6 DEF SentInOrder
  <2>1. DOMAIN loops = {l} /\ Held' = {l}
    <3>1. DOMAIN loops = {l}
      BY LoopsAndBuffer
    <3> QED
      BY <1>5, <3>1 DEF Held
  <2>2. SentInOrder /\ \A k \in DOMAIN buffer : buffer[k].id \in Nat
    BY <1>6, LoopsAndBuffer DEF Places
  <2>3. \A k \in DOMAIN buffer' : k + 1 \in DOMAIN buffer /\ 1 < k + 1 /\ buffer'[k] = buffer[k + 1]
    BY <1>1
  <2>4. /\ \A k \in DOMAIN buffer' : arrived <= buffer'[k].id /\ buffer[1].id < buffer'[k].id
        /\ arrived <= buffer[1].id /\ 1 \in DOMAIN buffer
    BY <1>1, <2>2, <2>3 DEF SentInOrder
  <2>5. ASSUME NEW i \in DOMAIN buffer', NEW k \in DOMAIN buffer', i < k
        PROVE  buffer'[i].id < buffer'[k].id
    <3>1. i + 1 \in DOMAIN buffer /\ k + 1 \in DOMAIN buffer /\ i + 1 < k + 1
      BY <1>1, <2>3, <2>5
    <3> QED
      BY <2>2, <2>3, <3>1 DEF SentInOrder
  <2> QED
    BY <1>3, <1>5, <2>1, <2>4, <2>5
<1> QED
  BY <1>1, <1>5, <1>7, <1>8, <1>9, <1>10, <1>11 DEF Places

LEMMA PutBackKeepsPlaces ==
    ASSUME CollectInv, NEW l \in Held, PutBack(l), NEW failures \in 0 .. FailLimit + 1, Idle(l, failures),
           UNCHANGED fate, arrived' \in {arrived, loops[l].batch.id}
    PROVE  Places' /\ loops' \in Seq(Loop) /\ buffer' \in Seq(Batch)
<1> DEFINE r == [IdleLoop EXCEPT !.failures = failures]
<1>1. PICK b \in Batch : b = loops[l].batch
  BY LoopsAndBuffer
<1>2. /\ buffer' \in Seq(Batch) /\ Len(buffer') = Len(buffer) + 1 /\ DOMAIN buffer' = 1 .. Len(buffer) + 1
      /\ buffer'[1] = b /\ \A k \in 1 .. Len(buffer) : buffer'[k + 1] = buffer[k]
  BY <1>1, LoopsAndBuffer, FrontShifts DEF PutBack
<1>3. DOMAIN buffer = 1 .. Len(buffer) /\ Len(buffer) \in Nat /\ l \in DOMAIN loops
  BY LoopsAndBuffer
<1>4. r \in Loop /\ r.pc = "idle" /\ r.batch = NoBatch
  BY DEF Loop, IdleLoop, None
<1>5. Becomes(l, r)
  BY DEF Idle, Becomes
<1> HIDE DEF r
<1>6. /\ loops' \in Seq(Loop) /\ DOMAIN loops' = DOMAIN loops /\ Len(loops') = Len(loops)
      /\ loops'[l] = r /\ (\A m \in DOMAIN loops \ {l} : loops'[m] = loops[m])
      /\ Held' = Held \ {l}
  BY <1>3, <1>4, <1>5, LoopBecomes DEF Held
<1>7. Places
  BY PlacesAreSaid
<1>8. HandsAreFull'
  BY <1>3, <1>4, <1>6, <1>7, NoBatchIsNone DEF Places, HandsAreFull
<1>9. \A m \in Held' : loops'[m] = loops[m] /\ m \in Held /\ m # l
  BY <1>6 DEF Held
<1>10. \A k \in DOMAIN buffer' : \/ k = 1 /\ buffer'[k] = b
                                 \/ k - 1 \in DOMAIN buffer /\ buffer'[k] = buffer[k - 1]
  BY <1>2, <1>3
<1>11. PlacedOnce'
  <2>0. PlacedOnce /\ l \in Held
    BY <1>7 DEF Places
  <2>1. \A k \in DOMAIN buffer : buffer[k].id # b.id
    BY <1>1, <2>0 DEF PlacedOnce
  <2>2. \A j, k \in DOMAIN buffer' : buffer'[j].id = buffer'[k].id => j = k
    <3> SUFFICES ASSUME NEW j \in DOMAIN buffer', NEW k \in DOMAIN buffer', buffer'[j].id = buffer'[k].id
                 PROVE  j = k
      OBVIOUS
    <3>1. CASE j = 1
      BY <1>2, <1>3, <1>10, <2>1, <3>1
    <3>2. CASE k = 1
      BY <1>2, <1>3, <1>10, <2>1, <3>2
    <3>3. CASE j # 1 /\ k # 1
      <4>1. j - 1 = k - 1
        BY <1>10, <2>0, <3>3 DEF PlacedOnce
      <4> QED
        BY <1>2, <4>1
    <3> QED
      BY <3>1, <3>2, <3>3
  <2>3. \A m, o \in Held' : loops'[m].batch.id = loops'[o].batch.id => m = o
    BY <1>9, <2>0 DEF PlacedOnce
  <2>4. \A k \in DOMAIN buffer', m \in Held' : buffer'[k].id # loops'[m].batch.id
    BY <1>1, <1>9, <1>10, <2>0 DEF PlacedOnce
  <2> QED
    BY <2>2, <2>3, <2>4 DEF PlacedOnce
<1>12. OpenIsPlaced'
  <2> SUFFICES ASSUME NEW i \in 1 .. MaxBatches
               PROVE  (InBuffer(i) \/ InHand(i))' <=> InBuffer(i) \/ InHand(i)
    BY <1>7 DEF Places, OpenIsPlaced
  <2>1. InBuffer(i)' => InBuffer(i) \/ InHand(i)
    BY <1>1, <1>10 DEF InBuffer, InHand
  <2>2. InHand(i)' => InHand(i)
    BY <1>9 DEF InHand
  <2>3. InBuffer(i) => InBuffer(i)'
    <3> SUFFICES ASSUME NEW k \in DOMAIN buffer, buffer[k].id = i
                 PROVE  InBuffer(i)'
      BY DEF InBuffer
    <3>1. k + 1 \in DOMAIN buffer' /\ buffer'[k + 1] = buffer[k]
      BY <1>2, <1>3
    <3> QED
      BY <3>1 DEF InBuffer
  <2>4. InHand(i) => InHand(i)' \/ InBuffer(i)'
    <3> SUFFICES ASSUME NEW m \in Held, loops[m].batch.id = i
                 PROVE  InHand(i)' \/ InBuffer(i)'
      BY DEF InHand
    <3>1. CASE m = l
      <4>1. 1 \in DOMAIN buffer' /\ buffer'[1].id = i
        BY <1>1, <1>2, <1>3, <3>1
      <4> QED
        BY <4>1 DEF InBuffer
    <3>2. CASE m # l
      BY <1>6, <3>2 DEF InHand, Held
    <3> QED
      BY <3>1, <3>2
  <2> QED
    BY <2>1, <2>2, <2>3, <2>4
<1>13. BornInOrder' /\ ArrivedWasBorn'
  <2>1. fate[b.id] = "open"
    BY <1>1, <1>7, LoopsAndBuffer DEF Places, OpenIsPlaced, InHand
  <2> QED
    BY <1>1, <1>7, <2>1 DEF Places, BornInOrder, ArrivedWasBorn
<1>14. SentInOrder'
  <2> SUFFICES ASSUME Len(loops) <= 1
               PROVE  /\ \A j, k \in DOMAIN buffer' : j < k => buffer'[j].id < buffer'[k].id
                      /\ \A m \in Held', k \in DOMAIN buffer' : loops'[m].batch.id < buffer'[k].id
                      /\ \A k \in DOMAIN buffer' : arrived' <= buffer'[k].id
                      /\ \A m \in Held' : arrived' <= loops'[m].batch.id
    BY <1>6 DEF SentInOrder
  <2>1. Held' = {}
    <3>1. DOMAIN loops = {l}
      BY LoopsAndBuffer
    <3> QED
      BY <1>6, <3>1 DEF Held
  <2>2. /\ \A j, k \in DOMAIN buffer : j < k => buffer[j].id < buffer[k].id
        /\ \A k \in DOMAIN buffer : b.id < buffer[k].id /\ arrived <= buffer[k].id
        /\ arrived <= b.id /\ \A k \in DOMAIN buffer : buffer[k].id \in Nat
        /\ b.id \in Nat /\ arrived \in Nat
    BY <1>1, <1>7, LoopsAndBuffer, SMTT(60) DEF Places, SentInOrder, CollectInv, CollectTypes
  <2>3. \A k \in DOMAIN buffer' : arrived' <= buffer'[k].id
    BY <1>1, <1>10, <2>2
  <2>4. ASSUME NEW j \in DOMAIN buffer', NEW k \in DOMAIN buffer', j < k
        PROVE  buffer'[j].id < buffer'[k].id
    <3>1. k - 1 \in DOMAIN buffer /\ buffer'[k] = buffer[k - 1]
      BY <1>2, <1>10, <2>4
    <3>2. CASE j = 1
      BY <1>2, <2>2, <3>1, <3>2
    <3>3. CASE j # 1
      <4>1. j - 1 \in DOMAIN buffer /\ buffer'[j] = buffer[j - 1] /\ j - 1 < k - 1
        BY <1>2, <1>10, <2>4, <3>3
      <4> QED
        BY <2>2, <3>1, <4>1
    <3> QED
      BY <3>2, <3>3
  <2> QED
    BY <2>1, <2>3, <2>4
<1> QED
  BY <1>2, <1>6, <1>8, <1>11, <1>12, <1>13, <1>14 DEF Places

LEMMA ConfirmKeepsPlaces ==
    ASSUME CollectInv, NEW l \in Held, Confirm(l), arrived' \in {arrived, loops[l].batch.id}
    PROVE  Places' /\ loops' \in Seq(Loop) /\ fate' \in [1 .. MaxBatches -> Fates]
<1> DEFINE r == [IdleLoop EXCEPT !.failures = 0]
<1>1. PICK b \in 1 .. MaxBatches : b = loops[l].batch.id
  BY LoopsAndBuffer
<1>2. 0 \in 0 .. FailLimit + 1
  BY CollectAssumption
<1>3. r \in Loop /\ r.pc = "idle" /\ r.batch = NoBatch
  BY <1>2 DEF Loop, IdleLoop, None
<1>4. Becomes(l, r) /\ l \in DOMAIN loops
  BY LoopsAndBuffer DEF Confirm, Idle, Becomes
<1> HIDE DEF r
<1>5. /\ loops' \in Seq(Loop) /\ DOMAIN loops' = DOMAIN loops /\ Len(loops') = Len(loops)
      /\ loops'[l] = r /\ (\A m \in DOMAIN loops \ {l} : loops'[m] = loops[m])
      /\ Held' = Held \ {l}
  BY <1>3, <1>4, LoopBecomes DEF Held
<1>6. Places /\ UNCHANGED buffer
  BY PlacesAreSaid DEF Confirm
<1>7. /\ fate \in [1 .. MaxBatches -> Fates] /\ fate' \in [1 .. MaxBatches -> Fates]
      /\ fate[b] = "open" /\ fate'[b] = "over" /\ \A i \in 1 .. MaxBatches \ {b} : fate'[i] = fate[i]
  <2>1. fate \in [1 .. MaxBatches -> Fates] /\ fate' = [fate EXCEPT ![b] = "over"]
    BY <1>1 DEF Confirm, CollectInv, CollectTypes
  <2>2. fate[b] = "open"
    BY <1>1, <1>6 DEF Places, OpenIsPlaced, InHand
  <2> QED
    BY <2>1, <2>2 DEF Fates
<1>8. HandsAreFull'
  BY <1>3, <1>4, <1>5, <1>6, NoBatchIsNone DEF Places, HandsAreFull
<1>9. \A m \in Held' : loops'[m] = loops[m] /\ m \in Held /\ m # l /\ loops[m].batch.id # b
  BY <1>1, <1>5, <1>6 DEF Held, Places, PlacedOnce
<1>10. PlacedOnce'
  BY <1>6, <1>9 DEF Places, PlacedOnce
<1>11. OpenIsPlaced'
  <2> SUFFICES ASSUME NEW i \in 1 .. MaxBatches
               PROVE  fate'[i] = "open" <=> (InBuffer(i) \/ InHand(i))'
    BY DEF OpenIsPlaced
  <2>1. InBuffer(i)' <=> InBuffer(i)
    BY <1>6 DEF InBuffer
  <2>2. CASE i = b
    <3>1. ~InBuffer(i)
      BY <1>1, <1>6, <2>2 DEF Places, PlacedOnce, InBuffer
    <3>2. ~InHand(i)'
      BY <1>9, <2>2 DEF InHand
    <3> QED
      BY <1>7, <2>1, <2>2, <3>1, <3>2
  <2>3. CASE i # b
    <3>1. InHand(i)' <=> InHand(i)
      BY <1>1, <1>5, <1>9, <2>3 DEF InHand, Held
    <3> QED
      BY <1>6, <1>7, <2>1, <2>3, <3>1 DEF Places, OpenIsPlaced
  <2> QED
    BY <2>2, <2>3
<1>12. BornInOrder' /\ ArrivedWasBorn'
  <2>1. \A i \in 1 .. MaxBatches : fate'[i] # "unborn" <=> fate[i] # "unborn"
    BY <1>7
  <2>2. arrived' # 0 => arrived' \in 1 .. MaxBatches /\ fate[arrived'] # "unborn"
    <3>1. CASE arrived' = b
      BY <1>7, <3>1
    <3>2. CASE arrived' = arrived
      BY <1>6, <3>2 DEF Places, ArrivedWasBorn, CollectInv, CollectTypes
    <3> QED
      BY <1>1, <3>1, <3>2
  <2> QED
    BY <1>6, <2>1, <2>2 DEF Places, BornInOrder, ArrivedWasBorn
<1>13. SentInOrder'
  <2> SUFFICES ASSUME Len(loops) <= 1
               PROVE  SentInOrder'
    BY <1>5 DEF SentInOrder
  <2>1. Held' = {}
    <3>1. DOMAIN loops = {l}
      BY <1>4, LoopsAndBuffer
    <3> QED
      BY <1>5, <3>1 DEF Held
  <2>2. \A k \in DOMAIN buffer : arrived' <= buffer[k].id
    <3>1. \A k \in DOMAIN buffer : arrived <= buffer[k].id /\ b < buffer[k].id /\ b \in Nat /\ buffer[k].id \in Nat
      BY <1>1, <1>6, LoopsAndBuffer DEF Places, SentInOrder
    <3> QED
      BY <1>1, <3>1
  <2> QED
    BY <1>6, <2>1, <2>2 DEF Places, SentInOrder
<1> QED
  BY <1>5, <1>7, <1>8, <1>10, <1>11, <1>12, <1>13 DEF Places

\* The number of the next batch is the first that was not given out.
LEMMA NextIsUnborn ==
    ASSUME CollectInv
    PROVE  /\ NextId \in Nat \ {0} /\ \A b \in 1 .. MaxBatches : fate[b] # "unborn" <=> b < NextId
<1>1. PICK m \in 0 .. MaxBatches : \A b \in 1 .. MaxBatches : fate[b] # "unborn" <=> b <= m
  BY DEF CollectInv, BornInOrder
<1>2. m \in Nat /\ MaxBatches \in Nat /\ m <= MaxBatches
  BY CollectAssumption
<1>3. {b \in 1 .. MaxBatches : fate[b] # "unborn"} = 1 .. m
  BY <1>1, <1>2
<1>4. Cardinality(1 .. m) = m
  BY <1>2, FS_Interval
<1>5. NextId = m + 1
  BY <1>3, <1>4 DEF NextId
<1> QED
  BY <1>1, <1>2, <1>5

\* A set of numbers that is not empty has a least one.
LEMMA LeastExists ==
    ASSUME NEW T \in SUBSET Nat, T # {}
    PROVE  \E x \in T : \A y \in T : ~(y < x)
<1> DEFINE Below == {0 .. x : x \in T}
<1>1. Below \subseteq FiniteSubsetsOf(Nat) /\ Below # {}
  <2>1. ASSUME NEW x \in T
        PROVE  0 .. x \subseteq Nat /\ IsFiniteSet(0 .. x)
    BY FS_Interval
  <2> QED
    BY <2>1 DEF FiniteSubsetsOf
<1>2. PICK B \in Below : \A C \in Below : <<C, B>> \notin StrictSubsetOrdering(Nat)
  <2> HIDE DEF Below
  <2> QED
    BY <1>1, FS_StrictSubsetOrderingWellFounded, WFMin
<1>3. PICK x \in T : B = 0 .. x
  BY <1>2
<1>4. ASSUME NEW y \in T, y < x
      PROVE  FALSE
  <2>1. 0 .. y \subseteq 0 .. x /\ x \in 0 .. x /\ x \notin 0 .. y /\ 0 .. x \subseteq Nat
    BY <1>4
  <2>2. <<0 .. y, 0 .. x>> \in StrictSubsetOrdering(Nat)
    BY <2>1 DEF StrictSubsetOrdering
  <2> QED
    BY <1>2, <1>3, <2>2
<1> QED
  BY <1>4

\* push evicts some of the oldest batches, and then the new one fits.
LEMMA EvictingFits ==
    ASSUME NEW q \in Seq(Batch), NEW n
    PROVE  /\ Evicting(q, n) \in 0 .. Len(q)
           /\ Fits(SubSeq(q, Evicting(q, n) + 1, Len(q)), n)
<1> DEFINE T == {k \in 0 .. Len(q) : Fits(SubSeq(q, k + 1, Len(q)), n)}
<1>1. Len(q) \in Nat
  BY LenProperties
<1>2. SubSeq(q, Len(q) + 1, Len(q)) = <<>>
  BY <1>1, SubSeqEmpty
<1>3. Len(q) \in T /\ T \subseteq Nat
  BY <1>1, <1>2 DEF Fits
<1>4. PICK k \in T : \A j \in T : ~(j < k)
  <2> HIDE DEF T
  <2> QED
    BY <1>3, LeastExists
<1>5. \A j \in 0 .. k - 1 : ~Fits(SubSeq(q, j + 1, Len(q)), n)
  <2> SUFFICES ASSUME NEW j \in 0 .. k - 1, Fits(SubSeq(q, j + 1, Len(q)), n)
               PROVE  FALSE
    OBVIOUS
  <2>1. j \in T /\ j < k
    BY <1>1, <1>4
  <2> QED
    BY <1>4, <2>1
<1> QED
  BY <1>4, <1>5 DEF Evicting

LEMMA CollectKeepsPlaces ==
    ASSUME CollectInv, NEW t \in DOMAIN tasks, Collect(t)
    PROVE  Places' /\ buffer' \in Seq(Batch) /\ fate' \in [1 .. MaxBatches -> Fates]
<1>1. PICK n \in 1 .. BatchMax :
        LET k == Evicting(buffer, n)
            out == {buffer[j].id : j \in 1 .. k}
        IN /\ buffer' = Append(SubSeq(buffer, k + 1, Len(buffer)), [id |-> NextId, n |-> n])
           /\ fate' = [b \in 1 .. MaxBatches |-> IF b \in out THEN "over"
                                                 ELSE IF b = NextId THEN "open" ELSE fate[b]]
  BY DEF Collect
<1>2. PICK k \in 0 .. Len(buffer) : k = Evicting(buffer, n)
  BY EvictingFits, LoopsAndBuffer
<1>0. NextId \in 1 .. MaxBatches
  <2>1. NextId \in Nat \ {0}
    BY NextIsUnborn
  <2>2. NextId <= MaxBatches
    BY DEF Collect
  <2>3. MaxBatches \in Nat
    BY CollectAssumption
  <2> QED
    BY <2>1, <2>2, <2>3
<1>3. PICK new \in Batch : new = [id |-> NextId, n |-> n]
  BY <1>0 DEF Batch
<1> DEFINE rest == SubSeq(buffer, k + 1, Len(buffer))
           out  == {buffer[j].id : j \in 1 .. k}
<1>4. /\ buffer' = Append(rest, new)
      /\ fate' = [b \in 1 .. MaxBatches |-> IF b \in out THEN "over" ELSE IF b = new.id THEN "open" ELSE fate[b]]
      /\ new.id = NextId /\ NextId \in 1 .. MaxBatches
  <2>1. new.id = NextId
    BY <1>3
  <2>2. /\ buffer' = Append(rest, [id |-> NextId, n |-> n])
        /\ fate' = [b \in 1 .. MaxBatches |-> IF b \in out THEN "over" ELSE IF b = NextId THEN "open" ELSE fate[b]]
    BY <1>1, <1>2
  <2>3. buffer' = Append(rest, new)
    BY <1>3, <2>2
  <2> QED
    BY <1>0, <2>1, <2>2, <2>3
<1>5. /\ Len(buffer) \in Nat /\ DOMAIN buffer = 1 .. Len(buffer) /\ k \in Nat /\ k <= Len(buffer)
      /\ \A j \in DOMAIN buffer : buffer[j] \in Batch /\ buffer[j].id \in 1 .. MaxBatches
  BY LoopsAndBuffer
<1>6. /\ rest \in Seq(Batch) /\ Len(rest) = Len(buffer) - k
      /\ \A i \in 1 .. Len(buffer) - k : rest[i] = buffer[k + i]
  <2>1. \A i \in k + 1 .. Len(buffer) : buffer[i] \in Batch
    BY <1>5
  <2>2. k + 1 \in Int /\ Len(buffer) \in Int
    BY <1>5
  <2>3. /\ rest \in Seq(Batch) /\ Len(rest) = IF k + 1 <= Len(buffer) THEN Len(buffer) - (k + 1) + 1 ELSE 0
        /\ \A i \in 1 .. Len(buffer) - (k + 1) + 1 : rest[i] = buffer[k + 1 + i - 1]
    BY <2>1, <2>2, SubSeqProperties
  <2> QED
    BY <1>5, <2>3, SMTT(60)
<1> HIDE DEF rest
<1>7. /\ buffer' \in Seq(Batch) /\ DOMAIN buffer' = 1 .. Len(buffer) - k + 1
      /\ buffer'[Len(buffer) - k + 1] = new
      /\ \A i \in 1 .. Len(buffer) - k : buffer'[i] = buffer[k + i] /\ k + i \in DOMAIN buffer
  BY <1>4, <1>5, <1>6, AppendProperties, LenProperties
<1>8. /\ UNCHANGED <<loops, arrived>> /\ Places
      /\ \A b \in 1 .. MaxBatches : fate[b] # "unborn" <=> b < new.id
  BY <1>4, PlacesAreSaid, NextIsUnborn DEF Collect
<1>9. /\ \A j \in DOMAIN buffer : fate[buffer[j].id] = "open" /\ buffer[j].id < new.id
      /\ \A l \in Held : fate[loops[l].batch.id] = "open" /\ loops[l].batch.id < new.id
  <2>1. \A j \in DOMAIN buffer : fate[buffer[j].id] = "open"
    BY <1>5, <1>8 DEF Places, OpenIsPlaced, InBuffer
  <2>2. \A l \in Held : loops[l].batch.id \in 1 .. MaxBatches /\ fate[loops[l].batch.id] = "open"
    BY <1>8, LoopsAndBuffer DEF Places, OpenIsPlaced, InHand
  <2> QED
    BY <1>5, <1>8, <2>1, <2>2
<1>10. \A j \in DOMAIN buffer' :
          \/ j = Len(buffer) - k + 1 /\ buffer'[j] = new
          \/ j <= Len(buffer) - k /\ buffer'[j] = buffer[k + j] /\ k + j \in DOMAIN buffer /\ buffer'[j].id < new.id
  <2> SUFFICES ASSUME NEW j \in DOMAIN buffer', j <= Len(buffer) - k
               PROVE  buffer'[j] = buffer[k + j] /\ k + j \in DOMAIN buffer /\ buffer'[j].id < new.id
    BY <1>5, <1>7
  <2>1. j \in 1 .. Len(buffer) - k
    BY <1>7
  <2>2. buffer'[j] = buffer[k + j] /\ k + j \in DOMAIN buffer
    BY <1>7, <2>1
  <2> QED
    BY <1>9, <2>2
<1>11. fate' \in [1 .. MaxBatches -> Fates]
  BY <1>4 DEF CollectInv, CollectTypes, Fates
<1>12. HandsAreFull'
  BY <1>8 DEF Places, HandsAreFull
<1>13. PlacedOnce'
  <2>0. PlacedOnce
    BY <1>8 DEF Places
  <2>1. ASSUME NEW i \in DOMAIN buffer', NEW j \in DOMAIN buffer', buffer'[i].id = buffer'[j].id
        PROVE  i = j
    <3>1. CASE i = Len(buffer) - k + 1 \/ j = Len(buffer) - k + 1
      BY <1>5, <1>10, <2>1, <3>1
    <3>2. CASE i # Len(buffer) - k + 1 /\ j # Len(buffer) - k + 1
      <4>1. k + i = k + j
        BY <1>10, <2>0, <2>1, <3>2 DEF PlacedOnce
      <4> QED
        BY <1>5, <1>7, <4>1
    <3> QED
      BY <3>1, <3>2
  <2>2. Held' = Held /\ \A l \in Held : loops'[l] = loops[l] /\ loops[l].batch.id < new.id /\ loops[l].batch.id \in Nat
    BY <1>8, <1>9, LoopsAndBuffer DEF Held
  <2>3. \A j \in DOMAIN buffer', l \in Held : buffer'[j].id # loops[l].batch.id
    BY <1>4, <1>10, <2>0, <2>2, SMTT(60) DEF PlacedOnce
  <2> QED
    BY <1>8, <2>0, <2>1, <2>2, <2>3 DEF PlacedOnce
<1>14. \A b \in 1 .. MaxBatches : InHand(b)' <=> InHand(b)
  BY <1>8 DEF InHand, Held
<1>15. OpenIsPlaced'
  <2> SUFFICES ASSUME NEW b \in 1 .. MaxBatches
               PROVE  fate'[b] = "open" <=> InBuffer(b)' \/ InHand(b)
    BY <1>14 DEF OpenIsPlaced
  <2>0. PlacedOnce /\ (fate[b] = "open" <=> InBuffer(b) \/ InHand(b))
    BY <1>8 DEF Places, OpenIsPlaced
  <2>1. CASE b = new.id
    <3>1. b \notin out
      BY <1>5, <1>9, <2>1
    <3>2. Len(buffer) - k + 1 \in DOMAIN buffer'
      BY <1>5, <1>7
    <3> QED
      BY <1>4, <1>7, <2>1, <3>1, <3>2 DEF InBuffer
  <2>2. CASE b \in out
    <3>1. PICK j \in 1 .. k : buffer[j].id = b
      BY <2>2
    <3>2. j \in DOMAIN buffer /\ b # new.id
      BY <1>5, <1>9, <3>1
    <3>3. ~InBuffer(b)'
      <4> SUFFICES ASSUME NEW i \in DOMAIN buffer', buffer'[i].id = b
                   PROVE  FALSE
        BY DEF InBuffer
      <4>1. k + i \in DOMAIN buffer /\ buffer[k + i].id = buffer[j].id
        BY <1>10, <3>1, <3>2
      <4>2. k + i = j
        BY <2>0, <3>2, <4>1 DEF PlacedOnce
      <4> QED
        BY <1>5, <1>7, <3>1, <4>2
    <3>4. ~InHand(b)
      BY <2>0, <3>1, <3>2 DEF PlacedOnce, InHand
    <3> QED
      BY <1>4, <2>2, <3>3, <3>4
  <2>3. CASE b \notin out /\ b # new.id
    <3>1. fate'[b] = fate[b]
      BY <1>4, <2>3
    <3>2. InBuffer(b)' => InBuffer(b)
      BY <1>10, <2>3 DEF InBuffer
    <3>3. InBuffer(b) => InBuffer(b)'
      <4> SUFFICES ASSUME NEW j \in DOMAIN buffer, buffer[j].id = b
                   PROVE  InBuffer(b)'
        BY DEF InBuffer
      <4>1. ~(j <= k)
        BY <1>5, <2>3
      <4>2. j - k \in 1 .. Len(buffer) - k /\ k + (j - k) = j
        BY <1>5, <4>1
      <4>3. j - k \in DOMAIN buffer' /\ buffer'[j - k] = buffer[j]
        BY <1>5, <1>7, <4>2
      <4> QED
        BY <4>3 DEF InBuffer
    <3> QED
      BY <2>0, <3>1, <3>2, <3>3
  <2> QED
    BY <2>1, <2>2, <2>3
<1>16. BornInOrder'
  <2>1. ASSUME NEW b \in 1 .. MaxBatches
        PROVE  fate'[b] # "unborn" <=> b <= new.id
    <3>1. b \in out => b < new.id
      BY <1>5, <1>9
    <3> QED
      BY <1>4, <1>8, <3>1
  <2> QED
    BY <1>4, <2>1, SMTT(60) DEF BornInOrder
<1>17. ArrivedWasBorn'
  <2>1. arrived # 0 => arrived \in 1 .. MaxBatches /\ fate[arrived] # "unborn"
    BY <1>8 DEF Places, ArrivedWasBorn, CollectInv, CollectTypes
  <2> QED
    BY <1>4, <1>8, <2>1 DEF ArrivedWasBorn
<1>18. SentInOrder'
  <2> SUFFICES ASSUME Len(loops) <= 1
               PROVE  /\ \A i, j \in DOMAIN buffer' : i < j => buffer'[i].id < buffer'[j].id
                      /\ \A l \in Held, j \in DOMAIN buffer' : loops[l].batch.id < buffer'[j].id
                      /\ \A j \in DOMAIN buffer' : arrived <= buffer'[j].id
                      /\ \A l \in Held : arrived <= loops[l].batch.id
    BY <1>8 DEF SentInOrder, Held
  <2>0. SentInOrder
    BY <1>8 DEF Places
  <2>1. arrived < new.id
    <3>1. arrived \in 0 .. MaxBatches /\ (arrived # 0 => arrived \in 1 .. MaxBatches /\ fate[arrived] # "unborn")
      BY <1>8 DEF Places, ArrivedWasBorn, CollectInv, CollectTypes
    <3> QED
      BY <1>4, <1>8, <3>1
  <2>2. ASSUME NEW i \in DOMAIN buffer', NEW j \in DOMAIN buffer', i < j
        PROVE  buffer'[i].id < buffer'[j].id
    <3>1. i <= Len(buffer) - k /\ buffer'[i] = buffer[k + i] /\ k + i \in DOMAIN buffer /\ buffer'[i].id < new.id
      BY <1>5, <1>7, <1>10, <2>2
    <3>2. CASE j = Len(buffer) - k + 1
      BY <1>7, <3>1, <3>2
    <3>3. CASE j # Len(buffer) - k + 1
      <4>1. k + i < k + j /\ k + j \in DOMAIN buffer /\ buffer'[j] = buffer[k + j]
        BY <1>5, <1>7, <1>10, <2>2, <3>3
      <4> QED
        BY <2>0, <3>1, <4>1 DEF SentInOrder
    <3> QED
      BY <3>2, <3>3
  <2>3. \A l \in Held, j \in DOMAIN buffer' : loops[l].batch.id < buffer'[j].id
    BY <1>9, <1>10, <2>0 DEF SentInOrder
  <2>4. \A j \in DOMAIN buffer' : arrived <= buffer'[j].id
    <3>1. arrived \in Nat /\ new.id \in Nat
      BY <1>4 DEF CollectInv, CollectTypes
    <3> QED
      BY <1>10, <2>0, <2>1, <3>1 DEF SentInOrder
  <2> QED
    BY <2>0, <2>2, <2>3, <2>4 DEF SentInOrder
<1> QED
  BY <1>7, <1>11, <1>12, <1>13, <1>15, <1>16, <1>17, <1>18 DEF Places

-----------------------------------------------------------------------------
(* Supervisors and their collectors                                        *)

Sup  == [inbox : Seq(Message), started : BOOLEAN, open : BOOLEAN, runners : Runners]
Task == [item : Items, st : TaskStates]

\* What a step must keep of who runs.
Runs == RunnersAreSpawned /\ TasksHaveRunners

LEMMA RunsAreSaid ==
    /\ CollectInv => Runs
    /\ CollectTypes /\ Places /\ Runs => CollectInv
  BY DEF CollectInv, Places, Runs

LEMMA SupsAndTasks ==
    ASSUME CollectInv
    PROVE  /\ sups \in Seq(Sup) /\ Conns = 1 .. Len(sups) /\ Len(sups) \in Nat
           /\ \A c \in Conns : sups[c] \in Sup
           /\ tasks \in Seq(Task) /\ DOMAIN tasks = 1 .. Len(tasks) /\ Len(tasks) \in Nat
           /\ \A t \in DOMAIN tasks : tasks[t] \in Task
<1>1. sups \in Seq(Sup) /\ tasks \in Seq(Task)
  BY DEF CollectInv, CollectTypes, Sup, Task
<1> QED
  BY <1>1, ElementOfSeq, LenProperties DEF Conns

\* One supervisor changes.
LEMMA SupBecomes ==
    ASSUME CollectInv, NEW c \in Conns, NEW r \in Sup, sups' = [sups EXCEPT ![c] = r]
    PROVE  /\ sups' \in Seq(Sup) /\ Len(sups') = Len(sups) /\ Conns' = Conns
           /\ sups'[c] = r /\ \A d \in Conns \ {c} : sups'[d] = sups[d]
<1>1. sups \in Seq(Sup) /\ c \in 1 .. Len(sups)
  BY SupsAndTasks
<1> QED
  BY <1>1, ExceptSeq, LenProperties DEF Conns

\* abort ends the tasks of a set and leaves the others as they are.
LEMMA AbortedEnds ==
    ASSUME NEW ts \in Seq(Task), NEW S
    PROVE  /\ Aborted(ts, S) \in Seq(Task) /\ Len(Aborted(ts, S)) = Len(ts) /\ DOMAIN Aborted(ts, S) = DOMAIN ts
           /\ \A t \in DOMAIN ts : /\ Aborted(ts, S)[t].item = ts[t].item
                                   /\ t \in S => Aborted(ts, S)[t].st = "ended"
                                   /\ t \notin S => Aborted(ts, S)[t] = ts[t]
<1>1. DOMAIN ts = 1 .. Len(ts) /\ Len(ts) \in Nat /\ \A t \in DOMAIN ts : ts[t] \in Task
  BY ElementOfSeq, LenProperties
<1>2. \A t \in DOMAIN ts : /\ [ts[t] EXCEPT !.st = "ended"] \in Task
                           /\ [ts[t] EXCEPT !.st = "ended"].item = ts[t].item
                           /\ [ts[t] EXCEPT !.st = "ended"].st = "ended"
  BY <1>1 DEF Task, TaskStates
<1>3. \A t \in DOMAIN ts : Aborted(ts, S)[t] = IF t \in S THEN [ts[t] EXCEPT !.st = "ended"] ELSE ts[t]
  BY DEF Aborted
<1>4. Aborted(ts, S) \in [1 .. Len(ts) -> Task]
  BY <1>1, <1>2 DEF Aborted
<1>5. Aborted(ts, S) \in Seq(Task) /\ Len(Aborted(ts, S)) = Len(ts) /\ DOMAIN Aborted(ts, S) = DOMAIN ts
  BY <1>1, <1>4
<1> QED
  BY <1>2, <1>3, <1>5

-----------------------------------------------------------------------------
(* The invariant holds and every action keeps it                           *)

LEMMA PlacesStay ==
    ASSUME CollectInv, UNCHANGED <<buffer, loops, arrived, fate>>
    PROVE  Places'
  BY PlacesAreSaid DEF Places, HandsAreFull, PlacedOnce, OpenIsPlaced, BornInOrder, SentInOrder, ArrivedWasBorn,
     InBuffer, InHand, Held

\* Messages come and go without a collector noticing.
LEMMA RunsStay ==
    ASSUME CollectInv, UNCHANGED tasks, Conns' = Conns,
           \A c \in Conns : sups'[c].open = sups[c].open /\ sups'[c].runners = sups[c].runners
    PROVE  Runs'
  BY RunsAreSaid DEF Runs, RunnersAreSpawned, TasksHaveRunners

LEMMA CollectStarts == Init => CollectInv
<1> SUFFICES ASSUME Init PROVE CollectInv
  OBVIOUS
<1>1. CollectTypes
  <2>1. [i \in Items |-> 1] \in [Items -> 0 .. MaxSpecs] /\ 1 \in 1 .. MaxSpecs /\ 0 \in 0 .. MaxFaults /\ 0 \in 0 .. MaxBatches
    BY CollectAssumption
  <2>2. fate \in [1 .. MaxBatches -> Fates]
    BY DEF Init, Fates
  <2>3. Len(tasks) = 0 /\ tasks = <<>> /\ port = 0
    BY DEF Init
  <2> QED
    BY <2>1, <2>2, <2>3 DEF Init, CollectTypes, Addrs, None
<1>2. RunnersAreSpawned /\ TasksHaveRunners
  BY DEF Init, RunnersAreSpawned, TasksHaveRunners, Conns
<1>3. DOMAIN loops = {} /\ DOMAIN buffer = {} /\ Held = {} /\ arrived = 0
  BY DEF Init, Held
<1>4. HandsAreFull /\ PlacedOnce /\ ArrivedWasBorn /\ SentInOrder
  BY <1>3 DEF HandsAreFull, PlacedOnce, SentInOrder, ArrivedWasBorn
<1>5. OpenIsPlaced
  BY <1>3 DEF Init, OpenIsPlaced, InBuffer, InHand
<1>6. BornInOrder
  <2>1. 0 \in 0 .. MaxBatches /\ \A b \in 1 .. MaxBatches : fate[b] = "unborn" /\ ~(b <= 0)
    BY CollectAssumption DEF Init
  <2> QED
    BY <2>1 DEF BornInOrder
<1> QED
  BY <1>1, <1>2, <1>4, <1>5, <1>6 DEF CollectInv

LEMMA ConnectKeeps ==
    ASSUME CollectInv, Connect
    PROVE  CollectInv'
<1>0. /\ CollectTypes /\ Places /\ Runs
      /\ UNCHANGED <<buffer, url, wanted, specs, tasks, port, ds, arrived, fate, faults>>
  BY RunsAreSaid, PlacesAreSaid DEF Connect, CollectInv
<1>1. /\ SpecMsg(wanted, FALSE) \in Message /\ PullMsg \in Message
  BY <1>0 DEF CollectTypes, SpecMsg, PullMsg, Message
<1>2. PICK in \in Seq(Message) : in = <<SpecMsg(wanted, FALSE), PullMsg>>
  <2>1. \A m, p \in Message : <<m, p>> \in Seq(Message)
    OBVIOUS
  <2> QED
    BY <1>1, <2>1
<1>3. PICK s \in Sup : s = [Supervisor EXCEPT !.inbox = in] /\ \A i \in Items : s.runners[i].task = 0
  <2>1. NoRunners \in Runners /\ \A i \in Items : NoRunners[i].task = 0
    <3>1. 0 \in 0 .. MaxSpecs /\ 0 \in Nat
      BY CollectAssumption
    <3> QED
      BY <3>1 DEF NoRunners, Runners
  <2>2. <<>> \in Seq(Message)
    OBVIOUS
  <2>3. Supervisor \in Sup /\ Supervisor.runners = NoRunners
    BY <2>1, <2>2 DEF Sup, Supervisor
  <2>4. PICK s \in Sup : s = [Supervisor EXCEPT !.inbox = in]
    BY <2>3 DEF Sup
  <2>5. s.runners = Supervisor.runners
    BY <2>3, <2>4 DEF Sup
  <2> QED
    BY <2>1, <2>3, <2>4, <2>5
<1>4. /\ sups' = Append(sups, s) /\ sups' \in Seq(Sup) /\ Conns' = 1 .. Len(sups) + 1
      /\ sups'[Len(sups) + 1] = s /\ \A c \in Conns : sups'[c] = sups[c]
  <2>1. sups' = Append(sups, s)
    BY <1>2, <1>3 DEF Connect
  <2> QED
    BY <2>1, SupsAndTasks, AppendProperties DEF Conns
<1>5. IdleLoop \in Loop /\ IdleLoop.pc = "idle" /\ IdleLoop.batch = NoBatch
  BY CollectAssumption DEF Loop, IdleLoop, None
<1>6. /\ loops' \in Seq(Loop) /\ DOMAIN loops' = 1 .. Len(loops) + 1 /\ Len(loops') = Len(loops) + 1
      /\ loops'[Len(loops) + 1] = IdleLoop /\ \A l \in DOMAIN loops : loops'[l] = loops[l]
  <2>1. loops' = Append(loops, IdleLoop)
    BY DEF Connect
  <2> QED
    BY <1>5, <2>1, LoopsAndBuffer, AppendProperties
<1>7. DOMAIN loops = 1 .. Len(loops) /\ Len(loops) \in Nat /\ Conns = 1 .. Len(sups) /\ Len(sups) \in Nat
  BY LoopsAndBuffer, SupsAndTasks
<1>8. Held' = Held /\ \A l \in Held : l \in DOMAIN loops /\ loops'[l] = loops[l]
  BY <1>5, <1>6, <1>7 DEF Held
<1>9. CollectTypes'
  <2>1. sups' \in Seq([inbox : Seq(Message), started : BOOLEAN, open : BOOLEAN, runners : Runners])
    BY <1>4 DEF Sup
  <2>2. loops' \in Seq([pc : {"idle", "held", "posting"}, batch : Batch \cup {NoBatch},
                        base : Addrs \cup {None}, failures : 0 .. FailLimit + 1])
    BY <1>6 DEF Loop
  <2> QED
    BY <1>0, <2>1, <2>2 DEF CollectTypes
<1>10. Runs'
  <2>1. RunnersAreSpawned'
    <3>1. Len(tasks) \in Nat
      BY SupsAndTasks
    <3>2. ASSUME NEW c \in Conns', NEW i \in Items
          PROVE  sups'[c].runners[i].task <= Len(tasks)
      <4>1. CASE c = Len(sups) + 1
        BY <1>3, <1>4, <3>1, <4>1
      <4>2. CASE c # Len(sups) + 1
        BY <1>0, <1>4, <1>7, <4>2 DEF Runs, RunnersAreSpawned
      <4> QED
        BY <4>1, <4>2
    <3> QED
      BY <1>0, <3>2 DEF RunnersAreSpawned
  <2>2. TasksHaveRunners'
    BY <1>0, <1>4, <1>7 DEF Runs, TasksHaveRunners
  <2> QED
    BY <2>1, <2>2 DEF Runs
<1>11. HandsAreFull'
  <2>1. \A l \in DOMAIN loops' : l = Len(loops) + 1 \/ l \in DOMAIN loops
    BY <1>6, <1>7
  <2> QED
    BY <1>0, <1>5, <1>6, <2>1, NoBatchIsNone DEF Places, HandsAreFull
<1>12. PlacedOnce' /\ OpenIsPlaced'
  BY <1>0, <1>8 DEF Places, PlacedOnce, OpenIsPlaced, InBuffer, InHand
<1>13. BornInOrder' /\ ArrivedWasBorn'
  BY <1>0 DEF Places, BornInOrder, ArrivedWasBorn
<1>14. SentInOrder'
  <2>1. Len(loops') <= 1 => Len(loops) <= 1
    BY <1>6, <1>7
  <2> QED
    BY <1>0, <1>8, <2>1 DEF Places, SentInOrder
<1> QED
  BY <1>9, <1>10, <1>11, <1>12, <1>13, <1>14, RunsAreSaid DEF CollectInv, Places, Runs

LEMMA ChangeSpecKeeps ==
    ASSUME CollectInv, ChangeSpec
    PROVE  CollectInv' /\ UNCHANGED tasks /\ \A c \in Conns : sups'[c].runners = sups[c].runners
<1>0. CollectTypes /\ UNCHANGED <<buffer, url, tasks, port, loops, ds, arrived, fate, faults>> /\ Latest \in Conns
  BY SupsAndTasks DEF ChangeSpec, CollectInv, Latest
<1>1. /\ specs' \in 1 .. MaxSpecs /\ specs' \in 0 .. MaxSpecs /\ specs' = specs + 1 /\ 0 \in 0 .. MaxSpecs
  BY <1>0, CollectAssumption DEF ChangeSpec, CollectTypes
<1>2. /\ wanted' \in [Items -> 0 .. MaxSpecs]
      /\ \E rebind \in BOOLEAN : Send(<<SpecMsg(wanted', rebind)>>)
  <2>1. PICK i \in Items :
        \/ Change(i, "edit") /\ Wanted(i, specs + 1)
        \/ Change(i, "drop") /\ wanted[i] # 0 /\ Wanted(i, 0)
        \/ Change(i, "rebind") /\ Send(<<SpecMsg(wanted, TRUE)>>) /\ UNCHANGED wanted
    BY DEF ChangeSpec
  <2>2. CASE Wanted(i, specs + 1) \/ Wanted(i, 0)
    <3>1. PICK v \in 0 .. MaxSpecs : Wanted(i, v)
      BY <1>1, <2>2
    <3> QED
      BY <1>0, <3>1 DEF Wanted, CollectTypes
  <2>3. CASE Send(<<SpecMsg(wanted, TRUE)>>) /\ UNCHANGED wanted
    <3>1. SpecMsg(wanted', TRUE) = SpecMsg(wanted, TRUE)
      BY <2>3 DEF SpecMsg
    <3> QED
      BY <1>0, <2>3, <3>1 DEF CollectTypes
  <2> QED
    BY <2>1, <2>2, <2>3
<1>3. PICK msgs \in Seq(Message) : Send(msgs)
  <2>1. PICK rebind \in BOOLEAN : Send(<<SpecMsg(wanted', rebind)>>)
    BY <1>2
  <2>2. SpecMsg(wanted', rebind) \in Message
    BY <1>2 DEF SpecMsg, Message
  <2>3. <<SpecMsg(wanted', rebind)>> \in Seq(Message)
    BY <2>2
  <2> QED
    BY <2>1, <2>3
<1>4. sups[Latest] \in Sup
  BY <1>0, SupsAndTasks
<1>5. PICK r \in Sup : /\ r = [sups[Latest] EXCEPT !.inbox = @ \o msgs]
                       /\ r.open = sups[Latest].open /\ r.runners = sups[Latest].runners
  <2>1. PICK s \in Sup : s = sups[Latest]
    BY <1>4
  <2>2. PICK in \in Seq(Message) : in = s.inbox \o msgs
    BY ConcatProperties DEF Sup
  <2>3. PICK r \in Sup : r = [s EXCEPT !.inbox = in]
    BY DEF Sup
  <2>4. r.open = s.open /\ r.runners = s.runners
    BY <2>3 DEF Sup
  <2>5. r = [s EXCEPT !.inbox = @ \o msgs]
    BY <2>2, <2>3
  <2> QED
    BY <2>1, <2>4, <2>5
<1>6. sups' = [sups EXCEPT ![Latest] = r]
  BY <1>3, <1>5 DEF Send
<1>7. /\ sups' \in Seq(Sup) /\ Conns' = Conns
      /\ \A c \in Conns : sups'[c].open = sups[c].open /\ sups'[c].runners = sups[c].runners
  BY <1>0, <1>5, <1>6, SupBecomes
<1>8. CollectTypes'
  BY <1>0, <1>1, <1>2, <1>7 DEF CollectTypes, Sup
<1> QED
  BY <1>0, <1>7, <1>8, PlacesStay, RunsStay, RunsAreSaid DEF CollectInv, Places, Runs

\* The collectors a step finds stay what they are, and a restart has a reason.
ItemsStay == \A t \in DOMAIN tasks : t \in DOMAIN tasks' /\ tasks'[t].item = tasks[t].item
RestartsHaveReason ==
    \A c \in Conns, i \in Items \ {Otlp} :
        LET now == sups[c].runners[i] later == sups'[c].runners[i]
        IN now.task # 0 /\ later.task # 0 /\ now.task # later.task
             => now.version # later.version

\* The supervisor after it read a spec, or that it is to pull the address.
Reconciled(s, run) == [s EXCEPT !.inbox = Tail(@), !.runners = run]
Started(s)         == [s EXCEPT !.inbox = Tail(@), !.started = TRUE]

LEMMA InboxMoves ==
    ASSUME NEW q \in Seq(Sup), NEW c \in 1 .. Len(q), q[c].inbox # <<>>, NEW run \in Runners
    PROVE  /\ [q EXCEPT ![c].inbox = Tail(@), ![c].runners = run] = [q EXCEPT ![c] = Reconciled(q[c], run)]
           /\ [q EXCEPT ![c].inbox = Tail(@), ![c].started = TRUE] = [q EXCEPT ![c] = Started(q[c])]
           /\ Head(q[c].inbox) \in Message
           /\ Reconciled(q[c], run) \in Sup
           /\ Reconciled(q[c], run).runners = run /\ Reconciled(q[c], run).open = q[c].open
           /\ Started(q[c]) \in Sup
           /\ Started(q[c]).runners = q[c].runners /\ Started(q[c]).open = q[c].open
<1>1. q[c] \in Sup /\ DOMAIN q = 1 .. Len(q) /\ c \in DOMAIN q
  BY ElementOfSeq, LenProperties
<1>2. PICK s \in Sup : s = q[c]
  BY <1>1
<1>3. s.inbox \in Seq(Message) /\ s.inbox # <<>>
  BY <1>2 DEF Sup
<1>4. Tail(s.inbox) \in Seq(Message) /\ Head(s.inbox) \in Message
  BY <1>3, TailShifts
<1>5. Reconciled(s, run) \in Sup /\ Reconciled(s, run).runners = run /\ Reconciled(s, run).open = s.open
  BY <1>4 DEF Sup, Reconciled
<1>6. Started(s) \in Sup /\ Started(s).runners = s.runners /\ Started(s).open = s.open
  BY <1>4 DEF Sup, Started
<1>7. /\ [q EXCEPT ![c].inbox = Tail(@), ![c].runners = run] = [q EXCEPT ![c] = Reconciled(q[c], run)]
      /\ [q EXCEPT ![c].inbox = Tail(@), ![c].started = TRUE] = [q EXCEPT ![c] = Started(q[c])]
  BY <1>1 DEF Reconciled, Started
<1> QED
  BY <1>2, <1>4, <1>5, <1>6, <1>7

\* A spec that arrives ends the collectors that change or go, starts those that
\* change or come, and leaves the others to their runners.
LEMMA ReconcileKeeps ==
    ASSUME CollectInv, NEW c \in Conns, sups[c].open, sups[c].inbox # <<>>,
           NEW msg, msg = Head(sups[c].inbox), Reconcile(c, msg),
           UNCHANGED <<buffer, wanted, specs, port, loops, ds, arrived, fate>>
    PROVE  CollectInv' /\ ItemsStay /\ RestartsHaveReason
<1> DEFINE old     == sups[c].runners
           enabled == {i \in Items : msg.items[i] # 0}
           start   == {i \in enabled : MustRestart(old[i], msg.items[i], i, msg.rebind)}
           order   == SetToSeq(start)
           number(i) == Len(tasks) + (CHOOSE k \in DOMAIN order : order[k] = i)
           gone    == TasksOf(old, start \cup (Items \ enabled))
           fresh   == [k \in DOMAIN order |-> [item |-> order[k], st |-> Spawned(order[k])]]
           run     == [i \in Items |->
                  IF i \in start THEN [version |-> msg.items[i], task |-> number(i)]
                  ELSE IF i \in enabled THEN old[i]
                  ELSE [version |-> 0, task |-> 0]]
<1>1. /\ CollectTypes /\ Runs
      /\ sups \in Seq(Sup) /\ Conns = 1 .. Len(sups) /\ (\A d \in Conns : sups[d] \in Sup)
      /\ tasks \in Seq(Task) /\ DOMAIN tasks = 1 .. Len(tasks) /\ Len(tasks) \in Nat
  BY SupsAndTasks, RunsAreSaid DEF CollectInv
<1>2. msg \in Message /\ old \in Runners
  <2>1. NoRunners \in Runners
    BY CollectAssumption DEF NoRunners, Runners
  <2> QED
    BY <1>1, <2>1, InboxMoves DEF Sup
<1>3. IsFiniteSet(start) /\ start \subseteq Items
  BY CollectAssumption, FS_Subset
<1> HIDE DEF start
<1>4. PICK n \in Nat :
        /\ order \in Seq(start) /\ Len(order) = n /\ DOMAIN order = 1 .. n
        /\ \A j, k \in 1 .. n : order[j] = order[k] => j = k
        /\ \A i \in start : \E k \in 1 .. n : order[k] = i
        /\ \A k \in 1 .. n : order[k] \in start
  BY <1>3, SetToSeqLists, LenProperties, ElementOfSeq
<1> HIDE DEF order
<1>5. /\ \A i \in start : \E k \in 1 .. n : number(i) = Len(tasks) + k
      /\ \A k \in 1 .. n : number(order[k]) = Len(tasks) + k
  BY <1>4
<1> HIDE DEF number
<1>6. /\ fresh \in Seq(Task) /\ Len(fresh) = n
      /\ \A k \in 1 .. n : fresh[k].item = order[k]
  <2>1. \A k \in 1 .. n : [item |-> order[k], st |-> Spawned(order[k])] \in Task
    BY <1>3, <1>4 DEF Task, TaskStates, Spawned
  <2>2. fresh \in [1 .. n -> Task]
    BY <1>4, <2>1, SMTT(60)
  <2> QED
    BY <1>4, <2>2
<1> HIDE DEF fresh, gone
<1>7. /\ tasks' = Aborted(tasks, gone) \o fresh
      /\ sups' = [sups EXCEPT ![c].inbox = Tail(@), ![c].runners = run]
      /\ UNCHANGED <<url, faults>>
  BY DEF Reconcile, gone, fresh, number, order, start
<1>8. run \in Runners
  <2>1. \A i \in start : [version |-> msg.items[i], task |-> number(i)] \in [version : 0 .. MaxSpecs, task : Nat]
    BY <1>1, <1>2, <1>3, <1>5 DEF Message
  <2>2. [version |-> 0, task |-> 0] \in [version : 0 .. MaxSpecs, task : Nat]
    BY CollectAssumption
  <2> QED
    BY <1>2, <2>1, <2>2 DEF Runners
<1> HIDE DEF run
<1>9. /\ sups' \in Seq(Sup) /\ Conns' = Conns
      /\ sups'[c].runners = run /\ sups'[c].open
      /\ \A d \in Conns \ {c} : sups'[d] = sups[d]
  <2>1. c \in 1 .. Len(sups) /\ sups \in Seq(Sup) /\ sups[c].inbox # <<>>
    BY <1>1
  <2>2. [sups EXCEPT ![c].inbox = Tail(@), ![c].runners = run] = [sups EXCEPT ![c] = Reconciled(sups[c], run)]
    BY <1>8, <2>1, InboxMoves
  <2>3. /\ Reconciled(sups[c], run) \in Sup
        /\ Reconciled(sups[c], run).runners = run /\ Reconciled(sups[c], run).open = sups[c].open
    BY <1>8, <2>1, InboxMoves, ZenonT(60)
  <2>4. PICK r \in Sup : sups' = [sups EXCEPT ![c] = r] /\ r.runners = run /\ r.open
    BY <1>7, <2>2, <2>3
  <2> QED
    BY <2>4, SupBecomes
<1>10. /\ tasks' \in Seq(Task) /\ Len(tasks') = Len(tasks) + n /\ DOMAIN tasks' = 1 .. Len(tasks) + n
       /\ \A t \in DOMAIN tasks : /\ tasks'[t].item = tasks[t].item
                                  /\ t \in gone => tasks'[t].st = "ended"
                                  /\ t \notin gone => tasks'[t] = tasks[t]
       /\ \A k \in 1 .. n : tasks'[Len(tasks) + k].item = order[k]
  <2>1. PICK ab \in Seq(Task) :
          /\ ab = Aborted(tasks, gone) /\ Len(ab) = Len(tasks)
          /\ \A t \in DOMAIN tasks : /\ ab[t].item = tasks[t].item
                                     /\ t \in gone => ab[t].st = "ended"
                                     /\ t \notin gone => ab[t] = tasks[t]
    BY <1>1, AbortedEnds
  <2>2. PICK fr \in Seq(Task) : fr = fresh /\ Len(fr) = n /\ \A k \in 1 .. n : fr[k].item = order[k]
    BY <1>6
  <2>3. tasks' = ab \o fr
    BY <1>7, <2>1, <2>2
  <2>4. /\ tasks' \in Seq(Task) /\ Len(tasks') = Len(tasks) + n /\ DOMAIN tasks' = 1 .. Len(tasks) + n
        /\ \A t \in 1 .. Len(tasks) : tasks'[t] = ab[t]
        /\ \A k \in 1 .. n : tasks'[Len(tasks) + k] = fr[k]
    <3>1. /\ ab \o fr \in Seq(Task) /\ Len(ab \o fr) = Len(ab) + Len(fr) /\ DOMAIN (ab \o fr) = 1 .. Len(ab) + Len(fr)
          /\ \A k \in 1 .. Len(ab) : (ab \o fr)[k] = ab[k]
          /\ \A k \in 1 .. Len(fr) : (ab \o fr)[Len(ab) + k] = fr[k]
      BY JoinShifts
    <3> QED
      BY <2>1, <2>2, <2>3, <3>1
  <2>5. ASSUME NEW t \in DOMAIN tasks
        PROVE  /\ tasks'[t].item = tasks[t].item
               /\ t \in gone => tasks'[t].st = "ended"
               /\ t \notin gone => tasks'[t] = tasks[t]
    <3>1. tasks'[t] = ab[t]
      BY <1>1, <2>4, SMTT(60)
    <3> QED
      BY <2>1, <3>1
  <2>6. \A k \in 1 .. n : tasks'[Len(tasks) + k].item = order[k]
    BY <2>2, <2>4, SMTT(60)
  <2> QED
    BY <2>4, <2>5, <2>6
<1>11. /\ \A i \in start : run[i].version = msg.items[i] /\ run[i].task = number(i)
       /\ \A i \in enabled \ start : run[i] = old[i]
       /\ \A i \in Items \ enabled : run[i].task = 0
  <2>1. \A i \in start : run[i] = [version |-> msg.items[i], task |-> number(i)]
    BY <1>3 DEF run
  <2> QED
    BY <1>3, <2>1 DEF run, start
<1>12. ItemsStay
  BY <1>1, <1>10 DEF ItemsStay
<1>13. RestartsHaveReason
  <2> SUFFICES ASSUME NEW i \in Items \ {Otlp}, old[i].task # run[i].task, run[i].task # 0
               PROVE  old[i].version # run[i].version
    BY <1>9, SMTT(60) DEF RestartsHaveReason
  <2>1. i \in start
    BY <1>3, <1>11 DEF start
  <2>2. MustRestart(old[i], msg.items[i], i, msg.rebind)
    BY <2>1 DEF start
  <2> QED
    BY <1>11, <2>1, <2>2 DEF MustRestart
<1>14. RunnersAreSpawned'
  <2>1. ASSUME NEW d \in Conns, NEW i \in Items
        PROVE  sups'[d].runners[i].task <= Len(tasks) + n
    <3>1. sups[d].runners[i].task <= Len(tasks) /\ sups[d].runners[i].task \in Nat
      BY <1>1 DEF Runs, RunnersAreSpawned, Sup, Runners
    <3>2. CASE d # c
      BY <1>1, <1>9, <3>1, <3>2
    <3>3. CASE d = c /\ i \in start
      <4>1. PICK k \in 1 .. n : number(i) = Len(tasks) + k
        BY <1>5, <3>3
      <4>2. sups'[d].runners[i].task = number(i)
        BY <1>9, <1>11, <3>3
      <4> QED
        BY <1>1, <4>1, <4>2
    <3>4. CASE d = c /\ i \notin start
      <4>1. run[i].task = 0 \/ run[i] = old[i]
        BY <1>11, <3>4
      <4> QED
        BY <1>1, <1>9, <3>1, <3>4, <4>1, SMTT(60)
    <3> QED
      BY <3>2, <3>3, <3>4
  <2> QED
    BY <1>9, <1>10, <2>1 DEF RunnersAreSpawned
<1>15. TasksHaveRunners'
  <2> SUFFICES ASSUME NEW t \in DOMAIN tasks', tasks'[t].st # "ended"
               PROVE  \E d \in Conns : sups'[d].open /\ sups'[d].runners[tasks'[t].item].task = t
    BY <1>9 DEF TasksHaveRunners
  <2>1. CASE t \in DOMAIN tasks
    <3>1. t \notin gone /\ tasks'[t] = tasks[t] /\ t # 0 /\ tasks[t].item \in Items
      BY <1>1, <1>10, <2>1, SupsAndTasks DEF Task
    <3>2. PICK d \in Conns : sups[d].open /\ sups[d].runners[tasks[t].item].task = t
      BY <1>1, <2>1, <3>1 DEF Runs, TasksHaveRunners
    <3>3. CASE d # c
      BY <1>9, <3>1, <3>2, <3>3
    <3>4. CASE d = c
      <4>1. tasks[t].item \notin start \cup (Items \ enabled)
        BY <3>1, <3>2, <3>4 DEF gone, TasksOf
      <4>2. run[tasks[t].item] = old[tasks[t].item]
        BY <1>11, <3>1, <4>1
      <4> QED
        BY <1>9, <3>1, <3>2, <3>4, <4>2
    <3> QED
      BY <3>3, <3>4
  <2>2. CASE t \notin DOMAIN tasks
    <3>1. PICK k \in 1 .. n : t = Len(tasks) + k
      <4>1. t - Len(tasks) \in 1 .. n /\ t = Len(tasks) + (t - Len(tasks))
        BY <1>1, <1>10, <2>2
      <4> QED
        BY <4>1
    <3>2. tasks'[t].item = order[k] /\ order[k] \in start
      BY <1>4, <1>10, <3>1
    <3>3. run[order[k]].task = t
      BY <1>5, <1>11, <3>1, <3>2
    <3> QED
      BY <1>9, <3>2, <3>3
  <2> QED
    BY <2>1, <2>2
<1>16. CollectTypes'
  <2>1. port' \in 0 .. Len(tasks')
    BY <1>1, <1>10 DEF CollectTypes
  <2> QED
    BY <1>1, <1>7, <1>9, <1>10, <2>1 DEF CollectTypes, Sup, Task
<1> QED
  BY <1>12, <1>13, <1>14, <1>15, <1>16, PlacesStay, RunsAreSaid DEF CollectInv, Places, Runs

LEMMA PullAddrIsTyped ==
    ASSUME CollectTypes, NEW c, PullAddr(c)
    PROVE  url' \in Addrs \cup {None} /\ faults' \in 0 .. MaxFaults
  BY CollectAssumption DEF PullAddr, Fault, CollectTypes

LEMMA HandleControlKeeps ==
    ASSUME CollectInv, NEW c \in Conns, HandleControl(c)
    PROVE  CollectInv' /\ ItemsStay /\ RestartsHaveReason
<1>0. /\ sups[c].open /\ sups[c].inbox # <<>>
      /\ UNCHANGED <<buffer, wanted, specs, port, loops, ds, arrived, fate>>
  BY DEF HandleControl
<1>1. /\ CollectTypes /\ Runs
      /\ sups \in Seq(Sup) /\ Conns = 1 .. Len(sups) /\ (\A d \in Conns : sups[d] \in Sup)
  BY SupsAndTasks, RunsAreSaid DEF CollectInv
<1>2. CASE Reconcile(c, Head(sups[c].inbox))
  BY <1>0, <1>2, ReconcileKeeps
<1>3. CASE PullAddr(c) /\ sups' = [sups EXCEPT ![c].inbox = Tail(@), ![c].started = TRUE] /\ UNCHANGED tasks
  <2>1. PICK run \in Runners : run = sups[c].runners
    BY <1>1 DEF Sup
  <2>2. c \in 1 .. Len(sups)
    BY <1>1
  <2>3. [sups EXCEPT ![c].inbox = Tail(@), ![c].started = TRUE] = [sups EXCEPT ![c] = Started(sups[c])]
    BY <1>0, <1>1, <2>1, <2>2, InboxMoves
  <2>4. Started(sups[c]) \in Sup /\ Started(sups[c]).runners = run /\ Started(sups[c]).open = sups[c].open
    BY <1>0, <1>1, <2>1, <2>2, InboxMoves
  <2>5. PICK r \in Sup : sups' = [sups EXCEPT ![c] = r] /\ r.runners = sups[c].runners /\ r.open = sups[c].open
    BY <1>3, <2>1, <2>3, <2>4
  <2>6. /\ sups' \in Seq(Sup) /\ Conns' = Conns
        /\ \A d \in Conns : sups'[d].open = sups[d].open /\ sups'[d].runners = sups[d].runners
    BY <2>5, SupBecomes
  <2>7. url' \in Addrs \cup {None} /\ faults' \in 0 .. MaxFaults
    BY <1>1, <1>3, PullAddrIsTyped
  <2>8. CollectTypes'
    BY <1>0, <1>1, <1>3, <2>6, <2>7 DEF CollectTypes, Sup
  <2>9. ItemsStay /\ RestartsHaveReason
    BY <1>3, <2>6 DEF ItemsStay, RestartsHaveReason
  <2> QED
    BY <1>0, <1>3, <2>6, <2>8, <2>9, PlacesStay, RunsStay, RunsAreSaid DEF CollectInv, Places, Runs
<1> QED
  BY <1>2, <1>3 DEF HandleControl

\* Nothing happens to supervisors and tasks.
LEMMA RunnersRest ==
    ASSUME CollectInv, UNCHANGED <<sups, tasks>>
    PROVE  Runs' /\ ItemsStay /\ RestartsHaveReason
  BY RunsAreSaid DEF Runs, RunnersAreSpawned, TasksHaveRunners, ItemsStay, RestartsHaveReason, Conns

LEMMA TickKeeps ==
    ASSUME CollectInv, NEW c \in Conns, Tick(c)
    PROVE  CollectInv' /\ ItemsStay /\ RestartsHaveReason
<1>1. CollectTypes /\ UNCHANGED <<buffer, wanted, specs, sups, tasks, port, loops, ds, arrived, fate>> /\ PullAddr(c)
  BY DEF Tick, CollectInv
<1>2. url' \in Addrs \cup {None} /\ faults' \in 0 .. MaxFaults
  BY <1>1, PullAddrIsTyped
<1>3. CollectTypes'
  BY <1>1, <1>2 DEF CollectTypes
<1> QED
  BY <1>1, <1>3, RunnersRest, PlacesStay, RunsAreSaid DEF CollectInv, Places, Runs

LEMMA EndSupervisorKeeps ==
    ASSUME CollectInv, NEW c \in Conns, EndSupervisor(c)
    PROVE  CollectInv' /\ ItemsStay /\ RestartsHaveReason
<1> DEFINE gone == TasksOf(sups[c].runners, Items)
<1>0. /\ tasks' = Aborted(tasks, gone) /\ sups' = [sups EXCEPT ![c].open = FALSE]
      /\ UNCHANGED <<buffer, url, wanted, specs, port, loops, ds, arrived, fate, faults>>
  BY DEF EndSupervisor
<1> HIDE DEF gone
<1>1. /\ CollectTypes /\ Runs
      /\ sups \in Seq(Sup) /\ Conns = 1 .. Len(sups) /\ (\A d \in Conns : sups[d] \in Sup)
      /\ tasks \in Seq(Task) /\ DOMAIN tasks = 1 .. Len(tasks) /\ Len(tasks) \in Nat
      /\ \A t \in DOMAIN tasks : tasks[t] \in Task
  BY SupsAndTasks, RunsAreSaid DEF CollectInv
<1>2. /\ tasks' \in Seq(Task) /\ Len(tasks') = Len(tasks) /\ DOMAIN tasks' = DOMAIN tasks
      /\ \A t \in DOMAIN tasks : /\ tasks'[t].item = tasks[t].item
                                 /\ t \in gone => tasks'[t].st = "ended"
                                 /\ t \notin gone => tasks'[t] = tasks[t]
  BY <1>0, <1>1, AbortedEnds
<1>3. PICK r \in Sup : r = [sups[c] EXCEPT !.open = FALSE] /\ r.runners = sups[c].runners
  <2>1. PICK s \in Sup : s = sups[c]
    BY <1>1
  <2>2. PICK r \in Sup : r = [s EXCEPT !.open = FALSE]
    BY DEF Sup
  <2>3. r.runners = s.runners
    BY <2>2 DEF Sup
  <2> QED
    BY <2>1, <2>2, <2>3
<1>4. /\ sups' \in Seq(Sup) /\ Conns' = Conns
      /\ \A d \in Conns : sups'[d].runners = sups[d].runners
      /\ \A d \in Conns \ {c} : sups'[d] = sups[d]
  <2>1. sups' = [sups EXCEPT ![c] = r]
    BY <1>0, <1>3
  <2> QED
    BY <1>3, <2>1, SupBecomes
<1>5. ItemsStay /\ RestartsHaveReason
  BY <1>2, <1>4 DEF ItemsStay, RestartsHaveReason
<1>6. Runs'
  <2>1. RunnersAreSpawned'
    BY <1>1, <1>2, <1>4 DEF Runs, RunnersAreSpawned
  <2>2. ASSUME NEW t \in DOMAIN tasks, tasks'[t].st # "ended"
        PROVE  \E d \in Conns : sups'[d].open /\ sups'[d].runners[tasks'[t].item].task = t
    <3>1. t \notin gone /\ tasks'[t] = tasks[t] /\ t # 0 /\ tasks[t].item \in Items
      BY <1>1, <1>2, <2>2 DEF Task
    <3>2. PICK d \in Conns : sups[d].open /\ sups[d].runners[tasks[t].item].task = t
      BY <1>1, <2>2, <3>1 DEF Runs, TasksHaveRunners
    <3>3. d # c
      BY <3>1, <3>2 DEF gone, TasksOf
    <3> QED
      BY <1>4, <3>1, <3>2, <3>3
  <2>3. TasksHaveRunners'
    BY <1>2, <1>4, <2>2 DEF TasksHaveRunners
  <2> QED
    BY <2>1, <2>3 DEF Runs
<1>7. CollectTypes'
  BY <1>0, <1>1, <1>2, <1>4 DEF CollectTypes, Sup, Task
<1> QED
  BY <1>0, <1>5, <1>6, <1>7, PlacesStay, RunsAreSaid DEF CollectInv, Places, Runs

LEMMA BindReceiverKeeps ==
    ASSUME CollectInv, NEW t \in DOMAIN tasks, BindReceiver(t)
    PROVE  CollectInv' /\ ItemsStay /\ RestartsHaveReason
<1>0. /\ UNCHANGED <<buffer, url, wanted, specs, sups, loops, ds, arrived, fate, faults>>
      /\ tasks[t].st = "spawned" /\ port' \in {port, t}
  BY DEF BindReceiver
<1>1. /\ CollectTypes /\ Runs /\ DOMAIN tasks = 1 .. Len(tasks) /\ Len(tasks) \in Nat
      /\ tasks \in Seq(Task) /\ \A i \in DOMAIN tasks : tasks[i] \in Task
  BY SupsAndTasks, RunsAreSaid DEF CollectInv
<1>2. PICK st \in TaskStates : SetTask(t, st)
  BY DEF BindReceiver, TaskStates
<1>3. PICK r \in Task : r = [tasks[t] EXCEPT !.st = st] /\ r.item = tasks[t].item
  <2>1. PICK s \in Task : s = tasks[t]
    BY <1>1
  <2>2. PICK r \in Task : r = [s EXCEPT !.st = st]
    BY DEF Task
  <2>3. r.item = s.item
    BY <2>2 DEF Task
  <2> QED
    BY <2>1, <2>2, <2>3
<1>4. /\ tasks' \in Seq(Task) /\ Len(tasks') = Len(tasks) /\ DOMAIN tasks' = DOMAIN tasks
      /\ tasks'[t] = r /\ \A i \in DOMAIN tasks \ {t} : tasks'[i] = tasks[i]
  <2>1. tasks' = [tasks EXCEPT ![t] = r]
    BY <1>2, <1>3 DEF SetTask
  <2> QED
    BY <1>1, <2>1, ExceptSeq
<1>5. \A i \in DOMAIN tasks : tasks'[i].item = tasks[i].item /\ (tasks[i].st = "ended" => tasks'[i].st = "ended")
  BY <1>0, <1>3, <1>4
<1>6. ItemsStay /\ RestartsHaveReason
  BY <1>0, <1>4, <1>5 DEF ItemsStay, RestartsHaveReason
<1>7. Runs'
  BY <1>0, <1>1, <1>4, <1>5 DEF Runs, RunnersAreSpawned, TasksHaveRunners, Conns
<1>8. CollectTypes'
  BY <1>0, <1>1, <1>4, SMTT(60) DEF CollectTypes, Task
<1> QED
  BY <1>0, <1>6, <1>7, <1>8, PlacesStay, RunsAreSaid DEF CollectInv, Places, Runs

LEMMA CollectKeeps ==
    ASSUME CollectInv, NEW t \in DOMAIN tasks, Collect(t)
    PROVE  CollectInv' /\ ItemsStay /\ RestartsHaveReason
<1>1. CollectTypes /\ UNCHANGED <<url, wanted, specs, sups, tasks, port, loops, ds, arrived, faults>>
  BY DEF Collect, CollectInv
<1>2. Places' /\ buffer' \in Seq(Batch) /\ fate' \in [1 .. MaxBatches -> Fates]
  BY CollectKeepsPlaces
<1>3. CollectTypes'
  BY <1>1, <1>2 DEF CollectTypes
<1> QED
  BY <1>1, <1>2, <1>3, RunnersRest, RunsAreSaid DEF CollectInv, Places, Runs

LEMMA TakeKeeps ==
    ASSUME CollectInv, NEW l \in DOMAIN loops, Take(l)
    PROVE  CollectInv' /\ ItemsStay /\ RestartsHaveReason
<1>1. CollectTypes /\ UNCHANGED <<url, wanted, specs, sups, tasks, port, ds, arrived, fate, faults>>
  BY DEF Take, CollectInv
<1>2. Places' /\ loops' \in Seq(Loop) /\ buffer' \in Seq(Batch)
  BY TakeKeepsPlaces
<1>3. CollectTypes'
  BY <1>1, <1>2 DEF CollectTypes, Loop
<1> QED
  BY <1>1, <1>2, <1>3, RunnersRest, RunsAreSaid DEF CollectInv, Places, Runs

LEMMA AddressKeeps ==
    ASSUME CollectInv, NEW l \in DOMAIN loops, Address(l)
    PROVE  CollectInv' /\ ItemsStay /\ RestartsHaveReason
<1>1. CollectTypes /\ UNCHANGED <<url, wanted, specs, sups, tasks, port, ds, arrived, fate, faults>>
  BY DEF Address, CollectInv
<1>2. loops[l] \in Loop /\ loops[l].pc = "held" /\ l \in Held
  BY LoopsAndBuffer DEF Address
<1>3. CASE url = None
  <2>1. PICK f \in 0 .. FailLimit + 1 : f = loops[l].failures
    BY <1>2 DEF Loop
  <2>2. PutBack(l) /\ Idle(l, f)
    BY <1>3, <2>1 DEF Address
  <2>3. Places' /\ loops' \in Seq(Loop) /\ buffer' \in Seq(Batch)
    BY <1>1, <1>2, <2>2, PutBackKeepsPlaces
  <2>4. CollectTypes'
    BY <1>1, <2>3 DEF CollectTypes, Loop
  <2> QED
    BY <1>1, <2>3, <2>4, RunnersRest, RunsAreSaid DEF CollectInv, Places, Runs
<1>4. CASE url # None
  <2>1. url \in Addrs \cup {None}
    BY <1>1 DEF CollectTypes
  <2>2. PICK r \in Loop : r = [loops[l] EXCEPT !.pc = "posting", !.base = url] /\ r.pc = "posting" /\ r.batch = loops[l].batch
    <3>1. PICK k \in Loop : k = loops[l]
      BY <1>2
    <3>2. PICK r \in Loop : r = [k EXCEPT !.pc = "posting", !.base = url]
      BY <2>1 DEF Loop
    <3>3. r.pc = "posting" /\ r.batch = k.batch
      BY <3>2 DEF Loop
    <3> QED
      BY <3>1, <3>2, <3>3
  <2>3. UNCHANGED buffer /\ loops' = [loops EXCEPT ![l].pc = "posting", ![l].base = url]
    BY <1>4 DEF Address
  <2>4. Becomes(l, r)
    BY <2>2, <2>3 DEF Becomes
  <2>5. /\ loops' \in Seq(Loop) /\ DOMAIN loops' = DOMAIN loops /\ Len(loops') = Len(loops)
        /\ loops'[l] = r /\ (\A m \in DOMAIN loops \ {l} : loops'[m] = loops[m])
        /\ Held' = Held
    BY <1>2, <2>2, <2>4, LoopBecomes DEF Held
  <2>6. /\ \A m \in DOMAIN loops : loops'[m].batch = loops[m].batch /\ (loops'[m].pc # "idle" <=> loops[m].pc # "idle")
        /\ \A m \in Held : m \in DOMAIN loops
    BY <1>2, <2>2, <2>5 DEF Held
  <2>7. Places
    BY PlacesAreSaid
  <2>8. HandsAreFull' /\ PlacedOnce' /\ BornInOrder' /\ ArrivedWasBorn'
    BY <1>1, <2>3, <2>5, <2>6, <2>7 DEF Places, HandsAreFull, PlacedOnce, BornInOrder, ArrivedWasBorn
  <2>9. OpenIsPlaced' /\ SentInOrder'
    <3>1. \A m \in Held : loops'[m].batch = loops[m].batch
      BY <2>6
    <3>2. \A b \in 1 .. MaxBatches : (InBuffer(b)' <=> InBuffer(b)) /\ (InHand(b)' <=> InHand(b))
      BY <2>3, <2>5, <3>1 DEF InBuffer, InHand
    <3>3. OpenIsPlaced'
      BY <1>1, <2>7, <3>2 DEF Places, OpenIsPlaced
    <3>4. SentInOrder'
      BY <1>1, <2>3, <2>5, <2>7, <3>1 DEF Places, SentInOrder
    <3> QED
      BY <3>3, <3>4
  <2>10. CollectTypes'
    BY <1>1, <2>3, <2>5 DEF CollectTypes, Loop
  <2> QED
    BY <1>1, <2>8, <2>9, <2>10, RunnersRest, RunsAreSaid DEF CollectInv, Places, Runs
<1> QED
  BY <1>3, <1>4

LEMMA PostKeeps ==
    ASSUME CollectInv, NEW l \in DOMAIN loops, Post(l)
    PROVE  CollectInv' /\ ItemsStay /\ RestartsHaveReason
<1>1. CollectTypes /\ UNCHANGED <<wanted, specs, sups, tasks, port, ds>> /\ l \in Held
  BY DEF Post, CollectInv, Held
<1>2. /\ faults' \in 0 .. MaxFaults
      /\ arrived' \in {arrived, loops[l].batch.id}
      /\ Confirm(l) \/ Retry(l) \/ Repull(l)
  <2>1. /\ UNCHANGED faults \/ (\E f \in FaultKinds : Fault(f))
        /\ arrived' = arrived \/ Store(l)
        /\ Confirm(l) \/ Retry(l) \/ Repull(l)
    BY DEF Post, FaultKinds
  <2>2. faults' \in 0 .. MaxFaults
    <3>1. faults \in 0 .. MaxFaults /\ MaxFaults \in Nat
      BY <1>1, CollectAssumption DEF CollectTypes
    <3>2. ASSUME NEW f \in FaultKinds, Fault(f) PROVE faults' \in 0 .. MaxFaults
      BY <3>1, <3>2 DEF Fault
    <3> QED BY <2>1, <3>1, <3>2
  <2> QED
    BY <2>1, <2>2 DEF Store
<1>3. arrived' \in 0 .. MaxBatches
  <2>1. loops[l].batch.id \in 1 .. MaxBatches
    BY <1>1, LoopsAndBuffer
  <2> QED
    BY <1>1, <1>2, <2>1, SMTT(60) DEF CollectTypes
<1>4. Places' /\ loops' \in Seq(Loop) /\ buffer' \in Seq(Batch) /\ fate' \in [1 .. MaxBatches -> Fates] /\ url' \in Addrs \cup {None}
  <2>1. CASE Confirm(l)
    <3>1. UNCHANGED <<buffer, url>>
      BY <2>1 DEF Confirm
    <3> QED
      BY <1>1, <1>2, <2>1, <3>1, ConfirmKeepsPlaces DEF CollectTypes
  <2>2. ASSUME NEW f \in 0 .. FailLimit + 1, PutBack(l), Idle(l, f), UNCHANGED fate, url' \in {None, url}
        PROVE  Places' /\ loops' \in Seq(Loop) /\ buffer' \in Seq(Batch) /\ fate' \in [1 .. MaxBatches -> Fates] /\ url' \in Addrs \cup {None}
    <3>1. Places' /\ loops' \in Seq(Loop) /\ buffer' \in Seq(Batch)
      BY <1>1, <1>2, <2>2, PutBackKeepsPlaces
    <3> QED
      BY <1>1, <2>2, <3>1 DEF CollectTypes
  <2>3. CASE Repull(l)
    <3>1. 0 \in 0 .. FailLimit + 1
      BY CollectAssumption
    <3>2. PutBack(l) /\ Idle(l, 0) /\ UNCHANGED fate /\ url' \in {None, url}
      BY <2>3 DEF Repull
    <3> QED
      BY <2>2, <3>1, <3>2
  <2>4. CASE Retry(l)
    <3>1. PICK n \in 0 .. FailLimit + 1 : n = loops[l].failures
      BY <1>1, LoopsAndBuffer DEF Loop
    <3>2. PICK f \in 0 .. FailLimit + 1 : f = IF n + 1 > FailLimit THEN FailLimit + 1 ELSE n + 1
      BY CollectAssumption
    <3>3. PutBack(l) /\ Idle(l, f) /\ UNCHANGED fate
      BY <2>4, <3>1, <3>2 DEF Retry
    <3>4. url' \in {None, url}
      BY <2>4 DEF Retry, AfterFailure
    <3> QED
      BY <2>2, <3>3, <3>4
  <2> QED
    BY <1>2, <2>1, <2>3, <2>4
<1>5. CollectTypes'
  BY <1>1, <1>2, <1>3, <1>4 DEF CollectTypes, Loop
<1> QED
  BY <1>1, <1>4, <1>5, RunnersRest, RunsAreSaid DEF CollectInv, Places, Runs

LEMMA CollectStep ==
    ASSUME CollectInv, [Next]_vars
    PROVE  CollectInv' /\ ItemsStay /\ RestartsHaveReason
<1>1. CASE Connect
  <2>1. /\ UNCHANGED tasks /\ sups' = Append(sups, [Supervisor EXCEPT !.inbox = <<SpecMsg(wanted, FALSE), PullMsg>>])
    BY <1>1 DEF Connect
  <2>2. \A c \in Conns : sups'[c] = sups[c]
    BY <2>1, SupsAndTasks
  <2> QED
    BY <1>1, <2>1, <2>2, ConnectKeeps DEF ItemsStay, RestartsHaveReason
<1>2. CASE ChangeSpec
  BY <1>2, ChangeSpecKeeps DEF ItemsStay, RestartsHaveReason
<1>3. CASE \E c \in Conns : SuperviseLoop(c) \/ Tick(c)
  BY <1>3, HandleControlKeeps, EndSupervisorKeeps, TickKeeps DEF SuperviseLoop
<1>4. CASE \E t \in DOMAIN tasks : BindReceiver(t) \/ Collect(t)
  BY <1>4, BindReceiverKeeps, CollectKeeps
<1>5. CASE CloseListener
  <2>1. /\ CollectTypes /\ UNCHANGED <<buffer, url, wanted, specs, sups, tasks, loops, ds, arrived, fate, faults>>
        /\ port' = 0
    BY <1>5 DEF CloseListener, CollectInv
  <2>2. CollectTypes'
    BY <2>1, SupsAndTasks DEF CollectTypes
  <2> QED
    BY <2>1, <2>2, RunnersRest, PlacesStay, RunsAreSaid DEF CollectInv, Places, Runs
<1>6. CASE \E l \in DOMAIN loops : ReportLoop(l)
  BY <1>6, TakeKeeps, AddressKeeps, PostKeeps DEF ReportLoop
<1>7. CASE DataserverMoves
  <2>1. /\ CollectTypes /\ UNCHANGED <<buffer, url, wanted, specs, sups, tasks, port, loops, arrived, fate>>
        /\ ds' \in Addrs /\ Fault("move")
    BY <1>7 DEF DataserverMoves, CollectInv
  <2>2. faults' \in 0 .. MaxFaults
    BY <2>1, CollectAssumption DEF Fault, CollectTypes
  <2>3. CollectTypes'
    BY <2>1, <2>2 DEF CollectTypes
  <2> QED
    BY <2>1, <2>3, RunnersRest, PlacesStay, RunsAreSaid DEF CollectInv, Places, Runs
<1>8. CASE UNCHANGED vars
  <2>1. UNCHANGED <<buffer, url, wanted, specs, sups, tasks, port, loops, ds, arrived, fate, faults>>
    BY <1>8
  <2>2. CollectTypes'
    BY <2>1 DEF CollectTypes, CollectInv
  <2> QED
    BY <2>1, <2>2, RunnersRest, PlacesStay, RunsAreSaid DEF CollectInv, Places, Runs
<1> QED
  BY <1>1, <1>2, <1>3, <1>4, <1>5, <1>6, <1>7, <1>8 DEF Next

-----------------------------------------------------------------------------
(* Counting                                                                *)

\* A set of numbers with one element, or none, counted.
LEMMA CountOne ==
    ASSUME NEW S, NEW T \in SUBSET S, \A x, y \in T : x = y
    PROVE  Cardinality(T) = IF T = {} THEN 0 ELSE 1
<1>1. CASE T = {}
  BY <1>1, FS_EmptySet
<1>2. CASE T # {}
  <2>1. PICK x \in T : T = {x}
    BY <1>2
  <2> QED
    BY <1>2, <2>1, FS_Singleton
<1> QED
  BY <1>1, <1>2

LEMMA PlacesAreCounted == CollectInv => BatchesConserved
<1> SUFFICES ASSUME CollectInv, NEW b \in 1 .. MaxBatches
             PROVE  Cardinality({k \in DOMAIN buffer : buffer[k].id = b})
                      + Cardinality({l \in Held : loops[l].batch.id = b}) = IF fate[b] = "open" THEN 1 ELSE 0
  BY DEF BatchesConserved
<1> DEFINE inBuffer == {k \in DOMAIN buffer : buffer[k].id = b}
           inHand   == {l \in Held : loops[l].batch.id = b}
<1>1. PlacedOnce /\ (fate[b] = "open" <=> InBuffer(b) \/ InHand(b))
  BY DEF CollectInv, OpenIsPlaced
<1>2. Cardinality(inBuffer) = IF InBuffer(b) THEN 1 ELSE 0
  <2>1. \A j, k \in inBuffer : j = k
    BY <1>1 DEF PlacedOnce
  <2>2. Cardinality(inBuffer) = IF inBuffer = {} THEN 0 ELSE 1
    BY <2>1, CountOne
  <2> QED
    BY <2>2 DEF InBuffer
<1>3. Cardinality(inHand) = IF InHand(b) THEN 1 ELSE 0
  <2>1. \A l, m \in inHand : l = m
    BY <1>1 DEF PlacedOnce
  <2>2. Cardinality(inHand) = IF inHand = {} THEN 0 ELSE 1
    BY <2>1, CountOne
  <2> QED
    BY <2>2 DEF InHand
<1>4. ~(InBuffer(b) /\ InHand(b))
  BY <1>1 DEF PlacedOnce, InBuffer, InHand
<1> QED
  BY <1>1, <1>2, <1>3, <1>4

LEMMA TypesAreSaid == CollectInv => CollectTypeOK
<1> SUFFICES ASSUME CollectInv PROVE CollectTypeOK
  OBVIOUS
<1>1. /\ CollectTypes /\ RunnersAreSpawned /\ HandsAreFull /\ \A c \in Conns : sups[c] \in Sup
      /\ \A t \in DOMAIN tasks : tasks[t] \in Task
      /\ \A l \in DOMAIN loops : loops[l] \in Loop
  BY SupsAndTasks, LoopsAndBuffer DEF CollectInv
<1>2. \A c \in Conns : /\ sups[c].started \in BOOLEAN /\ sups[c].open \in BOOLEAN
                       /\ \A i \in Items : sups[c].runners[i].task \in 0 .. Len(tasks)
  <2>1. ASSUME NEW c \in Conns, NEW i \in Items
        PROVE  sups[c].runners[i].task \in Nat /\ sups[c].runners[i].task <= Len(tasks)
    BY <1>1 DEF RunnersAreSpawned, Sup, Runners
  <2>2. Len(tasks) \in Nat
    BY SupsAndTasks
  <2> QED
    BY <1>1, <2>1, <2>2 DEF Sup
<1>3. \A t \in DOMAIN tasks : tasks[t].item \in Items /\ tasks[t].st \in TaskStates
  BY <1>1 DEF Task
<1>4. \A l \in DOMAIN loops : /\ loops[l].pc \in {"idle", "held", "posting"}
                              /\ loops[l].pc # "idle" <=> loops[l].batch \in Batch
                              /\ loops[l].failures \in 0 .. FailLimit + 1
  BY <1>1 DEF Loop, HandsAreFull
<1> QED
  BY <1>1, <1>2, <1>3, <1>4 DEF CollectTypeOK, CollectTypes

\* What the records of a queue are, as a set.
RecordSet(q) == {r \in (DOMAIN q) \X (1 .. BatchMax) : r[2] <= q[r[1]].n}

LEMMA RecordsAreFinite ==
    ASSUME NEW q \in Seq(Batch)
    PROVE  IsFiniteSet(RecordSet(q)) /\ Records(q) = Cardinality(RecordSet(q)) /\ Records(q) \in Nat
<1>1. DOMAIN q = 1 .. Len(q) /\ Len(q) \in Nat /\ BatchMax \in Nat
  BY LenProperties, CollectAssumption
<1>2. IsFiniteSet(1 .. Len(q)) /\ IsFiniteSet(1 .. BatchMax)
  BY <1>1, FS_Interval
<1>3. IsFiniteSet((DOMAIN q) \X (1 .. BatchMax))
  BY <1>1, <1>2, FS_Product
<1>4. IsFiniteSet(RecordSet(q))
  BY <1>3, FS_Subset DEF RecordSet
<1> QED
  BY <1>4, FS_CardinalityType DEF RecordSet, Records

\* Taking the oldest batch does not make the queue longer.
LEMMA TailHasFewer ==
    ASSUME NEW q \in Seq(Batch), q # <<>>
    PROVE  Records(Tail(q)) <= Records(q)
<1>1. /\ Tail(q) \in Seq(Batch) /\ DOMAIN Tail(q) = 1 .. Len(q) - 1 /\ DOMAIN q = 1 .. Len(q) /\ Len(q) \in Nat \ {0}
      /\ \A k \in 1 .. Len(q) - 1 : Tail(q)[k] = q[k + 1]
  BY TailShifts, LenProperties
<1> DEFINE f == [r \in RecordSet(Tail(q)) |-> <<r[1] + 1, r[2]>>]
<1>2. f \in Injection(RecordSet(Tail(q)), RecordSet(q))
  <2>1. ASSUME NEW r \in RecordSet(Tail(q))
        PROVE  <<r[1] + 1, r[2]>> \in RecordSet(q)
    <3>1. PICK k \in 1 .. Len(q) - 1, j \in 1 .. BatchMax : r = <<k, j>> /\ j <= Tail(q)[k].n
      BY <1>1 DEF RecordSet
    <3>2. k + 1 \in DOMAIN q /\ Tail(q)[k].n = q[k + 1].n
      BY <1>1
    <3> QED
      BY <3>1, <3>2 DEF RecordSet
  <2>2. ASSUME NEW r \in RecordSet(Tail(q)), NEW s \in RecordSet(Tail(q)), f[r] = f[s]
        PROVE  r = s
    <3>1. PICK k \in 1 .. Len(q) - 1, j \in 1 .. BatchMax : r = <<k, j>>
      BY <1>1 DEF RecordSet
    <3>2. PICK m \in 1 .. Len(q) - 1, i \in 1 .. BatchMax : s = <<m, i>>
      BY <1>1 DEF RecordSet
    <3>3. k + 1 = m + 1 /\ j = i
      BY <2>2, <3>1, <3>2
    <3>4. k = m
      BY <1>1, <3>3
    <3> QED
      BY <3>1, <3>2, <3>3, <3>4
  <2> QED
    BY <2>1, <2>2 DEF Injection, IsInjective
<1> HIDE DEF f
<1>3. Cardinality(RecordSet(Tail(q))) <= Cardinality(RecordSet(q))
  <2>1. IsFiniteSet(RecordSet(q))
    BY RecordsAreFinite
  <2> QED
    BY <1>2, <2>1, FS_Injection
<1>4. Records(Tail(q)) = Cardinality(RecordSet(Tail(q))) /\ Records(q) = Cardinality(RecordSet(q))
  BY <1>1, RecordsAreFinite
<1> QED
  BY <1>3, <1>4

\* A batch at the end adds its records.
LEMMA AppendAdds ==
    ASSUME NEW q \in Seq(Batch), NEW b \in Batch
    PROVE  Records(Append(q, b)) = Records(q) + b.n
<1>1. /\ Append(q, b) \in Seq(Batch) /\ DOMAIN Append(q, b) = 1 .. Len(q) + 1
      /\ DOMAIN q = 1 .. Len(q) /\ Len(q) \in Nat
      /\ Append(q, b)[Len(q) + 1] = b /\ \A k \in 1 .. Len(q) : Append(q, b)[k] = q[k]
  BY AppendProperties, LenProperties
<1>2. b.n \in 1 .. BatchMax /\ BatchMax \in Nat
  BY CollectAssumption DEF Batch
<1> DEFINE new == {Len(q) + 1} \X (1 .. b.n)
<1>3. RecordSet(Append(q, b)) = RecordSet(q) \cup new
  <2>1. ASSUME NEW r \in RecordSet(Append(q, b))
        PROVE  r \in RecordSet(q) \cup new
    <3>1. PICK k \in 1 .. Len(q) + 1, j \in 1 .. BatchMax : r = <<k, j>> /\ j <= Append(q, b)[k].n
      BY <1>1 DEF RecordSet
    <3>2. CASE k = Len(q) + 1
      BY <1>1, <1>2, <3>1, <3>2
    <3>3. CASE k # Len(q) + 1
      <4>1. k \in DOMAIN q /\ Append(q, b)[k] = q[k]
        BY <1>1, <3>3
      <4> QED
        BY <3>1, <4>1 DEF RecordSet
    <3> QED
      BY <3>2, <3>3
  <2>2. ASSUME NEW r \in RecordSet(q)
        PROVE  r \in RecordSet(Append(q, b))
    <3>1. PICK k \in 1 .. Len(q), j \in 1 .. BatchMax : r = <<k, j>> /\ j <= q[k].n
      BY <1>1 DEF RecordSet
    <3>2. k \in DOMAIN Append(q, b) /\ Append(q, b)[k] = q[k]
      BY <1>1
    <3> QED
      BY <3>1, <3>2 DEF RecordSet
  <2>3. ASSUME NEW r \in new
        PROVE  r \in RecordSet(Append(q, b))
    <3>1. PICK j \in 1 .. b.n : r = <<Len(q) + 1, j>>
      OBVIOUS
    <3>2. j \in 1 .. BatchMax /\ Len(q) + 1 \in DOMAIN Append(q, b) /\ j <= b.n
      BY <1>1, <1>2
    <3> QED
      BY <1>1, <3>1, <3>2 DEF RecordSet
  <2> QED
    BY <2>1, <2>2, <2>3
<1>4. IsFiniteSet(new) /\ Cardinality(new) = b.n
  <2>1. IsFiniteSet(1 .. b.n) /\ Cardinality(1 .. b.n) = b.n /\ b.n \in Nat
    <3>1. 1 \in Int /\ b.n \in Int /\ b.n \in Nat /\ ~(1 > b.n) /\ b.n - 1 + 1 = b.n
      BY <1>2
    <3>2. IsFiniteSet(1 .. b.n) /\ Cardinality(1 .. b.n) = IF 1 > b.n THEN 0 ELSE b.n - 1 + 1
      BY <3>1, FS_Interval
    <3> QED
      BY <3>1, <3>2
  <2>2. IsFiniteSet({Len(q) + 1}) /\ Cardinality({Len(q) + 1}) = 1
    BY FS_Singleton
  <2>3. IsFiniteSet(new) /\ Cardinality(new) = 1 * b.n
    BY <2>1, <2>2, FS_Product
  <2> QED
    BY <2>1, <2>3
<1>5. RecordSet(q) \cap new = {}
  <2>1. \A r \in RecordSet(q) : r[1] # Len(q) + 1
    BY <1>1 DEF RecordSet
  <2> QED
    BY <2>1
<1>6. Cardinality(RecordSet(q) \cap new) = 0
  BY <1>5, FS_EmptySet
<1> HIDE DEF new
<1>7. Cardinality(RecordSet(q) \cup new) = Cardinality(RecordSet(q)) + b.n - 0
  BY <1>4, <1>6, RecordsAreFinite, FS_Union
<1>8. Records(Append(q, b)) = Cardinality(RecordSet(Append(q, b))) /\ Records(q) = Cardinality(RecordSet(q)) /\ Records(q) \in Nat
  BY <1>1, RecordsAreFinite
<1>9. b.n \in Nat
  BY <1>2
<1> QED
  BY <1>3, <1>7, <1>8, <1>9

\* A step that makes the buffer longer than its capacity puts a batch back, or
\* the buffer holds the one batch that alone exceeds it.
LEMMA GrowthIsPutBack ==
    ASSUME CollectInv, Next, Records(buffer') > Capacity, Records(buffer') > Records(buffer)
    PROVE  Len(buffer') = 1 \/ \E l \in Held : buffer' = <<loops[l].batch>> \o buffer
<1>1. buffer \in Seq(Batch) /\ Records(buffer) \in Nat
  BY LoopsAndBuffer, RecordsAreFinite
<1>2. CASE \E l \in DOMAIN loops : Take(l)
  <2>1. buffer # <<>> /\ buffer' = Tail(buffer)
    BY <1>2 DEF Take
  <2>2. Records(buffer') <= Records(buffer)
    BY <1>1, <2>1, TailHasFewer
  <2>3. Records(buffer') \in Nat
    BY <1>1, <2>1, TailShifts, RecordsAreFinite
  <2> QED
    BY <1>1, <2>2, <2>3
<1>3. CASE \E l \in DOMAIN loops : Address(l) \/ Post(l)
  <2>1. PICK l \in DOMAIN loops : Address(l) \/ Post(l)
    BY <1>3
  <2>2. l \in Held
    BY <2>1 DEF Address, Post, Held
  <2>3. PutBack(l) \/ UNCHANGED buffer
    BY <2>1 DEF Address, Post, Confirm, Retry, Repull
  <2>4. CASE UNCHANGED buffer
    BY <1>1, <2>4
  <2>5. CASE PutBack(l)
    BY <2>2, <2>5 DEF PutBack
  <2> QED
    BY <2>3, <2>4, <2>5
<1>4. CASE \E t \in DOMAIN tasks : Collect(t)
  <2>1. PICK t \in DOMAIN tasks : Collect(t)
    BY <1>4
  <2>2. PICK n \in 1 .. BatchMax :
          LET k == Evicting(buffer, n)
          IN buffer' = Append(SubSeq(buffer, k + 1, Len(buffer)), [id |-> NextId, n |-> n])
    BY <2>1 DEF Collect
  <2>3. PICK new \in Batch : new = [id |-> NextId, n |-> n] /\ new.n = n
    <3>1. NextId \in Nat \ {0} /\ MaxBatches \in Nat
      BY NextIsUnborn, CollectAssumption
    <3>2. NextId <= MaxBatches
      BY <2>1 DEF Collect
    <3>3. PICK id \in 1 .. MaxBatches : id = NextId
      BY <3>1, <3>2
    <3>4. PICK new \in Batch : new = [id |-> id, n |-> n]
      BY DEF Batch
    <3>5. new.n = n
      BY <3>4
    <3> QED
      BY <3>3, <3>4, <3>5
  <2>4. PICK rest \in Seq(Batch) : rest = SubSeq(buffer, Evicting(buffer, n) + 1, Len(buffer)) /\ Fits(rest, n)
    <3>1. Evicting(buffer, n) \in 0 .. Len(buffer) /\ Len(buffer) \in Nat /\ DOMAIN buffer = 1 .. Len(buffer)
          /\ Fits(SubSeq(buffer, Evicting(buffer, n) + 1, Len(buffer)), n)
      BY <1>1, EvictingFits, LenProperties
    <3>2. PICK k \in 0 .. Len(buffer) : k = Evicting(buffer, n)
      BY <3>1
    <3>3. k + 1 \in Int /\ Len(buffer) \in Int /\ \A i \in k + 1 .. Len(buffer) : buffer[i] \in Batch
      BY <3>1, LoopsAndBuffer
    <3>4. SubSeq(buffer, k + 1, Len(buffer)) \in Seq(Batch)
      BY <3>3, SubSeqProperties
    <3> QED
      BY <3>1, <3>2, <3>4
  <2>5. buffer' = Append(rest, new)
    BY <2>2, <2>3, <2>4
  <2>6. CASE rest = <<>>
    BY <2>5, <2>6
  <2>7. CASE Records(rest) + n <= Capacity
    <3>1. Records(buffer') = Records(rest) + n /\ Records(rest) \in Nat
      BY <2>3, <2>5, AppendAdds, RecordsAreFinite
    <3> QED
      BY <2>7, <3>1, CollectAssumption
  <2> QED
    BY <2>4, <2>6, <2>7 DEF Fits
<1>5. CASE UNCHANGED buffer
  BY <1>1, <1>5
<1>6. \/ UNCHANGED buffer
      \/ \E t \in DOMAIN tasks : Collect(t)
      \/ \E l \in DOMAIN loops : Take(l) \/ Address(l) \/ Post(l)
  BY DEF Next, Connect, ChangeSpec, SuperviseLoop, HandleControl, EndSupervisor, Tick, BindReceiver,
     CloseListener, ReportLoop, DataserverMoves
<1> QED
  BY <1>2, <1>3, <1>4, <1>5, <1>6

\* With one loop nothing older than what arrived is sent.
LEMMA ArrivalsAreInOrder ==
    ASSUME CollectInv, [Next]_vars, Len(loops) = 1
    PROVE  arrived <= arrived'
<1>1. arrived \in Nat /\ SentInOrder
  BY DEF CollectInv, CollectTypes
<1>2. UNCHANGED arrived \/ \E l \in DOMAIN loops : Post(l)
  BY DEF Next, Connect, ChangeSpec, SuperviseLoop, HandleControl, EndSupervisor, Tick, BindReceiver, Collect,
     CloseListener, ReportLoop, DataserverMoves, Take, Address
<1>3. CASE UNCHANGED arrived
  BY <1>1, <1>3
<1>4. ASSUME NEW l \in DOMAIN loops, Post(l)
      PROVE  arrived <= arrived'
  <2>1. l \in Held /\ arrived' \in {arrived, loops[l].batch.id}
    BY <1>4 DEF Post, Held, Store
  <2>2. arrived <= loops[l].batch.id
    BY <1>1, <2>1 DEF SentInOrder
  <2> QED
    BY <1>1, <2>1, <2>2
<1> QED
  BY <1>2, <1>3, <1>4

-----------------------------------------------------------------------------
(* Theorems                                                                *)

\* CollectInv holds in every reachable state of supervisors, collectors and
\* report loops.
THEOREM CollectInvariant == Spec => []CollectInv
<1>1. Init => CollectInv
  BY CollectStarts
<1>2. CollectInv /\ [Next]_vars => CollectInv'
  BY CollectStep
<1> QED
  BY <1>1, <1>2, PTL DEF Spec

\* Every batch a collector pushed is, until it is confirmed, refused or evicted,
\* in exactly one place - the buffer or the hands of one report loop - however
\* many connections there were and whatever failed.
THEOREM BatchesStayKept == Spec => []BatchesAreKept
<1>1. CollectInv => BatchesAreKept
  BY PlacesAreCounted, TypesAreSaid DEF BatchesAreKept
<1> QED
  BY <1>1, CollectInvariant, PTL

\* The buffer grows beyond its capacity only by what a report loop puts back,
\* and one report loop sends in the order of collection.
THEOREM QueueStaysKept == Spec => QueueIsKept
<1>1. CollectInv /\ [Next]_vars
        => [Records(buffer') > Capacity /\ Records(buffer') > Records(buffer) =>
              \/ Len(buffer') = 1
              \/ \E l \in Held : buffer' = <<loops[l].batch>> \o buffer]_vars
  BY GrowthIsPutBack
<1>2. CollectInv /\ [Next]_vars => [Len(loops) = 1 => arrived <= arrived']_vars
  BY ArrivalsAreInOrder
<1> QED
  BY <1>1, <1>2, CollectInvariant, PTL DEF Spec, QueueIsKept, ExcessIsPutBack, OneLoopInOrder

\* What collects after a step is what an open supervisor counts on, and no
\* collector but the OTLP receiver is restarted unless its item changed.
THEOREM CollectorsKeepToSpec == Spec => CollectorsFollowSpec
<1>1. ASSUME CollectInv, [Next]_vars, NEW t \in DOMAIN tasks,
             tasks[t].st = "running", tasks'[t].st = "running"
      PROVE  \E c \in DOMAIN sups' : sups'[c].open /\ sups'[c].runners[tasks[t].item].task = t
  <2>1. CollectInv' /\ ItemsStay
    BY <1>1, CollectStep
  <2> QED
    BY <1>1, <2>1 DEF ItemsStay, CollectInv, TasksHaveRunners, Conns
<1>2. CollectInv /\ [Next]_vars
        => [\A t \in DOMAIN tasks :
              tasks[t].st = "running" /\ tasks'[t].st = "running" =>
                \E c \in DOMAIN sups' : sups'[c].open /\ sups'[c].runners[tasks[t].item].task = t]_vars
  BY <1>1
<1>3. CollectInv /\ [Next]_vars
        => [\A c \in Conns, i \in Items \ {Otlp} :
              LET now == sups[c].runners[i] later == sups'[c].runners[i]
              IN now.task # 0 /\ later.task # 0 /\ now.task # later.task
                   => now.version # later.version]_vars
  BY CollectStep DEF RestartsHaveReason
<1> QED
  BY <1>2, <1>3, CollectInvariant, PTL DEF Spec, CollectorsFollowSpec, OnlyWantedCollect, RestartsAreNeeded
=============================================================================
