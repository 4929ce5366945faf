-------------------------- MODULE EventStreamProofs --------------------------
(***************************************************************************)
(* Theorems about EventStream, for any number of consumers and any bounds. *)
(***************************************************************************)
EXTENDS StreamRefinement, TLAPS

PcSet == {"down", "create", "read", "drop", "handle", "ack", "dead", "deadAck"}
Idle == {"down", "create", "read"}

Untouched(e) == runs[e] = 0 /\ handled[e] = 0 /\ dlq[e] = 0

(* What the loop of c knows of the entry it is at.                         *)
CurrentOK(c) ==
    LET e == Current(c)  n == consumer[c].attempt IN
    /\ dlq[e] = IF Pc(c) = "deadAck" THEN 1 ELSE 0
    /\ Pc(c) = "drop" => e \in malformed /\ Untouched(e)
    /\ Pc(c) = "handle" => n <= Attempts /\ runs[e] = n - 1
    /\ Pc(c) = "ack" => n <= Attempts /\ runs[e] = n /\ handled[e] > 0
    /\ Pc(c) \in {"dead", "deadAck"} => runs[e] = Attempts
    /\ Pc(c) \in {"handle", "dead"} => e \in pel \/ handled[e] > 0
    /\ faults = 0 => handled[e] = IF Pc(c) = "ack" THEN 1 ELSE 0

(* A loop between batches holds nothing; within one it holds delivered     *)
(* entries, of which those to come are pending and untouched.              *)
LoopOK(c) ==
    /\ Pc(c) \in Idle => Current(c) > consumer[c].last
    /\ Pc(c) = "read" => group
    /\ Pc(c) \notin Idle =>
          /\ group
          /\ start < Current(c)
          /\ Current(c) <= consumer[c].last
          /\ consumer[c].last <= cursor
          /\ \A f \in Batch(c) : f # Current(c) => f \in pel /\ Untouched(f)
          /\ CurrentOK(c)

EntryOK(e) ==
    /\ e \notin start + 1 .. cursor => e \notin pel /\ Untouched(e)
    /\ e \in start + 1 .. cursor =>
          e \in pel \/ e \in malformed \/ handled[e] > 0 \/ dlq[e] > 0
    /\ runs[e] <= Attempts
    /\ dlq[e] > 0 => dlq[e] = 1 /\ runs[e] = Attempts
    /\ faults = 0 => handled[e] + dlq[e] <= 1

Held == faults = 0 => \A e \in Entry : e \in pel <=> \E c \in Consumer : e \in Batch(c)

(* None of the invariants is inductive by itself: that an entry is         *)
(* answered before it leaves the pending list, and tried no more than      *)
(* Attempts times, follows from what each loop knows of its batch, which   *)
(* other loops leave alone because batches are disjoint.                   *)
StreamInv ==
    /\ TypeOK
    /\ ~group => cursor = start
    /\ OneHolder
    /\ \A c \in Consumer : LoopOK(c)
    /\ \A e \in Entry : EntryOK(e)
    /\ Held

(***************************************************************************)
(* Types                                                                   *)
(***************************************************************************)

LEMMA EntryNat == Entry \subseteq Nat \ {0}
  BY DEF Entry

LEMMA Becoming ==
    ASSUME consumer \in [Consumer -> Loop], NEW c \in Consumer, NEW loop,
           Become(c, loop)
    PROVE  /\ consumer'[c] = loop
           /\ \A d \in Consumer : d # c => consumer'[d] = consumer[d]
           /\ loop \in Loop => consumer' \in [Consumer -> Loop]
  BY DEF Become

LEMMA AtType ==
    ASSUME TypeOK, NEW c \in Consumer, NEW pc \in PcSet,
           NEW next \in 1 .. MaxEvent + 1, NEW last \in 0 .. MaxEvent,
           NEW attempt \in 1 .. Attempts + 1
    PROVE  /\ At(c, pc, next, last, attempt) \in Loop
           /\ At(c, pc, next, last, attempt).pc = pc
           /\ At(c, pc, next, last, attempt).next = next
           /\ At(c, pc, next, last, attempt).last = last
           /\ At(c, pc, next, last, attempt).attempt = attempt
  BY DEF At, Loop, TypeOK, PcSet

LEMMA DownType ==
    /\ Down \in Loop
    /\ [Down EXCEPT !.pc = "create"] \in Loop
    /\ Down.pc = "down" /\ Down.next = 1 /\ Down.last = 0
    /\ [Down EXCEPT !.pc = "create"].pc = "create"
    /\ [Down EXCEPT !.pc = "create"].next = 1
    /\ [Down EXCEPT !.pc = "create"].last = 0
  <1>1. 1 \in 1 .. MaxEvent + 1 /\ 0 \in 0 .. MaxEvent /\ 1 \in 1 .. Attempts + 1
    BY StreamAssumption
  <1>2. FALSE \in BOOLEAN
    OBVIOUS
  <1>3. Down \in Loop
    BY <1>1, <1>2, Zenon DEF Down, Loop
  <1>4. [Down EXCEPT !.pc = "create"] \in Loop
    BY <1>3 DEF Loop
  <1> QED BY <1>3, <1>4 DEF Down

(* Every step of a loop has the shape Become(c, l), with l in Loop. *)
LEMMA TurnType ==
    ASSUME TypeOK, NEW c \in Consumer,
           NEW next \in 1 .. MaxEvent + 1, NEW last \in 0 .. MaxEvent
    PROVE  /\ Turn(c, next, last) \in Loop
           /\ Turn(c, next, last).next = next
           /\ Turn(c, next, last).last = last
           /\ Turn(c, next, last).attempt = 1
           /\ Turn(c, next, last).pc =
                 IF next > last THEN "read"
                 ELSE IF next \in malformed THEN "drop" ELSE "handle"
  <1> DEFINE pc == IF next > last THEN "read"
                   ELSE IF next \in malformed THEN "drop" ELSE "handle"
  <1>1. pc \in PcSet
    BY DEF PcSet
  <1>2. Turn(c, next, last) = At(c, pc, next, last, 1)
    BY DEF Turn
  <1>3. 1 \in 1 .. Attempts + 1
    BY StreamAssumption
  <1> HIDE DEF pc
  <1>4. Turn(c, next, last) \in Loop /\ Turn(c, next, last).next = next
        /\ Turn(c, next, last).last = last /\ Turn(c, next, last).attempt = 1
        /\ Turn(c, next, last).pc = pc
    BY <1>1, <1>2, <1>3, AtType
  <1> QED BY <1>4 DEF pc

LEMMA LoopFields ==
    ASSUME TypeOK, NEW c \in Consumer
    PROVE  /\ Pc(c) \in PcSet
           /\ Current(c) \in 1 .. MaxEvent + 1
           /\ consumer[c].last \in 0 .. MaxEvent
           /\ consumer[c].attempt \in 1 .. Attempts + 1
           /\ consumer[c] \in Loop
           /\ MaxEvent \in Nat /\ Attempts \in Nat /\ Attempts > 0
           /\ ReadCount \in Nat /\ ReadCount > 0
  BY StreamAssumption DEF TypeOK, Loop, PcSet, Pc, Current

(* An entry of a batch is an entry of the stream. *)
LEMMA AtEntry ==
    ASSUME TypeOK, NEW c \in Consumer, LoopOK(c), Pc(c) \notin Idle
    PROVE  /\ Current(c) \in Entry
           /\ Current(c) \in Batch(c)
           /\ Current(c) \in start + 1 .. cursor
           /\ Current(c) + 1 \in 1 .. MaxEvent + 1
           /\ Batch(c) \subseteq Entry
  <1>1. cursor \in Nat /\ start \in Nat /\ cursor <= MaxEvent
    BY StreamAssumption DEF TypeOK
  <1>2. start < Current(c) /\ Current(c) <= consumer[c].last /\ consumer[c].last <= cursor
    BY DEF LoopOK
  <1> QED BY <1>1, <1>2, LoopFields DEF Entry, Batch, Current

(* A step of loop c at an entry e of its batch touches no other entry and  *)
(* no other loop; what other loops know remains true.                      *)
LEMMA OthersKeep ==
    ASSUME StreamInv, NEW c \in Consumer, NEW e \in Batch(c),
           \A d \in Consumer : d # c => consumer'[d] = consumer[d],
           \A f \in Entry : f # e =>
               /\ f \in pel' <=> f \in pel
               /\ runs'[f] = runs[f] /\ handled'[f] = handled[f] /\ dlq'[f] = dlq[f],
           UNCHANGED <<malformed, group, start, cursor>>,
           faults' = 0 => faults = 0
    PROVE  /\ \A d \in Consumer : d # c => LoopOK(d)'
           /\ \A f \in Entry : f # e => EntryOK(f)'
  <1>1. ASSUME NEW d \in Consumer, d # c PROVE LoopOK(d)'
    <2>1. LoopOK(d) /\ consumer'[d] = consumer[d] /\ TypeOK
      BY <1>1 DEF StreamInv
    <2>2. /\ Pc(d)' = Pc(d) /\ Current(d)' = Current(d)
          /\ consumer[d].last' = consumer[d].last /\ Batch(d)' = Batch(d)
      BY <2>1 DEF Pc, Current, Batch
    <2>3. CASE Pc(d) \in Idle
      BY <2>1, <2>2, <2>3 DEF LoopOK
    <2>4. CASE Pc(d) \notin Idle
      <3>1. Batch(d) \subseteq Entry /\ Current(d) \in Batch(d)
        BY <2>1, <2>4, AtEntry
      <3>2. \A f \in Batch(d) : f # e
        BY <1>1 DEF StreamInv, OneHolder
      <3>3. \A f \in Batch(d) :
              /\ f \in pel' <=> f \in pel
              /\ runs'[f] = runs[f] /\ handled'[f] = handled[f] /\ dlq'[f] = dlq[f]
        BY <3>1, <3>2
      <3>4. CurrentOK(d)'
        <4>1. CurrentOK(d)
          BY <2>1, <2>4 DEF LoopOK
        <4>2. consumer'[d].attempt = consumer[d].attempt
          BY <2>1
        <4>3. /\ Current(d) \in pel' <=> Current(d) \in pel
              /\ runs'[Current(d)] = runs[Current(d)]
              /\ handled'[Current(d)] = handled[Current(d)]
              /\ dlq'[Current(d)] = dlq[Current(d)]
          BY <3>1, <3>3
        <4> QED BY <2>2, <4>1, <4>2, <4>3 DEF CurrentOK, Untouched
      <3> QED BY <2>1, <2>2, <2>4, <3>3, <3>4 DEF LoopOK, Untouched
    <2> QED BY <2>3, <2>4
  <1>2. ASSUME NEW f \in Entry, f # e PROVE EntryOK(f)'
    BY <1>2 DEF StreamInv, EntryOK, Untouched
  <1> QED BY <1>1, <1>2

(***************************************************************************)
(* Steps of one loop within a batch                                        *)
(***************************************************************************)

(* The loop stays at its entry. *)
LEMMA Staying ==
    ASSUME StreamInv, NEW c \in Consumer, Pc(c) \notin Idle,
           NEW pc \in PcSet \ Idle, NEW n \in 1 .. Attempts + 1,
           Become(c, At(c, pc, Current(c), consumer[c].last, n)),
           \A f \in Entry : f # Current(c) =>
               /\ f \in pel' <=> f \in pel
               /\ runs'[f] = runs[f] /\ handled'[f] = handled[f] /\ dlq'[f] = dlq[f],
           UNCHANGED <<malformed, group, start, cursor>>,
           faults' = 0 => faults = 0 /\ pel' = pel
    PROVE  /\ Pc(c)' = pc /\ consumer'[c].attempt = n /\ Current(c)' = Current(c)
           /\ consumer' \in [Consumer -> Loop]
           /\ CurrentOK(c)' /\ EntryOK(Current(c))'
              => OneHolder' /\ (\A d \in Consumer : LoopOK(d)')
                 /\ (\A f \in Entry : EntryOK(f)') /\ Held'
  <1>1. TypeOK /\ LoopOK(c) /\ consumer \in [Consumer -> Loop]
    BY DEF StreamInv, TypeOK
  <1>2. /\ Current(c) \in 1 .. MaxEvent + 1 /\ consumer[c].last \in 0 .. MaxEvent
        /\ pc \in PcSet
    BY <1>1, LoopFields
  <1> DEFINE l == At(c, pc, Current(c), consumer[c].last, n)
  <1>3. /\ l \in Loop /\ l.pc = pc /\ l.next = Current(c)
        /\ l.last = consumer[c].last /\ l.attempt = n
    BY <1>1, <1>2, AtType
  <1> HIDE DEF l
  <1>4. /\ consumer'[c] = l /\ consumer' \in [Consumer -> Loop]
        /\ \A d \in Consumer : d # c => consumer'[d] = consumer[d]
    BY <1>1, <1>3, Becoming DEF l
  <1>5. /\ Pc(c)' = pc /\ Current(c)' = Current(c)
        /\ consumer'[c].last = consumer[c].last /\ consumer'[c].attempt = n
        /\ Batch(c)' = Batch(c)
    BY <1>3, <1>4 DEF Pc, Current, Batch
  <1>6. \A d \in Consumer : Batch(d)' = Batch(d)
    BY <1>4, <1>5 DEF Batch
  <1>7. Current(c) \in Batch(c) /\ Batch(c) \subseteq Entry
    BY <1>1, AtEntry
  <1>8. /\ \A d \in Consumer : d # c => LoopOK(d)'
        /\ \A f \in Entry : f # Current(c) => EntryOK(f)'
    BY <1>4, <1>7, OthersKeep
  <1>9. OneHolder'
    BY <1>6 DEF StreamInv, OneHolder
  <1>10. Held'
    BY <1>6 DEF StreamInv, Held
  <1>11. CurrentOK(c)' => LoopOK(c)'
    BY <1>1, <1>5, <1>7 DEF LoopOK, Untouched
  <1> QED BY <1>4, <1>5, <1>8, <1>9, <1>10, <1>11

(* The entry is acknowledged and the loop goes on to the next, or to read. *)
LEMMA Advancing ==
    ASSUME StreamInv, NEW c \in Consumer, Pc(c) \notin Idle,
           Advance(c), pel' = pel \ {Current(c)},
           \/ Current(c) \in malformed
           \/ handled[Current(c)] > 0 \/ dlq[Current(c)] > 0,
           UNCHANGED <<published, malformed, group, start, cursor, dlq, runs,
                       handled, faults, stops>>
    PROVE  StreamInv'
  <1>0. PICK e : e = Current(c)
    OBVIOUS
  <1> DEFINE l == Turn(c, e + 1, consumer[c].last)
  <1>1. TypeOK /\ LoopOK(c) /\ consumer \in [Consumer -> Loop]
    BY DEF StreamInv, TypeOK
  <1>2. /\ e \in Entry /\ e \in Batch(c) /\ e \in start + 1 .. cursor
        /\ e + 1 \in 1 .. MaxEvent + 1 /\ Batch(c) \subseteq Entry
        /\ consumer[c].last \in 0 .. MaxEvent
    BY <1>0, <1>1, AtEntry, LoopFields
  <1>3. /\ l \in Loop /\ l.next = e + 1 /\ l.last = consumer[c].last /\ l.attempt = 1
        /\ l.pc = IF e + 1 > consumer[c].last THEN "read"
                  ELSE IF e + 1 \in malformed THEN "drop" ELSE "handle"
    BY <1>1, <1>2, TurnType
  <1>4. Become(c, l)
    BY <1>0 DEF Advance
  <1> HIDE DEF l
  <1>5. /\ consumer'[c] = l /\ consumer' \in [Consumer -> Loop]
        /\ \A d \in Consumer : d # c => consumer'[d] = consumer[d]
    BY <1>1, <1>3, <1>4, Becoming
  <1>6. /\ Current(c)' = e + 1 /\ consumer'[c].last = consumer[c].last
        /\ consumer'[c].attempt = 1 /\ Pc(c)' = l.pc
    BY <1>3, <1>5 DEF Pc, Current
  <1>7. Batch(c)' = Batch(c) \ {e}
    <2>1. e \in Nat /\ consumer[c].last \in Nat /\ Batch(c) = e .. consumer[c].last
      BY <1>0, <1>2 DEF Entry, Batch, Current
    <2>2. Batch(c)' = e + 1 .. consumer[c].last
      BY <1>6 DEF Batch, Current
    <2> QED BY <2>1, <2>2
  <1>8. \A d \in Consumer : d # c => Batch(d)' = Batch(d)
    BY <1>5 DEF Batch
  <1>9. TypeOK'
    BY <1>1, <1>5 DEF TypeOK
  <1>10. OneHolder'
    BY <1>7, <1>8 DEF StreamInv, OneHolder
  <1>11. /\ \A d \in Consumer : d # c => LoopOK(d)'
         /\ \A f \in Entry : f # e => EntryOK(f)'
    BY <1>0, <1>2, <1>5, OthersKeep
  <1>12. EntryOK(e)'
    <2>1. EntryOK(e)
      BY <1>2 DEF StreamInv
    <2> QED BY <1>0, <1>2, <2>1 DEF EntryOK, Untouched
  <1>13. Held'
    <2>1. \A d \in Consumer : d # c => e \notin Batch(d)
      BY <1>2 DEF StreamInv, OneHolder
    <2> QED BY <1>0, <1>7, <1>8, <2>1 DEF StreamInv, Held
  <1>14. LoopOK(c)'
    <2>1. CASE e + 1 > consumer[c].last
      BY <1>1, <1>3, <1>6, <2>1 DEF LoopOK, Idle
    <2>2. CASE e + 1 <= consumer[c].last
      <3>1. e + 1 \in Batch(c) /\ e + 1 # e
        BY <1>0, <1>2, <2>2 DEF Entry, Batch, Current
      <3>2. \A f \in Batch(c) : f # e => f \in pel' /\ Untouched(f) /\ Untouched(f)'
        BY <1>0, <1>1 DEF LoopOK, Untouched
      <3>3. Pc(c)' = IF e + 1 \in malformed THEN "drop" ELSE "handle"
        BY <1>2, <1>3, <1>6, <2>2
      <3>4. CurrentOK(c)'
        BY <1>2, <1>6, <3>1, <3>2, <3>3, LoopFields, <1>1 DEF CurrentOK, Untouched
      <3>5. group /\ start < e + 1 /\ e + 1 <= consumer[c].last /\ consumer[c].last <= cursor
        BY <1>0, <1>1, <1>2, <2>2 DEF LoopOK, TypeOK, Entry
      <3> QED BY <1>6, <1>7, <3>2, <3>3, <3>4, <3>5 DEF LoopOK, Idle
    <2> QED BY <1>2, <2>1, <2>2 DEF Entry
  <1> QED BY <1>9, <1>10, <1>11, <1>12, <1>13, <1>14 DEF StreamInv

(***************************************************************************)
(* The actions                                                             *)
(***************************************************************************)

LEMMA AdvanceStep ==
    ASSUME StreamInv, NEW c \in Consumer, Drop(c) \/ Ack(c) \/ DeadAck(c)
    PROVE  StreamInv'
  <1>1. Pc(c) \in {"drop", "ack", "deadAck"} /\ Pc(c) \notin Idle
    BY DEF Drop, Ack, DeadAck, Idle
  <1>2. LoopOK(c) /\ CurrentOK(c)
    BY <1>1 DEF StreamInv, LoopOK
  <1>3. Current(c) \in malformed \/ handled[Current(c)] > 0 \/ dlq[Current(c)] > 0
    BY <1>1, <1>2 DEF CurrentOK
  <1>4. Advance(c) /\ pel' = pel \ {Current(c)}
        /\ UNCHANGED <<published, malformed, group, start, cursor, dlq, runs,
                       handled, faults, stops>>
    BY DEF Drop, Ack, DeadAck, stream, history, bounds
  <1> QED BY <1>1, <1>3, <1>4, Advancing

(* The attempt that ends: one more, or the dead letter. *)
LEMMA AttemptEnds ==
    ASSUME TypeOK, NEW c \in Consumer, consumer[c].attempt <= Attempts
    PROVE  \E pc \in {"handle", "dead"} :
              /\ NextAttempt(c) = At(c, pc, Current(c), consumer[c].last,
                                     consumer[c].attempt + 1)
              /\ consumer[c].attempt + 1 \in 1 .. Attempts + 1
              /\ pc = "handle" => consumer[c].attempt + 1 <= Attempts
              /\ pc = "dead" => consumer[c].attempt = Attempts
  <1>1. consumer[c].attempt \in 1 .. Attempts + 1 /\ Attempts \in Nat
    BY LoopFields
  <1>2. CASE consumer[c].attempt + 1 <= Attempts
    BY <1>1, <1>2 DEF NextAttempt
  <1>3. CASE consumer[c].attempt = Attempts
    BY <1>1, <1>3 DEF NextAttempt
  <1> QED BY <1>1, <1>2, <1>3

LEMMA HandlerStep ==
    ASSUME StreamInv, NEW c \in Consumer, Succeed(c) \/ Reject(c)
    PROVE  StreamInv'
  <1>1. Pc(c) = "handle" /\ Pc(c) \notin Idle
    BY DEF Succeed, Reject, Idle
  <1>2. TypeOK /\ LoopOK(c) /\ CurrentOK(c)
    BY <1>1 DEF StreamInv, LoopOK
  <1>0. PICK e : e = Current(c)
    OBVIOUS
  <1>3. /\ e \in Entry /\ e \in start + 1 .. cursor /\ EntryOK(e)
        /\ consumer[c].attempt \in 1 .. Attempts + 1 /\ Attempts \in Nat
        /\ runs \in [Entry -> Nat] /\ handled \in [Entry -> Nat] /\ dlq \in [Entry -> Nat]
    BY <1>0, <1>1, <1>2, AtEntry, LoopFields DEF StreamInv, TypeOK
  <1>4. /\ runs[e] = consumer[c].attempt - 1 /\ consumer[c].attempt <= Attempts
        /\ dlq[e] = 0 /\ (e \in pel \/ handled[e] > 0) /\ (faults = 0 => handled[e] = 0)
    BY <1>0, <1>1, <1>2 DEF CurrentOK
  <1>5. /\ UNCHANGED <<published, malformed, group, start, cursor, pel, dlq, faults, stops>>
        /\ runs' = [runs EXCEPT ![e] = @ + 1]
        /\ handled' = [handled EXCEPT ![e] = @ + 1] \/ handled' = handled
    BY <1>0 DEF Succeed, Reject, stream, bounds
  <1>6. /\ runs' \in [Entry -> Nat] /\ handled' \in [Entry -> Nat]
        /\ runs'[e] = runs[e] + 1
        /\ \A f \in Entry : f # e => runs'[f] = runs[f] /\ handled'[f] = handled[f]
    BY <1>3, <1>5
  <1>7. \E pc \in {"handle", "dead", "ack"}, n \in 1 .. Attempts + 1 :
          /\ Become(c, At(c, pc, e, consumer[c].last, n))
          /\ pc = "ack" => n = consumer[c].attempt /\ handled'[e] = handled[e] + 1
          /\ pc # "ack" => n = consumer[c].attempt + 1 /\ handled'[e] = handled[e]
          /\ pc = "handle" => n <= Attempts
          /\ pc = "dead" => consumer[c].attempt = Attempts
    <2>1. CASE Succeed(c)
      BY <1>0, <1>3, <1>5, <2>1 DEF Succeed
    <2>2. CASE Reject(c)
      BY <1>0, <1>2, <1>3, <1>4, <2>2, AttemptEnds DEF Reject
    <2> QED BY <2>1, <2>2
  <1>8. PICK pc \in {"handle", "dead", "ack"}, n \in 1 .. Attempts + 1 :
          /\ Become(c, At(c, pc, e, consumer[c].last, n))
          /\ pc = "ack" => n = consumer[c].attempt /\ handled'[e] = handled[e] + 1
          /\ pc # "ack" => n = consumer[c].attempt + 1 /\ handled'[e] = handled[e]
          /\ pc = "handle" => n <= Attempts
          /\ pc = "dead" => consumer[c].attempt = Attempts
    BY <1>7
  <1>9. /\ Pc(c)' = pc /\ consumer'[c].attempt = n /\ Current(c)' = e
        /\ consumer' \in [Consumer -> Loop]
        /\ CurrentOK(c)' /\ EntryOK(Current(c))'
              => OneHolder' /\ (\A d \in Consumer : LoopOK(d)')
                 /\ (\A f \in Entry : EntryOK(f)') /\ Held'
    <2>1. pc \in PcSet \ Idle
      BY DEF PcSet, Idle
    <2> QED BY <1>0, <1>1, <1>5, <1>6, <1>8, <2>1, Staying
  <1>10. CurrentOK(c)'
    BY <1>3, <1>4, <1>5, <1>6, <1>8, <1>9 DEF CurrentOK
  <1>11. EntryOK(e)'
    BY <1>3, <1>4, <1>5, <1>6, <1>8 DEF EntryOK
  <1>12. TypeOK'
    BY <1>2, <1>5, <1>6, <1>9 DEF TypeOK
  <1>13. ~group' => cursor' = start'
    BY <1>5 DEF StreamInv
  <1> QED BY <1>9, <1>10, <1>11, <1>12, <1>13 DEF StreamInv

LEMMA AckFailsStep ==
    ASSUME StreamInv, NEW c \in Consumer, AckFails(c)
    PROVE  StreamInv'
  <1>1. Pc(c) = "ack" /\ Pc(c) \notin Idle
    BY DEF AckFails, Idle
  <1>2. TypeOK /\ LoopOK(c) /\ CurrentOK(c)
    BY <1>1 DEF StreamInv, LoopOK
  <1>0. PICK e : e = Current(c)
    OBVIOUS
  <1>3. /\ e \in Entry /\ e \in start + 1 .. cursor /\ EntryOK(e)
        /\ consumer[c].attempt \in 1 .. Attempts + 1 /\ Attempts \in Nat
        /\ runs[e] \in Nat /\ handled[e] \in Nat
    BY <1>0, <1>1, <1>2, AtEntry, LoopFields DEF StreamInv, TypeOK
  <1>4. /\ runs[e] = consumer[c].attempt /\ consumer[c].attempt <= Attempts
        /\ dlq[e] = 0 /\ handled[e] > 0
    BY <1>0, <1>1, <1>2 DEF CurrentOK
  <1>5. /\ UNCHANGED <<published, malformed, group, start, cursor, dlq, runs, handled, stops>>
        /\ faults' \in 0 .. MaxFaults /\ faults' # 0
        /\ pel' \in SUBSET Entry
        /\ \A f \in Entry : f # e => (f \in pel' <=> f \in pel)
    BY <1>0, <1>2, StreamAssumption DEF AckFails, stream, history, TypeOK
  <1>6. PICK pc \in {"handle", "dead"} :
          /\ NextAttempt(c) = At(c, pc, Current(c), consumer[c].last,
                                 consumer[c].attempt + 1)
          /\ consumer[c].attempt + 1 \in 1 .. Attempts + 1
          /\ pc = "handle" => consumer[c].attempt + 1 <= Attempts
          /\ pc = "dead" => consumer[c].attempt = Attempts
    BY <1>2, <1>4, AttemptEnds
  <1>7. PICK n \in 1 .. Attempts + 1 : n = consumer[c].attempt + 1
    BY <1>6
  <1>8. Become(c, At(c, pc, Current(c), consumer[c].last, n))
    BY <1>6, <1>7 DEF AckFails
  <1>9. /\ Pc(c)' = pc /\ consumer'[c].attempt = n /\ Current(c)' = e
        /\ consumer' \in [Consumer -> Loop]
        /\ CurrentOK(c)' /\ EntryOK(Current(c))'
              => OneHolder' /\ (\A d \in Consumer : LoopOK(d)')
                 /\ (\A f \in Entry : EntryOK(f)') /\ Held'
    <2>1. pc \in PcSet \ Idle
      BY DEF PcSet, Idle
    <2> QED BY <1>0, <1>1, <1>5, <1>8, <2>1, Staying
  <1>10. CurrentOK(c)'
    BY <1>3, <1>4, <1>5, <1>6, <1>7, <1>9 DEF CurrentOK
  <1>11. EntryOK(e)'
    BY <1>3, <1>4, <1>5 DEF EntryOK
  <1>12. TypeOK'
    BY <1>2, <1>5, <1>9 DEF TypeOK
  <1>13. ~group' => cursor' = start'
    BY <1>5 DEF StreamInv
  <1> QED BY <1>9, <1>10, <1>11, <1>12, <1>13 DEF StreamInv

LEMMA DeadLetterStep ==
    ASSUME StreamInv, NEW c \in Consumer, DeadLetter(c)
    PROVE  StreamInv'
  <1>1. Pc(c) = "dead" /\ Pc(c) \notin Idle
    BY DEF DeadLetter, Idle
  <1>2. TypeOK /\ LoopOK(c) /\ CurrentOK(c)
    BY <1>1 DEF StreamInv, LoopOK
  <1>0. PICK e : e = Current(c)
    OBVIOUS
  <1>3. /\ e \in Entry /\ e \in start + 1 .. cursor /\ EntryOK(e)
        /\ consumer[c].attempt \in 1 .. Attempts + 1 /\ Attempts \in Nat
        /\ dlq \in [Entry -> Nat] /\ handled[e] \in Nat
    BY <1>0, <1>1, <1>2, AtEntry, LoopFields DEF StreamInv, TypeOK
  <1>4. dlq[e] = 0 /\ runs[e] = Attempts /\ (faults = 0 => handled[e] = 0)
    BY <1>0, <1>1, <1>2 DEF CurrentOK
  <1>5. /\ UNCHANGED <<published, malformed, group, start, cursor, pel, runs,
                       handled, faults, stops>>
        /\ dlq' = [dlq EXCEPT ![e] = @ + 1]
    BY <1>0 DEF DeadLetter, stream, history, bounds
  <1>6. /\ dlq' \in [Entry -> Nat] /\ dlq'[e] = 1
        /\ \A f \in Entry : f # e => dlq'[f] = dlq[f]
    BY <1>3, <1>4, <1>5
  <1>7. PICK n \in 1 .. Attempts + 1 : n = consumer[c].attempt
    BY <1>3
  <1>8. Become(c, At(c, "deadAck", Current(c), consumer[c].last, n))
    BY <1>7 DEF DeadLetter
  <1>9. /\ Pc(c)' = "deadAck" /\ Current(c)' = e
        /\ consumer' \in [Consumer -> Loop]
        /\ CurrentOK(c)' /\ EntryOK(Current(c))'
              => OneHolder' /\ (\A d \in Consumer : LoopOK(d)')
                 /\ (\A f \in Entry : EntryOK(f)') /\ Held'
    <2>1. "deadAck" \in PcSet \ Idle
      BY DEF PcSet, Idle
    <2> QED BY <1>0, <1>1, <1>5, <1>6, <1>8, <2>1, Staying
  <1>10. CurrentOK(c)'
    BY <1>3, <1>4, <1>5, <1>6, <1>9 DEF CurrentOK
  <1>11. EntryOK(e)'
    BY <1>3, <1>4, <1>5, <1>6 DEF EntryOK
  <1>12. TypeOK'
    BY <1>2, <1>5, <1>6, <1>9 DEF TypeOK
  <1>13. ~group' => cursor' = start'
    BY <1>5 DEF StreamInv
  <1> QED BY <1>9, <1>10, <1>11, <1>12, <1>13 DEF StreamInv

(* A loop that ends or begins holds nothing; what it held stays pending,   *)
(* which the invariant allows only after a fault.                          *)
LEMMA IdleStep ==
    ASSUME StreamInv, NEW c \in Consumer, Subscribe(c) \/ Quit(c) \/ Die(c) \/ Stop(c)
    PROVE  StreamInv'
  <1>1. TypeOK /\ LoopOK(c) /\ consumer \in [Consumer -> Loop]
    BY DEF StreamInv, TypeOK
  <1>2. /\ UNCHANGED <<published, malformed, group, start, cursor, pel, dlq, runs, handled>>
        /\ faults' \in 0 .. MaxFaults /\ stops' \in 0 .. MaxStops
        /\ faults' = 0 => faults = 0 /\ ~Die(c)
    BY <1>1, StreamAssumption
       DEF Subscribe, Quit, Die, Stop, stream, history, bounds, TypeOK
  <1>3. CASE Stop(c)
    <2>1. PICK l : l = [consumer[c] EXCEPT !.stop = TRUE]
      OBVIOUS
    <2>2. Become(c, l)
      BY <1>3, <2>1 DEF Stop
    <2>3. l \in Loop /\ l.pc = Pc(c) /\ l.next = Current(c)
          /\ l.last = consumer[c].last /\ l.attempt = consumer[c].attempt
      BY <1>1, <2>1, LoopFields DEF Loop, Pc, Current
    <2>4. /\ consumer'[c] = l /\ consumer' \in [Consumer -> Loop]
          /\ \A d \in Consumer : d # c => consumer'[d] = consumer[d]
      BY <1>1, <2>2, <2>3, Becoming
    <2>5. \A d \in Consumer :
            /\ Pc(d)' = Pc(d) /\ Current(d)' = Current(d) /\ Batch(d)' = Batch(d)
            /\ consumer'[d].last = consumer[d].last
            /\ consumer'[d].attempt = consumer[d].attempt
      BY <2>3, <2>4 DEF Pc, Current, Batch
    <2>6. \A d \in Consumer : LoopOK(d)'
      BY <1>2, <2>5 DEF StreamInv, LoopOK, CurrentOK, Untouched
    <2>7. \A f \in Entry : EntryOK(f)'
      BY <1>2 DEF StreamInv, EntryOK, Untouched
    <2>8. Held' /\ OneHolder' /\ (~group' => cursor' = start')
      BY <1>2, <2>5 DEF StreamInv, Held, OneHolder
    <2>9. TypeOK'
      BY <1>1, <1>2, <2>4 DEF TypeOK
    <2> QED BY <2>6, <2>7, <2>8, <2>9 DEF StreamInv
  <1>4. CASE Subscribe(c) \/ Quit(c) \/ Die(c)
    <2>1. PICK l \in {Down, [Down EXCEPT !.pc = "create"]} : Become(c, l)
      BY <1>4 DEF Subscribe, Quit, Die
    <2>2. l \in Loop /\ l.pc \in Idle /\ l.next = 1 /\ l.last = 0
      BY <2>1, DownType DEF Idle
    <2>2a. l.pc # "read"
      BY <2>1, DownType
    <2>3. /\ consumer'[c] = l /\ consumer' \in [Consumer -> Loop]
          /\ \A d \in Consumer : d # c => consumer'[d] = consumer[d]
      BY <1>1, <2>1, <2>2, Becoming
    <2>4. /\ Batch(c)' = {}
          /\ LoopOK(c)'
      BY <2>2, <2>2a, <2>3 DEF Batch, LoopOK, Pc, Current
    <2>5. \A d \in Consumer : d # c =>
            /\ Pc(d)' = Pc(d) /\ Current(d)' = Current(d) /\ Batch(d)' = Batch(d)
            /\ consumer'[d].last = consumer[d].last
            /\ consumer'[d].attempt = consumer[d].attempt
      BY <2>3 DEF Pc, Current, Batch
    <2>6. \A d \in Consumer : d # c => LoopOK(d)'
      BY <1>2, <2>5 DEF StreamInv, LoopOK, CurrentOK, Untouched
    <2>7. \A f \in Entry : EntryOK(f)'
      BY <1>2 DEF StreamInv, EntryOK, Untouched
    <2>8. OneHolder' /\ (~group' => cursor' = start')
      BY <1>2, <2>4, <2>5 DEF StreamInv, OneHolder
    <2>9. Held'
      <3>1. ~Die(c) => Batch(c) = {}
        <4> SUFFICES ASSUME ~Die(c) PROVE Batch(c) = {}
          OBVIOUS
        <4>1. Pc(c) \in Idle
          BY <1>4 DEF Subscribe, Quit, Idle
        <4>2. Current(c) > consumer[c].last /\ Current(c) \in Nat
          BY <1>1, <4>1, LoopFields DEF LoopOK
        <4> QED BY <1>1, <4>2, LoopFields DEF Batch, Current
      <3> QED BY <1>2, <2>4, <2>5, <3>1 DEF StreamInv, Held
    <2>10. TypeOK'
      BY <1>1, <1>2, <2>3 DEF TypeOK
    <2> QED BY <2>4, <2>6, <2>7, <2>8, <2>9, <2>10 DEF StreamInv
  <1> QED BY <1>3, <1>4

LEMMA PublishStep ==
    ASSUME StreamInv, Publish
    PROVE  StreamInv'
  <1>1. /\ UNCHANGED <<group, start, cursor, pel, dlq, consumer, runs, handled, faults, stops>>
        /\ published < MaxEvent /\ published' = published + 1
        /\ malformed \subseteq malformed' /\ malformed' \subseteq malformed \cup {published + 1}
    BY DEF Publish, history, bounds
  <1>2. TypeOK'
    <2>1. /\ TypeOK /\ MaxEvent \in Nat
          /\ published \in Nat /\ start \in Nat /\ cursor \in Nat
          /\ start <= cursor /\ cursor <= published
      BY StreamAssumption DEF StreamInv, TypeOK
    <2>2. published' \in 0 .. MaxEvent /\ start' \in 0 .. published' /\ cursor' \in start' .. published'
      BY <1>1, <2>1
    <2>3. malformed' \in SUBSET Entry
      <3>1. published + 1 \in Entry
        BY <1>1, <2>1 DEF Entry
      <3> QED BY <1>1, <2>1, <3>1 DEF TypeOK
    <2> QED BY <1>1, <2>1, <2>2, <2>3, Zenon DEF TypeOK
  <1>3. \A d \in Consumer : LoopOK(d)'
    BY <1>1 DEF StreamInv, LoopOK, CurrentOK, Untouched, Pc, Current, Batch
  <1>4. \A f \in Entry : EntryOK(f)'
    BY <1>1 DEF StreamInv, EntryOK, Untouched
  <1>5. Held' /\ OneHolder' /\ (~group' => cursor' = start')
    BY <1>1 DEF StreamInv, Held, OneHolder, Batch
  <1> QED BY <1>2, <1>3, <1>4, <1>5 DEF StreamInv

LEMMA CreateGroupStep ==
    ASSUME StreamInv, NEW c \in Consumer, CreateGroup(c)
    PROVE  StreamInv'
  <1>1. TypeOK /\ LoopOK(c) /\ consumer \in [Consumer -> Loop] /\ Pc(c) \in Idle
    BY DEF StreamInv, TypeOK, CreateGroup, Idle
  <1>2. /\ UNCHANGED <<published, malformed, pel, dlq, runs, handled, faults, stops>>
        /\ group'
        /\ \/ ~group /\ start' = published /\ cursor' = published
           \/ group /\ start' = start /\ cursor' = cursor
    BY DEF CreateGroup, stream, history, bounds
  <1>3. PICK l : l = At(c, "read", 1, 0, 1)
    OBVIOUS
  <1>4. l \in Loop /\ l.pc = "read" /\ l.next = 1 /\ l.last = 0
    <2>1. "read" \in PcSet /\ 1 \in 1 .. MaxEvent + 1 /\ 0 \in 0 .. MaxEvent
          /\ 1 \in 1 .. Attempts + 1
      BY StreamAssumption DEF PcSet
    <2> QED BY <1>1, <1>3, <2>1, AtType
  <1>5. Become(c, l)
    BY <1>3 DEF CreateGroup
  <1>6. /\ consumer'[c] = l /\ consumer' \in [Consumer -> Loop]
        /\ \A d \in Consumer : d # c => consumer'[d] = consumer[d]
    BY <1>1, <1>4, <1>5, Becoming
  <1>7. /\ Batch(c)' = {} /\ LoopOK(c)'
    BY <1>2, <1>4, <1>6 DEF Batch, LoopOK, Pc, Current, Idle
  <1>8. \A d \in Consumer : d # c =>
          /\ Pc(d)' = Pc(d) /\ Current(d)' = Current(d) /\ Batch(d)' = Batch(d)
          /\ consumer'[d].last = consumer[d].last
          /\ consumer'[d].attempt = consumer[d].attempt
    BY <1>6 DEF Pc, Current, Batch
  <1>9. Batch(c) = {}
    <2>1. Current(c) > consumer[c].last
      BY <1>1 DEF LoopOK
    <2> QED BY <1>1, <2>1, LoopFields DEF Batch, Current
  <1>10. TypeOK'
    BY <1>1, <1>2, <1>6, StreamAssumption DEF TypeOK
  <1>11. \A d \in Consumer : LoopOK(d)'
    <2>1. \A d \in Consumer : Pc(d) \notin Idle => group
      BY DEF StreamInv, LoopOK
    <2> QED BY <1>2, <1>7, <1>8, <2>1 DEF StreamInv, LoopOK, CurrentOK, Untouched
  <1>12. \A f \in Entry : EntryOK(f)'
    <2>1. CASE group
      BY <1>2, <2>1 DEF StreamInv, EntryOK, Untouched
    <2>2. CASE ~group
      <3>1. /\ start .. cursor = {start} /\ start + 1 .. cursor = {}
            /\ start' + 1 .. cursor' = {}
        BY <1>1, <1>2, <2>2 DEF StreamInv, TypeOK
      <3> QED BY <1>2, <3>1 DEF StreamInv, EntryOK, Untouched
    <2> QED BY <2>1, <2>2
  <1>13. Held' /\ OneHolder'
    BY <1>2, <1>7, <1>8, <1>9 DEF StreamInv, Held, OneHolder
  <1> QED BY <1>2, <1>10, <1>11, <1>12, <1>13 DEF StreamInv

LEMMA ReadStep ==
    ASSUME StreamInv, NEW c \in Consumer, Read(c)
    PROVE  StreamInv'
  <1>1. TypeOK /\ LoopOK(c) /\ consumer \in [Consumer -> Loop] /\ Pc(c) \in Idle
    BY DEF StreamInv, TypeOK, Read, Idle
  <1>2. PICK last : last = IF published > cursor + ReadCount
                           THEN cursor + ReadCount ELSE published
    OBVIOUS
  <1>3. /\ UNCHANGED <<published, malformed, group, start, dlq, runs, handled, faults, stops>>
        /\ cursor' = last /\ pel' = pel \cup (cursor + 1 .. last)
        /\ Become(c, Turn(c, cursor + 1, last))
        /\ cursor < published
    BY <1>2 DEF Read, CursorAfter, stream, history, bounds
  <1>4. /\ cursor \in Nat /\ start \in Nat /\ published \in Nat /\ MaxEvent \in Nat
        /\ published <= MaxEvent /\ start <= cursor
        /\ last \in Nat /\ cursor < last /\ last <= published
    BY <1>1, <1>2, <1>3, LoopFields DEF TypeOK
  <1>5. PICK l : l = Turn(c, cursor + 1, last)
    OBVIOUS
  <1>6. /\ l \in Loop /\ l.next = cursor + 1 /\ l.last = last /\ l.attempt = 1
        /\ l.pc = IF cursor + 1 \in malformed THEN "drop" ELSE "handle"
    <2>1. cursor + 1 \in 1 .. MaxEvent + 1 /\ last \in 0 .. MaxEvent /\ ~(cursor + 1 > last)
      BY <1>4
    <2> QED BY <1>1, <1>5, <2>1, TurnType
  <1>7. /\ consumer'[c] = l /\ consumer' \in [Consumer -> Loop]
        /\ \A d \in Consumer : d # c => consumer'[d] = consumer[d]
    BY <1>1, <1>3, <1>5, <1>6, Becoming
  <1>8. /\ Current(c)' = cursor + 1 /\ consumer'[c].last = last
        /\ consumer'[c].attempt = 1 /\ Pc(c)' = l.pc
        /\ Batch(c)' = cursor + 1 .. last
    BY <1>6, <1>7 DEF Pc, Current, Batch
  <1>9. \A d \in Consumer : d # c =>
          /\ Pc(d)' = Pc(d) /\ Current(d)' = Current(d) /\ Batch(d)' = Batch(d)
          /\ consumer'[d].last = consumer[d].last
          /\ consumer'[d].attempt = consumer[d].attempt
    BY <1>7 DEF Pc, Current, Batch
  <1>10. TypeOK'
    <2>1. cursor' \in start' .. published'
      BY <1>3, <1>4
    <2>2. pel' \in SUBSET Entry
      BY <1>1, <1>3, <1>4 DEF TypeOK, Entry
    <2> QED BY <1>1, <1>3, <1>7, <2>1, <2>2 DEF TypeOK
  <1>11. group
    BY <1>1 DEF LoopOK, Read
  <1>12. \A e \in Entry : cursor < e => e \notin pel /\ Untouched(e)
    BY <1>4 DEF StreamInv, EntryOK, Entry
  <1>13. \A d \in Consumer : d # c => LoopOK(d)'
    <2>1. ASSUME NEW d \in Consumer, d # c, Pc(d) \notin Idle
          PROVE  LoopOK(d)'
      <3>1. /\ LoopOK(d) /\ consumer[d].last <= cursor /\ consumer[d].last \in Nat
            /\ CurrentOK(d)
        BY <1>1, <2>1, LoopFields DEF StreamInv, LoopOK
      <3>2. consumer[d].last <= cursor'
        BY <1>3, <1>4, <3>1
      <3>3. CurrentOK(d)'
        BY <1>3, <1>9, <2>1, <3>1 DEF CurrentOK, Untouched
      <3> QED BY <1>3, <1>9, <2>1, <3>1, <3>2, <3>3 DEF LoopOK, Untouched
    <2>2. ASSUME NEW d \in Consumer, d # c, Pc(d) \in Idle
          PROVE  LoopOK(d)'
      BY <1>3, <1>9, <2>2 DEF StreamInv, LoopOK
    <2> QED BY <2>1, <2>2
  <1>14. LoopOK(c)'
    <2>1. \A f \in cursor + 1 .. last : f \in Entry /\ f \in pel' /\ Untouched(f) /\ Untouched(f)'
      BY <1>3, <1>4, <1>12 DEF Entry, Untouched
    <2>2. cursor + 1 \in cursor + 1 .. last /\ Attempts > 0
      BY <1>1, <1>4, LoopFields
    <2>3. CurrentOK(c)'
      BY <1>1, <1>3, <1>6, <1>8, <2>1, <2>2, LoopFields DEF CurrentOK, Untouched
    <2>4. start < cursor + 1 /\ cursor + 1 <= last /\ last <= cursor'
      BY <1>3, <1>4
    <2> QED BY <1>3, <1>6, <1>8, <1>11, <2>1, <2>3, <2>4 DEF LoopOK, Idle
  <1>15. OneHolder'
    <2>1. \A d \in Consumer : d # c => Batch(d) \cap (cursor + 1 .. last) = {}
      <3> SUFFICES ASSUME NEW d \in Consumer, d # c
                   PROVE  Batch(d) \cap (cursor + 1 .. last) = {}
        OBVIOUS
      <3>1. LoopOK(d) /\ Current(d) \in Nat /\ consumer[d].last \in Nat
        BY <1>1, LoopFields DEF StreamInv
      <3>2. Current(d) > consumer[d].last \/ consumer[d].last <= cursor
        BY <3>1 DEF LoopOK
      <3> QED BY <1>4, <3>1, <3>2 DEF Batch, Current
    <2> QED BY <1>8, <1>9, <2>1, ZenonT(60) DEF StreamInv, OneHolder
  <1>16. \A f \in Entry : EntryOK(f)'
    <2> SUFFICES ASSUME NEW f \in Entry PROVE EntryOK(f)'
      OBVIOUS
    <2>1. f \in Nat /\ EntryOK(f)
      BY DEF StreamInv, Entry
    <2>2. f \in start .. cursor => f \in start' .. cursor'
      BY <1>3, <1>4
    <2>3. f \in start' + 1 .. cursor' <=> f \in start + 1 .. cursor \/ f \in cursor + 1 .. last
      BY <1>3, <1>4, <2>1
    <2> QED BY <1>3, <2>1, <2>3 DEF EntryOK, Untouched
  <1>17. Held'
    <2>1. Batch(c) = {}
      BY <1>1, LoopFields DEF LoopOK, Batch, Current
    <2> QED BY <1>3, <1>8, <1>9, <2>1 DEF StreamInv, Held
  <1> QED BY <1>3, <1>10, <1>11, <1>13, <1>14, <1>15, <1>16, <1>17 DEF StreamInv

(***************************************************************************)
(* The invariant                                                           *)
(***************************************************************************)

LEMMA StreamInit == Init => StreamInv
  <1> SUFFICES ASSUME Init PROVE StreamInv
    OBVIOUS
  <1>1. \A c \in Consumer : Pc(c) = "down" /\ Current(c) = 1 /\ consumer[c].last = 0
    BY DownType DEF Init, Pc, Current
  <1>2. \A c \in Consumer : Batch(c) = {} /\ LoopOK(c)
    BY <1>1 DEF Batch, LoopOK, Current, Idle
  <1>3. TypeOK
    <2>1. consumer \in [Consumer -> Loop]
      BY DownType, Zenon DEF Init
    <2>2. 0 \in 0 .. MaxEvent /\ 0 \in 0 .. MaxFaults /\ 0 \in 0 .. MaxStops /\ 0 \in 0 .. 0
      BY StreamAssumption
    <2>3. /\ dlq \in [Entry -> Nat] /\ runs \in [Entry -> Nat]
          /\ handled \in [Entry -> Nat]
      BY DEF Init
    <2> QED BY <2>1, <2>2, <2>3 DEF Init, TypeOK
  <1>4. \A e \in Entry : EntryOK(e)
    BY StreamAssumption DEF Init, EntryOK, Untouched, Entry
  <1>5. OneHolder /\ Held /\ (~group => cursor = start)
    BY <1>2 DEF Init, OneHolder, Held
  <1> QED BY <1>2, <1>3, <1>4, <1>5 DEF StreamInv

LEMMA StreamStep == StreamInv /\ [Next]_vars => StreamInv'
  <1> SUFFICES ASSUME StreamInv, [Next]_vars PROVE StreamInv'
    OBVIOUS
  <1>1. CASE Publish
    BY <1>1, PublishStep
  <1>2. ASSUME NEW c \in Consumer, Work(c) \/ Stop(c) \/ AckFails(c) \/ Die(c)
        PROVE  StreamInv'
    BY <1>2, CreateGroupStep, ReadStep, IdleStep, AdvanceStep, HandlerStep,
       AckFailsStep, DeadLetterStep DEF Work
  <1>3. CASE UNCHANGED vars
    BY <1>3 DEF StreamInv, TypeOK, OneHolder, Held, LoopOK, CurrentOK, EntryOK,
                Untouched, Pc, Current, Batch, vars
  <1> QED BY <1>1, <1>2, <1>3 DEF Next

(* What every loop knows of its batch, and every entry of its history,     *)
(* holds whatever interleaves: StreamInv is inductive.                     *)
THEOREM StreamInvariant == Spec => []StreamInv
  BY StreamInit, StreamStep, PTL DEF Spec

(***************************************************************************)
(* Its consequences, for every number of consumers, attempts and faults    *)
(***************************************************************************)

(* The variables of the bus keep their types: cursors only between the     *)
(* group's start and the stream's end, attempts only up to the limit.      *)
THEOREM StreamTypes == Spec => []TypeOK
  BY StreamInvariant, PTL DEF StreamInv

(* XREADGROUP hands an entry to one consumer: two loops of the group never *)
(* work the same entry, although a crashed loop's batch stays pending.     *)
THEOREM CompetingConsumers == Spec => []OneHolder
  BY StreamInvariant, PTL DEF StreamInv

(* An acknowledged entry was handled, dead-lettered or unreadable.         *)
THEOREM AcknowledgedIsAnswered == Spec => []SettledIsAnswered
  <1>1. StreamInv => SettledIsAnswered
    <2> SUFFICES ASSUME StreamInv, NEW e \in Delivered \ (pel \cup malformed)
                 PROVE  handled[e] > 0 \/ dlq[e] > 0
      BY DEF SettledIsAnswered
    <2>1. e \in start + 1 .. cursor /\ e \in Entry
      BY StreamAssumption DEF Delivered, StreamInv, TypeOK, Entry
    <2> QED BY <2>1 DEF StreamInv, EntryOK
  <1> QED BY <1>1, StreamInvariant, PTL

(* deadLetterAfterAttempts bounds the handler's runs, and an entry reaches *)
(* the dead-letter stream once, after the last of them.                    *)
THEOREM AttemptsBounded == Spec => []AttemptsAreBounded
  <1>1. StreamInv => AttemptsAreBounded
    BY DEF StreamInv, EntryOK, AttemptsAreBounded
  <1> QED BY <1>1, StreamInvariant, PTL

(* Until a process crashes or a command fails, every pending entry is in   *)
(* the batch of a loop: stopping a loop lets it finish its batch.          *)
THEOREM NoneStranded == Spec => []NothingStranded
  <1>1. StreamInv => NothingStranded
    <2> SUFFICES ASSUME StreamInv, faults = 0
                 PROVE  pel = UNION {Batch(c) : c \in Consumer}
      BY DEF NothingStranded
    <2>1. \A c \in Consumer : Batch(c) \subseteq Entry
      <3> SUFFICES ASSUME NEW c \in Consumer PROVE Batch(c) \subseteq Entry
        OBVIOUS
      <3>1. TypeOK /\ LoopOK(c)
        BY DEF StreamInv
      <3>2. CASE Pc(c) \in Idle
        <4>1. Current(c) > consumer[c].last /\ Current(c) \in Nat /\ consumer[c].last \in Nat
          BY <3>1, <3>2, LoopFields DEF LoopOK
        <4> QED BY <4>1 DEF Batch, Current
      <3>3. CASE Pc(c) \notin Idle
        BY <3>1, <3>3, AtEntry
      <3> QED BY <3>2, <3>3
    <2>2. pel \subseteq Entry
      BY DEF StreamInv, TypeOK
    <2>3. \A e \in Entry : e \in pel <=> \E c \in Consumer : e \in Batch(c)
      BY DEF StreamInv, Held
    <2> QED BY <2>1, <2>2, <2>3, Zenon
  <1> QED BY <1>1, StreamInvariant, PTL

(* Until then no entry is handled twice, or both handled and dead-lettered. *)
THEOREM ExactlyOnceAtMost == Spec => []OnceWithoutFaults
  <1>1. StreamInv => OnceWithoutFaults
    BY DEF StreamInv, EntryOK, OnceWithoutFaults
  <1> QED BY <1>1, StreamInvariant, PTL

(***************************************************************************)
(* The port                                                                *)
(***************************************************************************)

(* Only one loop can be about to try an entry again. *)
LEMMA NobodyElse ==
    ASSUME StreamInv, NEW c \in Consumer, Pc(c) \notin Idle,
           NEW d \in Consumer, d # c
    PROVE  ~(Pc(d) \in {"handle", "dead"} /\ Current(d) = Current(c))
  <1> SUFFICES ASSUME Pc(d) \in {"handle", "dead"}, Current(d) = Current(c)
               PROVE  FALSE
    OBVIOUS
  <1>1. TypeOK /\ LoopOK(c) /\ LoopOK(d) /\ Pc(d) \notin Idle
    BY DEF StreamInv, Idle
  <1>2. Current(c) \in Batch(c) /\ Current(c) \in Batch(d)
    BY <1>1, AtEntry
  <1> QED BY <1>2 DEF StreamInv, OneHolder

(* A step of loop c leaves alone who tries the entries c is not trying.    *)
LEMMA RetriedKept ==
    ASSUME NEW c \in Consumer, NEW e \in Entry,
           \A d \in Consumer : d # c => consumer'[d] = consumer[d],
           ~(Pc(c) \in {"handle", "dead"} /\ Current(c) = e),
           ~(Pc(c)' \in {"handle", "dead"} /\ Current(c)' = e)
    PROVE  Retried(e)' <=> Retried(e)
  BY DEF Retried, Pc, Current

(* A step that leaves what is recorded of an entry alone leaves its fate.  *)
LEMMA FateKept ==
    ASSUME StreamInv, StreamInv', NEW e \in Entry,
           UNCHANGED <<published, malformed, group, start, cursor>>,
           handled'[e] = handled[e], dlq'[e] = dlq[e],
           e \in pel' <=> e \in pel,
           handled[e] > 0 => (Retried(e)' <=> Retried(e))
    PROVE  Fate(e)' = Fate(e)
  <1>1. CASE handled[e] > 0
    BY <1>1 DEF Fate
  <1>2. CASE ~(handled[e] > 0)
    <2>1. ~(handled'[e] > 0)
      BY <1>2
    <2> QED BY <1>2, <2>1 DEF Fate
  <1> QED BY <1>1, <1>2

(* One step of the port: at most one entry is settled that was due or in   *)
(* doubt.                                                                  *)
LEMMA PortSettles ==
    ASSUME NEW x \in Entry, group' = group, faults' = faults,
           \A e \in Entry : e # x => Fate(e)' = Fate(e),
           \/ Fate(x)' = Fate(x)
           \/ Fate(x) = "due" /\ Fate(x)' \in Port!Settled
           \/ Fate(x) = "doubted" /\ Fate(x)' \in {"handled", "both"}
    PROVE  Port!Next \/ UNCHANGED Port!delivery
  <1> DEFINE fates == [e \in Entry |-> Fate(e)]
             fatesAfter == [e \in Entry |-> Fate(e)']
  <1>1. CASE Fate(x)' = Fate(x)
    <2>1. fatesAfter = fates
      BY <1>1
    <2> QED BY <2>1 DEF Port!delivery
  <1>2. CASE Fate(x) = "due" /\ Fate(x)' \in Port!Settled
    <2>1. fatesAfter = [fates EXCEPT ![x] = Fate(x)'] /\ fates[x] = "due"
      BY <1>2
    <2>2. Port!Settle(x)
      BY <1>2, <2>1 DEF Port!Settle
    <2> QED BY <2>2 DEF Port!Next
  <1>3. CASE Fate(x) = "doubted" /\ Fate(x)' \in {"handled", "both"}
    <2>1. fatesAfter = [fates EXCEPT ![x] = Fate(x)'] /\ fates[x] = "doubted"
      BY <1>3
    <2>2. Port!Repeat(x)
      BY <1>3, <2>1 DEF Port!Repeat
    <2> QED BY <2>2 DEF Port!Next
  <1> QED BY <1>1, <1>2, <1>3

(* A fault: at most one handled entry is put in doubt, or left as it was.  *)
LEMMA PortMishap ==
    ASSUME NEW x \in Entry, group' = group, faults' = faults + 1,
           \A e \in Entry : e # x => Fate(e)' = Fate(e),
           \/ Fate(x)' = Fate(x)
           \/ Fate(x) = "handled" /\ Fate(x)' = "doubted"
           \/ Fate(x) = "doubted" /\ Fate(x)' = "handled"
    PROVE  Port!Next
  <1> DEFINE fates == [e \in Entry |-> Fate(e)]
             fatesAfter == [e \in Entry |-> Fate(e)']
  <1>1. CASE Fate(x)' = Fate(x)
    <2>1. fatesAfter = fates
      BY <1>1
    <2>2. Port!Mishap
      BY <2>1 DEF Port!Mishap
    <2> QED BY <2>2 DEF Port!Next
  <1>2. CASE Fate(x)' # Fate(x)
    <2>1. fatesAfter = [fates EXCEPT ![x] = Fate(x)'] /\ fates[x] = Fate(x)
      OBVIOUS
    <2>2. \/ fates[x] = "handled" /\ fatesAfter = [fates EXCEPT ![x] = "doubted"]
          \/ fates[x] = "doubted" /\ fatesAfter = [fates EXCEPT ![x] = "handled"]
      <3>1. CASE Fate(x) = "handled" /\ Fate(x)' = "doubted"
        BY <2>1, <3>1
      <3>2. CASE Fate(x) = "doubted" /\ Fate(x)' = "handled"
        BY <2>1, <3>2
      <3> QED BY <1>2, <3>1, <3>2
    <2>3. Port!Mishap
      BY <2>2, Zenon DEF Port!Mishap
    <2> QED BY <2>3 DEF Port!Next
  <1> QED BY <1>1, <1>2

LEMMA PortUnmoved ==
    ASSUME group' = group, faults' = faults, \A e \in Entry : Fate(e)' = Fate(e)
    PROVE  UNCHANGED Port!delivery
  <1>1. [e \in Entry |-> Fate(e)'] = [e \in Entry |-> Fate(e)]
    OBVIOUS
  <1> QED BY <1>1 DEF Port!delivery

LEMMA PublishIsPublish ==
    ASSUME StreamInv, StreamInv', Publish
    PROVE  Port!Next
  <1> DEFINE fates == [e \in Entry |-> Fate(e)]
             fatesAfter == [e \in Entry |-> Fate(e)']
  <1>0. PICK x \in Entry : x = published + 1
    BY StreamAssumption DEF StreamInv, TypeOK, Publish, Entry
  <1>1. /\ published \in Nat /\ cursor \in Nat /\ start \in Nat
        /\ start <= cursor /\ cursor <= published
        /\ published' = x /\ x \in Nat /\ x > published
        /\ malformed' \in {malformed, malformed \cup {x}}
        /\ UNCHANGED <<group, start, cursor, pel, dlq, handled, consumer, faults>>
    BY <1>0, StreamAssumption DEF StreamInv, TypeOK, Publish, Entry, history, bounds
  <1>2. ASSUME NEW e \in Entry, e # x PROVE Fate(e)' = Fate(e)
    <2>1. e \in Nat /\ (e \in malformed' <=> e \in malformed)
      BY <1>1, <1>2, EntryNat
    <2>2. e > published' <=> e > published
      BY <1>0, <1>1, <1>2, <2>1
    <2>3. /\ UNCHANGED <<group, start, cursor, pel, dlq, handled>>
          /\ Retried(e)' <=> Retried(e)
      BY <1>1 DEF Retried, Pc, Current
    <2>4. CASE e > published
      <3>1. Fate(e) = "absent"
        BY <2>4 DEF Fate
      <3>2. Fate(e)' = "absent"
        BY <2>2, <2>4 DEF Fate
      <3> QED BY <3>1, <3>2
    <2>5. CASE ~(e > published) /\ e \in malformed
      <3>1. ~(e > published') /\ e \in malformed'
        BY <2>1, <2>2, <2>5
      <3> QED BY <2>3, <2>5, <3>1 DEF Fate
    <2>6. CASE ~(e > published) /\ e \notin malformed
      <3>1. ~(e > published') /\ e \notin malformed'
        BY <2>1, <2>2, <2>6
      <3> QED BY <2>3, <2>6, <3>1 DEF Fate
    <2> QED BY <2>4, <2>5, <2>6
  <1>3. Fate(x) = "absent"
    BY <1>1 DEF Fate
  <1>4. x > cursor /\ x > start /\ handled[x] = 0 /\ dlq[x] = 0
    BY <1>1 DEF StreamInv, EntryOK, Untouched
  <1>5. Fate(x)' = IF group THEN "due" ELSE "missed"
    <2>1. handled'[x] = 0 /\ dlq'[x] = 0 /\ ~(x <= cursor') /\ ~(x <= start')
      BY <1>1, <1>4
    <2>2. ~(x > published')
      BY <1>1
    <2>3. group' = group
      BY <1>1
    <2> QED BY <1>1, <2>1, <2>2, <2>3 DEF Fate
  <1>6. fatesAfter = [fates EXCEPT ![x] = IF group THEN "due" ELSE "missed"]
        /\ fates[x] = "absent"
    BY <1>1, <1>2, <1>3, <1>5
  <1>7. Port!Publish(x)
    BY <1>1, <1>6 DEF Port!Publish
  <1> QED BY <1>1, <1>7 DEF Port!Next

LEMMA CreateIsSubscribe ==
    ASSUME StreamInv, StreamInv', NEW c \in Consumer, CreateGroup(c)
    PROVE  Port!Next \/ UNCHANGED Port!delivery
  <1>1. UNCHANGED <<published, malformed, pel, dlq, handled, faults>>
    BY DEF CreateGroup, stream, history, bounds
  <1>2. CASE group
    <2>1. UNCHANGED <<group, start, cursor>>
      BY <1>2 DEF CreateGroup
    <2>2. \A e \in Entry : Retried(e)' <=> Retried(e)
      <3>1. TypeOK /\ consumer \in [Consumer -> Loop]
        BY DEF StreamInv, TypeOK
      <3>2. Become(c, At(c, "read", 1, 0, 1)) /\ At(c, "read", 1, 0, 1).pc = "read"
        BY DEF CreateGroup, At
      <3>3. /\ \A d \in Consumer : d # c => consumer'[d] = consumer[d]
            /\ Pc(c) = "create" /\ Pc(c)' = "read"
        BY <3>1, <3>2, Becoming DEF CreateGroup, Pc
      <3> QED BY <3>3, RetriedKept
    <2>3. \A e \in Entry : Fate(e)' = Fate(e)
      BY <1>1, <2>1, <2>2, FateKept
    <2> QED BY <1>1, <2>1, <2>3, PortUnmoved
  <1>3. CASE ~group
    <2>1. group' = TRUE /\ start' = published
      BY <1>3 DEF CreateGroup
    <2>2. ASSUME NEW e \in Entry PROVE Fate(e)' = Fate(e)
      <3>1. e \in Nat /\ published \in Nat
        BY EntryNat, StreamAssumption DEF StreamInv, TypeOK
      <3>2. Fate(e) = IF e > published THEN "absent" ELSE "missed"
        BY <1>3 DEF Fate
      <3>3. Fate(e)' = IF e > published' THEN "absent" ELSE "missed"
        BY <1>1, <2>1, <3>1 DEF Fate
      <3> QED BY <1>1, <3>2, <3>3
    <2>3. [e \in Entry |-> Fate(e)'] = [e \in Entry |-> Fate(e)]
      BY <2>2
    <2>4. Port!Subscribe
      BY <1>1, <1>3, <2>1, <2>3 DEF Port!Subscribe
    <2> QED BY <2>4 DEF Port!Next
  <1> QED BY <1>2, <1>3

LEMMA ReadBecomes ==
    ASSUME StreamInv, NEW c \in Consumer, Read(c)
    PROVE  /\ \A d \in Consumer : d # c => consumer'[d] = consumer[d]
           /\ Pc(c) = "read" /\ Current(c)' = cursor + 1
  <1>1. TypeOK /\ consumer \in [Consumer -> Loop]
    BY DEF StreamInv, TypeOK
  <1>2. PICK last : Become(c, Turn(c, cursor + 1, last))
    BY DEF Read
  <1>3. Turn(c, cursor + 1, last).next = cursor + 1
    BY DEF Turn, At
  <1>4. /\ consumer'[c] = Turn(c, cursor + 1, last)
        /\ \A d \in Consumer : d # c => consumer'[d] = consumer[d]
    BY <1>1, <1>2, Becoming
  <1> QED BY <1>3, <1>4 DEF Read, Pc, Current

(* What a read delivers was due, and nothing has happened to it yet.       *)
LEMMA ReadIsUnseen ==
    ASSUME StreamInv, StreamInv', NEW c \in Consumer, Read(c)
    PROVE  UNCHANGED Port!delivery
  <1>1. /\ UNCHANGED <<published, malformed, group, start, dlq, handled, faults>>
        /\ pel \subseteq pel'
        /\ \A e \in pel' : e \in pel \/ e \in cursor + 1 .. cursor'
        /\ \A e \in cursor + 1 .. cursor' : e \in pel'
    BY DEF Read, CursorAfter, stream, history, bounds
  <1>2. cursor \in Nat /\ cursor' \in Nat /\ cursor <= cursor'
    <2>1. cursor \in Nat /\ published \in Nat /\ ReadCount \in Nat
      BY StreamAssumption DEF StreamInv, TypeOK
    <2> QED BY <2>1 DEF Read, CursorAfter
  <1>3. ASSUME NEW e \in Entry PROVE Fate(e)' = Fate(e)
    <2>1. e \in Nat
      BY EntryNat
    <2>2. (e \notin pel' /\ e <= cursor') <=> (e \notin pel /\ e <= cursor)
      BY <1>1, <1>2, <2>1
    <2>3. CASE handled[e] > 0
      <3>1. e \in start + 1 .. cursor /\ (e \in pel' <=> e \in pel)
        BY <1>2, <2>1, <2>2, <2>3 DEF StreamInv, EntryOK, Untouched
      <3>2. /\ \A d \in Consumer : d # c => consumer'[d] = consumer[d]
            /\ Pc(c) = "read" /\ Current(c)' = cursor + 1
        BY ReadBecomes
      <3>3. Retried(e)' <=> Retried(e)
        BY <1>2, <2>1, <3>1, <3>2, RetriedKept DEF StreamInv, TypeOK
      <3> QED BY <1>1, <2>3, <3>3 DEF Fate
    <2>4. CASE ~(handled[e] > 0)
      <3>1. ~(handled'[e] > 0)
        BY <1>1, <2>4
      <3> QED BY <1>1, <2>2, <2>4, <3>1 DEF Fate
    <2> QED BY <2>3, <2>4
  <1> QED BY <1>1, <1>3, PortUnmoved

(* Where a step of loop c within its batch leaves it. *)
LEMMA EntryMoves ==
    ASSUME StreamInv, NEW c \in Consumer
    PROVE  /\ Succeed(c) => Pc(c)' = "ack" /\ Current(c)' = Current(c)
           /\ Reject(c) \/ AckFails(c)
              => Pc(c)' \in {"handle", "dead"} /\ Current(c)' = Current(c)
           /\ DeadLetter(c) => Pc(c)' = "deadAck" /\ Current(c)' = Current(c)
           /\ Drop(c) \/ Ack(c) \/ DeadAck(c)
              => /\ Current(c)' = Current(c) + 1
                 /\ consumer'[c].last = consumer[c].last
           /\ Die(c) => Pc(c)' = "down"
           /\ Succeed(c) \/ Reject(c) \/ AckFails(c) \/ DeadLetter(c) \/ Drop(c)
                \/ Ack(c) \/ DeadAck(c) \/ Die(c)
              => \A d \in Consumer : d # c => consumer'[d] = consumer[d]
  <1>1. consumer \in [Consumer -> Loop]
    BY DEF StreamInv, TypeOK
  <1>2. ASSUME NEW l, Become(c, l)
        PROVE  /\ consumer'[c] = l
               /\ \A d \in Consumer : d # c => consumer'[d] = consumer[d]
    BY <1>1, <1>2, Becoming
  <1>3. ASSUME Succeed(c) PROVE Pc(c)' = "ack" /\ Current(c)' = Current(c)
    <2>1. Become(c, At(c, "ack", Current(c), consumer[c].last, consumer[c].attempt))
      BY <1>3 DEF Succeed
    <2> QED BY <1>2, <2>1 DEF At, Pc, Current
  <1>4. ASSUME Reject(c) \/ AckFails(c)
        PROVE  Pc(c)' \in {"handle", "dead"} /\ Current(c)' = Current(c)
    <2>1. Become(c, NextAttempt(c))
      BY <1>4 DEF Reject, AckFails
    <2>2. NextAttempt(c).pc \in {"handle", "dead"} /\ NextAttempt(c).next = Current(c)
      BY DEF NextAttempt, At
    <2> QED BY <1>2, <2>1, <2>2 DEF Pc, Current
  <1>5. ASSUME DeadLetter(c) PROVE Pc(c)' = "deadAck" /\ Current(c)' = Current(c)
    <2>1. Become(c, At(c, "deadAck", Current(c), consumer[c].last, consumer[c].attempt))
      BY <1>5 DEF DeadLetter
    <2> QED BY <1>2, <2>1 DEF At, Pc, Current
  <1>6. ASSUME Drop(c) \/ Ack(c) \/ DeadAck(c)
        PROVE  /\ Current(c)' = Current(c) + 1
               /\ consumer'[c].last = consumer[c].last
    <2>1. Become(c, Turn(c, Current(c) + 1, consumer[c].last))
      BY <1>6 DEF Drop, Ack, DeadAck, Advance
    <2> QED BY <1>2, <2>1 DEF Turn, At, Current
  <1>7. ASSUME Die(c) PROVE Pc(c)' = "down"
    BY <1>2, <1>7 DEF Die, Down, Pc
  <1>8. ASSUME \/ Succeed(c) \/ Reject(c) \/ AckFails(c) \/ DeadLetter(c) \/ Drop(c)
               \/ Ack(c) \/ DeadAck(c) \/ Die(c)
        PROVE  \A d \in Consumer : d # c => consumer'[d] = consumer[d]
    <2>1. \E l : Become(c, l)
      BY <1>8, Zenon DEF Succeed, Reject, AckFails, DeadLetter, Drop, Ack, DeadAck, Die, Advance
    <2> QED BY <1>2, <2>1
  <1> QED BY <1>3, <1>4, <1>5, <1>6, <1>7, <1>8

(* A loop at an entry is the only one to change what is recorded of it.    *)
LEMMA EntryStep ==
    ASSUME StreamInv, StreamInv', NEW c \in Consumer, Pc(c) \notin Idle,
           \/ Drop(c) \/ Succeed(c) \/ Reject(c) \/ Ack(c) \/ AckFails(c)
           \/ DeadLetter(c) \/ DeadAck(c) \/ Die(c)
    PROVE  Port!Next \/ UNCHANGED Port!delivery
  <1>0. PICK x : x = Current(c)
    OBVIOUS
  <1>2. LoopOK(c) /\ CurrentOK(c) /\ group
    BY DEF StreamInv, LoopOK
  <1>3. /\ x \in Entry /\ x \in Nat /\ start < x /\ x <= cursor /\ x <= published
        /\ cursor \in Nat /\ published \in Nat /\ start \in Nat /\ faults \in Nat
    <2>1. TypeOK
      BY DEF StreamInv
    <2>2. x \in 1 .. MaxEvent + 1 /\ consumer[c].last \in 0 .. MaxEvent
      BY <1>0, <2>1, LoopFields
    <2>3. cursor \in Nat /\ published \in 0 .. MaxEvent /\ start \in Nat /\ cursor <= published
          /\ faults \in Nat
      BY StreamAssumption DEF StreamInv, TypeOK
    <2>4. start < x /\ x <= consumer[c].last /\ consumer[c].last <= cursor
      BY <1>0, <1>2 DEF LoopOK
    <2>5. x \in Nat /\ x <= cursor /\ x <= published /\ x >= 1 /\ x <= MaxEvent
      BY <2>2, <2>3, <2>4, StreamAssumption
    <2> QED BY <2>3, <2>4, <2>5, StreamAssumption DEF Entry
  <1>4. handled[x] \in Nat /\ dlq[x] \in Nat
    BY <1>3 DEF StreamInv, TypeOK
  <1>5. /\ UNCHANGED <<published, malformed, group, start, cursor>>
        /\ \A e \in Entry : e # x =>
              handled'[e] = handled[e] /\ dlq'[e] = dlq[e] /\ (e \in pel' <=> e \in pel)
    <2>1. handled \in [Entry -> Nat] /\ dlq \in [Entry -> Nat]
      BY DEF StreamInv, TypeOK
    <2> QED BY <1>0, <2>1
         DEF Drop, Succeed, Reject, Ack, AckFails, DeadLetter, DeadAck, Die, stream, history
  <1>6. \A d \in Consumer : d # c => consumer'[d] = consumer[d]
    BY EntryMoves
  <1>7. ASSUME NEW e \in Entry, e # x PROVE Fate(e)' = Fate(e)
    <2>1. ASSUME handled[e] > 0, Pc(c)' \in {"handle", "dead"}, Current(c)' = e
          PROVE  FALSE
      <3>1. /\ Current(c)' = Current(c) + 1 /\ consumer'[c].last = consumer[c].last
        BY <1>0, <1>7, <2>1, EntryMoves
      <3>2. LoopOK(c)' /\ Pc(c)' \notin Idle
        BY <2>1 DEF StreamInv, Idle
      <3>3. e <= consumer[c].last
        BY <2>1, <3>1, <3>2 DEF LoopOK
      <3>4. e \in Batch(c)
        BY <1>0, <1>3, <2>1, <3>1, <3>3, EntryNat DEF Batch, Current, StreamInv, TypeOK, Loop
      <3>5. Untouched(e)
        BY <1>0, <1>2, <1>7, <3>4 DEF LoopOK
      <3> QED BY <2>1, <3>5 DEF Untouched
    <2>2. handled[e] > 0 => (Retried(e)' <=> Retried(e))
      BY <1>0, <1>6, <1>7, <2>1, RetriedKept
    <2> QED BY <1>5, <1>7, <2>2, FateKept
  <1>8. /\ Retried(x) <=> Pc(c) \in {"handle", "dead"}
        /\ Retried(x)' <=> (Pc(c)' \in {"handle", "dead"} /\ Current(c)' = x)
    <2>1. \A d \in Consumer : d # c => ~(Pc(d) \in {"handle", "dead"} /\ Current(d) = x)
      BY <1>0, NobodyElse
    <2>2. \A d \in Consumer : d # c => ~(Pc(d)' \in {"handle", "dead"} /\ Current(d)' = x)
      BY <1>6, <2>1 DEF Pc, Current
    <2> QED BY <1>0, <2>1, <2>2 DEF Retried
  <1>9. /\ Fate(x) = IF handled[x] > 0
                     THEN IF dlq[x] > 0 THEN "both" ELSE IF Retried(x) THEN "doubted" ELSE "handled"
                     ELSE IF dlq[x] > 0 THEN "dead"
                     ELSE IF x \in malformed /\ x \notin pel THEN "dropped" ELSE "due"
        /\ Fate(x)' = IF handled'[x] > 0
                      THEN IF dlq'[x] > 0 THEN "both" ELSE IF Retried(x)' THEN "doubted" ELSE "handled"
                      ELSE IF dlq'[x] > 0 THEN "dead"
                      ELSE IF x \in malformed /\ x \notin pel' THEN "dropped" ELSE "due"
    <2>1. ~(x > published) /\ ~(x <= start)
      BY <1>3
    <2>2. ~(x > published') /\ ~(x <= start') /\ group' /\ x <= cursor' /\ malformed' = malformed
      BY <1>2, <1>3, <1>5
    <2>3. /\ Fate(x) = IF handled[x] > 0
                     THEN IF dlq[x] > 0 THEN "both" ELSE IF Retried(x) THEN "doubted" ELSE "handled"
                     ELSE IF dlq[x] > 0 THEN "dead"
                     ELSE IF x \in malformed /\ x \notin pel THEN "dropped" ELSE "due"
      BY <1>2, <1>3, <2>1 DEF Fate
    <2>4. Fate(x)' = IF handled'[x] > 0
                      THEN IF dlq'[x] > 0 THEN "both" ELSE IF Retried(x)' THEN "doubted" ELSE "handled"
                      ELSE IF dlq'[x] > 0 THEN "dead"
                      ELSE IF x \in malformed /\ x \notin pel' THEN "dropped" ELSE "due"
      BY <2>2 DEF Fate
    <2> QED BY <2>3, <2>4
  <1>10. ASSUME faults' = faults,
                \/ Fate(x)' = Fate(x)
                \/ Fate(x) = "due" /\ Fate(x)' \in Port!Settled
                \/ Fate(x) = "doubted" /\ Fate(x)' \in {"handled", "both"}
         PROVE  Port!Next \/ UNCHANGED Port!delivery
    BY <1>3, <1>5, <1>7, <1>10, PortSettles
  <1>11. CASE Drop(c)
    <2>1. handled' = handled /\ dlq' = dlq /\ handled[x] = 0 /\ dlq[x] = 0
          /\ x \in malformed /\ x \notin pel' /\ faults' = faults
      BY <1>0, <1>2, <1>11 DEF Drop, CurrentOK, Untouched, history, bounds
    <2> QED BY <1>9, <1>10, <2>1 DEF Port!Settled
  <1>12. CASE Succeed(c)
    <2>1. /\ handled'[x] = handled[x] + 1 /\ dlq' = dlq /\ dlq[x] = 0
          /\ x \in pel \/ handled[x] > 0
          /\ faults' = faults /\ Pc(c) = "handle" /\ Pc(c)' = "ack"
      BY <1>0, <1>2, <1>3, <1>12, EntryMoves DEF Succeed, CurrentOK, StreamInv, TypeOK, bounds
    <2>2. Fate(x)' = "handled" /\ Fate(x) \in {"due", "doubted"}
      BY <1>4, <1>8, <1>9, <2>1
    <2> QED BY <1>10, <2>1, <2>2 DEF Port!Settled
  <1>13. CASE Reject(c)
    <2>1. /\ handled' = handled /\ dlq' = dlq /\ pel' = pel /\ faults' = faults
          /\ Retried(x) /\ Retried(x)'
      BY <1>0, <1>8, <1>13, EntryMoves DEF Reject, bounds
    <2>2. Fate(x)' = Fate(x)
      BY <1>9, <2>1
    <2> QED BY <1>10, <2>1, <2>2
  <1>14. CASE Ack(c)
    <2>1. /\ handled' = handled /\ dlq' = dlq /\ handled[x] > 0 /\ faults' = faults
          /\ Pc(c) = "ack" /\ Current(c)' = x + 1
      BY <1>0, <1>2, <1>14, EntryMoves DEF Ack, CurrentOK, history, bounds
    <2>2. Fate(x)' = Fate(x)
      BY <1>3, <1>8, <1>9, <2>1
    <2> QED BY <1>10, <2>1, <2>2
  <1>15. CASE AckFails(c)
    <2>1. /\ handled' = handled /\ dlq' = dlq /\ handled[x] > 0 /\ dlq[x] = 0
          /\ faults' = faults + 1 /\ ~Retried(x) /\ Retried(x)'
      BY <1>0, <1>2, <1>8, <1>15, EntryMoves DEF AckFails, CurrentOK, history
    <2>2. Fate(x) = "handled" /\ Fate(x)' = "doubted"
      BY <1>4, <1>9, <2>1
    <2> QED BY <1>3, <1>5, <1>7, <2>1, <2>2, PortMishap
  <1>16. CASE DeadLetter(c)
    <2>1. /\ handled' = handled /\ dlq'[x] = dlq[x] + 1 /\ dlq[x] = 0
          /\ x \in pel \/ handled[x] > 0
          /\ faults' = faults /\ Retried(x)
      BY <1>0, <1>2, <1>3, <1>8, <1>16 DEF DeadLetter, CurrentOK, StreamInv, TypeOK, history, bounds
    <2>2. \/ Fate(x) = "due" /\ Fate(x)' = "dead"
          \/ Fate(x) = "doubted" /\ Fate(x)' = "both"
      BY <1>4, <1>9, <2>1
    <2> QED BY <1>10, <2>1, <2>2 DEF Port!Settled
  <1>17. CASE DeadAck(c)
    <2>1. handled' = handled /\ dlq' = dlq /\ dlq[x] = 1 /\ faults' = faults
      BY <1>0, <1>2, <1>17 DEF DeadAck, CurrentOK, history, bounds
    <2>2. Fate(x)' = Fate(x)
      BY <1>9, <2>1
    <2> QED BY <1>10, <2>1, <2>2
  <1>18. CASE Die(c)
    <2>1. /\ handled' = handled /\ dlq' = dlq /\ pel' = pel /\ faults' = faults + 1
          /\ ~Retried(x)'
      BY <1>8, <1>18, EntryMoves DEF Die, history
    <2>2. Retried(x) => dlq[x] = 0
      BY <1>0, <1>2, <1>8 DEF CurrentOK
    <2>3. Fate(x)' = Fate(x) \/ (Fate(x) = "doubted" /\ Fate(x)' = "handled")
      BY <1>4, <1>9, <2>1, <2>2
    <2> QED BY <1>3, <1>5, <1>7, <2>1, <2>3, PortMishap
  <1> QED BY <1>11, <1>12, <1>13, <1>14, <1>15, <1>16, <1>17, <1>18

(* A loop between batches changes nothing the port sees but the count of   *)
(* mishaps.                                                                *)
LEMMA IdleMoves ==
    ASSUME StreamInv, StreamInv', NEW c \in Consumer,
           \/ Subscribe(c) \/ Quit(c) \/ Stop(c)
           \/ Die(c) /\ Pc(c) \in Idle
    PROVE  Port!Next \/ UNCHANGED Port!delivery
  <1>1. UNCHANGED <<published, malformed, group, start, cursor, pel, dlq, handled>>
    BY DEF Subscribe, Quit, Stop, Die, stream, history
  <1>2. \A e \in Entry : Retried(e)' <=> Retried(e)
    <2>1. consumer \in [Consumer -> Loop]
      BY DEF StreamInv, TypeOK
    <2>2. ASSUME NEW l, Become(c, l)
          PROVE  /\ consumer'[c] = l
                 /\ \A d \in Consumer : d # c => consumer'[d] = consumer[d]
      BY <2>1, <2>2, Becoming
    <2>3. CASE Stop(c)
      <3>1. Become(c, [consumer[c] EXCEPT !.stop = TRUE])
        BY <2>3 DEF Stop
      <3>2. Pc(c)' = Pc(c) /\ Current(c)' = Current(c)
        BY <2>1, <2>2, <3>1 DEF Pc, Current, Loop
      <3>3. \A d \in Consumer : d # c => consumer'[d] = consumer[d]
        BY <2>2, <3>1
      <3>4. \A d \in Consumer : Pc(d)' = Pc(d) /\ Current(d)' = Current(d)
        BY <3>2, <3>3 DEF Pc, Current
      <3> QED BY <3>4 DEF Retried
    <2>4. CASE Subscribe(c) \/ Quit(c) \/ (Die(c) /\ Pc(c) \in Idle)
      <3>1. PICK l \in {Down, [Down EXCEPT !.pc = "create"]} : Become(c, l)
        BY <2>4 DEF Subscribe, Quit, Die
      <3>2. Pc(c)' \in {"down", "create"}
        BY <2>2, <3>1, DownType DEF Pc
      <3>3. Pc(c) \in Idle
        BY <2>4 DEF Subscribe, Quit, Idle
      <3> QED BY <2>2, <3>1, <3>2, <3>3, RetriedKept DEF Idle
    <2> QED BY <2>3, <2>4
  <1>3. \A e \in Entry : Fate(e)' = Fate(e)
    BY <1>1, <1>2, FateKept
  <1>4. CASE faults' = faults
    BY <1>1, <1>3, <1>4, PortUnmoved
  <1>5. CASE faults' = faults + 1
    <2>1. [e \in Entry |-> Fate(e)'] = [e \in Entry |-> Fate(e)]
      BY <1>3
    <2>2. Port!Mishap
      BY <1>1, <1>5, <2>1 DEF Port!Mishap
    <2> QED BY <2>2 DEF Port!Next
  <1> QED BY <1>4, <1>5 DEF Subscribe, Quit, Stop, Die, bounds

LEMMA PortStep ==
    ASSUME StreamInv, StreamInv', [Next]_vars
    PROVE  [Port!Next]_Port!delivery
  <1>1. CASE UNCHANGED vars
    <2>1. \A e \in Entry : Fate(e)' = Fate(e)
      BY <1>1, FateKept DEF vars, Retried, Pc, Current
    <2> QED BY <1>1, <2>1, PortUnmoved DEF vars
  <1>2. CASE Publish
    BY <1>2, PublishIsPublish
  <1>3. ASSUME NEW c \in Consumer, Work(c) \/ Stop(c) \/ AckFails(c) \/ Die(c)
        PROVE  Port!Next \/ UNCHANGED Port!delivery
    <2>1. CASE CreateGroup(c)
      BY <2>1, CreateIsSubscribe
    <2>2. CASE Read(c)
      BY <2>2, ReadIsUnseen
    <2>3. CASE \/ Drop(c) \/ Succeed(c) \/ Reject(c) \/ Ack(c) \/ AckFails(c)
               \/ DeadLetter(c) \/ DeadAck(c)
      <3>1. Pc(c) \notin Idle
        BY <2>3 DEF Idle, Drop, Succeed, Reject, Ack, AckFails, DeadLetter, DeadAck
      <3> QED BY <2>3, <3>1, EntryStep
    <2>4. CASE Subscribe(c) \/ Quit(c) \/ Stop(c)
      BY <2>4, IdleMoves
    <2>5. CASE Die(c)
      BY <2>5, EntryStep, IdleMoves
    <2> QED BY <1>3, <2>1, <2>2, <2>3, <2>4, <2>5 DEF Work
  <1> QED BY <1>1, <1>2, <1>3 DEF Next

(* For any number of consumers, crashes and failing commands, the stream   *)
(* and its group are the delivery port: what is published after the        *)
(* subscription is due, a dead-lettered or dropped event stays so, and a   *)
(* handled one is tried again or dead-lettered only after an XACK that     *)
(* failed, each such failure paying for one event.                         *)
THEOREM StreamIsPort == Spec => ImplementsPort
  <1>1. Init => Port!Init
    <2> SUFFICES ASSUME Init PROVE Port!Init
      OBVIOUS
    <2>1. \A e \in Entry : Fate(e) = "absent"
      BY EntryNat DEF Init, Fate
    <2> QED BY <2>1 DEF Init, Port!Init
  <1>2. StreamInv /\ StreamInv' /\ [Next]_vars => [Port!Next]_Port!delivery
    BY PortStep
  <1> QED BY <1>1, <1>2, StreamInvariant, PTL DEF Spec, ImplementsPort, Port!Spec
=============================================================================
