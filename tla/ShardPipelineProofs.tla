------------------------- MODULE ShardPipelineProofs -------------------------
(***************************************************************************)
(* Machine-checked proofs about ShardPipeline, for every number of         *)
(* workers, entries, batch size and fault budget.                          *)
(***************************************************************************)
EXTENDS ShardPipeline, FiniteSetTheorems, TLAPS

USE ConstantsAssumption

\* COUNT returns entries of the set it was asked about.
LEMMA OldestSubset == ASSUME NEW S, NEW n PROVE Oldest(S, n) \subseteq S
BY DEF Oldest

\* The stream holds appended ids only.
LEMMA StreamEntries == StoreTypeOK => stream \subseteq Entry
<1> SUFFICES ASSUME StoreTypeOK, NEW e \in stream PROVE e \in Entry
  OBVIOUS
<1>1. added \in 0 .. MaxEntries /\ e \in 1 .. added
  BY DEF StoreTypeOK
<1> QED BY <1>1 DEF Entry

-----------------------------------------------------------------------------
(* Type correctness, one part of TypeOK at a time.                         *)

\* Faults are counted by kind.
LEMMA LeaseType == TypeOK /\ [Next]_vars => LeaseTypeOK'
<1> SUFFICES ASSUME TypeOK, [Next]_vars PROVE LeaseTypeOK'
  OBVIOUS
<1> USE DEF LeaseTypeOK, leaseVars
<1>1. LeaseTypeOK
  BY DEF TypeOK
<1>2. ASSUME NEW k \in FaultKind, Spend(k) PROVE spent' \in [FaultKind -> Nat]
  BY <1>1, <1>2 DEF Spend
<1>3. CASE XAdd BY <1>1, <1>3 DEF XAdd
<1>4. CASE Expire BY <1>1, <1>2, <1>4 DEF Expire, FaultKind
<1>5. ASSUME NEW w \in Workers, Gain(w) \/ Start(w) \/ NoticeLoss(w)
      PROVE  LeaseTypeOK'
  BY <1>1, <1>5 DEF Gain, Start, NoticeLoss
<1>6. ASSUME NEW w \in Workers, Drain(w) \/ Release(w) PROVE LeaseTypeOK'
  BY <1>1, <1>6 DEF Drain, Release
<1>7. ASSUME NEW w \in Workers, Crash(w) PROVE LeaseTypeOK'
  BY <1>1, <1>2, <1>7 DEF Crash, FaultKind
<1>8. ASSUME NEW w \in Workers, Throw(w) PROVE LeaseTypeOK'
  BY <1>1, <1>2, <1>8 DEF Throw, FaultKind
<1>9. ASSUME NEW w \in Workers, Autoclaim(w) PROVE LeaseTypeOK'
  BY <1>1, <1>9 DEF Autoclaim, AutoclaimRipe
<1>10. ASSUME NEW w \in Workers, Loop(w) PROVE LeaseTypeOK'
  <2>1. CASE Leave(w) \/ ReadOwn(w) \/ ReadNew(w) \/ Fence(w) \/ Normalized(w)
    BY <1>1, <2>1 DEF Leave, ReadOwn, ReadNew, Fence, Normalized
  <2>2. CASE WriteSegment(w) \/ Written(w) \/ OnBatch(w) \/ Processed(w)
    BY <1>1, <2>2 DEF WriteSegment, Written, OnBatch, Processed
  <2>3. CASE DeadLetter(w) \/ RejectRow(w)
    BY <1>1, <1>2, <2>3 DEF DeadLetter, RejectRow, XAddDead, FaultKind
  <2>4. CASE DeadLetterAck(w) \/ AckRecord(w)
    BY <1>1, <1>2, <2>4 DEF DeadLetterAck, AckRecord, PipelinedXAck, FaultKind
  <2> QED BY <1>10, <2>1, <2>2, <2>3, <2>4 DEF Loop
<1>11. CASE UNCHANGED vars BY <1>1, <1>11 DEF vars
<1> QED
  BY <1>3, <1>4, <1>5, <1>6, <1>7, <1>8, <1>9, <1>10, <1>11 DEF Next, Ownership

\* The loop's labels and the sets it carries around.
LEMMA LoopType == TypeOK /\ [Next]_vars => LoopTypeOK'
<1> SUFFICES ASSUME TypeOK, [Next]_vars PROVE LoopTypeOK'
  OBVIOUS
<1> USE DEF LoopTypeOK, loopVars, batchVars, Goto, PC, Processing
<1>1. LoopTypeOK /\ StoreTypeOK
  BY DEF TypeOK
<1>2. ASSUME NEW w \in Workers, NEW S \in SUBSET Entry,
             NEW from \in {"own", "claim", "read"}, NEW next \in PC,
             Take(w, S, from, next)
      PROVE  /\ pc' \in [Workers -> PC] /\ batch' \in [Workers -> SUBSET Entry]
             /\ source' \in [Workers -> {"own", "claim", "read"}]
  BY <1>1, <1>2 DEF Take
<1>3. ASSUME NEW w \in Workers, NEW label \in PC, NEW drain \in BOOLEAN,
             Unbatched(w, label, drain), running' \in [Workers -> BOOLEAN]
      PROVE  LoopTypeOK'
  BY <1>1, <1>3 DEF Unbatched
<1>4. CASE XAdd BY <1>1, <1>4 DEF XAdd
<1>5. CASE Expire BY <1>1, <1>5 DEF Expire
<1>6. ASSUME NEW w \in Workers, Ownership(w) PROVE LoopTypeOK'
  BY <1>1, <1>6 DEF Ownership, Gain, Start, NoticeLoss, Drain, Release
<1>7. ASSUME NEW w \in Workers, Crash(w) \/ Throw(w) \/ Leave(w) PROVE LoopTypeOK'
  <2>1. running' \in [Workers -> BOOLEAN]
    BY <1>1, <1>7 DEF Crash, Throw, Leave
  <2>2. Unbatched(w, "stopped", TRUE) \/ Unbatched(w, "top", TRUE)
    BY <1>7 DEF Crash, Throw, Leave
  <2> QED BY <1>3, <2>1, <2>2
<1>8. ASSUME NEW w \in Workers, Processed(w) \/ Normalized(w) PROVE LoopTypeOK'
  <2>1. running' = running
    BY <1>8 DEF Processed, Normalized
  <2>2. CASE Finish(w)
    BY <1>1, <1>3, <2>1, <2>2 DEF Finish
  <2>3. CASE ~Finish(w)
    <3>1. Records(w) \subseteq Entry
      BY <1>1 DEF Records
    <3> QED BY <1>1, <1>8, <2>1, <2>3, <3>1 DEF Processed, Normalized
  <2> QED BY <2>2, <2>3
<1>9. ASSUME NEW w \in Workers, Autoclaim(w) PROVE LoopTypeOK'
  <2>1. PICK ripe : AutoclaimRipe(w, ripe)
    BY <1>9 DEF Autoclaim
  <2> DEFINE seen == Oldest({e \in Entry : Pending(e) /\ (e \in ripe \/ e \notin stream)},
                            BatchSize)
  <2>2. seen \subseteq Entry
    BY OldestSubset, Zenon
  <2> HIDE DEF seen
  <2>3. seen \cap stream \in SUBSET Entry
    BY <2>2
  <2>4. Take(w, seen \cap stream, "claim", "read")
    BY <2>1 DEF AutoclaimRipe, seen
  <2> QED BY <1>1, <1>2, <2>3, <2>4, <2>1 DEF AutoclaimRipe
<1>10. ASSUME NEW w \in Workers, ReadNew(w) PROVE LoopTypeOK'
  <2> DEFINE new == Oldest({e \in stream : e > cursor}, BatchSize)
  <2>1. \A e \in new : e \in stream
    BY OldestSubset, Zenon
  <2>2. Take(w, new, "read", "top") /\ UNCHANGED <<running, ownPending, work, segs, bad>>
    BY <1>10 DEF ReadNew
  <2> HIDE DEF new
  <2>3. new \in SUBSET Entry
    BY <1>1, <2>1, StreamEntries
  <2> QED BY <1>1, <1>2, <2>2, <2>3
<1>11. ASSUME NEW w \in Workers, ReadOwn(w) PROVE LoopTypeOK'
  <2> DEFINE mine == Oldest({e \in Entry : pel[e] = w}, BatchSize)
  <2>1. mine \subseteq Entry
    BY OldestSubset, Zenon
  <2>2. /\ Take(w, mine \cap stream, "own", "claim")
        /\ ownPending' = [ownPending EXCEPT ![w] = mine \cap stream # {}]
        /\ UNCHANGED <<running, work, segs, bad>>
    BY <1>11 DEF ReadOwn
  <2> HIDE DEF mine
  <2>3. mine \cap stream \in SUBSET Entry
    BY <2>1
  <2>4. ownPending' \in [Workers -> BOOLEAN]
    BY <1>1, <2>2
  <2> QED BY <1>1, <1>2, <2>2, <2>3, <2>4
<1>12. ASSUME NEW w \in Workers, Fence(w) PROVE LoopTypeOK'
  <2>1. CASE lease # w
    <3>1. running' \in [Workers -> BOOLEAN] /\ Unbatched(w, "stopped", TRUE)
      BY <1>1, <1>12, <2>1 DEF Fence
    <3> QED BY <1>3, <3>1
  <2>2. CASE lease = w
    BY <1>1, <1>12, <2>2 DEF Fence
  <2> QED BY <2>1, <2>2
<1>13. ASSUME NEW w \in Workers, DeadLetter(w) \/ DeadLetterAck(w) \/ RejectRow(w)
              \/ AckRecord(w)
       PROVE  LoopTypeOK'
  BY <1>1, <1>13 DEF DeadLetter, DeadLetterAck, RejectRow, AckRecord
<1>14. ASSUME NEW w \in Workers, Written(w) \/ OnBatch(w) PROVE LoopTypeOK'
  BY <1>1, <1>14 DEF Written, OnBatch, Records
<1>15. ASSUME NEW w \in Workers, WriteSegment(w) PROVE LoopTypeOK'
  <2>1. /\ UNCHANGED <<loopVars, batch, work>>
        /\ segs' \in [Workers -> SUBSET SUBSET Entry]
        /\ bad' \in [Workers -> SUBSET Entry]
    <3>1. PICK seg \in segs[w] :
            \/ segs' = [segs EXCEPT ![w] = @ \ {seg}] /\ UNCHANGED bad
            \/ \E e \in seg : /\ bad' = [bad EXCEPT ![w] = @ \cup {e}]
                              /\ segs' = [segs EXCEPT ![w] = @ \ {seg}]
            \/ /\ \E half \in SUBSET seg :
                    segs' = [segs EXCEPT ![w] = (@ \ {seg}) \cup {half, seg \ half}]
               /\ UNCHANGED bad
      BY <1>15 DEF WriteSegment
    <3>2. seg \subseteq Entry
      BY <1>1, <3>1
    <3> QED BY <1>1, <1>15, <3>1, <3>2 DEF WriteSegment
  <2> QED BY <1>1, <2>1
<1>16. CASE UNCHANGED vars BY <1>1, <1>16 DEF vars
<1> QED
  BY <1>4, <1>5, <1>6, <1>7, <1>8, <1>9, <1>10, <1>11, <1>12, <1>13, <1>14, <1>15, <1>16
  DEF Next, Loop

\* What Redis and Postgres hold.
LEMMA StoreType == TypeOK /\ [Next]_vars => StoreTypeOK'
<1> SUFFICES ASSUME TypeOK, [Next]_vars PROVE StoreTypeOK'
  OBVIOUS
<1> USE DEF StoreTypeOK, redisVars
<1>1. StoreTypeOK /\ LoopTypeOK
  BY DEF TypeOK
<1>2. CASE XAdd
  <2>1. PICK t \in 0 .. added : stream' = {e \in stream \cup {added + 1} : e > t}
    BY <1>2 DEF XAdd
  <2>2. added \in Nat /\ stream \subseteq 1 .. added /\ cursor \in 0 .. added
    BY <1>1
  <2>3. added' = added + 1 /\ added' \in 0 .. MaxEntries /\ cursor' = cursor
    BY <1>2, <2>2 DEF XAdd
  <2>4. cursor' \in 0 .. added'
    BY <2>2, <2>3
  <2>5. ASSUME NEW e \in stream' PROVE e \in 1 .. added'
    BY <2>1, <2>2, <2>3
  <2> QED BY <1>1, <1>2, <2>3, <2>4, <2>5 DEF XAdd
<1>3. CASE Expire BY <1>1, <1>3 DEF Expire
<1>4. ASSUME NEW w \in Workers, Ownership(w) PROVE StoreTypeOK'
  BY <1>1, <1>4 DEF Ownership, Gain, Start, NoticeLoss, Drain, Release
<1>5. ASSUME NEW w \in Workers, Crash(w) \/ Throw(w) \/ Leave(w) \/ Processed(w)
              \/ Normalized(w) \/ Fence(w) \/ Written(w)
      PROVE  StoreTypeOK'
  BY <1>1, <1>5 DEF Crash, Throw, Leave, Processed, Normalized, Fence, Written
<1>6. ASSUME NEW w \in Workers, OnBatch(w) PROVE StoreTypeOK'
  BY <1>1, <1>6 DEF OnBatch, Records, LoopTypeOK
<1>7. ASSUME NEW w \in Workers, WriteSegment(w) PROVE StoreTypeOK'
  <2>1. rows' \in [Key -> Nat]
    BY <1>1, <1>7 DEF WriteSegment, InsertRows
  <2> QED BY <1>1, <1>7, <2>1 DEF WriteSegment
<1>8. ASSUME NEW w \in Workers, DeadLetter(w) \/ RejectRow(w) PROVE StoreTypeOK'
  <2>1. work[w] \subseteq Entry
    BY <1>1 DEF LoopTypeOK
  <2> QED BY <1>1, <1>8, <2>1 DEF DeadLetter, RejectRow, XAddDead
<1>9. ASSUME NEW w \in Workers, DeadLetterAck(w) \/ AckRecord(w) PROVE StoreTypeOK'
  <2>1. work[w] \subseteq Entry
    BY <1>1 DEF LoopTypeOK
  <2> QED BY <1>1, <1>9, <2>1 DEF DeadLetterAck, AckRecord, PipelinedXAck, XAck
<1>10. ASSUME NEW w \in Workers, ReadOwn(w) PROVE StoreTypeOK'
  <2> DEFINE mine == Oldest({e \in Entry : pel[e] = w}, BatchSize)
  <2>1. mine \subseteq Entry
    BY OldestSubset, Zenon
  <2>2. /\ pel' = [e \in Entry |-> IF e \in mine \ stream THEN None ELSE pel[e]]
        /\ evicted' = evicted \cup (mine \ stream)
    BY <1>10 DEF ReadOwn
  <2> HIDE DEF mine
  <2> QED BY <1>1, <1>10, <2>1, <2>2 DEF ReadOwn
<1>11. ASSUME NEW w \in Workers, Autoclaim(w) PROVE StoreTypeOK'
  <2>1. PICK ripe : AutoclaimRipe(w, ripe)
    BY <1>11 DEF Autoclaim
  <2> DEFINE seen == Oldest({e \in Entry : Pending(e) /\ (e \in ripe \/ e \notin stream)},
                            BatchSize)
  <2>2. seen \subseteq Entry
    BY OldestSubset, Zenon
  <2>3. /\ pel' = [e \in Entry |-> IF e \in seen \ stream THEN None
                                   ELSE IF e \in seen THEN w ELSE pel[e]]
        /\ evicted' = evicted \cup (seen \ stream)
    BY <2>1 DEF AutoclaimRipe
  <2> HIDE DEF seen
  <2> QED BY <1>1, <2>1, <2>2, <2>3 DEF AutoclaimRipe
<1>12. ASSUME NEW w \in Workers, ReadNew(w) PROVE StoreTypeOK'
  <2> DEFINE new == Oldest({e \in stream : e > cursor}, BatchSize)
  <2>1. \A e \in new : e \in stream
    BY OldestSubset, Zenon
  <2>2. /\ pel' = [e \in Entry |-> IF e \in new THEN w ELSE pel[e]]
        /\ cursor' = cursor \/ cursor' \in new
        /\ delivered' = delivered \cup new
    BY <1>12 DEF ReadNew
  <2> HIDE DEF new
  <2>3. new \subseteq Entry
    BY <1>1, <2>1, StreamEntries
  <2>4. added \in Nat /\ stream \subseteq 1 .. added /\ cursor \in 0 .. added
    BY <1>1
  <2>5. cursor' \in 0 .. added
    <3>1. CASE cursor' = cursor
      BY <3>1, <2>4
    <3>2. CASE cursor' \in new
      <4>1. cursor' \in stream
        BY <3>2, <2>1
      <4>2. cursor' \in 1 .. added
        BY <4>1, <2>4
      <4> QED BY <4>2, <2>4
    <3> QED BY <2>2, <3>1, <3>2
  <2> QED BY <1>1, <1>12, <2>2, <2>3, <2>5 DEF ReadNew
<1>13. CASE UNCHANGED vars BY <1>1, <1>13 DEF vars
<1> QED
  BY <1>2, <1>3, <1>4, <1>5, <1>6, <1>7, <1>8, <1>9, <1>10, <1>11, <1>12, <1>13
  DEF Next, Loop

\* TypeOK is an invariant of the pipeline: no interleaving of consumers,
\* takeovers, crashes and trims takes the group's cursor past the entries
\* ingest appended or puts anything but appended ids in the stream.
THEOREM TypeCorrect == Spec => []TypeOK
<1>1. Init => TypeOK
  <2> SUFFICES ASSUME Init PROVE TypeOK
    OBVIOUS
  <2>1. StoreTypeOK BY DEF Init, StoreTypeOK
  <2>2. LeaseTypeOK BY DEF Init, LeaseTypeOK
  <2>3. LoopTypeOK BY DEF Init, LoopTypeOK, PC
  <2> QED BY <2>1, <2>2, <2>3 DEF TypeOK
<1>2. TypeOK /\ [Next]_vars => TypeOK'
  BY LeaseType, LoopType, StoreType DEF TypeOK
<1> QED BY <1>1, <1>2, PTL DEF Spec

-----------------------------------------------------------------------------
(* I1: DurableInv is inductive when Redis refuses no command of a pipeline. *)

\* Durable facts stay: no step takes a row, a dead letter or an application
\* back, and entries never change.
LEMMA Durability ==
  ASSUME TypeOK, [Next]_vars
  PROVE  /\ content' = content /\ dead \subseteq dead' /\ applied \subseteq applied'
         /\ \A k \in Key : rows[k] > 0 => rows'[k] > 0
<1> USE DEF redisVars
<1>1. rows \in [Key -> Nat]
  BY DEF TypeOK, StoreTypeOK
<1>2. CASE XAdd BY <1>2 DEF XAdd
<1>3. CASE Expire BY <1>3 DEF Expire
<1>4. ASSUME NEW w \in Workers, Ownership(w) \/ Crash(w) \/ Throw(w) PROVE UNCHANGED <<content, dead, applied, rows>>
  BY <1>4 DEF Ownership, Gain, Start, NoticeLoss, Drain, Release, Crash, Throw
<1>5. ASSUME NEW w \in Workers, Autoclaim(w) PROVE UNCHANGED <<content, dead, applied, rows>>
  BY <1>5 DEF Autoclaim, AutoclaimRipe
<1>6. ASSUME NEW w \in Workers, Leave(w) \/ ReadOwn(w) \/ ReadNew(w) \/ Fence(w)
             \/ Normalized(w) \/ Written(w) \/ Processed(w)
      PROVE  UNCHANGED <<content, dead, applied, rows>>
  BY <1>6 DEF Leave, ReadOwn, ReadNew, Fence, Normalized, Written, Processed
<1>7. ASSUME NEW w \in Workers, DeadLetter(w) \/ RejectRow(w)
      PROVE  UNCHANGED <<content, applied, rows>> /\ dead \subseteq dead'
  BY <1>7 DEF DeadLetter, RejectRow, XAddDead
<1>8. ASSUME NEW w \in Workers, DeadLetterAck(w) \/ AckRecord(w)
      PROVE  UNCHANGED <<content, dead, applied, rows>>
  BY <1>8 DEF DeadLetterAck, AckRecord
<1>9. ASSUME NEW w \in Workers, WriteSegment(w)
      PROVE  /\ UNCHANGED <<content, dead, applied>>
             /\ \A k \in Key : rows[k] > 0 => rows'[k] > 0
  BY <1>1, <1>9 DEF WriteSegment, InsertRows
<1>10. ASSUME NEW w \in Workers, OnBatch(w)
       PROVE  UNCHANGED <<content, dead, rows>> /\ applied \subseteq applied'
  BY <1>10 DEF OnBatch
<1>11. CASE UNCHANGED vars BY <1>11 DEF vars
<1>12. ASSUME NEW w \in Workers, Loop(w)
       PROVE  /\ content' = content /\ dead \subseteq dead' /\ applied \subseteq applied'
              /\ \A k \in Key : rows[k] > 0 => rows'[k] > 0
  BY <1>6, <1>7, <1>8, <1>9, <1>10, <1>12 DEF Loop
<1> QED
  BY <1>2, <1>3, <1>4, <1>5, <1>11, <1>12 DEF Next

\* ... so whatever was settled stays settled.
LEMMA SettledStays ==
  ASSUME TypeOK, [Next]_vars, NEW e \in Entry
  PROVE  /\ Good(e)' = Good(e) /\ Poison(e)' = Poison(e) /\ Malformed(e)' = Malformed(e)
         /\ Stored(e) => Stored(e)'
         /\ Settled(e) => Settled(e)'
<1>1. content[e] \in Content
  BY DEF TypeOK, StoreTypeOK
<1>2. Good(e) => content[e].key \in Key
  BY <1>1 DEF Good, Content
<1> QED
  BY <1>2, Durability DEF Good, Poison, Malformed, Stored, Settled

\* A consumer whose own batch the step leaves alone keeps its part of the
\* invariant, whatever the others store.
LEMMA BatchFrame ==
  ASSUME TypeOK, [Next]_vars, NEW v \in Workers, BatchInv(v),
         pc'[v] = pc[v], batch'[v] = batch[v], work'[v] = work[v],
         segs'[v] = segs[v], bad'[v] = bad[v]
  PROVE  BatchInv(v)'
<1>1. batch[v] \subseteq Entry
  BY DEF TypeOK, LoopTypeOK
<1>2. Records(v)' = Records(v) /\ Records(v) \subseteq Entry
  BY <1>1, SettledStays DEF Records
<1>3. dead \subseteq dead' /\ applied \subseteq applied'
  BY Durability
<1>4. {e \in batch[v] : Malformed(e)}' = {e \in batch[v] : Malformed(e)}
  BY <1>1, SettledStays
<1>5. {e \in Entry : Poison(e)}' = {e \in Entry : Poison(e)}
  BY SettledStays DEF Entry
<1>6. \A e \in Records(v) : /\ Stored(e) => Stored(e)'
                            /\ Settled(e) => Settled(e)' /\ (Good(e)' = Good(e))
  BY <1>2, SettledStays
<1> QED
  BY <1>2, <1>3, <1>4, <1>5, <1>6 DEF BatchInv, IsFirst

\* A consumer that is not inside process() has nothing to account for.
LEMMA OutsideProcess ==
  ASSUME NEW w \in Workers, bad'[w] = {},
         pc'[w] \in {"stopped", "top", "claim", "read", "fence"}
  PROVE  BatchInv(w)'
BY DEF BatchInv

\* A worker that goes to a label outside of process() holds no batch.
LEMMA UnbatchedOutside ==
  ASSUME NEW w \in Workers, NEW label \in {"stopped", "top", "read"}, NEW drain,
         TypeOK, Unbatched(w, label, drain)
  PROVE  BatchInv(w)'
<1>1. pc'[w] = label /\ bad'[w] = {}
  BY DEF Unbatched, Goto, TypeOK, LoopTypeOK
<1> QED BY <1>1, OutsideProcess

\* A step of one consumer leaves every other consumer's locals alone.
LEMMA OthersUntouched ==
  ASSUME TypeOK, NEW w \in Workers, NEW v \in Workers, v # w,
         Loop(w) \/ Autoclaim(w) \/ Throw(w) \/ Ownership(w) \/ Crash(w)
  PROVE  /\ pc'[v] = pc[v] /\ batch'[v] = batch[v] /\ work'[v] = work[v]
         /\ segs'[v] = segs[v] /\ bad'[v] = bad[v]
<1> USE DEF loopVars, batchVars, Goto, Unbatched, Take, Finish
<1>1. LoopTypeOK
  BY DEF TypeOK
<1>2. CASE Throw(w) BY <1>1, <1>2 DEF Throw, LoopTypeOK
<1>3. CASE Crash(w) BY <1>1, <1>3 DEF Crash, LoopTypeOK
<1>4. CASE Ownership(w)
  BY <1>1, <1>4 DEF Ownership, Gain, Start, NoticeLoss, Drain, Release, LoopTypeOK
<1>5. CASE Autoclaim(w) BY <1>1, <1>5 DEF Autoclaim, AutoclaimRipe, LoopTypeOK
<1>6. CASE Leave(w) \/ ReadOwn(w) \/ ReadNew(w)
  BY <1>1, <1>6 DEF Leave, ReadOwn, ReadNew, LoopTypeOK
<1>7. CASE Fence(w) \/ Normalized(w) \/ Processed(w)
  BY <1>1, <1>7 DEF Fence, Normalized, Processed, LoopTypeOK
<1>8. CASE DeadLetter(w) \/ DeadLetterAck(w) \/ RejectRow(w) \/ AckRecord(w)
  BY <1>1, <1>8 DEF DeadLetter, DeadLetterAck, RejectRow, AckRecord, LoopTypeOK
<1>9. CASE WriteSegment(w) BY <1>1, <1>9 DEF WriteSegment, LoopTypeOK
<1>10. CASE Written(w) \/ OnBatch(w) BY <1>1, <1>10 DEF Written, OnBatch, LoopTypeOK
<1> QED
  BY <1>2, <1>3, <1>4, <1>5, <1>6, <1>7, <1>8, <1>9, <1>10 DEF Loop

\* One INSERT attempt: its slice is stored, quarantined or split.
LEMMA WriteSegmentInv ==
  ASSUME TypeOK, [Next]_vars, NEW w \in Workers, WriteSegment(w), BatchInv(w)
  PROVE  BatchInv(w)'
<1> USE DEF loopVars
<1>1. LoopTypeOK /\ StoreTypeOK
  BY DEF TypeOK
<1>2. pc[w] = "write" /\ pc'[w] = "write" /\ batch'[w] = batch[w]
  BY <1>1 DEF WriteSegment, At
<1>3. Records(w)' = Records(w) /\ Records(w) \subseteq Entry
  BY <1>1, <1>2, SettledStays DEF Records, LoopTypeOK
<1>4. \A e \in Records(w) : Stored(e) => Stored(e)'
  BY <1>3, SettledStays
<1>5. {e \in Entry : Poison(e)}' = {e \in Entry : Poison(e)}
  BY SettledStays DEF Entry
<1>6. bad[w] \subseteq {e \in Entry : Poison(e)}
  BY <1>2 DEF BatchInv
<1>7. \A e \in Records(w) : e \in bad[w] \/ Stored(e) \/ \E seg \in segs[w] : e \in seg
  BY <1>2 DEF BatchInv
<1>8. PICK seg \in segs[w] :
        \/ /\ \A e \in seg : ~Poison(e)
           /\ InsertRows(seg)
           /\ segs' = [segs EXCEPT ![w] = @ \ {seg}]
           /\ UNCHANGED bad
        \/ \E e \in seg :
           /\ Poison(e) /\ seg = {e}
           /\ bad' = [bad EXCEPT ![w] = @ \cup {e}]
           /\ segs' = [segs EXCEPT ![w] = @ \ {seg}]
        \/ \E half \in SUBSET seg :
           /\ segs' = [segs EXCEPT ![w] = (@ \ {seg}) \cup {half, seg \ half}]
           /\ UNCHANGED bad
  BY DEF WriteSegment
<1>9. seg \subseteq Entry
  BY <1>1, <1>8 DEF LoopTypeOK
<1>10. /\ bad'[w] \subseteq {e \in Entry : Poison(e)}
       /\ \A e \in Records(w) : e \in bad'[w] \/ Stored(e)' \/ \E s \in segs'[w] : e \in s
  <2>1. CASE /\ \A e \in seg : ~Poison(e)
             /\ InsertRows(seg)
             /\ segs' = [segs EXCEPT ![w] = @ \ {seg}]
             /\ UNCHANGED bad
    <3>1. ASSUME NEW e \in Records(w), e \in seg PROVE Stored(e)'
      <4>1. Good(e) /\ content[e].key \in Key
        BY <1>1, <1>3, <2>1, <3>1
        DEF Records, Malformed, Poison, Good, StoreTypeOK, Content
      <4>2. rows'[content[e].key] > 0
        BY <1>1, <2>1, <3>1, <4>1 DEF InsertRows, StoreTypeOK
      <4> QED BY <1>3, <4>1, <4>2, SettledStays, Durability DEF Stored
    <3>2. segs'[w] = segs[w] \ {seg} /\ bad'[w] = bad[w]
      BY <1>1, <2>1 DEF LoopTypeOK
    <3> QED BY <1>4, <1>6, <1>7, <3>1, <3>2
  <2>2. CASE \E e \in seg :
             /\ Poison(e) /\ seg = {e}
             /\ bad' = [bad EXCEPT ![w] = @ \cup {e}]
             /\ segs' = [segs EXCEPT ![w] = @ \ {seg}]
    <3>1. PICK e \in seg : /\ Poison(e) /\ seg = {e}
                           /\ bad'[w] = bad[w] \cup {e} /\ segs'[w] = segs[w] \ {seg}
      BY <1>1, <2>2 DEF LoopTypeOK
    <3> QED BY <1>4, <1>6, <1>7, <1>9, <3>1
  <2>3. CASE \E half \in SUBSET seg :
             /\ segs' = [segs EXCEPT ![w] = (@ \ {seg}) \cup {half, seg \ half}]
             /\ UNCHANGED bad
    <3>1. PICK half \in SUBSET seg :
            segs'[w] = (segs[w] \ {seg}) \cup {half, seg \ half} /\ bad'[w] = bad[w]
      BY <1>1, <2>3 DEF LoopTypeOK
    <3>2. \A e \in seg : e \in half \/ e \in seg \ half
      OBVIOUS
    <3> QED BY <1>4, <1>6, <1>7, <3>1, <3>2
  <2> QED BY <1>8, <2>1, <2>2, <2>3
<1> QED
  BY <1>2, <1>3, <1>5, <1>10 DEF BatchInv

\* Every step keeps each consumer's batch accounted for.
LEMMA BatchStep ==
  ASSUME MaxRefusals = 0, TypeOK, [Next]_vars, \A w \in Workers : BatchInv(w)
  PROVE  \A v \in Workers : BatchInv(v)'
<1> USE DEF loopVars, batchVars
<1>1. LoopTypeOK /\ StoreTypeOK /\ LeaseTypeOK
  BY DEF TypeOK
<1>2. ~Spend("refusal")
  BY <1>1 DEF Spend, Limit, LeaseTypeOK, FaultKind
<1>3. CASE XAdd \/ Expire \/ UNCHANGED vars
  <2>1. UNCHANGED <<pc, batchVars>>
    BY <1>3 DEF XAdd, Expire, vars
  <2> QED BY <2>1, BatchFrame
<1>4. ASSUME NEW w \in Workers,
             Loop(w) \/ Autoclaim(w) \/ Throw(w) \/ Ownership(w) \/ Crash(w)
      PROVE  \A v \in Workers : BatchInv(v)'
  <2>1. ASSUME NEW v \in Workers, v # w PROVE BatchInv(v)'
    BY <1>4, <2>1, OthersUntouched, BatchFrame
  <2>2. BatchInv(w)
    OBVIOUS
  <2>3. batch[w] \subseteq Entry /\ work[w] \subseteq Entry /\ bad[w] \subseteq Entry
    BY <1>1 DEF LoopTypeOK
  <2>4. Records(w) \subseteq Entry
    BY <2>3 DEF Records
  <2>5. dead \subseteq dead' /\ applied \subseteq applied' /\ content' = content
    BY Durability
  <2>6. ASSUME batch'[w] = batch[w]
        PROVE  /\ Records(w)' = Records(w)
               /\ {e \in batch[w] : Malformed(e)}' = {e \in batch[w] : Malformed(e)}
    BY <2>3, <2>5, <2>6 DEF Records, Malformed
  <2>7. {e \in Entry : Poison(e)}' = {e \in Entry : Poison(e)}
    BY SettledStays DEF Entry
  <2>8. ASSUME Throw(w) \/ Crash(w) \/ Leave(w) \/ Processed(w) PROVE BatchInv(w)'
    BY <2>8, UnbatchedOutside DEF Throw, Crash, Leave, Processed, Finish
  <2>9. ASSUME Gain(w) \/ NoticeLoss(w) \/ Drain(w) \/ Release(w) PROVE BatchInv(w)'
    <3>1. UNCHANGED <<pc, batchVars>>
      BY <2>9 DEF Gain, NoticeLoss, Drain, Release
    <3> QED BY <2>2, <3>1, BatchFrame
  <2>10. ASSUME Start(w) PROVE BatchInv(w)'
    <3>1. pc[w] = "stopped" /\ pc'[w] = "top" /\ bad'[w] = bad[w]
      BY <1>1, <2>10 DEF Start, Goto, At, LoopTypeOK
    <3>2. bad[w] = {}
      BY <2>2, <3>1 DEF BatchInv
    <3> QED BY <3>1, <3>2, OutsideProcess
  <2>11. ASSUME Autoclaim(w) \/ ReadOwn(w) \/ ReadNew(w) PROVE BatchInv(w)'
    <3>1. pc'[w] \in {"top", "claim", "read", "fence"}
      BY <1>1, <2>11 DEF Autoclaim, AutoclaimRipe, ReadOwn, ReadNew, Take, Goto, LoopTypeOK
    <3>2. pc[w] \in {"top", "claim", "read"} /\ bad'[w] = bad[w]
      BY <2>11 DEF Autoclaim, AutoclaimRipe, ReadOwn, ReadNew, PastOwn, At
    <3>3. bad[w] = {}
      BY <2>2, <3>2 DEF BatchInv
    <3> QED BY <3>1, <3>2, <3>3, OutsideProcess
  <2>12. ASSUME Fence(w) PROVE BatchInv(w)'
    <3>1. CASE lease # w
      BY <2>12, <3>1, UnbatchedOutside DEF Fence
    <3>2. CASE lease = w
      <4>1. /\ pc[w] = "fence" /\ pc'[w] = "dead" /\ batch'[w] = batch[w]
            /\ work'[w] = {e \in batch[w] : Malformed(e)} /\ bad'[w] = bad[w]
        BY <1>1, <2>12, <3>2 DEF Fence, Goto, At, LoopTypeOK
      <4>2. bad[w] = {}
        BY <2>2, <4>1 DEF BatchInv
      <4> QED BY <4>1, <4>2, <2>6 DEF BatchInv
    <3> QED BY <3>1, <3>2
  <2>13. ASSUME Normalized(w) PROVE BatchInv(w)'
    <3>1. CASE Finish(w)
      BY <3>1, UnbatchedOutside DEF Finish
    <3>2. CASE ~Finish(w)
      <4>1. /\ pc'[w] = "write" /\ segs'[w] = {Records(w)} /\ batch'[w] = batch[w]
        BY <1>1, <2>13, <3>2 DEF Normalized, Goto, LoopTypeOK
      <4>2. bad'[w] = bad[w] /\ pc[w] = "dead"
        BY <2>13, <3>2 DEF Normalized, At
      <4>3. bad[w] = {}
        BY <2>2, <4>2 DEF BatchInv
      <4> QED BY <4>1, <4>2, <4>3, <2>6 DEF BatchInv
    <3> QED BY <3>1, <3>2
  <2>14. ASSUME DeadLetter(w) PROVE BatchInv(w)'
    <3>1. PICK e \in work[w] : IsFirst(e, work[w]) /\ XAddDead(e)
      BY <2>14 DEF DeadLetter
    <3>2. e \in dead'
      BY <1>2, <3>1 DEF XAddDead
    <3>3. \A f \in work[w] : IsFirst(f, work[w]) => f = e
      BY <2>3, <3>1 DEF IsFirst, Entry
    <3>4. /\ pc[w] = "dead" /\ pc'[w] = "deadAck" /\ batch'[w] = batch[w]
          /\ work'[w] = work[w] /\ bad'[w] = bad[w]
      BY <1>1, <2>14 DEF DeadLetter, Goto, LoopTypeOK, At
    <3> QED BY <2>2, <2>6, <3>2, <3>3, <3>4 DEF BatchInv, IsFirst
  <2>15. ASSUME DeadLetterAck(w) PROVE BatchInv(w)'
    <3>1. /\ pc[w] = "deadAck" /\ pc'[w] = "dead" /\ batch'[w] = batch[w]
          /\ work'[w] \subseteq work[w] /\ bad'[w] = bad[w]
      BY <1>1, <2>15 DEF DeadLetterAck, Goto, LoopTypeOK, At
    <3> QED BY <2>2, <2>6, <3>1 DEF BatchInv
  <2>16. ASSUME WriteSegment(w) PROVE BatchInv(w)'
    BY <2>2, <2>16, WriteSegmentInv
  <2>17. ASSUME Written(w) PROVE BatchInv(w)'
    <3>1. /\ pc[w] = "write" /\ pc'[w] = "reject" /\ batch'[w] = batch[w]
          /\ segs[w] = {} /\ bad'[w] = bad[w] /\ work'[w] = bad[w]
      BY <1>1, <2>17 DEF Written, Goto, LoopTypeOK, At
    <3>2. \A e \in Records(w) : Stored(e) => Stored(e)'
      BY <2>4, SettledStays
    <3> QED BY <2>2, <2>6, <2>7, <3>1, <3>2 DEF BatchInv
  <2>18. ASSUME RejectRow(w) PROVE BatchInv(w)'
    <3>1. PICK e \in work[w] : /\ XAddDead(e)
                               /\ work' = [work EXCEPT ![w] = @ \ {e}]
      BY <2>18 DEF RejectRow
    <3>2. e \in dead' /\ work'[w] = work[w] \ {e}
      BY <1>1, <1>2, <3>1 DEF XAddDead, LoopTypeOK
    <3>3. /\ pc[w] = "reject" /\ pc'[w] = "reject" /\ batch'[w] = batch[w]
          /\ bad'[w] = bad[w]
      BY <1>1, <2>18 DEF RejectRow, LoopTypeOK, At
    <3>4. \A f \in Records(w) : Stored(f) => Stored(f)'
      BY <2>4, SettledStays
    <3> QED BY <2>2, <2>5, <2>6, <2>7, <3>2, <3>3, <3>4 DEF BatchInv
  <2>19. ASSUME OnBatch(w) PROVE BatchInv(w)'
    <3>1. /\ pc[w] = "reject" /\ pc'[w] = "ack" /\ batch'[w] = batch[w]
          /\ work[w] = {} /\ work'[w] = Records(w)
          /\ applied' = applied \cup (Records(w) \ bad[w])
      BY <1>1, <2>19 DEF OnBatch, Goto, LoopTypeOK, At
    <3>2. ASSUME NEW e \in Records(w)
          PROVE  Settled(e)' /\ (Good(e)' => e \in applied')
      <4>1. CASE e \in bad[w]
        <5>1. Poison(e) /\ e \in dead
          BY <2>2, <3>1, <4>1 DEF BatchInv
        <5>2. ~Good(e)
          BY <5>1 DEF Good, Poison
        <5> QED BY <2>4, <2>5, <5>1, <5>2, SettledStays DEF Settled
      <4>2. CASE e \notin bad[w]
        <5>1. Stored(e)
          BY <2>2, <3>1, <4>2 DEF BatchInv
        <5> QED BY <2>4, <3>1, <4>2, <5>1, SettledStays DEF Stored, Settled
      <4> QED BY <4>1, <4>2
    <3> QED BY <2>6, <3>1, <3>2 DEF BatchInv
  <2>20. ASSUME AckRecord(w) PROVE BatchInv(w)'
    <3>1. /\ pc[w] = "ack" /\ pc'[w] = "ack" /\ batch'[w] = batch[w]
          /\ work'[w] \subseteq work[w]
      BY <1>1, <2>20 DEF AckRecord, LoopTypeOK, At
    <3>2. \A e \in Records(w) : /\ Settled(e) => Settled(e)'
                                /\ Good(e)' = Good(e)
      BY <2>4, SettledStays
    <3> QED BY <2>2, <2>5, <2>6, <3>1, <3>2 DEF BatchInv
  <2>21. BatchInv(w)'
    BY <1>4, <2>8, <2>9, <2>10, <2>11, <2>12, <2>13, <2>14, <2>15, <2>16, <2>17,
       <2>18, <2>19, <2>20 DEF Loop, Ownership
  <2> QED BY <2>1, <2>21
<1> QED
  BY <1>3, <1>4 DEF Next

\* An XACK that takes effect is one of a batch that has earned it.
LEMMA AckedEarned ==
  ASSUME TypeOK, [Next]_vars, DurableInv, NEW e \in acked', e \notin acked
  PROVE  Settled(e) /\ (Good(e) => e \in applied)
<1> USE DEF redisVars
<1>1. CASE UNCHANGED acked
  BY <1>1
<1>2. ASSUME NEW w \in Workers, DeadLetterAck(w) \/ AckRecord(w)
      PROVE  Settled(e) /\ (Good(e) => e \in applied)
  <2>1. e \in work[w] /\ IsFirst(e, work[w])
    BY <1>2 DEF DeadLetterAck, AckRecord, PipelinedXAck, XAck
  <2>2. BatchInv(w)
    BY DEF DurableInv
  <2>3. CASE DeadLetterAck(w)
    <3>1. pc[w] = "deadAck"
      BY <2>3 DEF DeadLetterAck, At
    <3>2. Malformed(e) /\ e \in dead
      BY <2>1, <2>2, <3>1 DEF BatchInv
    <3> QED BY <3>2 DEF Malformed, Good, Settled
  <2>4. CASE AckRecord(w)
    <3>1. pc[w] = "ack"
      BY <2>4 DEF AckRecord, At
    <3> QED BY <2>1, <2>2, <3>1 DEF BatchInv
  <2> QED BY <1>2, <2>3, <2>4
<1>3. \/ UNCHANGED acked
      \/ \E w \in Workers : DeadLetterAck(w) \/ AckRecord(w)
  <2>1. CASE XAdd \/ Expire \/ UNCHANGED vars
    BY <2>1 DEF XAdd, Expire, vars
  <2>2. ASSUME NEW w \in Workers, Ownership(w) \/ Crash(w) \/ Throw(w) \/ Autoclaim(w)
        PROVE  UNCHANGED acked
    BY <2>2 DEF Ownership, Gain, Start, NoticeLoss, Drain, Release, Crash, Throw,
                Autoclaim, AutoclaimRipe
  <2>3. ASSUME NEW w \in Workers, Loop(w), ~(DeadLetterAck(w) \/ AckRecord(w))
        PROVE  UNCHANGED acked
    BY <2>3 DEF Loop, Leave, ReadOwn, ReadNew, Fence, DeadLetter, Normalized,
                WriteSegment, Written, RejectRow, OnBatch, Processed
  <2> QED BY <2>1, <2>2, <2>3 DEF Next
<1> QED BY <1>1, <1>2, <1>3

\* What the engines are newly handed was written first.
LEMMA AppliedEarned ==
  ASSUME TypeOK, [Next]_vars, DurableInv, NEW e \in applied', e \notin applied
  PROVE  Good(e) /\ Settled(e)
<1> USE DEF redisVars
<1>1. \/ UNCHANGED applied
      \/ \E w \in Workers : OnBatch(w)
  <2>1. CASE XAdd \/ Expire \/ UNCHANGED vars
    BY <2>1 DEF XAdd, Expire, vars
  <2>2. ASSUME NEW w \in Workers, Ownership(w) \/ Crash(w) \/ Throw(w) \/ Autoclaim(w)
        PROVE  UNCHANGED applied
    BY <2>2 DEF Ownership, Gain, Start, NoticeLoss, Drain, Release, Crash, Throw,
                Autoclaim, AutoclaimRipe
  <2>3. ASSUME NEW w \in Workers, Loop(w), ~OnBatch(w) PROVE UNCHANGED applied
    BY <2>3 DEF Loop, Leave, ReadOwn, ReadNew, Fence, DeadLetter, DeadLetterAck,
                Normalized, WriteSegment, Written, RejectRow, AckRecord, Processed
  <2> QED BY <2>1, <2>2, <2>3 DEF Next
<1>2. PICK w \in Workers : OnBatch(w)
  BY <1>1
<1>3. pc[w] = "reject" /\ e \in Records(w) \ bad[w] /\ BatchInv(w)
  BY <1>2 DEF OnBatch, At, DurableInv
<1> QED BY <1>3 DEF BatchInv, Stored, Settled

\* Nothing is in anyone's hands yet.
LEMMA DurableInit == Init => DurableInv
<1> SUFFICES ASSUME Init PROVE DurableInv
  OBVIOUS
<1>1. AckedIsSettled /\ AckedWasApplied /\ AppliedIsDurable
  BY DEF Init, AckedIsSettled, AckedWasApplied, AppliedIsDurable
<1>2. \A w \in Workers : BatchInv(w)
  BY DEF Init, BatchInv
<1> QED BY <1>1, <1>2 DEF DurableInv

\* DurableInv is inductive when no command of a pipeline is refused.
LEMMA DurableStep ==
  ASSUME MaxRefusals = 0, TypeOK, [Next]_vars, DurableInv
  PROVE  DurableInv'
<1>1. acked \subseteq Entry /\ applied \subseteq Entry /\ acked' \subseteq Entry
      /\ applied' \subseteq Entry
  BY StoreType DEF TypeOK, StoreTypeOK, Entry
<1>2. \A e \in Entry : Good(e)' = Good(e) /\ (Settled(e) => Settled(e)')
  BY SettledStays
<1>3. applied \subseteq applied'
  BY Durability
<1>4. AckedIsSettled' /\ AckedWasApplied'
  BY <1>1, <1>2, <1>3, AckedEarned DEF DurableInv, AckedIsSettled, AckedWasApplied
<1>5. AppliedIsDurable'
  BY <1>1, <1>2, AppliedEarned DEF DurableInv, AppliedIsDurable
<1>6. \A w \in Workers : BatchInv(w)'
  BY BatchStep DEF DurableInv
<1> QED BY <1>4, <1>5, <1>6 DEF DurableInv

\* I1 on the worker's side, for every number of workers, entries, crashes,
\* expired leases and thrown errors: with a Redis that refuses no command
\* inside a pipeline, an acknowledged entry is durable, its engines have run,
\* and no engine ever saw what the database did not hold.
THEOREM PersistThenAck ==
  ASSUME MaxRefusals = 0
  PROVE  Spec => [](AckedIsSettled /\ AckedWasApplied /\ AppliedIsDurable)
<1>1. Init => DurableInv
  BY DurableInit
<1>2. TypeOK /\ DurableInv /\ [Next]_vars => DurableInv'
  BY DurableStep
<1>3. DurableInv => AckedIsSettled /\ AckedWasApplied /\ AppliedIsDurable
  BY DEF DurableInv
<1> QED BY <1>1, <1>2, <1>3, TypeCorrect, PTL DEF Spec

-----------------------------------------------------------------------------
(* I3 and the group's bookkeeping, refused commands included.              *)

\* I3: no interleaving stores a record twice, whatever is redelivered.
THEOREM StoredOnce == Spec => []OneRowPerRecord
<1>1. Init => OneRowPerRecord
  BY DEF Init, OneRowPerRecord
<1>2. TypeOK /\ OneRowPerRecord /\ [Next]_vars => OneRowPerRecord'
  <2> SUFFICES ASSUME TypeOK, OneRowPerRecord, [Next]_vars PROVE OneRowPerRecord'
    OBVIOUS
  <2>1. CASE UNCHANGED rows
    BY <2>1 DEF OneRowPerRecord
  <2>2. ASSUME NEW S, InsertRows(S) PROVE OneRowPerRecord'
    BY <2>2 DEF InsertRows, OneRowPerRecord
  <2>3. UNCHANGED rows \/ \E S : InsertRows(S)
    <3>1. CASE XAdd \/ Expire \/ UNCHANGED vars
      BY <3>1 DEF XAdd, Expire, vars
    <3>2. ASSUME NEW w \in Workers, Ownership(w) \/ Crash(w) \/ Throw(w) \/ Autoclaim(w)
          PROVE  UNCHANGED rows
      BY <3>2 DEF Ownership, Gain, Start, NoticeLoss, Drain, Release, Crash, Throw,
                  Autoclaim, AutoclaimRipe
    <3>3. ASSUME NEW w \in Workers, Loop(w), ~WriteSegment(w) PROVE UNCHANGED rows
      BY <3>3 DEF Loop, Leave, ReadOwn, ReadNew, Fence, DeadLetter, DeadLetterAck,
                  Normalized, Written, RejectRow, OnBatch, AckRecord, Processed
    <3>4. ASSUME NEW w \in Workers, WriteSegment(w)
          PROVE  UNCHANGED rows \/ \E S : InsertRows(S)
      BY <3>4 DEF WriteSegment
    <3> QED BY <3>1, <3>2, <3>3, <3>4 DEF Next
  <2> QED BY <2>1, <2>2, <2>3
<1> QED BY <1>1, <1>2, TypeCorrect, PTL DEF Spec

\* COUNT takes a prefix: whatever is in the set below one of the n oldest is
\* one of them too.
LEMMA OldestPrefix ==
  ASSUME NEW S \in SUBSET Int, IsFiniteSet(S), NEW n \in Nat,
         NEW e \in Oldest(S, n), NEW f \in S, f <= e
  PROVE  f \in Oldest(S, n)
<1> DEFINE below(x) == {g \in S : g < x}
<1>1. e \in S /\ Cardinality(below(e)) < n
  BY DEF Oldest
<1>2. below(f) \subseteq below(e)
  <2> SUFFICES ASSUME NEW g \in S, g < f PROVE g < e
    OBVIOUS
  <2>1. g \in Int /\ f \in Int /\ e \in Int
    BY <1>1
  <2> QED BY <2>1
<1>3. IsFiniteSet(below(e))
  BY FS_Subset, below(e) \subseteq S
<1>4. Cardinality(below(f)) <= Cardinality(below(e))
  BY <1>2, <1>3, FS_Subset
<1>5. Cardinality(below(e)) \in Nat /\ Cardinality(below(f)) \in Nat
  BY <1>2, <1>3, FS_Subset, FS_CardinalityType
<1>6. Cardinality(below(f)) < n
  BY <1>1, <1>4, <1>5
<1> QED BY <1>6 DEF Oldest

\* A read of new entries hands out all the stream still holds up to where it
\* moves the cursor.
LEMMA ReadNewContiguous ==
  ASSUME TypeOK, NEW w \in Workers, ReadNew(w),
         NEW f \in stream, f > cursor, f <= cursor'
  PROVE  f \in delivered'
<1> DEFINE S == {e \in stream : e > cursor}
           new == Oldest(S, BatchSize)
<1>1. added \in Nat /\ stream \subseteq 1 .. added /\ cursor \in 0 .. added
  BY DEF TypeOK, StoreTypeOK
<1>2. S \in SUBSET Int /\ IsFiniteSet(S)
  <2>1. S \subseteq 1 .. added
    BY <1>1
  <2>2. IsFiniteSet(1 .. added)
    BY <1>1, FS_Interval
  <2>3. IsFiniteSet(S)
    BY <2>1, <2>2, FS_Subset
  <2> HIDE DEF S
  <2>4. S \in SUBSET Int
    BY <1>1, <2>1
  <2> QED BY <2>3, <2>4
<1>3. /\ cursor' = cursor \/ cursor' \in new
      /\ delivered' = delivered \cup new
  BY DEF ReadNew
<1>4. f \in S /\ cursor' # cursor
  BY <1>1
<1>5. cursor' \in new /\ BatchSize \in Nat
  BY <1>3, <1>4
<1> HIDE DEF S, new
<1>6. f \in new
  BY <1>2, <1>4, <1>5, OldestPrefix DEF new
<1> QED BY <1>3, <1>6

\* How the PEL, the acknowledgements and the reports move together.
LEMMA PelStep ==
  ASSUME TypeOK, [Next]_vars, NEW e \in Entry
  PROVE  /\ acked \subseteq acked' /\ evicted \subseteq evicted'
         /\ Pending(e) /\ ~Pending(e)' => e \in acked' \cup evicted'
         /\ e \in delivered' \ delivered => Pending(e)'
<1> USE DEF redisVars, Pending
<1>1. pel \in [Entry -> Workers \cup {None}]
  BY DEF TypeOK, StoreTypeOK
<1>2. CASE XAdd \/ Expire \/ UNCHANGED vars
  BY <1>2 DEF XAdd, Expire, vars
<1>3. ASSUME NEW w \in Workers, Ownership(w) \/ Crash(w) \/ Throw(w)
      PROVE  UNCHANGED <<pel, acked, evicted, delivered>>
  BY <1>3 DEF Ownership, Gain, Start, NoticeLoss, Drain, Release, Crash, Throw
<1>4. ASSUME NEW w \in Workers, Autoclaim(w)
      PROVE  /\ acked' = acked /\ delivered' = delivered /\ evicted \subseteq evicted'
             /\ Pending(e) /\ ~Pending(e)' => e \in evicted'
  BY <1>1, <1>4 DEF Autoclaim, AutoclaimRipe
<1>5. ASSUME NEW w \in Workers, ReadOwn(w)
      PROVE  /\ acked' = acked /\ delivered' = delivered /\ evicted \subseteq evicted'
             /\ Pending(e) /\ ~Pending(e)' => e \in evicted'
  BY <1>1, <1>5 DEF ReadOwn
<1>6. ASSUME NEW w \in Workers, ReadNew(w)
      PROVE  /\ acked' = acked /\ evicted' = evicted
             /\ Pending(e) => Pending(e)'
             /\ e \in delivered' \ delivered => Pending(e)'
  BY <1>1, <1>6 DEF ReadNew
<1>7. ASSUME NEW w \in Workers, DeadLetterAck(w) \/ AckRecord(w)
      PROVE  /\ acked \subseteq acked' /\ evicted' = evicted /\ delivered' = delivered
             /\ Pending(e) /\ ~Pending(e)' => e \in acked'
  <2>1. UNCHANGED <<evicted, delivered>>
    BY <1>7 DEF DeadLetterAck, AckRecord
  <2>2. PICK x \in work[w] : PipelinedXAck(x)
    BY <1>7 DEF DeadLetterAck, AckRecord
  <2> QED BY <1>1, <2>1, <2>2 DEF PipelinedXAck, XAck
<1>8. ASSUME NEW w \in Workers, Leave(w) \/ Fence(w) \/ DeadLetter(w) \/ Normalized(w)
             \/ WriteSegment(w) \/ Written(w) \/ RejectRow(w) \/ OnBatch(w) \/ Processed(w)
      PROVE  UNCHANGED <<pel, acked, evicted, delivered>>
  BY <1>8 DEF Leave, Fence, DeadLetter, Normalized, WriteSegment, Written, RejectRow,
              OnBatch, Processed
<1> QED
  BY <1>2, <1>3, <1>4, <1>5, <1>6, <1>7, <1>8 DEF Next, Loop

\* Nothing leaves the group unseen: what was handed out is pending,
\* acknowledged or reported, and the cursor passes nothing the stream holds.
THEOREM GroupAccountsForAll == Spec => []NothingSkipped
<1>1. Init => NothingSkipped
  BY DEF Init, NothingSkipped
<1>2. TypeOK /\ NothingSkipped /\ [Next]_vars => NothingSkipped'
  <2> SUFFICES ASSUME TypeOK, NothingSkipped, [Next]_vars PROVE NothingSkipped'
    OBVIOUS
  <2>1. TypeOK'
    BY LeaseType, LoopType, StoreType DEF TypeOK
  <2>2. ASSUME NEW e \in delivered'
        PROVE  Pending(e)' \/ e \in acked' \cup evicted'
    <3>1. e \in Entry
      BY <2>1 DEF TypeOK, StoreTypeOK, Entry
    <3> QED BY <3>1, PelStep DEF NothingSkipped
  <2>3. ASSUME NEW e \in 1 .. cursor', e \in stream' PROVE e \in delivered'
    <3> USE DEF redisVars
    <3>1. added \in Nat /\ stream \subseteq 1 .. added /\ cursor \in 0 .. added
      BY DEF TypeOK, StoreTypeOK
    <3>2. CASE XAdd
      <4>1. /\ stream' \subseteq stream \cup {added + 1}
            /\ cursor' = cursor /\ delivered' = delivered
        BY <3>2 DEF XAdd
      <4>2. e # added + 1 /\ e \in 1 .. cursor
        BY <2>3, <3>1, <4>1
      <4> QED BY <2>3, <4>1, <4>2 DEF NothingSkipped
    <3>3. ASSUME NEW w \in Workers, ReadNew(w) PROVE e \in delivered'
      <4>1. stream' = stream /\ delivered \subseteq delivered'
        BY <3>3 DEF ReadNew
      <4>2. CASE e <= cursor
        BY <2>3, <3>1, <4>1, <4>2 DEF NothingSkipped
      <4>3. CASE e > cursor
        <5>1. cursor' \in Int
          BY <2>1 DEF TypeOK, StoreTypeOK
        <5>2. e <= cursor'
          BY <5>1
        <5> QED BY <2>3, <3>3, <4>1, <4>3, <5>2, ReadNewContiguous
      <4>4. e \in Int /\ cursor \in Int
        BY <3>1
      <4> QED BY <4>2, <4>3, <4>4
    <3>4. CASE UNCHANGED <<stream, cursor, delivered>>
      BY <2>3, <3>4 DEF NothingSkipped
    <3>5. \/ XAdd \/ UNCHANGED <<stream, cursor, delivered>>
          \/ \E w \in Workers : ReadNew(w)
      <4>1. CASE Expire \/ UNCHANGED vars
        BY <4>1 DEF Expire, vars
      <4>2. ASSUME NEW w \in Workers, Ownership(w) \/ Crash(w) \/ Throw(w) \/ Autoclaim(w)
            PROVE  UNCHANGED <<stream, cursor, delivered>>
        BY <4>2 DEF Ownership, Gain, Start, NoticeLoss, Drain, Release, Crash, Throw,
                    Autoclaim, AutoclaimRipe
      <4>3. ASSUME NEW w \in Workers, Loop(w), ~ReadNew(w)
            PROVE  UNCHANGED <<stream, cursor, delivered>>
        BY <4>3 DEF Loop, Leave, ReadOwn, Fence, DeadLetter, DeadLetterAck, Normalized,
                    WriteSegment, Written, RejectRow, OnBatch, AckRecord, Processed
      <4> QED BY <4>1, <4>2, <4>3 DEF Next
    <3> QED BY <3>2, <3>3, <3>4, <3>5
  <2> QED BY <2>2, <2>3 DEF NothingSkipped
<1> QED BY <1>1, <1>2, TypeCorrect, PTL DEF Spec

-----------------------------------------------------------------------------
(* The pipeline implements RecordLedger.                                   *)

\* Only appended entries are ever pending.
PendingAppended == \A e \in Entry : Pending(e) => e \in 1 .. added

\* A step keeps it so: an entry is appended before it is delivered.
LEMMA PendingStep ==
  ASSUME TypeOK, [Next]_vars, PendingAppended PROVE PendingAppended'
<1> USE DEF redisVars, Pending, PendingAppended
<1>1. /\ pel \in [Entry -> Workers \cup {None}] /\ added \in Nat
      /\ stream \subseteq 1 .. added
  BY DEF TypeOK, StoreTypeOK
<1>2. CASE XAdd
  <2>1. added' = added + 1 /\ pel' = pel
    BY <1>2 DEF XAdd
  <2> QED BY <1>1, <2>1 DEF Entry
<1>3. CASE Expire \/ UNCHANGED vars
  BY <1>3 DEF Expire, vars
<1>4. ASSUME NEW w \in Workers, Ownership(w) \/ Crash(w) \/ Throw(w)
      PROVE  PendingAppended'
  BY <1>4 DEF Ownership, Gain, Start, NoticeLoss, Drain, Release, Crash, Throw
<1>5. ASSUME NEW w \in Workers, Autoclaim(w) PROVE PendingAppended'
  <2>1. PICK ripe : AutoclaimRipe(w, ripe)
    BY <1>5 DEF Autoclaim
  <2> DEFINE seen == Oldest({e \in Entry : Pending(e) /\ (e \in ripe \/ e \notin stream)},
                            BatchSize)
  <2>2. \A e \in seen : e \in Entry /\ Pending(e)
    BY OldestSubset, Zenon
  <2>3. /\ pel' = [e \in Entry |-> IF e \in seen \ stream THEN None
                                   ELSE IF e \in seen THEN w ELSE pel[e]]
        /\ added' = added
    BY <2>1 DEF AutoclaimRipe
  <2> HIDE DEF seen
  <2> QED BY <1>1, <2>2, <2>3
<1>6. ASSUME NEW w \in Workers, ReadOwn(w) PROVE PendingAppended'
  BY <1>1, <1>6 DEF ReadOwn
<1>7. ASSUME NEW w \in Workers, ReadNew(w) PROVE PendingAppended'
  <2> DEFINE new == Oldest({e \in stream : e > cursor}, BatchSize)
  <2>1. \A e \in new : e \in stream
    BY OldestSubset, Zenon
  <2>2. /\ pel' = [e \in Entry |-> IF e \in new THEN w ELSE pel[e]]
        /\ added' = added
    BY <1>7 DEF ReadNew
  <2> HIDE DEF new
  <2> QED BY <1>1, <2>1, <2>2
<1>8. ASSUME NEW w \in Workers, DeadLetterAck(w) \/ AckRecord(w) PROVE PendingAppended'
  BY <1>1, <1>8 DEF DeadLetterAck, AckRecord, PipelinedXAck, XAck
<1>9. ASSUME NEW w \in Workers, Leave(w) \/ Fence(w) \/ DeadLetter(w) \/ Normalized(w)
             \/ WriteSegment(w) \/ Written(w) \/ RejectRow(w) \/ OnBatch(w) \/ Processed(w)
      PROVE  PendingAppended'
  BY <1>9 DEF Leave, Fence, DeadLetter, Normalized, WriteSegment, Written, RejectRow,
              OnBatch, Processed
<1> QED
  BY <1>2, <1>3, <1>4, <1>5, <1>6, <1>7, <1>8, <1>9 DEF Next, Loop

\* A step that stores and moves nothing leaves the ledger alone.
LEMMA LedgerFrame ==
  ASSUME UNCHANGED <<content, added, stream, pel, acked, rows, dead>>
  PROVE  UNCHANGED Ledger!ledger
BY DEF Ledger!ledger, Lost, Pending, Settled, Good

\* Every step is one of the ledger's.
LEMMA LedgerStep ==
  ASSUME MaxRefusals = 0, TypeOK, DurableInv, PendingAppended, [Next]_vars
  PROVE  [Ledger!Next]_(Ledger!ledger)
<1> USE DEF redisVars
<1>1. /\ pel \in [Entry -> Workers \cup {None}] /\ added \in Nat
      /\ stream \subseteq 1 .. added /\ 1 .. added \subseteq Entry
      /\ added \in 0 .. MaxEntries
  BY DEF TypeOK, StoreTypeOK, Entry
<1>2. CASE XAdd
  <2>1. PICK t \in 0 .. added : stream' = {e \in stream \cup {added + 1} : e > t}
    BY <1>2 DEF XAdd
  <2>2. /\ added' = added + 1 /\ added + 1 \in Entry
        /\ UNCHANGED <<content, pel, acked, rows, dead>>
    BY <1>1, <1>2 DEF XAdd, Entry
  <2>3. 1 .. added' = (1 .. added) \cup {added + 1} /\ added + 1 \notin 1 .. added
    BY <1>1, <2>2
  <2>4. \A e : Settled(e)' = Settled(e)
    BY <2>2 DEF Settled, Good
  <2>5. {e \in 1 .. added : Settled(e)}'
          \in {{e \in 1 .. added : Settled(e)},
               {e \in 1 .. added : Settled(e)} \cup {added + 1}}
    BY <2>3, <2>4
  <2>6. added + 1 \in stream' /\ stream' \subseteq stream \cup {added + 1}
    BY <1>1, <2>1
  <2>7. Lost \subseteq Lost' /\ Lost' \ Lost \subseteq (1 .. added) \ acked
    BY <2>2, <2>3, <2>6 DEF Lost, Pending
  <2>8. Ledger!Accept
    BY <2>2, <2>3, <2>5, <2>7 DEF Ledger!Accept, Ledger!Destroy
  <2> QED BY <2>8 DEF Ledger!Next
<1>3. CASE Expire \/ UNCHANGED vars
  BY <1>3, LedgerFrame DEF Expire, vars
<1>4. ASSUME NEW w \in Workers,
             Ownership(w) \/ Crash(w) \/ Throw(w) \/ Leave(w) \/ Fence(w) \/ Normalized(w)
             \/ Written(w) \/ OnBatch(w) \/ Processed(w)
      PROVE  UNCHANGED Ledger!ledger
  <2>1. UNCHANGED <<content, added, stream, pel, acked, rows, dead>>
    BY <1>4 DEF Ownership, Gain, Start, NoticeLoss, Drain, Release, Crash, Throw, Leave,
                Fence, Normalized, Written, OnBatch, Processed
  <2> QED BY <2>1, LedgerFrame
<1>5. ASSUME NEW w \in Workers, Autoclaim(w) \/ ReadOwn(w) \/ ReadNew(w)
      PROVE  Ledger!Trim
  <2>1. UNCHANGED <<content, added, stream, acked, rows, dead>>
    BY <1>5 DEF Autoclaim, AutoclaimRipe, ReadOwn, ReadNew
  <2>2. \A e \in Entry : ~Pending(e) /\ e \notin stream => ~Pending(e)'
    <3>1. CASE Autoclaim(w)
      <4>1. PICK ripe : AutoclaimRipe(w, ripe)
        BY <3>1 DEF Autoclaim
      <4> DEFINE seen == Oldest({e \in Entry : Pending(e) /\ (e \in ripe \/ e \notin stream)},
                                BatchSize)
      <4>2. \A e \in seen : Pending(e)
        BY OldestSubset, Zenon
      <4>3. pel' = [e \in Entry |-> IF e \in seen \ stream THEN None
                                    ELSE IF e \in seen THEN w ELSE pel[e]]
        BY <4>1 DEF AutoclaimRipe
      <4> HIDE DEF seen
      <4> QED BY <1>1, <4>2, <4>3 DEF Pending
    <3>2. CASE ReadOwn(w)
      BY <1>1, <3>2 DEF ReadOwn, Pending
    <3>3. CASE ReadNew(w)
      <4> DEFINE new == Oldest({e \in stream : e > cursor}, BatchSize)
      <4>1. \A e \in new : e \in stream
        BY OldestSubset, Zenon
      <4>2. pel' = [e \in Entry |-> IF e \in new THEN w ELSE pel[e]]
        BY <3>3 DEF ReadNew
      <4> HIDE DEF new
      <4> QED BY <1>1, <4>1, <4>2 DEF Pending
    <3> QED BY <1>5, <3>1, <3>2, <3>3
  <2>3. Lost \subseteq Lost' /\ Lost' \ Lost \subseteq (1 .. added) \ acked
    BY <1>1, <2>1, <2>2 DEF Lost
  <2>4. {e \in 1 .. added : Settled(e)}' = {e \in 1 .. added : Settled(e)}
    BY <2>1 DEF Settled, Good
  <2> QED BY <2>1, <2>3, <2>4 DEF Ledger!Trim, Ledger!Destroy
<1>6. ASSUME NEW w \in Workers, WriteSegment(w) \/ DeadLetter(w) \/ RejectRow(w)
      PROVE  Ledger!Store
  <2>1. UNCHANGED <<added, stream, pel, acked>>
    BY <1>6 DEF WriteSegment, DeadLetter, RejectRow
  <2>2. Lost' = Lost
    BY <2>1 DEF Lost, Pending
  <2>3. \A e \in 1 .. added : Settled(e) => Settled(e)'
    BY <1>1, SettledStays
  <2> QED BY <2>1, <2>2, <2>3 DEF Ledger!Store
<1>7. ASSUME NEW w \in Workers, DeadLetterAck(w) \/ AckRecord(w)
      PROVE  Ledger!Close \/ UNCHANGED Ledger!ledger
  <2>1. PICK e \in work[w] : PipelinedXAck(e)
    BY <1>7 DEF DeadLetterAck, AckRecord
  <2>2. e \in Entry
    BY DEF TypeOK, LoopTypeOK
  <2>3. ~Spend("refusal")
    BY DEF Spend, Limit, TypeOK, LeaseTypeOK, FaultKind
  <2>4. XAck(e) /\ UNCHANGED <<content, added, stream, rows, dead>>
    BY <1>7, <2>1, <2>3 DEF DeadLetterAck, AckRecord, PipelinedXAck
  <2>5. CASE ~Pending(e)
    <3>1. pel' = pel /\ acked' = acked
      BY <1>1, <2>2, <2>4, <2>5 DEF XAck, Pending
    <3> QED BY <2>4, <3>1, LedgerFrame
  <2>6. CASE Pending(e)
    <3>1. /\ acked' = acked \cup {e}
          /\ \A f \in Entry : Pending(f)' = (Pending(f) /\ f # e)
      BY <1>1, <2>2, <2>4, <2>6 DEF XAck, Pending
    <3>2. Lost' = Lost /\ e \notin Lost
      BY <1>1, <2>4, <2>6, <3>1 DEF Lost
    <3>3. {f \in 1 .. added : Settled(f)}' = {f \in 1 .. added : Settled(f)}
      BY <2>4 DEF Settled, Good
    <3>4. e \in 1 .. added
      BY <2>2, <2>6 DEF PendingAppended
    <3>5. CASE e \in acked
      BY <2>4, <3>1, <3>2, <3>3, <3>5 DEF Ledger!ledger
    <3>6. CASE e \notin acked
      <4>1. Settled(e)
        BY <3>1, <3>6, AckedEarned
      <4> QED BY <2>4, <3>1, <3>2, <3>3, <3>4, <4>1 DEF Ledger!Close
    <3> QED BY <3>5, <3>6
  <2> QED BY <2>5, <2>6
<1> QED
  BY <1>2, <1>3, <1>4, <1>5, <1>6, <1>7 DEF Next, Loop, Ledger!Next

\* The detailed pipeline implements the ledger, for every number of workers,
\* entries and faults, when Redis refuses no command inside a pipeline: an
\* accepted record is closed only once durable, and closed or destroyed is
\* final.
THEOREM PipelineKeepsLedger ==
  ASSUME MaxRefusals = 0 PROVE Spec => KeepsLedger
<1>1. Init => Ledger!Init
  <2> SUFFICES ASSUME Init PROVE Ledger!Init
    OBVIOUS
  <2>1. 1 .. added = {}
    BY DEF Init
  <2> QED BY <2>1 DEF Init, Lost, Ledger!Init
<1>2. Init => DurableInv /\ PendingAppended
  BY DurableInit DEF Init, PendingAppended, Pending
<1>3. TypeOK /\ DurableInv /\ PendingAppended /\ [Next]_vars
        => DurableInv' /\ PendingAppended'
  BY DurableStep, PendingStep
<1>4. TypeOK /\ DurableInv /\ PendingAppended /\ [Next]_vars
        => [Ledger!Next]_(Ledger!ledger)
  BY LedgerStep
<1> QED BY <1>1, <1>2, <1>3, <1>4, TypeCorrect, PTL DEF Spec, KeepsLedger, Ledger!Spec
=============================================================================
