---------------------------- MODULE ShardPipeline ----------------------------
(***************************************************************************)
(* One shard of the ingest-to-database pipeline: the Redis stream          *)
(* raw:{shard} with its consumer group, the worker processes that may hold *)
(* the shard's lease, the consumer loop each of them runs                  *)
(* (apps/worker/src/consumer.ts) and the positions table.                  *)
(*                                                                         *)
(* A step of a consumer is one command to Redis or one SQL statement, so   *)
(* that everything another process can do between two commands is          *)
(* interleaved.  The lease is modelled here by what the consumer sees of   *)
(* it; its renewal, release and the start/stop queue are in ShardLease.    *)
(***************************************************************************)
EXTENDS Integers, FiniteSets

CONSTANTS
  Workers,      \* worker processes; a restarted process is a new worker
  None,         \* no worker
  Key,          \* dedupe keys (device_id, fix_time, rec_hash) of positions
  MaxEntries,   \* how many entries ingest appends
  BatchSize,    \* COUNT of XREADGROUP and XAUTOCLAIM
  MaxLen,       \* MAXLEN of raw:{shard}
  MaxStalls,    \* leases that expire under a live holder (GC pause, partition)
  MaxCrashes,   \* processes that die without draining
  MaxFaults,    \* commands or statements that fail and throw
  MaxRefusals   \* commands refused inside a pipeline, which do not throw

ASSUME ConstantsAssumption ==
  /\ None \notin Workers
  /\ MaxEntries \in Nat /\ BatchSize \in Nat \ {0} /\ MaxLen \in Nat \ {0}
  /\ MaxStalls \in Nat /\ MaxCrashes \in Nat
  /\ MaxFaults \in Nat /\ MaxRefusals \in Nat

Entry == 1 .. MaxEntries   \* stream ids, in the order Redis hands them out

(***************************************************************************)
(* What an entry holds.  normalize() throws on a malformed one, Postgres   *)
(* rejects the row of a poison one (SQLSTATE class 22 or 23), and a good   *)
(* one becomes the row with its key; a frame the device sent twice is two  *)
(* entries with one key.                                                   *)
(***************************************************************************)
Content == [kind : {"good"}, key : Key] \cup [kind : {"malformed", "poison"}]

VARIABLES
  content,      \* entry -> what it holds
  added,        \* entries 1..added have been appended by ingest
  stream,       \* the entries MAXLEN has not trimmed away
  cursor,       \* the group's last-delivered id
  pel,          \* entry -> the worker it is pending to, or None
  delivered,    \* entries some consumer was handed by read('>') (history)
  acked,        \* entries XACK removed from the PEL after processing
  evicted,      \* entries reported through onPendingEvicted
  rows,         \* key -> number of rows of positions with that key
  dead,         \* entries whose payload is in raw:dead
  applied,      \* entries handed to onBatch at least once (history)
  lease,        \* the worker shards:lease:{n} names, or None
  proc,         \* worker -> its process is up, draining after SIGTERM or down
  owned,        \* worker -> the leaser believes it holds the lease
  queued,       \* worker -> a consumer start waits in the shard's op queue
  pc,           \* worker -> where its consumer loop is
  running,      \* worker -> the consumer's `running` flag
  ownPending,   \* worker -> the loop's `ownPending`
  source,       \* worker -> the read that filled the batch
  batch,        \* worker -> entries read and not yet dealt with
  work,         \* worker -> entries the current pipeline still covers
  segs,         \* worker -> slices of the batch still to INSERT
  bad,          \* worker -> entries whose row was rejected
  spent         \* faults of each kind that have happened

redisVars == <<added, stream, cursor, pel, delivered, acked, evicted, dead>>
leaseVars == <<lease, proc, owned, queued>>
loopVars == <<pc, running, ownPending, source>>
batchVars == <<batch, work, segs, bad>>
vars == <<content, redisVars, rows, applied, leaseVars, loopVars, batchVars,
          spent>>

Processing == {"dead", "deadAck", "write", "reject", "apply", "ack"}
PC == {"stopped", "top", "claim", "read", "fence"} \cup Processing
FaultKind == {"stall", "crash", "fault", "refusal"}

Limit(k) == CASE k = "stall" -> MaxStalls [] k = "crash" -> MaxCrashes
              [] k = "fault" -> MaxFaults [] k = "refusal" -> MaxRefusals

StoreTypeOK ==
  /\ content \in [Entry -> Content]
  /\ added \in 0 .. MaxEntries /\ stream \subseteq 1 .. added
  /\ cursor \in 0 .. added
  /\ pel \in [Entry -> Workers \cup {None}]
  /\ delivered \subseteq Entry
  /\ acked \subseteq Entry /\ evicted \subseteq Entry
  /\ rows \in [Key -> Nat] /\ dead \subseteq Entry /\ applied \subseteq Entry

LeaseTypeOK ==
  /\ lease \in Workers \cup {None}
  /\ proc \in [Workers -> {"up", "draining", "down"}]
  /\ owned \in [Workers -> BOOLEAN] /\ queued \in [Workers -> BOOLEAN]
  /\ spent \in [FaultKind -> Nat]

LoopTypeOK ==
  /\ pc \in [Workers -> PC] /\ running \in [Workers -> BOOLEAN]
  /\ ownPending \in [Workers -> BOOLEAN]
  /\ source \in [Workers -> {"own", "claim", "read"}]
  /\ batch \in [Workers -> SUBSET Entry] /\ work \in [Workers -> SUBSET Entry]
  /\ segs \in [Workers -> SUBSET SUBSET Entry]
  /\ bad \in [Workers -> SUBSET Entry]

\* Every variable has its type; the stream and the group's cursor never get
\* ahead of what ingest appended.
TypeOK == StoreTypeOK /\ LeaseTypeOK /\ LoopTypeOK

Init ==
  /\ content \in [Entry -> Content]
  /\ added = 0 /\ stream = {} /\ cursor = 0
  /\ pel = [e \in Entry |-> None]
  /\ delivered = {} /\ acked = {} /\ evicted = {} /\ dead = {} /\ applied = {}
  /\ rows = [k \in Key |-> 0]
  /\ lease = None
  /\ proc = [w \in Workers |-> "up"]
  /\ owned = [w \in Workers |-> FALSE]
  /\ queued = [w \in Workers |-> FALSE]
  /\ pc = [w \in Workers |-> "stopped"]
  /\ running = [w \in Workers |-> FALSE]
  /\ ownPending = [w \in Workers |-> TRUE]
  /\ source = [w \in Workers |-> "own"]
  /\ batch = [w \in Workers |-> {}] /\ work = [w \in Workers |-> {}]
  /\ segs = [w \in Workers |-> {}] /\ bad = [w \in Workers |-> {}]
  /\ spent = [k \in FaultKind |-> 0]

-----------------------------------------------------------------------------
(* Helpers.                                                                *)

Spend(k) == /\ spent[k] < Limit(k)
            /\ spent' = [spent EXCEPT ![k] = @ + 1]

Pending(e) == pel[e] # None
Malformed(e) == content[e].kind = "malformed"
Poison(e) == content[e].kind = "poison"
Good(e) == content[e].kind = "good"

\* The n oldest of a set of stream ids (COUNT n, in id order).
Oldest(S, n) == {e \in S : Cardinality({f \in S : f < e}) < n}
IsFirst(e, S) == e \in S /\ \A f \in S : e <= f

At(w, label) == pc[w] = label
Goto(w, label) == pc' = [pc EXCEPT ![w] = label]

\* The loop goes to `label` without a batch; its locals are gone with it.
Unbatched(w, label, drain) ==
  /\ Goto(w, label)
  /\ ownPending' = [ownPending EXCEPT ![w] = drain]
  /\ source' = [source EXCEPT ![w] = "own"]
  /\ batch' = [batch EXCEPT ![w] = {}]
  /\ work' = [work EXCEPT ![w] = {}]
  /\ segs' = [segs EXCEPT ![w] = {}]
  /\ bad' = [bad EXCEPT ![w] = {}]

\* XACK: takes a pending entry out of the PEL, whoever it is pending to.
XAck(e) == /\ pel' = [pel EXCEPT ![e] = None]
           /\ acked' = IF Pending(e) THEN acked \cup {e} ELSE acked

-----------------------------------------------------------------------------
(* Ingest appends; MAXLEN ~ may trim from the old end, never below MaxLen. *)

XAdd ==
  /\ added < MaxEntries
  /\ added' = added + 1
  /\ \E t \in 0 .. added :
       LET all == stream \cup {added + 1}
       IN /\ stream' = {e \in all : e > t}
          /\ t > 0 => Cardinality(stream') >= MaxLen
  /\ UNCHANGED <<content, cursor, pel, delivered, acked, evicted, dead, rows,
                 applied, leaseVars, loopVars, batchVars, spent>>

-----------------------------------------------------------------------------
(* The lease, as far as one consumer can tell, and the process around it.  *)

\* ShardLeaser.tryClaim succeeded; onGained (or main's first start) queues a
\* start of the consumer.
Gain(w) ==
  /\ proc[w] = "up" /\ ~owned[w] /\ lease = None
  /\ lease' = w
  /\ owned' = [owned EXCEPT ![w] = TRUE]
  /\ queued' = [queued EXCEPT ![w] = TRUE]
  /\ UNCHANGED <<content, redisVars, rows, applied, proc, loopVars,
                 batchVars, spent>>

\* The queued start runs once an earlier stop of this shard has finished.
Start(w) ==
  /\ queued[w] /\ At(w, "stopped")
  /\ queued' = [queued EXCEPT ![w] = FALSE]
  /\ Goto(w, "top")
  /\ running' = [running EXCEPT ![w] = TRUE]
  /\ ownPending' = [ownPending EXCEPT ![w] = TRUE]
  /\ UNCHANGED <<content, redisVars, rows, applied, lease, proc, owned,
                 source, batchVars, spent>>

\* The lease's TTL runs out: under a dead holder always, under a live one
\* that was stalled past the TTL.
Expire ==
  /\ lease # None
  /\ IF proc[lease] = "down" THEN UNCHANGED spent ELSE Spend("stall")
  /\ lease' = None
  /\ UNCHANGED <<content, redisVars, rows, applied, proc, owned, queued,
                 loopVars, batchVars>>

\* ShardLeaser.tick finds the lease lost: onLost stops the consumer, which
\* finishes its batch first.
NoticeLoss(w) ==
  /\ proc[w] = "up" /\ owned[w] /\ lease # w
  /\ owned' = [owned EXCEPT ![w] = FALSE]
  /\ queued' = [queued EXCEPT ![w] = FALSE]
  /\ running' = [running EXCEPT ![w] = FALSE]
  /\ UNCHANGED <<content, redisVars, rows, applied, lease, proc, pc,
                 ownPending, source, batchVars, spent>>

\* Another process is up, so that the shard still has someone to serve it.
Successor(w) == \E v \in Workers \ {w} : proc[v] = "up"

\* SIGTERM: no more lease ticks, and the consumer stops after its batch.
Drain(w) ==
  /\ proc[w] = "up" /\ ~queued[w] /\ Successor(w)
  /\ proc' = [proc EXCEPT ![w] = "draining"]
  /\ running' = [running EXCEPT ![w] = FALSE]
  /\ UNCHANGED <<content, redisVars, rows, applied, lease, owned, queued, pc,
                 ownPending, source, batchVars, spent>>

\* Drained: the lease is deleted if it is still ours, and the process exits.
Release(w) ==
  /\ proc[w] = "draining" /\ At(w, "stopped")
  /\ proc' = [proc EXCEPT ![w] = "down"]
  /\ owned' = [owned EXCEPT ![w] = FALSE]
  /\ lease' = IF owned[w] /\ lease = w THEN None ELSE lease
  /\ UNCHANGED <<content, redisVars, rows, applied, queued, loopVars,
                 batchVars, spent>>

\* The process dies wherever it is (also by the 5 s hard exit of a drain).
Crash(w) ==
  /\ proc[w] # "down" /\ Successor(w) /\ Spend("crash")
  /\ proc' = [proc EXCEPT ![w] = "down"]
  /\ owned' = [owned EXCEPT ![w] = FALSE]
  /\ queued' = [queued EXCEPT ![w] = FALSE]
  /\ running' = [running EXCEPT ![w] = FALSE]
  /\ Unbatched(w, "stopped", TRUE)
  /\ UNCHANGED <<content, redisVars, rows, applied, lease>>

-----------------------------------------------------------------------------
(* The consumer loop (ShardConsumer.loop): reading.                        *)

\* `while (this.running)` is left: the consumer is stopped.
Leave(w) ==
  /\ At(w, "top") /\ ~running[w]
  /\ Unbatched(w, "stopped", TRUE)
  /\ UNCHANGED <<content, redisVars, rows, applied, leaseVars, running, spent>>

\* A read ends with a batch to check the lease for, or with none.
Take(w, S, from, next) ==
  /\ batch' = [batch EXCEPT ![w] = S]
  /\ source' = [source EXCEPT ![w] = IF S = {} THEN "own" ELSE from]
  /\ Goto(w, IF S = {} THEN next ELSE "fence")

\* Mutant of ReadOwn: tombstones are acknowledged without being reported.
ReadOwnUnreported(w) ==
  /\ At(w, "top") /\ running[w] /\ ownPending[w]
  /\ LET mine == Oldest({e \in Entry : pel[e] = w}, BatchSize)
     IN /\ pel' = [e \in Entry |-> IF e \in mine \ stream THEN None ELSE pel[e]]
        /\ Take(w, mine \cap stream, "own", "claim")
        /\ ownPending' = [ownPending EXCEPT ![w] = mine \cap stream # {}]
  /\ UNCHANGED <<content, added, stream, cursor, delivered, acked, evicted,
                 dead, rows, applied, leaseVars, running, work, segs, bad, spent>>

\* Mutant of ReadOwn: a tombstone throws, and the drain starts over for ever.
ReadOwnSpins(w) ==
  /\ At(w, "top") /\ running[w] /\ ownPending[w]
  /\ LET mine == Oldest({e \in Entry : pel[e] = w}, BatchSize)
         spin == mine \ stream # {}
     IN /\ Take(w, IF spin THEN {} ELSE mine, "own", IF spin THEN "top" ELSE "claim")
        /\ ownPending' = [ownPending EXCEPT ![w] = mine # {}]
  /\ UNCHANGED <<content, redisVars, rows, applied, leaseVars, running, work,
                 segs, bad, spent>>

\* read(0, '0'): the worker's own PEL.  Entries MAXLEN trimmed meanwhile are
\* acknowledged and reported as evicted; an empty answer ends the drain.
ReadOwn(w) ==
  /\ At(w, "top") /\ running[w] /\ ownPending[w]
  /\ LET mine == Oldest({e \in Entry : pel[e] = w}, BatchSize)
         trimmed == mine \ stream
     IN /\ pel' = [e \in Entry |-> IF e \in trimmed THEN None ELSE pel[e]]
        /\ evicted' = evicted \cup trimmed
        /\ Take(w, mine \cap stream, "own", "claim")
        /\ ownPending' = [ownPending EXCEPT ![w] = mine \cap stream # {}]
  /\ UNCHANGED <<content, added, stream, cursor, delivered, acked, dead, rows,
                 applied, leaseVars, running, work, segs, bad, spent>>

\* The loop is past the drain of its own PEL.
PastOwn(w) == At(w, "claim") \/ (At(w, "top") /\ running[w] /\ ~ownPending[w])

\* autoclaim(): the oldest of the entries, of any consumer, that have been
\* idle for autoclaimMinIdleMs (`ripe`) change hands, and pending ids whose
\* entry was trimmed are dropped and reported.
AutoclaimRipe(w, ripe) ==
  /\ PastOwn(w)
  /\ LET seen == Oldest({e \in Entry : Pending(e) /\ (e \in ripe \/ e \notin stream)},
                        BatchSize)
         gone == seen \ stream
     IN /\ seen # {}
        /\ pel' = [e \in Entry |-> IF e \in gone THEN None
                                   ELSE IF e \in seen THEN w ELSE pel[e]]
        /\ evicted' = evicted \cup gone
        /\ Take(w, seen \cap stream, "claim", "read")
  /\ UNCHANGED <<content, added, stream, cursor, delivered, acked, dead, rows,
                 applied, leaseVars, running, ownPending, work, segs, bad, spent>>

Autoclaim(w) == \E ripe \in SUBSET {e \in Entry : Pending(e)} : AutoclaimRipe(w, ripe)

\* Everything pending has been idle long enough.
ClaimAll(w) == AutoclaimRipe(w, Entry)

\* Mutant of ReadNew: the cursor advances by COUNT, not to the last entry.
ReadNewByCount(w) ==
  /\ PastOwn(w) \/ At(w, "read")
  /\ LET new == Oldest({e \in stream : e > cursor}, BatchSize)
     IN /\ pel' = [e \in Entry |-> IF e \in new THEN w ELSE pel[e]]
        /\ cursor' = IF new = {} THEN cursor ELSE cursor + BatchSize
        /\ delivered' = delivered \cup new
        /\ Take(w, new, "read", "top")
  /\ UNCHANGED <<content, added, stream, acked, evicted, dead, rows, applied,
                 leaseVars, running, ownPending, work, segs, bad, spent>>

\* read('>'): new entries, which become pending to this worker; after an
\* autoclaim, or without one (nothing to claim, or none due for 30 s).
ReadNew(w) ==
  /\ PastOwn(w) \/ At(w, "read")
  /\ LET new == Oldest({e \in stream : e > cursor}, BatchSize)
     IN /\ pel' = [e \in Entry |-> IF e \in new THEN w ELSE pel[e]]
        /\ IF new = {} THEN UNCHANGED cursor
           ELSE cursor' \in new /\ \A e \in new : e <= cursor'
        /\ delivered' = delivered \cup new
        /\ Take(w, new, "read", "top")
  /\ UNCHANGED <<content, added, stream, acked, evicted, dead, rows,
                 applied, leaseVars, running, ownPending, work, segs, bad,
                 spent>>

\* ownsShard(): a GET of the lease; not ours any more means fence(), which
\* leaves the batch pending and stops the loop.
Fence(w) ==
  /\ At(w, "fence")
  /\ \/ /\ lease = w
        /\ Goto(w, "dead")
        /\ work' = [work EXCEPT ![w] = {e \in batch[w] : Malformed(e)}]
        /\ UNCHANGED <<running, ownPending, source, batch, segs, bad>>
     \/ /\ lease # w
        /\ running' = [running EXCEPT ![w] = FALSE]
        /\ Unbatched(w, "stopped", TRUE)
  /\ UNCHANGED <<content, redisVars, rows, applied, leaseVars, spent>>

-----------------------------------------------------------------------------
(* The consumer loop: ShardConsumer.process of a batch.                    *)

Records(w) == {e \in batch[w] : ~Malformed(e)}   \* what normalize() accepted

\* process() returned: own entries are drained again, claimed ones are
\* followed by a read, new ones by the loop's next turn.
Finish(w) ==
  Unbatched(w, IF source[w] = "claim" THEN "read" ELSE "top", ownPending[w])

\* One XADD raw:dead of a pipeline; a refusal does not fail the pipeline.
XAddDead(e) == \/ dead' = dead \cup {e} /\ UNCHANGED spent
               \/ Spend("refusal") /\ UNCHANGED dead

\* One XACK of a pipeline, refused or not.
PipelinedXAck(e) == \/ XAck(e) /\ UNCHANGED spent
                    \/ Spend("refusal") /\ UNCHANGED <<pel, acked>>

\* Malformed entries, in one pipeline: the payload to raw:dead...
DeadLetter(w) ==
  /\ At(w, "dead")
  /\ \E e \in work[w] : IsFirst(e, work[w]) /\ XAddDead(e)
  /\ Goto(w, "deadAck")
  /\ UNCHANGED <<content, added, stream, cursor, pel, delivered, acked, evicted,
                 rows, applied, leaseVars, running, ownPending, source,
                 batchVars>>

\* ...and its entry out of the PEL.
DeadLetterAck(w) ==
  /\ At(w, "deadAck")
  /\ \E e \in work[w] : /\ IsFirst(e, work[w])
                        /\ PipelinedXAck(e)
                        /\ work' = [work EXCEPT ![w] = @ \ {e}]
  /\ Goto(w, "dead")
  /\ UNCHANGED <<content, added, stream, cursor, delivered, evicted, dead, rows, applied,
                 leaseVars, running, ownPending, source, batch, segs, bad>>

\* Mutant of Normalized: the records are acknowledged before the INSERT.
NormalizedAcksFirst(w) ==
  /\ At(w, "dead") /\ work[w] = {}
  /\ Goto(w, "ack")
  /\ work' = [work EXCEPT ![w] = Records(w)]
  /\ UNCHANGED <<content, redisVars, rows, applied, leaseVars, running,
                 ownPending, source, batch, segs, bad, spent>>

\* No malformed entry left: nothing else to do, or the records to write.
Normalized(w) ==
  /\ At(w, "dead") /\ work[w] = {}
  /\ \/ Records(w) = {} /\ Finish(w)
     \/ /\ Records(w) # {}
        /\ Goto(w, "write")
        /\ segs' = [segs EXCEPT ![w] = {Records(w)}]
        /\ UNCHANGED <<ownPending, source, batch, work, bad>>
  /\ UNCHANGED <<content, redisVars, rows, applied, leaseVars, running, spent>>

\* Mutant of InsertRows: no ON CONFLICT clause.
InsertRowsAgain(S) ==
  rows' = [k \in Key |-> rows[k] + Cardinality({e \in S : Good(e) /\ content[e].key = k})]

\* writePositions: one INSERT ... ON CONFLICT DO NOTHING of all the rows.
InsertRows(S) ==
  rows' = [k \in Key |->
             IF rows[k] = 0 /\ \E e \in S : Good(e) /\ content[e].key = k
             THEN 1 ELSE rows[k]]

\* writeIsolatingBadRows: an INSERT of one slice.  A slice with a poison row
\* is split in two; alone, the poison row is the one to quarantine.
WriteSegment(w) ==
  /\ At(w, "write")
  /\ \E seg \in segs[w] :
       \/ /\ \A e \in seg : ~Poison(e)
          /\ InsertRows(seg)
          /\ segs' = [segs EXCEPT ![w] = @ \ {seg}]
          /\ UNCHANGED bad
       \/ \E e \in seg :
          /\ Poison(e) /\ seg = {e}
          /\ bad' = [bad EXCEPT ![w] = @ \cup {e}]
          /\ segs' = [segs EXCEPT ![w] = @ \ {seg}]
          /\ UNCHANGED rows
       \/ /\ \E e \in seg : Poison(e)
          /\ Cardinality(seg) > 1
          /\ \E half \in SUBSET seg :
               /\ Cardinality(half) = Cardinality(seg) \div 2
               /\ segs' = [segs EXCEPT ![w] = (@ \ {seg}) \cup {half, seg \ half}]
          /\ UNCHANGED <<rows, bad>>
  /\ UNCHANGED <<content, redisVars, applied, leaseVars, loopVars, batch,
                 work, spent>>

\* Mutant of Written: rejected rows are acknowledged without a dead letter.
WrittenDropsRejected(w) ==
  /\ At(w, "write") /\ segs[w] = {}
  /\ Goto(w, "reject")
  /\ UNCHANGED <<content, redisVars, rows, applied, leaseVars, running,
                 ownPending, source, batchVars, spent>>

\* Every slice is written or quarantined.
Written(w) ==
  /\ At(w, "write") /\ segs[w] = {}
  /\ Goto(w, "reject")
  /\ work' = [work EXCEPT ![w] = bad[w]]
  /\ UNCHANGED <<content, redisVars, rows, applied, leaseVars, running,
                 ownPending, source, batch, segs, bad, spent>>

\* The rejected rows' payloads, to raw:dead; they are acknowledged below.
RejectRow(w) ==
  /\ At(w, "reject")
  /\ \E e \in work[w] : /\ IsFirst(e, work[w])
                        /\ XAddDead(e)
                        /\ work' = [work EXCEPT ![w] = @ \ {e}]
  /\ UNCHANGED <<content, added, stream, cursor, pel, delivered, acked, evicted,
                 rows, applied, leaseVars, loopVars, batch, segs, bad>>

\* The engines get the kept records; `await onBatch` comes before the XACK.
\* It catches every error itself, so it never throws into the loop.
OnBatch(w) ==
  /\ At(w, "reject") /\ work[w] = {}
  /\ applied' = applied \cup (Records(w) \ bad[w])
  /\ Goto(w, "ack")
  /\ work' = [work EXCEPT ![w] = Records(w)]
  /\ UNCHANGED <<content, redisVars, rows, leaseVars, running, ownPending,
                 source, batch, segs, bad, spent>>

\* The final pipeline: XACK every record, written and rejected alike.
AckRecord(w) ==
  /\ At(w, "ack")
  /\ \E e \in work[w] : /\ IsFirst(e, work[w])
                        /\ PipelinedXAck(e)
                        /\ work' = [work EXCEPT ![w] = @ \ {e}]
  /\ UNCHANGED <<content, added, stream, cursor, delivered, evicted, dead, rows, applied,
                 leaseVars, loopVars, batch, segs, bad>>

Processed(w) ==
  /\ At(w, "ack") /\ work[w] = {}
  /\ Finish(w)
  /\ UNCHANGED <<content, redisVars, rows, applied, leaseVars, running, spent>>

\* A command or a statement throws: the batch is dropped where it is, and
\* the loop drains its own PEL before it reads anything new.
Throw(w) ==
  /\ ~At(w, "stopped") /\ Spend("fault")
  /\ Unbatched(w, "top", TRUE)
  /\ UNCHANGED <<content, redisVars, rows, applied, leaseVars, running>>

-----------------------------------------------------------------------------
Loop(w) ==
  \/ Leave(w) \/ ReadOwn(w) \/ ReadNew(w) \/ Fence(w)
  \/ DeadLetter(w) \/ DeadLetterAck(w) \/ Normalized(w)
  \/ WriteSegment(w) \/ Written(w) \/ RejectRow(w) \/ OnBatch(w)
  \/ AckRecord(w) \/ Processed(w)

Ownership(w) ==
  \/ Gain(w) \/ Start(w) \/ NoticeLoss(w) \/ Drain(w) \/ Release(w)

Next ==
  \/ XAdd \/ Expire
  \/ \E w \in Workers : \/ Loop(w) \/ Autoclaim(w) \/ Throw(w)
                        \/ Ownership(w) \/ Crash(w)

Spec == Init /\ [][Next]_vars

\* What the deployment guarantees: processes are scheduled, timers fire, the
\* lease of a dead process runs out, and the 30 s autoclaim gate opens again
\* and again.  Nothing is assumed of the faults.
Fairness ==
  /\ WF_vars(Expire)
  /\ \A w \in Workers : /\ WF_vars(Loop(w)) /\ SF_vars(ClaimAll(w))
                        /\ WF_vars(Gain(w)) /\ WF_vars(Start(w))
                        /\ WF_vars(NoticeLoss(w)) /\ WF_vars(Release(w))

FairSpec == Spec /\ Fairness

-----------------------------------------------------------------------------
(* Properties.                                                             *)

\* What it takes for an entry to be dealt with: its row, or its payload in
\* raw:dead.
Settled(e) == IF Good(e) THEN rows[content[e].key] > 0 ELSE e \in dead

\* I1 on the worker's side: an entry the consumers acknowledged is durable,
\* as a row of positions or as a dead letter, whatever crashed, stalled or
\* threw in between and whoever acknowledged it (process(), XACK last).
AckedIsSettled == \A e \in acked : Settled(e)

\* The engines are never skipped: a good entry that was acknowledged had been
\* handed to onBatch by someone, also when its batch was replayed or stolen.
AckedWasApplied == \A e \in acked : Good(e) => e \in applied

\* ... and never run ahead: what the engines saw is already in positions, so
\* that a recompute from positions can repair whatever they got wrong.
AppliedIsDurable == \A e \in applied : Good(e) /\ Settled(e)

\* I3: redelivery, retransmission and two consumers at once never store a
\* record twice (ON CONFLICT DO NOTHING).
OneRowPerRecord == \A k \in Key : rows[k] <= 1

\* No entry leaves the group unseen: what a consumer was once handed stays
\* pending until it is acknowledged or reported as evicted (onPendingEvicted),
\* and the cursor passes an entry without handing it out only if MAXLEN had
\* already trimmed it.
NothingSkipped ==
  /\ \A e \in delivered : Pending(e) \/ e \in acked \cup evicted
  /\ \A e \in 1 .. cursor : e \in delivered \/ e \notin stream

\* Every entry ingest appended is in the end acknowledged, reported as
\* evicted, or was trimmed before anyone read it.
EveryEntrySettles ==
  \A e \in Entry :
    e <= added ~> (e \in acked \cup evicted \/ (e \notin stream /\ ~Pending(e)))

\* The ledger this shard keeps: an entry is lost once it is neither in the
\* stream nor pending and was never acknowledged.
Lost == {e \in 1 .. added : e \notin stream /\ ~Pending(e) /\ e \notin acked}

Ledger == INSTANCE RecordLedger
            WITH Record <- Entry, accepted <- 1 .. added,
                 durable <- {e \in 1 .. added : Settled(e)},
                 closed <- acked, destroyed <- Lost

\* The pipeline implements the ledger: whatever two consumers, a trim and a
\* crash do to each other, an accepted entry is closed only when durable, and
\* an entry closed is never lost, nor one lost ever closed (XACK by a stalled
\* worker of what XAUTOCLAIM dropped).
KeepsLedger == Ledger!Spec

-----------------------------------------------------------------------------
(* The inductive strengthening of the safety invariants: what a consumer   *)
(* has achieved for the batch it holds, at each label of process().        *)

Stored(e) == Good(e) /\ rows[content[e].key] > 0

BatchInv(w) ==
  /\ pc[w] \notin {"write", "reject", "ack"} => bad[w] = {}
  /\ pc[w] = "dead" => work[w] \subseteq {e \in batch[w] : Malformed(e)}
  /\ pc[w] = "deadAck" => /\ work[w] \subseteq {e \in batch[w] : Malformed(e)}
                          /\ \A e \in work[w] : IsFirst(e, work[w]) => e \in dead
  /\ pc[w] \in {"write", "reject"} => bad[w] \subseteq {e \in Entry : Poison(e)}
  /\ pc[w] = "write" =>
       \A e \in Records(w) : e \in bad[w] \/ Stored(e) \/ \E seg \in segs[w] : e \in seg
  /\ pc[w] = "reject" => /\ \A e \in Records(w) : e \in bad[w] \/ Stored(e)
                         /\ bad[w] \subseteq work[w] \cup dead
  /\ pc[w] = "ack" => /\ work[w] \subseteq Records(w)
                      /\ \A e \in Records(w) : Settled(e) /\ (Good(e) => e \in applied)

\* Every batch in every consumer's hands is accounted for at its label, and
\* what was acknowledged or applied is durable.
DurableInv ==
  /\ AckedIsSettled /\ AckedWasApplied /\ AppliedIsDurable
  /\ \A w \in Workers : BatchInv(w)
=============================================================================
