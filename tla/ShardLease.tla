------------------------------ MODULE ShardLease ------------------------------
(***************************************************************************)
(* Who consumes a shard: the Redis lease shards:lease:{n}, the ShardLeaser *)
(* of each worker process (apps/worker/src/shards.ts), the per-shard queue *)
(* of start and stop operations and the SIGTERM drain (main.ts), and the   *)
(* life of the ShardConsumer objects they make, one shard of the sixteen.  *)
(*                                                                         *)
(* A command to Redis and the code that runs when its answer arrives are   *)
(* two steps, so that a lease may change hands and other callbacks may run *)
(* in between.  What a consumer does with a batch is in ShardPipeline.     *)
(***************************************************************************)
EXTENDS Naturals, Sequences, FiniteSets

CONSTANTS
  Workers,      \* worker processes
  None,         \* no worker, no consumer
  Slots,        \* room for the ShardConsumer objects of one process
  MaxStalls,    \* leases that expire under a live holder
  MaxFaults,    \* XGROUP CREATEs that fail
  MaxTimeouts,  \* stops, and settlements of the op queue, that run out of time
  MaxDrains,    \* processes that get a SIGTERM
  MaxCrashes,   \* processes that die
  MaxKinds      \* kinds of these faults that come together in one behaviour

ASSUME LeaseAssumption ==
  /\ None \notin Workers \cup Slots
  /\ MaxStalls \in Nat /\ MaxFaults \in Nat
  /\ MaxTimeouts \in Nat /\ MaxDrains \in Nat /\ MaxCrashes \in Nat
  /\ MaxKinds \in Nat

VARIABLES
  lease,     \* the worker shards:lease:{n} names, or None
  proc,      \* worker -> up, down, or how far its drain has come
  owned,     \* worker -> leaser.owned has the shard
  tick,      \* worker -> where the leaser's pass is, and the answer it awaits
  ops,       \* worker -> queued operations (shardOps), the running one first
  phase,     \* worker -> how far the running operation has come
  subject,   \* worker -> the consumer the running operation is about
  awaited,   \* worker -> the consumer its drain waits for, or None
  mapped,    \* worker -> the consumer in consumersByShard, or None
  cons,      \* worker -> slot -> where that consumer's loop is
  running,   \* worker -> slot -> that consumer's `running` flag
  spent      \* faults of each kind so far

leaser == <<owned, tick>>
queue == <<ops, phase, subject, mapped>>
consumers == <<cons, running>>
vars == <<lease, proc, awaited, leaser, queue, consumers, spent>>

FaultKind == {"stall", "fault", "timeout", "drain", "crash"}
Limit(k) == CASE k = "stall" -> MaxStalls [] k = "fault" -> MaxFaults
              [] k = "timeout" -> MaxTimeouts [] k = "drain" -> MaxDrains
              [] k = "crash" -> MaxCrashes

Draining == {"settle", "stopping", "relGet", "relDel", "closing"}
Live == {"top", "read", "owns", "lost", "process"}   \* a loop that has not ended

StateOK ==
  /\ lease \in Workers \cup {None}
  /\ proc \in [Workers -> {"up", "down"} \cup Draining]
  /\ owned \in [Workers -> BOOLEAN]
  /\ tick \in [Workers -> {"idle", "due", "renewed", "lost", "gained", "taken"}]
  /\ ops \in [Workers -> Seq({"start", "stop"})]
  /\ phase \in [Workers -> {"idle", "ensure", "giveGet", "giveDel", "warm", "stopping"}]
  /\ subject \in [Workers -> Slots \cup {None}]
  /\ awaited \in [Workers -> Slots \cup {None}]
  /\ mapped \in [Workers -> Slots \cup {None}]
  /\ cons \in [Workers -> [Slots -> {"none", "new", "done"} \cup Live]]
  /\ running \in [Workers -> [Slots -> BOOLEAN]]
  /\ spent \in [FaultKind -> Nat]

\* Every variable has its type, and consumersByShard never maps a consumer
\* that was not made: the slot is taken after XGROUP CREATE has succeeded.
TypeOK ==
  /\ StateOK
  /\ \A w \in Workers : mapped[w] # None => cons[w][mapped[w]] # "none"

Init ==
  /\ lease = None
  /\ proc = [w \in Workers |-> "up"]
  /\ owned = [w \in Workers |-> FALSE]
  /\ tick = [w \in Workers |-> "idle"]
  /\ ops = [w \in Workers |-> <<>>]
  /\ phase = [w \in Workers |-> "idle"]
  /\ subject = [w \in Workers |-> None]
  /\ mapped = [w \in Workers |-> None]
  /\ awaited = [w \in Workers |-> None]
  /\ cons = [w \in Workers |-> [c \in Slots |-> "none"]]
  /\ running = [w \in Workers |-> [c \in Slots |-> FALSE]]
  /\ spent = [k \in FaultKind |-> 0]

Spend(k) == /\ spent[k] < Limit(k)
            /\ Cardinality({j \in FaultKind : j = k \/ spent[j] > 0}) <= MaxKinds
            /\ spent' = [spent EXCEPT ![k] = @ + 1]

Put(f, w, x) == [f EXCEPT ![w] = x]
Queue(w, op) == ops' = [ops EXCEPT ![w] = Append(@, op)]

Alive(w) == proc[w] # "down"

\* A queued operation begins in the microtasks after its predecessor's end,
\* before the event loop takes up the next answer or timer.
Ready(w) == ops[w] # <<>> /\ phase[w] = "idle"
Turn(w) == Alive(w) /\ ~Ready(w)

-----------------------------------------------------------------------------
(* The leaser: claimAll, tick, and the key in Redis.                       *)

\* The interval timer fires, or claimAll makes its first pass.  A pass under
\* way when SIGTERM comes is not cut short.
TickDue(w) ==
  /\ proc[w] = "up" /\ Turn(w) /\ tick[w] = "idle"
  /\ tick' = Put(tick, w, "due")
  /\ UNCHANGED <<lease, proc, awaited, owned, queue, consumers, spent>>

\* Mutant of TickSend: SET without NX.
TickSendForces(w) ==
  /\ Turn(w) /\ tick[w] = "due"
  /\ tick' = Put(tick, w, IF ~owned[w] THEN "gained"
                          ELSE IF lease = w THEN "renewed" ELSE "lost")
  /\ lease' = IF owned[w] THEN lease ELSE w
  /\ UNCHANGED <<proc, awaited, owned, queue, consumers, spent>>

\* The pass comes to this shard: RENEW_LUA if owned, SET NX if not.
TickSend(w) ==
  /\ Turn(w) /\ tick[w] = "due"
  /\ tick' = Put(tick, w, IF owned[w] THEN (IF lease = w THEN "renewed" ELSE "lost")
                          ELSE IF lease = None THEN "gained" ELSE "taken")
  /\ lease' = IF ~owned[w] /\ lease = None THEN w ELSE lease
  /\ UNCHANGED <<proc, awaited, owned, queue, consumers, spent>>

\* The answer arrives: onLost queues a stop, onGained a start.
TickDone(w) ==
  /\ Turn(w) /\ tick[w] \notin {"idle", "due"}
  /\ tick' = Put(tick, w, "idle")
  /\ CASE tick[w] = "lost" -> owned' = Put(owned, w, FALSE) /\ Queue(w, "stop")
       [] tick[w] = "gained" -> owned' = Put(owned, w, TRUE) /\ Queue(w, "start")
       [] OTHER -> UNCHANGED <<owned, ops>>
  /\ UNCHANGED <<lease, proc, awaited, phase, subject, mapped, consumers, spent>>

\* The TTL runs out: of a dead holder's lease for certain, of a live one's
\* when it was stalled or cut off for longer than the TTL.
Expire ==
  /\ lease # None
  /\ IF proc[lease] = "down" THEN UNCHANGED spent ELSE Spend("stall")
  /\ lease' = None
  /\ UNCHANGED <<proc, awaited, leaser, queue, consumers>>

-----------------------------------------------------------------------------
(* The operations of one shard, one after the other (runShardOp).          *)

Begins(w, op) == Alive(w) /\ Ready(w) /\ Head(ops[w]) = op

\* The running operation is over.
OpEnds(w) == /\ ops' = [ops EXCEPT ![w] = Tail(@)]
             /\ phase' = Put(phase, w, "idle")
             /\ subject' = Put(subject, w, None)

\* Mutant of StopBegin: the slot is freed and the drain is not awaited.
StopBeginForgets(w) ==
  /\ Begins(w, "stop")
  /\ mapped' = Put(mapped, w, None)
  /\ running' = IF mapped[w] = None THEN running
                ELSE [running EXCEPT ![w][mapped[w]] = FALSE]
  /\ OpEnds(w)
  /\ UNCHANGED <<lease, proc, awaited, leaser, cons, spent>>

\* stopShardConsumer: the slot is freed and the consumer told to stop.
StopBegin(w) ==
  /\ Begins(w, "stop")
  /\ mapped' = Put(mapped, w, None)
  /\ \/ /\ mapped[w] = None
        /\ OpEnds(w)
        /\ UNCHANGED running
     \/ /\ mapped[w] # None
        /\ running' = [running EXCEPT ![w][mapped[w]] = FALSE]
        /\ phase' = Put(phase, w, "stopping")
        /\ subject' = Put(subject, w, mapped[w])
        /\ UNCHANGED ops
  /\ UNCHANGED <<lease, proc, awaited, leaser, cons, spent>>

\* ... and its batch awaited, for SHARD_STOP_TIMEOUT_MS at most; the
\* consumer's connection is then closed, which fails whatever command its
\* loop waits for, but not a batch on its way to Postgres.
StopEnd(w) ==
  /\ Alive(w) /\ phase[w] = "stopping"
  /\ \/ cons[w][subject[w]] \notin Live /\ UNCHANGED <<cons, spent>>
     \/ /\ cons[w][subject[w]] \in Live /\ Spend("timeout")
        /\ cons' = [cons EXCEPT ![w][subject[w]] = IF @ = "process" THEN @ ELSE "done"]
  /\ OpEnds(w)
  /\ UNCHANGED <<lease, proc, awaited, leaser, mapped, running>>

\* startShardConsumer: nothing to do if a consumer is mapped; otherwise a
\* new one, for which XGROUP CREATE is sent first.
StartBegin(w) ==
  /\ Begins(w, "start")
  /\ \/ mapped[w] # None /\ OpEnds(w) /\ UNCHANGED cons
     \/ /\ mapped[w] = None
        /\ \E c \in Slots : /\ cons[w][c] \in {"none", "done"}
                            /\ cons' = [cons EXCEPT ![w][c] = "new"]
                            /\ subject' = Put(subject, w, c)
        /\ phase' = Put(phase, w, "ensure")
        /\ UNCHANGED ops
  /\ UNCHANGED <<lease, proc, awaited, leaser, mapped, running, spent>>

\* Mutant of EnsureFail: the lease is kept when the start has failed.
EnsureFailKeeps(w) ==
  /\ Alive(w) /\ phase[w] = "ensure" /\ Spend("fault")
  /\ cons' = [cons EXCEPT ![w][subject[w]] = "none"]
  /\ OpEnds(w)
  /\ UNCHANGED <<lease, proc, awaited, leaser, mapped, running>>

\* ensureGroup failed: the shard is given up.
EnsureFail(w) ==
  /\ Alive(w) /\ phase[w] = "ensure" /\ Spend("fault")
  /\ cons' = [cons EXCEPT ![w][subject[w]] = "none"]
  /\ owned' = Put(owned, w, FALSE)
  /\ phase' = Put(phase, w, "giveGet")
  /\ UNCHANGED <<lease, proc, awaited, tick, ops, subject, mapped, running>>

\* giveUp: GET, and then DEL if the GET named us.
GiveGet(w) ==
  /\ Alive(w) /\ phase[w] = "giveGet"
  /\ \/ lease = w /\ phase' = Put(phase, w, "giveDel") /\ UNCHANGED <<ops, subject>>
     \/ lease # w /\ OpEnds(w)
  /\ UNCHANGED <<lease, proc, awaited, leaser, mapped, consumers, spent>>

GiveDel(w) ==
  /\ Alive(w) /\ phase[w] = "giveDel"
  /\ lease' = None
  /\ OpEnds(w)
  /\ UNCHANGED <<proc, awaited, leaser, mapped, consumers, spent>>

\* The group exists: the slot is taken and the open trips are loaded...
EnsureOk(w) ==
  /\ Alive(w) /\ phase[w] = "ensure"
  /\ mapped' = Put(mapped, w, subject[w])
  /\ phase' = Put(phase, w, "warm")
  /\ UNCHANGED <<lease, proc, awaited, leaser, ops, subject, consumers, spent>>

\* ... and the consumer's loop is started.
Warmed(w) ==
  /\ Alive(w) /\ phase[w] = "warm"
  /\ cons' = [cons EXCEPT ![w][subject[w]] = "top"]
  /\ running' = [running EXCEPT ![w][subject[w]] = TRUE]
  /\ OpEnds(w)
  /\ UNCHANGED <<lease, proc, awaited, leaser, mapped, spent>>

-----------------------------------------------------------------------------
(* A consumer's loop, as far as ownership goes (ShardConsumer.loop).       *)

\* `while (this.running)`, and then a read that may block.
LoopTop(w, c) ==
  /\ Turn(w) /\ cons[w][c] = "top"
  /\ cons' = [cons EXCEPT ![w][c] = IF running[w][c] THEN "read" ELSE "done"]
  /\ UNCHANGED <<lease, proc, awaited, leaser, queue, running, spent>>

\* The read came back empty: nothing to check the lease for.
LoopIdle(w, c) ==
  /\ Turn(w) /\ cons[w][c] = "read"
  /\ cons' = [cons EXCEPT ![w][c] = "top"]
  /\ UNCHANGED <<lease, proc, awaited, leaser, queue, running, spent>>

\* It brought entries: ownsShard's GET is answered by Redis.
LoopFence(w, c) ==
  /\ Turn(w) /\ cons[w][c] = "read"
  /\ cons' = [cons EXCEPT ![w][c] = IF lease = w THEN "owns" ELSE "lost"]
  /\ UNCHANGED <<lease, proc, awaited, leaser, queue, running, spent>>

\* The answer arrives and names us: process() begins.
LoopProcess(w, c) ==
  /\ Turn(w) /\ cons[w][c] = "owns"
  /\ cons' = [cons EXCEPT ![w][c] = "process"]
  /\ UNCHANGED <<lease, proc, awaited, leaser, queue, running, spent>>

\* Mutant of LoopFenced: the loop ends and nobody is told.
LoopFencedSilently(w, c) ==
  /\ Turn(w) /\ cons[w][c] = "lost"
  /\ cons' = [cons EXCEPT ![w][c] = "done"]
  /\ running' = [running EXCEPT ![w][c] = FALSE]
  /\ UNCHANGED <<lease, proc, awaited, leaser, queue, spent>>

\* The answer arrives and names someone else, or no one: fence() ends this
\* loop, and onLostOwnership queues a stop of the shard's consumer.
LoopFenced(w, c) ==
  /\ Turn(w) /\ cons[w][c] = "lost"
  /\ cons' = [cons EXCEPT ![w][c] = "done"]
  /\ running' = [running EXCEPT ![w][c] = FALSE]
  /\ Queue(w, "stop")
  /\ UNCHANGED <<lease, proc, awaited, leaser, phase, subject, mapped, spent>>

\* process() returns or throws; with its connection closed the loop ends.
LoopProcessed(w, c) ==
  /\ Turn(w) /\ cons[w][c] = "process"
  /\ cons' = [cons EXCEPT ![w][c] = IF c \in {mapped[w], subject[w]} THEN "top" ELSE "done"]
  /\ UNCHANGED <<lease, proc, awaited, leaser, queue, running, spent>>

-----------------------------------------------------------------------------
(* SIGTERM.                                                                *)

\* Someone else is there to take the shard over.
Successor(w) == \E v \in Workers \ {w} : proc[v] = "up"

\* stopRenewing: the timer is cleared; what is already under way goes on.
Sigterm(w) ==
  /\ proc[w] = "up" /\ Successor(w) /\ Spend("drain")
  /\ proc' = Put(proc, w, "settle")
  /\ UNCHANGED <<lease, awaited, leaser, queue, consumers>>

\* The queued operations have been awaited, for two seconds at most: c.stop()
\* of the consumer mapped at this moment, if any...
Halt(w) ==
  /\ proc[w] = "settle"
  /\ IF ops[w] = <<>> THEN UNCHANGED spent ELSE Spend("timeout")
  /\ proc' = Put(proc, w, "stopping")
  /\ awaited' = Put(awaited, w, mapped[w])
  /\ running' = IF mapped[w] = None THEN running
                ELSE [running EXCEPT ![w][mapped[w]] = FALSE]
  /\ UNCHANGED <<lease, leaser, queue, cons>>

\* ... has been awaited: its batch is acknowledged, and its loop has ended.
Halted(w) ==
  /\ proc[w] = "stopping"
  /\ \A c \in Slots : c = awaited[w] => cons[w][c] \notin Live
  /\ proc' = Put(proc, w, "relGet")
  /\ UNCHANGED <<lease, awaited, leaser, queue, consumers, spent>>

\* releaseLeases: GET, then DEL if the GET named us; owned is cleared...
ReleaseGet(w) ==
  /\ proc[w] = "relGet"
  /\ \/ /\ owned[w] /\ lease = w
        /\ proc' = Put(proc, w, "relDel")
        /\ UNCHANGED owned
     \/ /\ ~(owned[w] /\ lease = w)
        /\ proc' = Put(proc, w, "closing")
        /\ owned' = Put(owned, w, FALSE)
  /\ UNCHANGED <<lease, awaited, tick, queue, consumers, spent>>

ReleaseDel(w) ==
  /\ proc[w] = "relDel"
  /\ lease' = None
  /\ proc' = Put(proc, w, "closing")
  /\ owned' = Put(owned, w, FALSE)
  /\ UNCHANGED <<awaited, tick, queue, consumers, spent>>

\* ... and the job queues are closed one by one before the process exits.
Exit(w) == /\ proc' = Put(proc, w, "down")
           /\ owned' = Put(owned, w, FALSE)
           /\ tick' = Put(tick, w, "idle")
           /\ ops' = Put(ops, w, <<>>)
           /\ phase' = Put(phase, w, "idle")
           /\ subject' = Put(subject, w, None)
           /\ awaited' = Put(awaited, w, None)
           /\ mapped' = Put(mapped, w, None)
           /\ cons' = Put(cons, w, [c \in Slots |-> "none"])
           /\ running' = Put(running, w, [c \in Slots |-> FALSE])

Closed(w) ==
  /\ proc[w] = "closing"
  /\ Exit(w)
  /\ UNCHANGED <<lease, spent>>

\* The process dies: a crash, or the 5 s hard exit of the drain.
Die(w) ==
  /\ Alive(w) /\ Successor(w)
  /\ IF proc[w] = "up" THEN Spend("crash") ELSE UNCHANGED spent
  /\ Exit(w)
  /\ UNCHANGED lease

-----------------------------------------------------------------------------
Leaser(w) == TickDue(w) \/ TickSend(w) \/ TickDone(w)
Operation(w) ==
  \/ StopBegin(w) \/ StopEnd(w) \/ StartBegin(w) \/ EnsureOk(w) \/ Warmed(w)
  \/ GiveGet(w) \/ GiveDel(w)
Loop(w, c) ==
  \/ LoopTop(w, c) \/ LoopFence(w, c) \/ LoopProcess(w, c) \/ LoopFenced(w, c)
  \/ LoopProcessed(w, c)
Drain(w) == Halt(w) \/ Halted(w) \/ ReleaseGet(w) \/ ReleaseDel(w)
            \/ Closed(w)

Next ==
  \/ Expire
  \/ \E w \in Workers :
       \/ Leaser(w) \/ Operation(w) \/ EnsureFail(w)
       \/ \E c \in Slots : Loop(w, c) \/ LoopIdle(w, c)
       \/ Sigterm(w) \/ Drain(w) \/ Die(w)

Spec == Init /\ [][Next]_vars

\* Timers fire, promises are continued, Redis answers, a dead process's lease
\* runs out; nothing is assumed of faults, stalls and kills.
Fairness ==
  /\ WF_vars(Expire)
  /\ \A w \in Workers : /\ WF_vars(Leaser(w)) /\ WF_vars(Operation(w))
                        /\ \A c \in Slots : WF_vars(Loop(w, c))
                        /\ WF_vars(Drain(w))

FairSpec == Spec /\ Fairness

-----------------------------------------------------------------------------
(* Properties.                                                             *)

Busy(w) == {c \in Slots : cons[w][c] = "process"}

\* No fault of these kinds has happened.
Never(K) == \A k \in K : spent[k] = 0

\* I2: no two consumers, of one process or of two, are inside process() for
\* the shard at once; through takeovers, failed starts and crashes, as long as
\* no lease expired under its holder, no stop gave up on its consumer and
\* nobody drained.
ExclusiveProcessing ==
  Never({"stall", "timeout", "drain"}) =>
    \A v, w \in Workers : \A c \in Busy(v), d \in Busy(w) : v = w /\ c = d

\* runShardOp serializes starts and stops: also with leases that flap, a
\* process never has two consumer loops going for the shard, unless a stop gave
\* up waiting for one.
OneLiveLoop ==
  spent["timeout"] = 0 =>
    \A w \in Workers : \A c, d \in Slots :
      cons[w][c] \in Live /\ cons[w][d] \in Live => c = d

\* A consumer that ended itself does not block its shard: as long as it is
\* mapped, which makes every start a no-op, a stop is on its way.
DeadSlotIsCleared ==
  \A w \in Workers :
    proc[w] = "up" /\ mapped[w] # None /\ cons[w][mapped[w]] = "done"
      => \E i \in 1 .. Len(ops[w]) : ops[w][i] = "stop"

\* A shard that a worker owns, with nothing queued, has a running consumer:
\* shards.ts, "picked up again instead of leaving the shard unconsumed
\* forever".
OwnedIsServed ==
  \A w \in Workers :
    proc[w] = "up" /\ owned[w] /\ lease = w /\ ops[w] = <<>>
      => mapped[w] # None /\ running[w][mapped[w]]

\* The shard's stream is read again and again by the holder of its lease,
\* whoever crashes, fails to start or gives up a stop, if no lease is taken
\* from under its holder: it never stays with a process that does not consume
\* it, nor with none.
AlwaysReadAgain ==
  []<>(\/ \E w \in Workers : \E c \in Slots : cons[w][c] = "read" /\ lease = w
       \/ ~Never({"stall", "drain"}))

-----------------------------------------------------------------------------
(* The inductive strengthening of OneLiveLoop: every live loop is the one  *)
(* in consumersByShard or the one the running stop is waiting for, and     *)
(* while an operation is between two awaits the map says what it relies on. *)
AccountedFor(w) ==
  /\ \A c \in Slots : cons[w][c] \in Live =>
       c = mapped[w] \/ (phase[w] = "stopping" /\ c = subject[w])
  /\ phase[w] \in {"stopping", "ensure", "giveGet", "giveDel"} => mapped[w] = None
  /\ phase[w] \in {"stopping", "ensure", "warm"} => subject[w] \in Slots
  /\ phase[w] = "warm" => mapped[w] = subject[w]

LoopsAccounted == \A w \in Workers : AccountedFor(w)
=============================================================================
