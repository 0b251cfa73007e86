--------------------------- MODULE ShardLeaseProofs ---------------------------
(***************************************************************************)
(* Machine-checked proofs about ShardLease, for every number of workers,   *)
(* stalls, failed starts, drains and crashes.                              *)
(***************************************************************************)
EXTENDS ShardLease, SequenceTheorems, TLAPS

USE LeaseAssumption

\* The types the argument needs; what is queued plays no part in it.
LoopTypes ==
  /\ phase \in [Workers -> {"idle", "ensure", "giveGet", "giveDel", "warm", "stopping"}]
  /\ subject \in [Workers -> Slots \cup {None}]
  /\ mapped \in [Workers -> Slots \cup {None}]
  /\ cons \in [Workers -> [Slots -> {"none", "new", "done"} \cup Live]]
  /\ spent \in [FaultKind -> Nat]

\* What a step of worker w has to leave alone of the others.
LEMMA OthersKeepTheirs ==
  ASSUME LoopTypes, NEW w \in Workers, NEW v \in Workers, v # w,
         \/ Leaser(w) \/ Operation(w) \/ EnsureFail(w) \/ Sigterm(w) \/ Drain(w) \/ Die(w)
         \/ \E c \in Slots : Loop(w, c) \/ LoopIdle(w, c)
  PROVE  /\ phase'[v] = phase[v] /\ subject'[v] = subject[v]
         /\ mapped'[v] = mapped[v] /\ cons'[v] = cons[v]
<1> USE DEF LoopTypes, leaser, queue, consumers, Put, OpEnds, Exit
<1>1. CASE Leaser(w) BY <1>1 DEF Leaser, TickDue, TickSend, TickDone
<1>2. CASE StopBegin(w) \/ StopEnd(w) BY <1>2 DEF StopBegin, StopEnd
<1>3. CASE StartBegin(w) \/ EnsureOk(w) \/ Warmed(w)
  BY <1>3 DEF StartBegin, EnsureOk, Warmed
<1>4. CASE GiveGet(w) \/ GiveDel(w) \/ EnsureFail(w)
  BY <1>4 DEF GiveGet, GiveDel, EnsureFail
<1>5. CASE Sigterm(w) \/ Drain(w)
  BY <1>5 DEF Sigterm, Drain, Halt, Halted, ReleaseGet, ReleaseDel, Closed
<1>6. CASE Die(w) BY <1>6 DEF Die
<1>7. ASSUME NEW c \in Slots, Loop(w, c) \/ LoopIdle(w, c)
      PROVE  UNCHANGED <<phase, subject, mapped>> /\ cons'[v] = cons[v]
  BY <1>7 DEF Loop, LoopTop, LoopFence, LoopProcess, LoopFenced, LoopProcessed, LoopIdle
<1> QED
  BY <1>1, <1>2, <1>3, <1>4, <1>5, <1>6, <1>7 DEF Operation

\* An assignment to one entry of a worker's consumers keeps them typed.
LEMMA EntryTyped ==
  ASSUME NEW D, NEW f \in [Workers -> [Slots -> D]],
         NEW w \in Workers, NEW c, NEW x, c \in Slots => x \in D
  PROVE  [f EXCEPT ![w][c] = x] \in [Workers -> [Slots -> D]]
<1>1. f[w] \in [Slots -> D]
  OBVIOUS
<1>2. [f[w] EXCEPT ![c] = x] \in [Slots -> D]
  BY <1>1
<1> QED BY <1>2

\* Every step keeps the types of the loops.
LEMMA TypesStep == LoopTypes /\ [Next]_vars => LoopTypes'
<1> SUFFICES ASSUME LoopTypes, [Next]_vars PROVE LoopTypes'
  OBVIOUS
<1> DEFINE Labels == {"none", "new", "done"} \cup Live
<1> DEFINE ConsTyped == cons' \in [Workers -> [Slots -> Labels]]
<1> USE DEF LoopTypes, leaser, queue, consumers, Put, OpEnds, Exit
<1>a. /\ cons \in [Workers -> [Slots -> Labels]]
      /\ {"none", "new", "done", "top", "read", "owns", "lost", "process"} \subseteq Labels
  BY DEF Live
<1> HIDE DEF Labels
<1>b. ASSUME ConsTyped PROVE cons' \in [Workers -> [Slots -> {"none", "new", "done"} \cup Live]]
  BY <1>b DEF Labels
<1> HIDE DEF ConsTyped
<1>1. ASSUME NEW k \in FaultKind, Spend(k) PROVE spent' \in [FaultKind -> Nat]
  BY <1>1 DEF Spend
<1>2. CASE Expire BY <1>1, <1>2 DEF Expire, FaultKind
<1>3. ASSUME NEW w \in Workers, Leaser(w) PROVE LoopTypes'
  BY <1>3 DEF Leaser, TickDue, TickSend, TickDone
<1>4. ASSUME NEW w \in Workers, StopBegin(w) PROVE LoopTypes'
  BY <1>4 DEF StopBegin
<1>5. ASSUME NEW w \in Workers, StopEnd(w) PROVE LoopTypes'
  <2>1. ConsTyped
    <3>1. CASE UNCHANGED cons BY <3>1, <1>a DEF ConsTyped
    <3>2. CASE cons' = [cons EXCEPT ![w][subject[w]] = IF @ = "process" THEN @ ELSE "done"]
      <4> DEFINE x == IF cons[w][subject[w]] = "process" THEN cons[w][subject[w]] ELSE "done"
      <4>1. x \in Labels BY <1>a
      <4>2. cons' = [cons EXCEPT ![w][subject[w]] = x] BY <3>2
      <4> HIDE DEF x
      <4> QED BY <4>1, <4>2, <1>a, EntryTyped DEF ConsTyped
    <3> QED BY <3>1, <3>2, <1>5 DEF StopEnd
  <2>2. spent' \in [FaultKind -> Nat] BY <1>1, <1>5 DEF StopEnd, FaultKind
  <2>3. /\ phase' = [phase EXCEPT ![w] = "idle"] /\ subject' = [subject EXCEPT ![w] = None]
        /\ mapped' = mapped
    BY <1>5 DEF StopEnd
  <2> QED BY <1>b, <2>1, <2>2, <2>3
<1>6. ASSUME NEW w \in Workers, StartBegin(w) PROVE LoopTypes'
  <2>1. CASE OpEnds(w) /\ UNCHANGED cons BY <1>6, <2>1 DEF StartBegin
  <2>2. ASSUME NEW c \in Slots, cons' = [cons EXCEPT ![w][c] = "new"],
               subject' = [subject EXCEPT ![w] = c], phase' = [phase EXCEPT ![w] = "ensure"]
        PROVE  LoopTypes'
    <3>1. ConsTyped BY <2>2, <1>a, EntryTyped DEF ConsTyped
    <3> QED BY <1>6, <1>b, <2>2, <3>1 DEF StartBegin
  <2> QED BY <1>6, <2>1, <2>2 DEF StartBegin
<1>6a. ASSUME NEW w \in Workers, EnsureOk(w) PROVE LoopTypes'
  BY <1>6a DEF EnsureOk
<1>6b. ASSUME NEW w \in Workers, Warmed(w) PROVE LoopTypes'
  <2>1. ConsTyped BY <1>6b, <1>a, EntryTyped DEF ConsTyped, Warmed
  <2> QED BY <1>6b, <1>b, <2>1 DEF Warmed
<1>7. ASSUME NEW w \in Workers, GiveGet(w) \/ GiveDel(w) PROVE LoopTypes'
  BY <1>7 DEF GiveGet, GiveDel
<1>8. ASSUME NEW w \in Workers, EnsureFail(w) PROVE LoopTypes'
  <2>1. ConsTyped BY <1>8, <1>a, EntryTyped DEF ConsTyped, EnsureFail
  <2>2. spent' \in [FaultKind -> Nat] BY <1>1, <1>8 DEF EnsureFail, FaultKind
  <2> QED BY <1>8, <1>b, <2>1, <2>2 DEF EnsureFail
<1>9. ASSUME NEW w \in Workers, Sigterm(w) \/ Halt(w) PROVE LoopTypes'
  BY <1>1, <1>9 DEF Sigterm, Halt, FaultKind
<1>10. ASSUME NEW w \in Workers, Halted(w) \/ ReleaseGet(w) \/ ReleaseDel(w) PROVE LoopTypes'
  BY <1>10 DEF Halted, ReleaseGet, ReleaseDel
<1>11. ASSUME NEW w \in Workers, Closed(w) \/ Die(w) PROVE LoopTypes'
  <2>1. spent' \in [FaultKind -> Nat] BY <1>1, <1>11 DEF Closed, Die, FaultKind
  <2>2. Exit(w) BY <1>11 DEF Closed, Die
  <2>3. [c \in Slots |-> "none"] \in [Slots -> Labels] BY <1>a
  <2>4. ConsTyped BY <2>2, <2>3, <1>a DEF ConsTyped
  <2> QED BY <2>1, <2>2, <2>4, <1>b
<1>12. ASSUME NEW w \in Workers, NEW c \in Slots, Loop(w, c) \/ LoopIdle(w, c)
       PROVE  LoopTypes'
  <2> USE DEF Loop, LoopTop, LoopFence, LoopProcess, LoopFenced, LoopProcessed, LoopIdle
  <2>1. PICK x \in Labels : cons' = [cons EXCEPT ![w][c] = x] BY <1>12, <1>a
  <2>2. ConsTyped BY <2>1, <1>a, EntryTyped DEF ConsTyped
  <2>3. UNCHANGED <<phase, subject, mapped, spent>> BY <1>12
  <2> QED BY <1>b, <2>2, <2>3
<1>13. CASE UNCHANGED vars BY <1>13 DEF vars
<1> QED
  BY <1>2, <1>3, <1>4, <1>5, <1>6, <1>6a, <1>6b, <1>7, <1>8, <1>9, <1>10, <1>11, <1>12, <1>13
  DEF Next, Operation, Drain

\* Budgets are only ever spent: before a step that leaves a kind unspent it was
\* unspent.
LEMMA NeverRefunded ==
  ASSUME LoopTypes, [Next]_vars, NEW j \in FaultKind, spent'[j] = 0 PROVE spent[j] = 0
<1> USE DEF LoopTypes
<1>1. ASSUME NEW k \in FaultKind, Spend(k) PROVE spent[j] = 0
  BY <1>1 DEF Spend
<1>2. CASE UNCHANGED spent BY <1>2
<1>3. CASE Expire BY <1>1, <1>3 DEF Expire, FaultKind
<1>4. ASSUME NEW w \in Workers, EnsureFail(w) \/ Sigterm(w) \/ Die(w)
      PROVE  spent[j] = 0
  BY <1>1, <1>4 DEF EnsureFail, Sigterm, Die, FaultKind
<1>5. ASSUME NEW w \in Workers, Leaser(w) \/ Operation(w) PROVE spent[j] = 0
  BY <1>1, <1>2, <1>5
  DEF Leaser, TickDue, TickSend, TickDone, Operation, StopBegin, StopEnd, StartBegin,
      EnsureOk, Warmed, GiveGet, GiveDel, FaultKind
<1>6. ASSUME NEW w \in Workers, Drain(w) PROVE spent[j] = 0
  BY <1>1, <1>2, <1>6 DEF Drain, Halt, Halted, ReleaseGet, ReleaseDel, Closed, FaultKind
<1>7. ASSUME NEW w \in Workers, NEW c \in Slots, Loop(w, c) \/ LoopIdle(w, c)
      PROVE  spent[j] = 0
  BY <1>2, <1>7
  DEF Loop, LoopTop, LoopFence, LoopProcess, LoopFenced, LoopProcessed, LoopIdle
<1>8. CASE UNCHANGED vars BY <1>2, <1>8 DEF vars
<1> QED BY <1>3, <1>4, <1>5, <1>6, <1>7, <1>8 DEF Next

\* A worker's own step keeps its loops accounted for.
LEMMA OwnStep ==
  ASSUME LoopTypes, spent'["timeout"] = 0, NEW w \in Workers, AccountedFor(w),
         \/ Leaser(w) \/ Operation(w) \/ EnsureFail(w) \/ Sigterm(w) \/ Drain(w) \/ Die(w)
         \/ \E c \in Slots : Loop(w, c) \/ LoopIdle(w, c)
  PROVE  AccountedFor(w)'
<1> USE DEF LoopTypes, AccountedFor, leaser, queue, consumers, Put, Live
<1>1. ~Spend("timeout")
  BY DEF Spend, FaultKind
<1>2. CASE Leaser(w) BY <1>2 DEF Leaser, TickDue, TickSend, TickDone
<1>3. CASE StopBegin(w) BY <1>3 DEF StopBegin, OpEnds, Begins, Ready
<1>4. CASE StopEnd(w) BY <1>1, <1>4 DEF StopEnd, OpEnds
<1>5. CASE StartBegin(w) BY <1>5 DEF StartBegin, OpEnds, Begins, Ready
<1>6. CASE EnsureOk(w) BY <1>6 DEF EnsureOk
<1>7. CASE Warmed(w) BY <1>7 DEF Warmed, OpEnds
<1>8. CASE GiveGet(w) \/ GiveDel(w) BY <1>8 DEF GiveGet, GiveDel, OpEnds
<1>9. CASE EnsureFail(w) BY <1>9 DEF EnsureFail
<1>10. CASE Sigterm(w) \/ Halt(w) \/ Halted(w) \/ ReleaseGet(w) \/ ReleaseDel(w)
  BY <1>10 DEF Sigterm, Halt, Halted, ReleaseGet, ReleaseDel
<1>11. CASE Closed(w) \/ Die(w) BY <1>11 DEF Closed, Die, Exit
<1>12. ASSUME NEW c \in Slots, Loop(w, c) \/ LoopIdle(w, c) PROVE AccountedFor(w)'
  BY <1>12 DEF Loop, LoopTop, LoopFence, LoopProcess, LoopFenced, LoopProcessed, LoopIdle
<1> QED
  BY <1>2, <1>3, <1>4, <1>5, <1>6, <1>7, <1>8, <1>9, <1>10, <1>11, <1>12
  DEF Operation, Drain

\* The accounting holds in every reachable state, as long as no stop gave up.
Accounts == LoopTypes /\ (spent["timeout"] = 0 => LoopsAccounted)
\* It follows for every behaviour, by the steps above.
LEMMA AccountsHold == Spec => []Accounts
<1> USE DEF LoopsAccounted, Accounts
<1>1. Init => Accounts
  BY DEF Init, LoopTypes, AccountedFor, Live, FaultKind
<1>2. Accounts /\ [Next]_vars => Accounts'
  <2> SUFFICES ASSUME Accounts, [Next]_vars, spent'["timeout"] = 0, NEW v \in Workers
               PROVE  AccountedFor(v)'
    BY TypesStep
  <2>0. \A u \in Workers : AccountedFor(u)
    BY NeverRefunded DEF FaultKind
  <2>1. CASE Expire \/ UNCHANGED vars
    BY <2>0, <2>1 DEF Expire, vars, queue, consumers, AccountedFor
  <2>2. ASSUME NEW w \in Workers,
               \/ Leaser(w) \/ Operation(w) \/ EnsureFail(w) \/ Sigterm(w) \/ Drain(w)
               \/ Die(w) \/ \E c \in Slots : Loop(w, c) \/ LoopIdle(w, c)
        PROVE  AccountedFor(v)'
    <3>1. CASE v = w BY <2>0, <2>2, <3>1, OwnStep
    <3>2. CASE v # w BY <2>0, <2>2, <3>2, OthersKeepTheirs DEF AccountedFor
    <3> QED BY <3>1, <3>2
  <2> QED BY <2>1, <2>2 DEF Next
<1> QED BY <1>1, <1>2, PTL DEF Spec

\* runShardOp does what main.ts claims of it ("Start and stop for one shard
\* MUST be serialized"): as long as no stop ran out of time, a process never
\* has two consumer loops for the shard, however leases flap, starts fail and
\* drains and fences queue further operations.
THEOREM SerializedConsumers == Spec => []OneLiveLoop
<1>1. Accounts => OneLiveLoop
  BY DEF Accounts, LoopsAccounted, LoopTypes, AccountedFor, OneLiveLoop, Live
<1> QED BY <1>1, AccountsHold, PTL

-----------------------------------------------------------------------------
(* I2: one consumer at a time inside process().                            *)

\* With no lease lost under its holder and nobody draining, whoever was told by
\* the fence's GET that it owns the shard still holds the lease when it
\* processes; so does the one that is about to give the lease up.
Holder(w) ==
  /\ proc[w] \in {"up", "down"}
  /\ proc[w] = "down" => phase[w] = "idle" /\ \A c \in Slots : cons[w][c] = "none"
  /\ phase[w] = "giveDel" => lease = w
  /\ \A c \in Slots : cons[w][c] \in {"owns", "process"} => lease = w
ProcTypes == proc \in [Workers -> {"up", "down"} \cup Draining] /\ lease \in Workers \cup {None}
Calm == Never({"stall", "timeout", "drain"})
HolderInv == ProcTypes /\ (Calm => \A w \in Workers : Holder(w))

\* Who can take the lease from its holder: in a calm behaviour nobody but the
\* holder itself, in the last step of giveUp, or the TTL after its death.
LEMMA LeaseMoves ==
  ASSUME LoopTypes, HolderInv, Calm, Calm', [Next]_vars, NEW v \in Workers, lease = v
  PROVE  lease' = v \/ proc[v] = "down" \/ GiveDel(v)
<1> USE DEF HolderInv, Holder
<1>1. CASE Expire
  <2>1. CASE Spend("stall")
    <3>1. spent'["stall"] # 0 BY <2>1 DEF Spend, LoopTypes, FaultKind
    <3> QED BY <3>1 DEF Calm, Never
  <2> QED BY <1>1, <2>1 DEF Expire
<1>2. ASSUME NEW w \in Workers, Leaser(w) PROVE lease' = v
  BY <1>2 DEF Leaser, TickDue, TickSend, TickDone
<1>3. ASSUME NEW w \in Workers, Operation(w), ~GiveDel(w) PROVE lease' = v
  BY <1>3 DEF Operation, StopBegin, StopEnd, StartBegin, EnsureOk, Warmed, GiveGet
<1>4. ASSUME NEW w \in Workers, GiveDel(w) PROVE w = v
  BY <1>4 DEF GiveDel
<1>5. ASSUME NEW w \in Workers, EnsureFail(w) \/ Sigterm(w) \/ Die(w) PROVE lease' = v
  BY <1>5 DEF EnsureFail, Sigterm, Die
<1>6. ASSUME NEW w \in Workers, Drain(w) PROVE FALSE
  BY <1>6 DEF Drain, Halt, Halted, ReleaseGet, ReleaseDel, Closed
<1>7. ASSUME NEW w \in Workers, NEW c \in Slots, Loop(w, c) \/ LoopIdle(w, c) PROVE lease' = v
  BY <1>7 DEF Loop, LoopTop, LoopFence, LoopProcess, LoopFenced, LoopProcessed, LoopIdle
<1>8. CASE UNCHANGED vars BY <1>8 DEF vars
<1> QED BY <1>1, <1>2, <1>3, <1>4, <1>5, <1>6, <1>7, <1>8 DEF Next

\* A calm step of another worker leaves a worker's loops and operation alone.
LEMMA OthersKeepProc ==
  ASSUME ProcTypes, NEW w \in Workers, NEW v \in Workers, v # w,
         \/ Leaser(w) \/ Operation(w) \/ EnsureFail(w) \/ Sigterm(w) \/ Drain(w) \/ Die(w)
         \/ \E c \in Slots : Loop(w, c) \/ LoopIdle(w, c)
  PROVE  proc'[v] = proc[v]
<1> USE DEF ProcTypes, Put
<1>1. CASE Leaser(w) \/ Operation(w) \/ EnsureFail(w)
  BY <1>1 DEF Leaser, TickDue, TickSend, TickDone, Operation, StopBegin, StopEnd, StartBegin,
              EnsureOk, Warmed, GiveGet, GiveDel, EnsureFail
<1>2. CASE Sigterm(w) \/ Drain(w) \/ Die(w)
  BY <1>2 DEF Sigterm, Drain, Halt, Halted, ReleaseGet, ReleaseDel, Closed, Exit, Die
<1>3. ASSUME NEW c \in Slots, Loop(w, c) \/ LoopIdle(w, c) PROVE proc'[v] = proc[v]
  BY <1>3 DEF Loop, LoopTop, LoopFence, LoopProcess, LoopFenced, LoopProcessed, LoopIdle
<1> QED BY <1>1, <1>2, <1>3

\* Every step keeps the types of the processes.
LEMMA ProcTypesStep == ProcTypes /\ [Next]_vars => ProcTypes'
<1> SUFFICES ASSUME ProcTypes, [Next]_vars PROVE ProcTypes'
  OBVIOUS
<1> USE DEF ProcTypes, Put, Draining
<1>1. CASE Expire BY <1>1 DEF Expire
<1>2. ASSUME NEW w \in Workers, Leaser(w) \/ Operation(w) \/ EnsureFail(w) PROVE ProcTypes'
  BY <1>2 DEF Leaser, TickDue, TickSend, TickDone, Operation, StopBegin, StopEnd, StartBegin,
              EnsureOk, Warmed, GiveGet, GiveDel, EnsureFail
<1>3. ASSUME NEW w \in Workers, Sigterm(w) \/ Drain(w) \/ Die(w) PROVE ProcTypes'
  BY <1>3 DEF Sigterm, Drain, Halt, Halted, ReleaseGet, ReleaseDel, Closed, Exit, Die
<1>4. ASSUME NEW w \in Workers, NEW c \in Slots, Loop(w, c) \/ LoopIdle(w, c) PROVE ProcTypes'
  BY <1>4 DEF Loop, LoopTop, LoopFence, LoopProcess, LoopFenced, LoopProcessed, LoopIdle
<1>5. CASE UNCHANGED vars BY <1>5 DEF vars
<1> QED BY <1>1, <1>2, <1>3, <1>4, <1>5 DEF Next

\* A worker's own calm step: it keeps the lease as long as it needs it.  The
\* one step that drops it, giveUp's DEL, comes when no loop of the worker is
\* alive, because the failed start found the shard's slot free.
LEMMA OwnHolder ==
  ASSUME LoopTypes, ProcTypes, Calm, Calm', NEW w \in Workers, AccountedFor(w), Holder(w),
         \/ Leaser(w) \/ Operation(w) \/ EnsureFail(w) \/ Sigterm(w) \/ Drain(w) \/ Die(w)
         \/ \E c \in Slots : Loop(w, c) \/ LoopIdle(w, c)
  PROVE  Holder(w)'
<1> USE DEF LoopTypes, ProcTypes, AccountedFor, Holder, leaser, queue, consumers, Put, Live
<1>0. ~Spend("timeout") /\ ~Spend("drain")
  BY DEF Spend, FaultKind, Calm, Never
<1> USE DEF Alive
<1>1. CASE Leaser(w) BY <1>1 DEF Leaser, TickDue, TickSend, TickDone
<1>2. CASE StopBegin(w) BY <1>2 DEF StopBegin, OpEnds, Begins
<1>3. CASE StopEnd(w) BY <1>0, <1>3 DEF StopEnd, OpEnds
<1>4. CASE StartBegin(w) BY <1>4 DEF StartBegin, OpEnds, Begins
<1>5. CASE EnsureOk(w) BY <1>5 DEF EnsureOk
<1>6. CASE Warmed(w) BY <1>6 DEF Warmed, OpEnds
<1>7. CASE GiveGet(w) BY <1>7 DEF GiveGet, OpEnds
<1>8. CASE GiveDel(w) BY <1>8 DEF GiveDel, OpEnds
<1>9. CASE EnsureFail(w) BY <1>9 DEF EnsureFail
<1>10. CASE Sigterm(w) \/ Drain(w)
  BY <1>0, <1>10 DEF Sigterm, Drain, Halt, Halted, ReleaseGet, ReleaseDel, Closed
<1>11. CASE Die(w) BY <1>11 DEF Die, Exit
<1>12. ASSUME NEW c \in Slots, Loop(w, c) \/ LoopIdle(w, c) PROVE Holder(w)'
  BY <1>12
  DEF Loop, LoopTop, LoopFence, LoopProcess, LoopFenced, LoopProcessed, LoopIdle, Turn
<1> QED
  BY <1>1, <1>2, <1>3, <1>4, <1>5, <1>6, <1>7, <1>8, <1>9, <1>10, <1>11, <1>12
  DEF Operation

\* The holder of the lease is accounted for in every reachable state.
LEMMA HolderHolds == Spec => []HolderInv
<1>1. Init => HolderInv
  BY DEF Init, HolderInv, ProcTypes, Holder
<1>2. HolderInv /\ Accounts /\ [Next]_vars => HolderInv'
  <2> SUFFICES ASSUME HolderInv, Accounts, [Next]_vars, Calm', NEW v \in Workers
               PROVE  Holder(v)'
    BY ProcTypesStep DEF HolderInv
  <2>0. LoopTypes /\ ProcTypes
    BY DEF Accounts, HolderInv
  <2>1. Calm
    BY <2>0, NeverRefunded DEF Calm, Never, FaultKind
  <2>2. \A u \in Workers : AccountedFor(u) /\ Holder(u)
    BY <2>1 DEF HolderInv, Accounts, LoopsAccounted, Calm, Never
  <2>3. ASSUME phase'[v] = phase[v], cons'[v] = cons[v], proc'[v] = proc[v]
        PROVE  Holder(v)'
    <3>1. lease = v => lease' = v \/ proc[v] = "down" \/ GiveDel(v)
      BY <2>0, <2>1, LeaseMoves
    <3>2. ~GiveDel(v)
      BY <2>0, <2>3 DEF GiveDel, OpEnds, Put, LoopTypes
    <3> QED BY <2>2, <2>3, <3>1, <3>2 DEF Holder
  <2>4. CASE Expire \/ UNCHANGED vars
    BY <2>3, <2>4 DEF Expire, vars, queue, consumers
  <2>5. ASSUME NEW w \in Workers,
               \/ Leaser(w) \/ Operation(w) \/ EnsureFail(w) \/ Sigterm(w) \/ Drain(w)
               \/ Die(w) \/ \E c \in Slots : Loop(w, c) \/ LoopIdle(w, c)
        PROVE  Holder(v)'
    <3>1. CASE v = w BY <2>0, <2>1, <2>2, <2>5, <3>1, OwnHolder
    <3>2. CASE v # w BY <2>0, <2>3, <2>5, <3>2, OthersKeepTheirs, OthersKeepProc
    <3> QED BY <3>1, <3>2
  <2> QED BY <2>4, <2>5 DEF Next
<1> QED BY <1>1, <1>2, AccountsHold, PTL DEF Spec

\* The invariant main.ts calls I2: no two consumers, of one process or of two,
\* are inside process() for the shard at once, for any number of workers,
\* crashes and failed starts, as long as no lease expired under its holder, no
\* stop gave up on its consumer and nobody drained.
THEOREM OneProcessor == Spec => []ExclusiveProcessing
<1>1. Accounts /\ HolderInv => ExclusiveProcessing
  <2> SUFFICES ASSUME Accounts, HolderInv, Calm, NEW v \in Workers, NEW w \in Workers,
                      NEW c \in Busy(v), NEW d \in Busy(w)
               PROVE  v = w /\ c = d
    BY DEF ExclusiveProcessing, Calm
  <2>1. lease = v /\ lease = w
    BY DEF HolderInv, Holder, Busy
  <2>2. AccountedFor(v)
    BY DEF Accounts, LoopsAccounted, Calm, Never
  <2> QED BY <2>1, <2>2 DEF AccountedFor, Busy, Live, Accounts, LoopTypes
<1> QED BY <1>1, AccountsHold, HolderHolds, PTL

-----------------------------------------------------------------------------
(* A consumer that ended itself does not keep its shard's slot.            *)

HasStop(q) == \E i \in 1 .. Len(q) : q[i] = "stop"

\* A mapped consumer whose loop goes on still has its running flag, and one
\* whose loop has ended has a stop in the queue; an operation that is under way
\* is the first of the queue, so ending it takes no other operation away.
Cleared(w) ==
  /\ phase[w] # "idle" => ops[w] # <<>>
  /\ phase[w] \in {"stopping", "ensure", "giveGet", "giveDel"} => mapped[w] = None
  /\ phase[w] \in {"stopping", "ensure", "warm"} => subject[w] \in Slots
  /\ phase[w] = "warm" => mapped[w] = subject[w]
  /\ phase[w] \in {"ensure", "warm"} => cons[w][subject[w]] = "new"
  /\ proc[w] = "up" /\ mapped[w] # None =>
       /\ cons[w][mapped[w]] \in Live => running[w][mapped[w]]
       /\ cons[w][mapped[w]] = "done" => HasStop(ops[w])
QueueTypes == /\ ops \in [Workers -> Seq({"start", "stop"})]
              /\ running \in [Workers -> [Slots -> BOOLEAN]]
SlotInv == QueueTypes /\ \A w \in Workers : Cleared(w)

\* What queueing and ending an operation do to the queue.
LEMMA QueueFacts ==
  ASSUME NEW q \in Seq({"start", "stop"})
  PROVE  /\ \A x \in {"start", "stop"} : /\ Append(q, x) \in Seq({"start", "stop"})
                                         /\ Append(q, x) # <<>>
                                         /\ HasStop(q) => HasStop(Append(q, x))
         /\ HasStop(Append(q, "stop"))
         /\ q # <<>> => Tail(q) \in Seq({"start", "stop"})
         /\ q # <<>> /\ Head(q) = "start" /\ HasStop(q) => HasStop(Tail(q))
<1>1. ASSUME NEW x \in {"start", "stop"}
      PROVE  /\ Append(q, x) \in Seq({"start", "stop"}) /\ Append(q, x) # <<>>
             /\ HasStop(q) => HasStop(Append(q, x))
             /\ x = "stop" => HasStop(Append(q, x))
  <2>1. /\ Append(q, x) \in Seq({"start", "stop"}) /\ Append(q, x) # <<>>
        /\ Len(Append(q, x)) = Len(q) + 1 /\ Append(q, x)[Len(q) + 1] = x
        /\ \A i \in 1 .. Len(q) : Append(q, x)[i] = q[i]
    BY AppendProperties
  <2>2. Len(q) \in Nat OBVIOUS
  <2> QED BY <2>1, <2>2 DEF HasStop
<1>2. ASSUME q # <<>>
      PROVE  /\ Tail(q) \in Seq({"start", "stop"})
             /\ Head(q) = "start" /\ HasStop(q) => HasStop(Tail(q))
  <2>1. /\ Tail(q) \in Seq({"start", "stop"}) /\ Len(Tail(q)) = Len(q) - 1
        /\ \A i \in 1 .. Len(Tail(q)) : Tail(q)[i] = q[i + 1]
        /\ Head(q) = q[1]
    BY <1>2, HeadTailProperties
  <2>2. Len(q) \in Nat OBVIOUS
  <2>3. ASSUME Head(q) = "start", NEW i \in 1 .. Len(q), q[i] = "stop" PROVE HasStop(Tail(q))
    <3>1. i # 1 BY <2>1, <2>3
    <3>2. i - 1 \in 1 .. Len(Tail(q)) /\ (i - 1) + 1 = i BY <2>1, <2>2, <3>1
    <3>3. Tail(q)[i - 1] = "stop" BY <2>1, <2>3, <3>2
    <3> QED BY <3>2, <3>3 DEF HasStop
  <2> QED BY <2>1, <2>3 DEF HasStop
<1> QED BY <1>1, <1>2

\* The queues and flags of the others are their own.
LEMMA OthersKeepQueue ==
  ASSUME QueueTypes, NEW w \in Workers, NEW v \in Workers, v # w,
         \/ Leaser(w) \/ Operation(w) \/ EnsureFail(w) \/ Sigterm(w) \/ Drain(w) \/ Die(w)
         \/ \E c \in Slots : Loop(w, c) \/ LoopIdle(w, c)
  PROVE  ops'[v] = ops[v] /\ running'[v] = running[v]
<1> USE DEF QueueTypes, leaser, queue, consumers, Put, OpEnds, Exit, Queue
<1>1. CASE Leaser(w) BY <1>1 DEF Leaser, TickDue, TickSend, TickDone
<1>2. CASE StopBegin(w) \/ StopEnd(w) BY <1>2 DEF StopBegin, StopEnd
<1>3. CASE StartBegin(w) \/ EnsureOk(w) \/ Warmed(w)
  BY <1>3 DEF StartBegin, EnsureOk, Warmed
<1>4. CASE GiveGet(w) \/ GiveDel(w) \/ EnsureFail(w)
  BY <1>4 DEF GiveGet, GiveDel, EnsureFail
<1>5. CASE Sigterm(w) \/ Drain(w)
  BY <1>5 DEF Sigterm, Drain, Halt, Halted, ReleaseGet, ReleaseDel, Closed
<1>6. CASE Die(w) BY <1>6 DEF Die
<1>7. ASSUME NEW c \in Slots, Loop(w, c) \/ LoopIdle(w, c)
      PROVE  ops'[v] = ops[v] /\ running'[v] = running[v]
  BY <1>7 DEF Loop, LoopTop, LoopFence, LoopProcess, LoopFenced, LoopProcessed, LoopIdle
<1> QED
  BY <1>1, <1>2, <1>3, <1>4, <1>5, <1>6, <1>7 DEF Operation

\* A worker's own step.
LEMMA OwnSlot ==
  ASSUME LoopTypes, ProcTypes, QueueTypes, NEW w \in Workers, Cleared(w),
         \/ Leaser(w) \/ Operation(w) \/ EnsureFail(w) \/ Sigterm(w) \/ Drain(w) \/ Die(w)
         \/ \E c \in Slots : Loop(w, c) \/ LoopIdle(w, c)
  PROVE  QueueTypes' /\ Cleared(w)'
<1> USE DEF LoopTypes, ProcTypes, Cleared, leaser, queue, consumers, Put
<1>q. /\ ops[w] \in Seq({"start", "stop"})
      /\ \A q \in Seq({"start", "stop"}) : [ops EXCEPT ![w] = q] \in [Workers -> Seq({"start", "stop"})]
  BY DEF QueueTypes
<1>r. \A c, b : b \in BOOLEAN =>
         [running EXCEPT ![w][c] = b] \in [Workers -> [Slots -> BOOLEAN]]
  BY EntryTyped DEF QueueTypes
<1>e. ASSUME OpEnds(w), phase[w] # "idle"
      PROVE  ops' \in [Workers -> Seq({"start", "stop"})]
  BY <1>e, <1>q, QueueFacts DEF OpEnds
<1>a. ASSUME Queue(w, "stop") \/ Queue(w, "start")
      PROVE  /\ ops' \in [Workers -> Seq({"start", "stop"})] /\ ops'[w] # <<>>
             /\ HasStop(ops[w]) => HasStop(ops'[w])
             /\ Queue(w, "stop") => HasStop(ops'[w])
  <2>1. ASSUME NEW x \in {"start", "stop"}, Queue(w, x)
        PROVE  /\ ops' \in [Workers -> Seq({"start", "stop"})] /\ ops'[w] # <<>>
               /\ HasStop(ops[w]) => HasStop(ops'[w])
               /\ x = "stop" => HasStop(ops'[w])
    <3>1. ops' = [ops EXCEPT ![w] = Append(ops[w], x)] BY <2>1 DEF Queue
    <3>2. ops'[w] = Append(ops[w], x) BY <3>1 DEF QueueTypes
    <3> QED BY <1>q, <3>1, <3>2, QueueFacts
  <2> QED BY <1>a, <2>1
<1> USE DEF QueueTypes
<1>1. CASE Leaser(w)
  <2>1. UNCHANGED <<proc, phase, subject, mapped, cons, running>>
    BY <1>1 DEF Leaser, TickDue, TickSend, TickDone
  <2>2. UNCHANGED ops \/ Queue(w, "stop") \/ Queue(w, "start")
    BY <1>1 DEF Leaser, TickDue, TickSend, TickDone
  <2> QED BY <1>a, <2>1, <2>2
<1>2. CASE StopBegin(w)
  <2>1. CASE mapped[w] = None
    <3>1. ops[w] # <<>> /\ OpEnds(w) /\ UNCHANGED running
      BY <1>2, <2>1 DEF StopBegin, Begins, Ready
    <3>2. ops' \in [Workers -> Seq({"start", "stop"})]
      BY <3>1, <1>q, QueueFacts DEF OpEnds
    <3> QED BY <1>2, <3>1, <3>2 DEF StopBegin, OpEnds
  <2>2. CASE mapped[w] # None
    <3>1. running' \in [Workers -> [Slots -> BOOLEAN]]
      BY <1>2, <1>r, <2>2 DEF StopBegin
    <3> QED BY <1>2, <2>2, <3>1 DEF StopBegin, Begins, Ready
  <2> QED BY <2>1, <2>2
<1>3. CASE StopEnd(w) BY <1>3, <1>e DEF StopEnd, OpEnds
<1>4. CASE StartBegin(w)
  <2>1. CASE mapped[w] # None
    <3>1. ops[w] # <<>> /\ Head(ops[w]) = "start" /\ OpEnds(w) /\ UNCHANGED <<cons, running>>
      BY <1>4, <2>1 DEF StartBegin, Begins, Ready
    <3>2. /\ ops' \in [Workers -> Seq({"start", "stop"})]
          /\ HasStop(ops[w]) => HasStop(ops'[w])
      BY <3>1, <1>q, QueueFacts DEF OpEnds
    <3> QED BY <1>4, <3>1, <3>2 DEF StartBegin, OpEnds
  <2>2. CASE mapped[w] = None
    BY <1>4, <2>2 DEF StartBegin, Begins, Ready
  <2> QED BY <2>1, <2>2
<1>5. CASE EnsureOk(w) BY <1>5 DEF EnsureOk, Live
<1>6. CASE Warmed(w)
  <2>1. running' \in [Workers -> [Slots -> BOOLEAN]] BY <1>6, <1>r DEF Warmed
  <2>2. running'[w][subject[w]] = TRUE /\ cons'[w][subject[w]] = "top" /\ mapped[w] = subject[w]
    BY <1>6 DEF Warmed
  <2> QED BY <1>6, <1>e, <2>1, <2>2 DEF Warmed, OpEnds
<1>7. CASE GiveGet(w) BY <1>7, <1>e DEF GiveGet, OpEnds
<1>8. CASE GiveDel(w) BY <1>8, <1>e DEF GiveDel, OpEnds
<1>9. CASE EnsureFail(w) BY <1>9 DEF EnsureFail
<1>10. CASE Sigterm(w) BY <1>10 DEF Sigterm
<1>10a. CASE Halt(w)
  <2>1. running' \in [Workers -> [Slots -> BOOLEAN]] BY <1>10a, <1>r DEF Halt
  <2> QED BY <1>10a, <2>1 DEF Halt
<1>10b. CASE Halted(w) \/ ReleaseGet(w) \/ ReleaseDel(w)
  BY <1>10b DEF Halted, ReleaseGet, ReleaseDel
<1>11. CASE Closed(w) \/ Die(w)
  <2>1. Exit(w) BY <1>11 DEF Closed, Die
  <2>2. [c \in Slots |-> FALSE] \in [Slots -> BOOLEAN] /\ <<>> \in Seq({"start", "stop"})
    OBVIOUS
  <2> QED BY <2>1, <2>2, <1>q DEF Exit
<1>12. ASSUME NEW c \in Slots, Loop(w, c) \/ LoopIdle(w, c) PROVE QueueTypes' /\ Cleared(w)'
  <2>1. CASE LoopFenced(w, c)
    <3>1. running' \in [Workers -> [Slots -> BOOLEAN]] BY <2>1, <1>r DEF LoopFenced
    <3>2. /\ ops' \in [Workers -> Seq({"start", "stop"})] /\ ops'[w] # <<>> /\ HasStop(ops'[w])
      BY <2>1, <1>a DEF LoopFenced
    <3>3. cons'[w][c] = "done" /\ cons[w][c] = "lost" /\ \A d \in Slots : d # c => cons'[w][d] = cons[w][d] /\ running'[w][d] = running[w][d]
      BY <2>1 DEF LoopFenced
    <3>4. UNCHANGED <<proc, phase, subject, mapped>> BY <2>1 DEF LoopFenced
    <3> QED BY <3>1, <3>2, <3>3, <3>4 DEF Live
  <2>2. CASE LoopTop(w, c)
    <3>1. cons'[w][c] = (IF running[w][c] THEN "read" ELSE "done") /\ cons[w][c] = "top"
           /\ \A d \in Slots : d # c => cons'[w][d] = cons[w][d]
      BY <2>2 DEF LoopTop
    <3>2. UNCHANGED <<proc, phase, subject, mapped, ops, running>> BY <2>2 DEF LoopTop
    <3> QED BY <3>1, <3>2 DEF Live
  <2>3. CASE LoopFence(w, c) \/ LoopProcess(w, c) \/ LoopIdle(w, c) \/ LoopProcessed(w, c)
    <3>1. /\ cons[w][c] \in Live
          /\ cons'[w][c] \in Live \/ (cons'[w][c] = "done" /\ c # mapped[w])
          /\ \A d \in Slots : d # c => cons'[w][d] = cons[w][d]
      BY <2>3 DEF LoopFence, LoopProcess, LoopIdle, LoopProcessed, Live
    <3>2. UNCHANGED <<proc, phase, subject, mapped, ops, running>>
      BY <2>3 DEF LoopFence, LoopProcess, LoopIdle, LoopProcessed
    <3> QED BY <3>1, <3>2 DEF Live
  <2> QED BY <1>12, <2>1, <2>2, <2>3 DEF Loop
<1> QED
  BY <1>1, <1>2, <1>3, <1>4, <1>5, <1>6, <1>7, <1>8, <1>9, <1>10, <1>10a, <1>10b, <1>11, <1>12
  DEF Operation, Drain

\* A consumer that the fence ended is not left in consumersByShard, where it
\* would turn every later start of its shard into a no-op: a stop that clears
\* the slot is queued behind whatever starts come first, for any number of
\* faults of any kind.
THEOREM DeadSlotLeaves == Spec => []DeadSlotIsCleared
<1>1. Init => ProcTypes /\ SlotInv
  BY DEF Init, ProcTypes, SlotInv, QueueTypes, Cleared
<1>2. ProcTypes /\ SlotInv /\ Accounts /\ [Next]_vars => ProcTypes' /\ SlotInv'
  <2> SUFFICES ASSUME ProcTypes, SlotInv, Accounts, [Next]_vars PROVE SlotInv'
    BY ProcTypesStep
  <2>0. LoopTypes /\ QueueTypes /\ \A u \in Workers : Cleared(u)
    BY DEF Accounts, SlotInv
  <2>1. CASE Expire \/ UNCHANGED vars
    BY <2>0, <2>1 DEF Expire, vars, queue, consumers, SlotInv, QueueTypes, Cleared
  <2>2. ASSUME NEW w \in Workers,
               \/ Leaser(w) \/ Operation(w) \/ EnsureFail(w) \/ Sigterm(w) \/ Drain(w)
               \/ Die(w) \/ \E c \in Slots : Loop(w, c) \/ LoopIdle(w, c)
        PROVE  SlotInv'
    <3>1. QueueTypes' /\ Cleared(w)' BY <2>0, <2>2, OwnSlot
    <3>2. ASSUME NEW v \in Workers, v # w PROVE Cleared(v)'
      BY <2>0, <2>2, <3>2, OthersKeepTheirs, OthersKeepProc, OthersKeepQueue DEF Cleared
    <3> QED BY <3>1, <3>2 DEF SlotInv
  <2> QED BY <2>1, <2>2 DEF Next
<1>3. SlotInv => DeadSlotIsCleared
  BY DEF SlotInv, Cleared, DeadSlotIsCleared, HasStop
<1> QED BY <1>1, <1>2, <1>3, AccountsHold, PTL DEF Spec
=============================================================================
