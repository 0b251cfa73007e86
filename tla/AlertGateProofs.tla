---------------------------- MODULE AlertGateProofs ----------------------------
(***************************************************************************)
(* Machine-checked proofs about AlertGate, for every number of workers,    *)
(* channels, fixes, spells, attempts and faults.  A retry never repeats a  *)
(* channel that was served, and no stored alert falls out between the      *)
(* table, the queue and the channels (ToldInv).  No alert has two rows     *)
(* (GateInv).  No alarm is taken as known that has none (AlarmInv).        *)
(***************************************************************************)
EXTENDS AlertGate, WellFoundedInduction, TLAPS

USE AlertAssumption

\* What a delivery job and the delivery at work look like; of an alert nothing
\* needs to be known.
IsJob(j) == j = [alert |-> j.alert, tries |-> j.tries] /\ j.tries \in Nat
AtWork ==
  /\ run = [job |-> run.job, todo |-> run.todo, failed |-> run.failed, sent |-> run.sent]
  /\ run.failed \in BOOLEAN
  /\ \E j \in run.job : run.job = {j}
  /\ run.todo \subseteq Channels /\ run.sent \subseteq run.todo
  /\ \A c, d \in run.sent : c = d

Types ==
  /\ spent \in [Faults -> Nat]
  /\ sweep = [w \in Workers |-> sweep[w]]
  /\ \A j \in jobs \cup run.job : IsJob(j)
  /\ run = NoRun \/ AtWork

\* A mark is written for what was sent, and without a refused mark or a death what
\* was sent is marked, but for the channel at work.
Marks ==
  /\ marked \subseteq given
  /\ \A c \in run.sent : \A j \in run.job : <<j.alert, c>> \in given
  /\ Never({"redis", "crash"}) =>
       /\ "doubled" \notin odd
       /\ \A x \in given : x \in marked \/ \E c \in run.sent : \E j \in run.job : x = <<j.alert, c>>

\* An attempt was paid for by a refused send, and a channel that the delivery at
\* work has behind it was served unless the delivery counts as failed.
Attempts ==
  /\ Never({"redis"}) =>
       /\ \A j \in jobs \cup run.job : j.tries <= spent["send"]
       /\ run.failed => \A j \in run.job : j.tries + 1 <= spent["send"]
  /\ \A j \in run.job : \A c \in Channels \ run.todo : run.failed \/ <<j.alert, c>> \in given

\* Where a stored alert is: in the hands of the batch or of a sweep that stored
\* it, in the queue or at work, or with all its channels.
Pending(a) ==
  \/ stage = "notify" /\ a \in batch.events
  \/ \E w \in Workers : sweep[w] = "notify" /\ a = Alert("offline", spell.n)
  \/ \E j \in jobs \cup run.job : j.alert = a
Served(a) == \A c \in Channels : <<a, c>> \in given
Somewhere ==
  Never({"redis"}) /\ "untold" \notin odd /\ spent["send"] < MaxTries
    => \A a \in table : Pending(a) \/ Served(a)

ToldInv == Types /\ Marks /\ Attempts /\ Somewhere

\* The invariant says what the run checks.
LEMMA InvTold == ToldInv => Told
<1> SUFFICES ASSUME ToldInv PROVE Told
  OBVIOUS
<1>1. Never({"redis", "crash"}) => "doubled" \notin odd
  BY DEF ToldInv, Marks
<1>2. ASSUME Never({"redis"}), "untold" \notin odd, spent["send"] < MaxTries,
             stage = "idle", jobs = {}, run = NoRun, \A w \in Workers : sweep[w] # "notify"
      PROVE  table \X Channels \subseteq given
  <2>1. run.job = {}
    BY <1>2 DEF NoRun
  <2>2. \A a \in table : Served(a)
    BY <1>2, <2>1 DEF ToldInv, Somewhere, Pending
  <2> QED BY <2>2 DEF Served
<1> QED BY <1>1, <1>2 DEF Told

\* A fault is counted, and no count goes down.
Grows == spent' \in [Faults -> Nat] /\ \A k \in Faults : spent[k] <= spent'[k]

\* A fault that happens is counted once.
LEMMA SpendGrows ==
  ASSUME Types, NEW k \in Faults, Spend(k) PROVE Grows /\ spent'[k] = spent[k] + 1
  BY DEF Types, Spend, Grows

\* A count that is zero was zero before.
LEMMA NeverBefore ==
  ASSUME Types, Grows, NEW K \in SUBSET Faults, Never(K)' PROVE Never(K)
  BY DEF Types, Grows, Never, Faults

\* What a step that has nothing to do with the delivery may do: store nothing, and
\* let no hand that holds an alert drop it.
Quiet ==
  /\ Grows
  /\ UNCHANGED <<notify, table>>
  /\ sweep' = [w \in Workers |-> sweep'[w]]
  /\ "doubled" \in odd' => "doubled" \in odd
  /\ "untold" \in odd => "untold" \in odd'
  /\ "untold" \notin odd' => \A a \in table : Pending(a) => Pending(a)'

\* Such a step keeps the invariant.
LEMMA QuietKeeps == ToldInv /\ Quiet => ToldInv'
<1> SUFFICES ASSUME ToldInv, Quiet PROVE ToldInv'
  OBVIOUS
<1> USE DEF ToldInv
<1>1. UNCHANGED <<jobs, run, marked, given, table>>
  BY DEF Quiet, notify
<1>2. Grows /\ Types
  BY DEF Quiet
<1>3. \A K \in SUBSET Faults : Never(K)' => Never(K)
  BY <1>2, NeverBefore
<1>4. {"redis"} \in SUBSET Faults /\ {"redis", "crash"} \in SUBSET Faults
  BY DEF Faults
<1>5. Types'
  BY <1>1, <1>2 DEF Types, AtWork, Quiet, Grows
<1>6. Marks'
  BY <1>1, <1>3, <1>4 DEF Marks, Quiet
<1>7. spent["send"] \in Nat /\ spent'["send"] \in Nat /\ spent["send"] <= spent'["send"]
  BY <1>2 DEF Grows, Types, Faults
<1>8. Attempts'
  <2>1. \A j \in jobs \cup run.job : j.tries \in Nat
    BY <1>2 DEF Types, IsJob
  <2> QED BY <1>1, <1>3, <1>4, <1>7, <2>1 DEF Attempts
<1>9. Somewhere'
  <2> SUFFICES ASSUME Never({"redis"})', "untold" \notin odd', spent'["send"] < MaxTries,
                      NEW a \in table'
               PROVE  Pending(a)' \/ Served(a)'
    BY DEF Somewhere
  <2>1. Never({"redis"}) /\ "untold" \notin odd /\ spent["send"] < MaxTries /\ a \in table
    BY <1>1, <1>3, <1>4, <1>7 DEF Quiet
  <2>2. Pending(a) \/ Served(a)
    BY <2>1 DEF Somewhere
  <2> QED BY <1>1, <2>1, <2>2 DEF Quiet, Served
<1> QED BY <1>5, <1>6, <1>8, <1>9

\* The rule engine, the gate and the end of the batch up to its notices, and the
\* moves of the shard, are quiet.
LEMMA BatchIsQuiet ==
  ASSUME ToldInv, Feed \/ Claim \/ Cool \/ InsertFails \/ Save \/ Ack \/ Handoff \/ Turn
  PROVE  Quiet
<1> USE DEF ToldInv, notify, offline, keys
<1>1. Types
  OBVIOUS
<1>2. UNCHANGED spent => Grows
  BY <1>1 DEF Grows, Types
<1>3. \A k \in Faults : Spend(k) => Grows
  BY <1>1, SpendGrows
<1>4. "late" \in Faults /\ "fail" \in Faults /\ "redis" \in Faults /\ "handoff" \in Faults
  BY DEF Faults
<1>5. sweep = [w \in Workers |-> sweep[w]]
  BY <1>1 DEF Types
<1>6. ASSUME UNCHANGED <<spell, sweep, jobs, run>>, stage # "notify"
      PROVE  \A a : Pending(a) => Pending(a)'
  BY <1>6 DEF Pending
<1>7. CASE Feed
  <2>1. /\ stage = "idle" /\ UNCHANGED <<table, spell, sweep, jobs, run, marked, given>>
        /\ Spend("late") \/ UNCHANGED spent
        /\ odd' = odd \/ odd' = odd \cup {"order"}
    BY <1>7, Zenon DEF Feed
  <2> QED BY <1>2, <1>3, <1>4, <1>5, <1>6, <2>1 DEF Quiet
<1>8. CASE Claim
  <2>1. /\ stage = "claim" /\ UNCHANGED <<table, spell, sweep, jobs, run, marked, given, odd>>
        /\ Spend("redis") \/ UNCHANGED spent
    BY <1>8 DEF Claim
  <2> QED BY <1>2, <1>3, <1>4, <1>5, <1>6, <2>1 DEF Quiet
<1>9. CASE Cool
  <2>1. /\ stage = "cool" /\ UNCHANGED <<table, spell, sweep, jobs, run, marked, given, spent>>
        /\ odd' = odd \/ odd' = odd \cup {"back"}
    BY <1>9, Zenon DEF Cool
  <2> QED BY <1>2, <1>5, <1>6, <2>1 DEF Quiet
<1>10. CASE InsertFails
  <2>1. /\ stage = "insert" /\ UNCHANGED <<table, spell, sweep, jobs, run, marked, given>>
        /\ Spend("fail")
    BY <1>10 DEF InsertFails
  <2>2. ("doubled" \in odd' => "doubled" \in odd) /\ ("untold" \in odd => "untold" \in odd')
    BY <1>10 DEF InsertFails
  <2> QED BY <1>3, <1>4, <1>5, <1>6, <2>1, <2>2 DEF Quiet
<1>11. CASE Save
  <2>1. /\ stage = "save" /\ UNCHANGED <<table, spell, sweep, jobs, run, marked, given>>
        /\ Spend("redis") \/ UNCHANGED spent
        /\ odd' = odd \/ odd' = odd \cup {"stale"}
    BY <1>11 DEF Save
  <2> QED BY <1>2, <1>3, <1>4, <1>5, <1>6, <2>1 DEF Quiet
<1>12. CASE Ack
  BY <1>2, <1>5, <1>6, <1>12 DEF Quiet, Ack
<1>13. CASE Handoff
  <2>1. /\ stage = "idle" /\ UNCHANGED <<table, spell, sweep, jobs, run, marked, given>>
        /\ Spend("handoff")
        /\ odd' = odd \/ odd' = odd \cup {"stale"}
    BY <1>13 DEF Handoff
  <2> QED BY <1>3, <1>4, <1>5, <1>6, <2>1 DEF Quiet
<1>14. CASE Turn
  <2>1. /\ \A w \in Workers : sweep[w] = "none"
        /\ UNCHANGED <<batch, stage, table, sweep, jobs, run, marked, given, odd, spent>>
    BY <1>14 DEF Turn
  <2>2. \A a : Pending(a) => Pending(a)'
    BY <2>1 DEF Pending
  <2> QED BY <1>2, <1>5, <2>1, <2>2 DEF Quiet
<1> QED BY <1>7, <1>8, <1>9, <1>10, <1>11, <1>12, <1>13, <1>14

\* So are the steps of a sweep that neither store nor tell.
LEMMA SweepIsQuiet ==
  ASSUME ToldInv, NEW w \in Workers,
         SweepRead(w) \/ SweepClaim(w) \/ SweepFails(w) \/ SweepClear(w)
  PROVE  Quiet
<1> USE DEF ToldInv, notify, keys
<1>1. Types
  OBVIOUS
<1>2. sweep = [x \in Workers |-> sweep[x]]
  BY <1>1 DEF Types
<1>3. /\ sweep[w] # "notify" /\ \E s : sweep' = [sweep EXCEPT ![w] = s]
      /\ UNCHANGED <<batch, stage, table, spell, jobs, run, marked, given, odd>>
      /\ Spend("fail") \/ UNCHANGED spent
  BY DEF SweepRead, SweepClaim, SweepFails, SweepClear
<1>4. sweep' = [x \in Workers |-> sweep'[x]] /\ \A x \in Workers : sweep[x] = "notify" => sweep'[x] = "notify"
  BY <1>2, <1>3
<1>5. \A a : Pending(a) => Pending(a)'
  BY <1>3, <1>4 DEF Pending
<1>6. Grows
  BY <1>1, <1>3, SpendGrows DEF Grows, Types, Faults
<1> QED BY <1>3, <1>4, <1>5, <1>6 DEF Quiet

\* A step that stores alerts and keeps them in hand.
LEMMA StoreKeeps ==
  ASSUME ToldInv, NEW A, Stored(A), UNCHANGED <<notify, spent, spell, batch>>,
         sweep' = [w \in Workers |-> sweep'[w]],
         stage = "notify" => stage' = "notify",
         \A w \in Workers : sweep[w] = "notify" => sweep'[w] = "notify",
         \A a \in A : Pending(a)'
  PROVE  ToldInv'
<1> USE DEF ToldInv
<1>1. UNCHANGED <<jobs, run, marked, given, spent, spell, batch>>
  BY DEF notify
<1>2. /\ table' = table \cup A
      /\ odd' = odd \/ odd' = odd \cup {"twice"}
  BY DEF Stored
<1>3. Types'
  BY <1>1 DEF Types, AtWork
<1>4. \A K : Never(K)' <=> Never(K)
  BY <1>1 DEF Never
<1>5. Marks'
  BY <1>1, <1>2, <1>4 DEF Marks
<1>6. Attempts'
  BY <1>1, <1>4 DEF Attempts
<1>7. \A a : Pending(a) => Pending(a)'
  BY <1>1 DEF Pending
<1>8. \A a : Served(a)' <=> Served(a)
  BY <1>1 DEF Served
<1>9. Somewhere'
  BY <1>1, <1>2, <1>4, <1>7, <1>8 DEF Somewhere
<1> QED BY <1>3, <1>5, <1>6, <1>9

\* The batch and the sweep store what they will tell of.
LEMMA InsertKeeps ==
  ASSUME ToldInv, Insert \/ \E w \in Workers : SweepInsert(w) PROVE ToldInv'
<1>1. sweep = [x \in Workers |-> sweep[x]]
  BY DEF ToldInv, Types
<1>2. CASE Insert
  <2>1. /\ Stored(batch.events) /\ stage = "insert" /\ stage' = "notify"
        /\ UNCHANGED <<notify, spent, spell, batch, sweep>>
    BY <1>2 DEF Insert, offline
  <2>2. \A a \in batch.events : Pending(a)'
    BY <2>1 DEF Pending
  <2> QED BY <1>1, <2>1, <2>2, StoreKeeps
<1>3. ASSUME NEW w \in Workers, SweepInsert(w) PROVE ToldInv'
  <2>1. /\ Stored({Alert("offline", spell.n)}) /\ sweep' = [sweep EXCEPT ![w] = "notify"]
        /\ UNCHANGED <<notify, spent, spell, batch, stage>>
    BY <1>3 DEF SweepInsert
  <2>2. sweep' = [x \in Workers |-> sweep'[x]] /\ sweep'[w] = "notify"
        /\ \A x \in Workers : sweep[x] = "notify" => sweep'[x] = "notify"
    BY <1>1, <2>1
  <2>3. \A a \in {Alert("offline", spell.n)} : Pending(a)'
    BY <2>1, <2>2 DEF Pending
  <2> QED BY <2>1, <2>2, <2>3, StoreKeeps
<1> QED BY <1>2, <1>3

\* What the batch and a sweep do when they tell of A.
Tells(A) ==
  /\ \/ jobs' = Queued(A) /\ UNCHANGED spent
     \/ Spend("redis") /\ UNCHANGED jobs
  /\ UNCHANGED <<table, run, marked, given, odd, spell, batch>>
  /\ sweep' = [x \in Workers |-> sweep'[x]]
  /\ \A a : Pending(a) => Pending(a)' \/ a \in A

\* A notice that is queued: what was in hand is in the queue or at work.
LEMMA NotifyKeeps ==
  ASSUME ToldInv, Notify \/ \E w \in Workers : SweepNotify(w) PROVE ToldInv'
<1> USE DEF ToldInv
<1>0. Types /\ "redis" \in Faults /\ {"redis"} \in SUBSET Faults /\ {"redis", "crash"} \in SUBSET Faults
  BY DEF Faults
<1>1. sweep = [x \in Workers |-> sweep[x]]
  BY <1>0 DEF Types
<1>2. PICK A : Tells(A)
  <2>1. CASE Notify
    <3>1. /\ \/ jobs' = Queued(batch.events) /\ UNCHANGED spent
             \/ Spend("redis") /\ UNCHANGED jobs
          /\ UNCHANGED <<table, run, marked, given, odd, spell, batch, sweep>>
      BY <2>1 DEF Notify, offline
    <3>2. jobs \subseteq jobs'
      BY <3>1 DEF Queued
    <3>3. stage = "notify"
      BY <2>1 DEF Notify
    <3>4. \A a : Pending(a) => Pending(a)' \/ a \in batch.events
      BY <3>1, <3>2, <3>3 DEF Pending
    <3>5. Tells(batch.events)
      BY <1>1, <3>1, <3>4 DEF Tells
    <3> QED BY <3>5
  <2>2. ASSUME NEW w \in Workers, SweepNotify(w) PROVE Tells({Alert("offline", spell.n)})
    <3>1. /\ \/ jobs' = Queued({Alert("offline", spell.n)}) /\ UNCHANGED spent
             \/ Spend("redis") /\ UNCHANGED jobs
          /\ UNCHANGED <<table, run, marked, given, odd, spell, batch, stage>>
          /\ sweep' = [sweep EXCEPT ![w] = "none"]
      BY <2>2 DEF SweepNotify
    <3>2. jobs \subseteq jobs'
      BY <3>1 DEF Queued
    <3>3. sweep' = [x \in Workers |-> sweep'[x]]
      BY <1>1, <3>1
    <3>4. \A a : Pending(a) => Pending(a)' \/ a \in {Alert("offline", spell.n)}
      BY <3>1, <3>2 DEF Pending
    <3> QED BY <3>1, <3>3, <3>4 DEF Tells
  <2> QED BY <2>1, <2>2
<1> USE <1>2 DEF Tells
<1>3. Grows /\ (Never({"redis"})' => jobs' = Queued(A) /\ UNCHANGED spent)
  <2>1. CASE UNCHANGED spent /\ jobs' = Queued(A)
    BY <1>0, <2>1 DEF Grows, Types
  <2>2. CASE Spend("redis")
    <3>1. Grows /\ spent'["redis"] = spent["redis"] + 1 /\ spent["redis"] \in Nat
      BY <1>0, <2>2, SpendGrows DEF Types
    <3> QED BY <3>1 DEF Never
  <2> QED BY <1>2, <2>1, <2>2
<1>4. \A K \in SUBSET Faults : Never(K)' => Never(K)
  BY <1>0, <1>3, NeverBefore
<1>5. \A j \in jobs' : j \in jobs \/ j = [alert |-> j.alert, tries |-> 0]
  <2>1. CASE jobs' = jobs
    BY <2>1
  <2>2. CASE jobs' = Queued(A)
    BY <2>2 DEF Queued
  <2> QED BY <1>2, <2>1, <2>2
<1>6. Types'
  BY <1>0, <1>2, <1>3, <1>5 DEF Types, AtWork, Grows, IsJob
<1>7. Marks'
  BY <1>0, <1>2, <1>4 DEF Marks
<1>8. Attempts'
  <2>1. spent["send"] \in Nat /\ spent'["send"] \in Nat /\ spent["send"] <= spent'["send"]
    BY <1>0, <1>3 DEF Grows, Types, Faults
  <2>2. \A j \in jobs \cup run.job : j.tries \in Nat
    BY <1>0 DEF Types, IsJob
  <2>3. \A j \in jobs' : j \in jobs \/ j.tries = 0
    BY <1>5
  <2> QED BY <1>0, <1>2, <1>4, <2>1, <2>2, <2>3 DEF Attempts
<1>9. Somewhere'
  <2> SUFFICES ASSUME Never({"redis"})', "untold" \notin odd', spent'["send"] < MaxTries,
                      NEW a \in table'
               PROVE  Pending(a)' \/ Served(a)'
    BY DEF Somewhere
  <2>1. jobs' = Queued(A) /\ UNCHANGED spent
    BY <1>3
  <2>2. Pending(a) \/ Served(a)
    BY <1>0, <1>2, <1>4, <2>1 DEF Somewhere
  <2>3. a \in A => \E j \in jobs' \cup run.job : j.alert = a
    <3> SUFFICES ASSUME a \in A, \A j \in jobs \cup run.job : j.alert # a
                 PROVE  \E j \in jobs' : j.alert = a
      BY <2>1 DEF Queued
    <3>1. [alert |-> a, tries |-> 0] \in jobs'
      BY <2>1 DEF Queued
    <3> QED BY <3>1
  <2>4. a \in A => Pending(a)'
    BY <1>2, <2>3 DEF Pending
  <2>5. Served(a) => Served(a)'
    BY <1>2 DEF Served
  <2> QED BY <1>2, <2>2, <2>4, <2>5
<1> QED BY <1>6, <1>7, <1>8, <1>9

\* A death hands the delivery back to the queue; what it drops from the hand of
\* the batch or of its sweep is noted.
LEMMA CrashKeeps == ASSUME ToldInv, Crash PROVE ToldInv'
<1> USE DEF ToldInv
<1>0. Types /\ "crash" \in Faults /\ {"redis"} \in SUBSET Faults
  BY DEF Faults
<1>1. /\ Spend("crash") /\ UNCHANGED <<table, spell, marked, given>>
      /\ sweep' = [sweep EXCEPT ![owner] = "none"]
      /\ jobs' = jobs \cup run.job /\ run' = NoRun
  BY DEF Crash
<1>2. /\ "untold" \in odd => "untold" \in odd'
      /\ stage = "notify" \/ sweep[owner] = "notify" => "untold" \in odd'
  BY DEF Crash
<1>3. Grows /\ spent'["crash"] = spent["crash"] + 1 /\ spent["crash"] \in Nat
  BY <1>0, <1>1, SpendGrows DEF Types
<1>4. Never({"redis"})' => Never({"redis"})
  BY <1>0, <1>3, NeverBefore
<1>5. run'.job = {} /\ run'.sent = {} /\ run'.failed = FALSE
  BY <1>1 DEF NoRun
<1>6. Types'
  <2>1. sweep' = [w \in Workers |-> sweep'[w]]
    BY <1>0, <1>1 DEF Types
  <2> QED BY <1>0, <1>1, <1>3, <1>5, <2>1 DEF Types, Grows
<1>7. Marks'
  <2>1. ~ Never({"redis", "crash"})'
    BY <1>3 DEF Never
  <2> QED BY <1>1, <1>5, <2>1 DEF Marks
<1>8. Attempts'
  <2>1. spent["send"] \in Nat /\ spent'["send"] \in Nat /\ spent["send"] <= spent'["send"]
    BY <1>0, <1>3 DEF Grows, Types, Faults
  <2>2. \A j \in jobs \cup run.job : j.tries \in Nat
    BY <1>0 DEF Types, IsJob
  <2> QED BY <1>1, <1>4, <1>5, <2>1, <2>2 DEF Attempts
<1>9. Somewhere'
  <2> SUFFICES ASSUME Never({"redis"})', "untold" \notin odd', spent'["send"] < MaxTries,
                      NEW a \in table'
               PROVE  Pending(a)' \/ Served(a)'
    BY DEF Somewhere
  <2>1. spent["send"] \in Nat /\ spent'["send"] \in Nat /\ spent["send"] <= spent'["send"]
    BY <1>0, <1>3 DEF Grows, Types, Faults
  <2>2. Pending(a) \/ Served(a)
    BY <1>1, <1>2, <1>4, <2>1 DEF Somewhere
  <2>3. \A w \in Workers : sweep[w] = "notify" => sweep'[w] = "notify"
    BY <1>0, <1>1, <1>2 DEF Types
  <2>4. Pending(a) => Pending(a)'
    BY <1>1, <1>2, <2>3 DEF Pending
  <2> QED BY <1>1, <2>2, <2>4 DEF Served
<1> QED BY <1>6, <1>7, <1>8, <1>9

\* A delivery begins with every channel before it.
LEMMA StartKeeps == ASSUME ToldInv, Start PROVE ToldInv'
<1> USE DEF ToldInv
<1>1. /\ UNCHANGED <<table, stage, batch, sweep, spell, marked, given, odd, spent>>
      /\ run = NoRun
  BY DEF Start, world, offline
<1>2. PICK j \in jobs : /\ jobs' = jobs \ {j}
                        /\ run' = [job |-> {j}, todo |-> Channels, failed |-> FALSE, sent |-> {}]
  BY DEF Start
<1>3. run.job = {} /\ run.sent = {}
  BY <1>1 DEF NoRun
<1>4. run'.job = {j} /\ run'.todo = Channels /\ run'.failed = FALSE /\ run'.sent = {}
  BY <1>2
<1>5. jobs' \cup run'.job = jobs \cup run.job
  BY <1>2, <1>3, <1>4
<1>6. AtWork'
  BY <1>2, <1>4 DEF AtWork
<1>7. Types'
  BY <1>1, <1>5, <1>6 DEF Types
<1>8. \A K : Never(K)' <=> Never(K)
  BY <1>1 DEF Never
<1>9. Marks'
  BY <1>1, <1>3, <1>4, <1>8 DEF Marks
<1>10. Attempts'
  BY <1>1, <1>4, <1>5, <1>8 DEF Attempts
<1>11. Somewhere'
  BY <1>1, <1>5, <1>8 DEF Somewhere, Pending, Served
<1> QED BY <1>7, <1>9, <1>10, <1>11

\* A delivery with one of its fields replaced.
LEMMA RunWith ==
  ASSUME NEW r, r = [job |-> r.job, todo |-> r.todo, failed |-> r.failed, sent |-> r.sent], NEW x
  PROVE  /\ [r EXCEPT !.todo = x] = [job |-> r.job, todo |-> x, failed |-> r.failed, sent |-> r.sent]
         /\ [r EXCEPT !.failed = x] = [job |-> r.job, todo |-> r.todo, failed |-> x, sent |-> r.sent]
         /\ [r EXCEPT !.sent = x] = [job |-> r.job, todo |-> r.todo, failed |-> r.failed, sent |-> x]
  OBVIOUS

\* What a step of the delivery at work does, as far as its job goes.
Moves(j) ==
  /\ run'.job = {j} /\ AtWork'
  /\ Grows /\ given \subseteq given'
  /\ odd' = odd \/ odd' = odd \cup {"doubled"}
  /\ run'.failed => ~ Never({"redis"})' \/ run.failed \/ j.tries + 1 <= spent'["send"]
  /\ \A x \in run.todo \ run'.todo : run'.failed \/ <<j.alert, x>> \in given'
  /\ run.failed => run'.failed

\* One channel of the delivery at work. It stays at work for the same job.
LEMMA ChannelKeeps ==
  ASSUME ToldInv, NEW c \in Channels, Skip(c) \/ Send(c) \/ Mark(c) \/ SendFails(c)
  PROVE  ToldInv'
<1> USE DEF ToldInv
<1>0. Types /\ {"redis"} \in SUBSET Faults /\ {"redis", "crash"} \in SUBSET Faults
            /\ "redis" \in Faults /\ "send" \in Faults
  BY DEF Faults
<1>1. UNCHANGED <<table, stage, batch, sweep, spell, jobs>>
  BY DEF Skip, Send, Mark, SendFails, world, offline
<1>2. AtWork
  <2>1. c \in run.todo \/ c \in run.sent
    BY DEF Skip, Send, Mark, SendFails
  <2> QED BY <1>0, <2>1 DEF Types, NoRun
<1>3. PICK j : run.job = {j} /\ Running = j /\ IsJob(j)
  <2>1. PICK j \in run.job : run.job = {j}
    BY <1>2 DEF AtWork
  <2> QED BY <1>0, <2>1 DEF Running, Types
<1>4. run = [job |-> {j}, todo |-> run.todo, failed |-> run.failed, sent |-> run.sent]
  BY <1>2, <1>3 DEF AtWork
<1>5. spent["send"] \in Nat /\ spent["redis"] \in Nat /\ j.tries \in Nat
  BY <1>0, <1>3 DEF Types, IsJob
<1>6. ASSUME Moves(j) PROVE Types' /\ Attempts' /\ Somewhere'
  <2> USE <1>6 DEF Moves
  <2>3. Types'
    BY <1>0, <1>1, <1>3 DEF Types, Grows
  <2>4. spent'["send"] \in Nat /\ spent["send"] <= spent'["send"]
    BY <1>0 DEF Grows
  <2>5. Never({"redis"})' => Never({"redis"})
    BY <1>0, NeverBefore
  <2>6. \A k \in jobs \cup {j} : k.tries \in Nat
    BY <1>0, <1>3 DEF Types, IsJob
  <2>7. ASSUME Never({"redis"})'
        PROVE  /\ \A k \in jobs' \cup run'.job : k.tries <= spent'["send"]
               /\ run'.failed => \A k \in run'.job : k.tries + 1 <= spent'["send"]
    <3>1. /\ \A k \in jobs \cup {j} : k.tries <= spent["send"]
          /\ run.failed => j.tries + 1 <= spent["send"]
      BY <1>3, <2>5, <2>7 DEF Attempts
    <3>2. run'.failed => j.tries + 1 <= spent'["send"]
      BY <1>5, <2>4, <2>7, <3>1
    <3>3. \A k \in jobs \cup {j} : k.tries <= spent'["send"]
      BY <1>5, <2>4, <2>6, <3>1
    <3> QED BY <1>1, <3>2, <3>3
  <2>8. \A x \in Channels \ run'.todo : run'.failed \/ <<j.alert, x>> \in given'
    BY <1>3 DEF Attempts
  <2>9. Attempts'
    BY <2>7, <2>8 DEF Attempts
  <2>10. Somewhere'
    <3> SUFFICES ASSUME Never({"redis"})', "untold" \notin odd', spent'["send"] < MaxTries,
                        NEW a \in table'
                 PROVE  Pending(a)' \/ Served(a)'
      BY DEF Somewhere
    <3>1. Pending(a) \/ Served(a)
      BY <1>1, <1>5, <2>4, <2>5 DEF Somewhere
    <3>2. Pending(a) => Pending(a)'
      BY <1>1, <1>3 DEF Pending
    <3> QED BY <3>1, <3>2 DEF Served
  <2> QED BY <2>3, <2>9, <2>10
<1>7. ASSUME UNCHANGED spent PROVE Grows /\ \A K : Never(K)' <=> Never(K)
  BY <1>0, <1>7 DEF Grows, Types, Never
<1>8. run.todo \subseteq Channels /\ run.sent \subseteq run.todo /\ run.failed \in BOOLEAN
      /\ \A x, y \in run.sent : x = y
  BY <1>2 DEF AtWork
<1>9. CASE Skip(c)
  <2>1. /\ run.sent = {} /\ c \in run.todo /\ <<j.alert, c>> \in marked
        /\ UNCHANGED <<marked, given, odd, spent>>
        /\ run' = [run EXCEPT !.todo = @ \ {c}]
    BY <1>3, <1>9 DEF Skip
  <2>2. run' = [job |-> {j}, todo |-> run.todo \ {c}, failed |-> run.failed, sent |-> {}]
    BY <1>4, <2>1
  <2>3. <<j.alert, c>> \in given
    BY <2>1 DEF Marks
  <2>5. run'.job = {j} /\ run'.todo = run.todo \ {c} /\ run'.failed = run.failed /\ run'.sent = {}
    BY <2>2
  <2>7. AtWork'
    BY <1>8, <2>2, <2>5 DEF AtWork
  <2>8. Moves(j)
    BY <1>7, <2>1, <2>3, <2>5, <2>7 DEF Moves
  <2>4. Types' /\ Attempts' /\ Somewhere'
    BY <1>6, <2>8
  <2>6. Marks'
    BY <1>7, <2>1, <2>5 DEF Marks
  <2> QED BY <2>4, <2>6
<1>10. CASE Send(c)
  <2>1. /\ run.sent = {} /\ c \in run.todo /\ <<j.alert, c>> \notin marked
        /\ UNCHANGED <<marked, spent>>
        /\ given' = given \cup {<<j.alert, c>>}
        /\ odd' = IF <<j.alert, c>> \in given THEN odd \cup {"doubled"} ELSE odd
        /\ run' = [run EXCEPT !.sent = {c}]
    BY <1>3, <1>10 DEF Send
  <2>2. run' = [job |-> {j}, todo |-> run.todo, failed |-> run.failed, sent |-> {c}]
    BY <1>4, <2>1
  <2>4. run'.job = {j} /\ run'.todo = run.todo /\ run'.failed = run.failed /\ run'.sent = {c}
    BY <2>2
  <2>8. AtWork'
    BY <1>8, <2>1, <2>2, <2>4 DEF AtWork
  <2>9. Moves(j)
    BY <1>7, <2>1, <2>4, <2>8 DEF Moves
  <2>3. Types' /\ Attempts' /\ Somewhere'
    BY <1>6, <2>9
  <2>5. marked' \subseteq given' /\ \A x \in run'.sent : \A k \in run'.job : <<k.alert, x>> \in given'
    BY <2>1, <2>4 DEF Marks
  <2>6. ASSUME Never({"redis", "crash"})'
        PROVE  /\ "doubled" \notin odd'
               /\ \A x \in given' : x \in marked' \/ \E y \in run'.sent : \E k \in run'.job : x = <<k.alert, y>>
    <3>1. "doubled" \notin odd /\ \A x \in given : x \in marked
      BY <1>7, <2>1, <2>6 DEF Marks
    <3> QED BY <2>1, <2>4, <3>1
  <2>7. Marks'
    BY <2>5, <2>6 DEF Marks
  <2> QED BY <2>3, <2>7
<1>11. CASE Mark(c)
  <2>1. c \in run.sent /\ UNCHANGED <<given, odd>> /\ run.sent = {c}
    BY <1>8, <1>11 DEF Mark
  <2>2. <<j.alert, c>> \in given
    BY <1>3, <2>1 DEF Marks
  <2>3. CASE /\ marked' = marked \cup {<<Running.alert, c>>} /\ UNCHANGED spent
             /\ run' = [run EXCEPT !.sent = {}, !.todo = @ \ {c}]
    <3>1. run' = [job |-> {j}, todo |-> run.todo \ {c}, failed |-> run.failed, sent |-> {}]
      <4>1. PICK q : q = [run EXCEPT !.sent = {}]
        OBVIOUS
      <4>2. q = [job |-> {j}, todo |-> run.todo, failed |-> run.failed, sent |-> {}]
        BY <1>3, <1>4, <4>1, RunWith
      <4>3. run' = [q EXCEPT !.todo = @ \ {c}]
        BY <2>3, <4>1
      <4> QED BY <4>2, <4>3, RunWith
    <3>3. run'.job = {j} /\ run'.todo = run.todo \ {c} /\ run'.failed = run.failed /\ run'.sent = {}
      BY <3>1
    <3>6. AtWork'
      BY <1>8, <3>1, <3>3 DEF AtWork
    <3>7. Moves(j)
      BY <1>7, <2>1, <2>2, <2>3, <3>3, <3>6 DEF Moves
    <3>2. Types' /\ Attempts' /\ Somewhere'
      BY <1>6, <3>7
    <3>4. ASSUME Never({"redis", "crash"})' PROVE "doubled" \notin odd' /\ \A x \in given' : x \in marked'
      BY <1>3, <1>7, <2>1, <2>3, <3>4 DEF Marks
    <3>5. Marks'
      BY <1>3, <2>1, <2>2, <2>3, <3>3, <3>4 DEF Marks
    <3> QED BY <3>2, <3>5
  <2>4. CASE /\ Spend("redis") /\ UNCHANGED marked
             /\ run' = [run EXCEPT !.sent = {}, !.todo = @ \ {c}, !.failed = TRUE]
    <3>1. run' = [job |-> {j}, todo |-> run.todo \ {c}, failed |-> TRUE, sent |-> {}]
      <4>1. PICK q : q = [run EXCEPT !.sent = {}]
        OBVIOUS
      <4>2. q = [job |-> {j}, todo |-> run.todo, failed |-> run.failed, sent |-> {}]
        BY <1>3, <1>4, <4>1, RunWith
      <4>3. PICK u : u = [q EXCEPT !.todo = @ \ {c}]
        OBVIOUS
      <4>4. u = [job |-> {j}, todo |-> run.todo \ {c}, failed |-> run.failed, sent |-> {}]
        BY <4>2, <4>3, RunWith
      <4>5. run' = [u EXCEPT !.failed = TRUE]
        BY <2>4, <4>1, <4>3
      <4> QED BY <4>4, <4>5, RunWith
    <3>2. Grows /\ spent'["redis"] = spent["redis"] + 1
      BY <1>0, <2>4, SpendGrows
    <3>3. ~ Never({"redis"})' /\ ~ Never({"redis", "crash"})'
      BY <1>5, <3>2 DEF Never
    <3>5. run'.job = {j} /\ run'.todo = run.todo \ {c} /\ run'.failed = TRUE /\ run'.sent = {}
      BY <3>1
    <3>7. AtWork'
      BY <1>8, <3>1, <3>5 DEF AtWork
    <3>8. Moves(j)
      BY <2>1, <3>2, <3>3, <3>5, <3>7 DEF Moves
    <3>4. Types' /\ Attempts' /\ Somewhere'
      BY <1>6, <3>8
    <3>6. Marks'
      BY <2>1, <2>4, <3>3, <3>5 DEF Marks
    <3> QED BY <3>4, <3>6
  <2> QED BY <1>11, <2>3, <2>4 DEF Mark
<1>12. CASE SendFails(c)
  <2>1. /\ run.sent = {} /\ c \in run.todo /\ UNCHANGED <<marked, given, odd>> /\ Spend("send")
        /\ run' = [run EXCEPT !.todo = @ \ {c}, !.failed = TRUE]
    BY <1>12 DEF SendFails
  <2>2. run' = [job |-> {j}, todo |-> run.todo \ {c}, failed |-> TRUE, sent |-> {}]
    <3>1. PICK q : q = [run EXCEPT !.todo = @ \ {c}]
      OBVIOUS
    <3>2. q = [job |-> {j}, todo |-> run.todo \ {c}, failed |-> run.failed, sent |-> {}]
      BY <1>3, <1>4, <2>1, <3>1, RunWith
    <3>3. run' = [q EXCEPT !.failed = TRUE]
      BY <2>1, <3>1
    <3> QED BY <3>2, <3>3, RunWith
  <2>3. Grows /\ spent'["send"] = spent["send"] + 1
    BY <1>0, <2>1, SpendGrows
  <2>4. \A K \in SUBSET Faults : Never(K)' => Never(K)
    BY <1>0, <2>3, NeverBefore
  <2>5. Never({"redis"})' => j.tries + 1 <= spent'["send"]
    <3>1. Never({"redis"})' => j.tries <= spent["send"]
      BY <1>0, <1>3, <2>4 DEF Attempts
    <3> QED BY <1>5, <2>3, <3>1
  <2>7. run'.job = {j} /\ run'.todo = run.todo \ {c} /\ run'.failed = TRUE /\ run'.sent = {}
    BY <2>2
  <2>9. AtWork'
    BY <1>8, <2>2, <2>7 DEF AtWork
  <2>10. Moves(j)
    BY <2>1, <2>3, <2>5, <2>7, <2>9 DEF Moves
  <2>6. Types' /\ Attempts' /\ Somewhere'
    BY <1>6, <2>10
  <2>8. Marks'
    BY <1>0, <2>1, <2>4, <2>7 DEF Marks
  <2> QED BY <2>6, <2>8
<1> QED BY <1>9, <1>10, <1>11, <1>12

\* A delivery ends: it goes back to the queue, has served every channel, or has
\* used up an attempt for every refused send that its job was worth.
LEMMA FinishKeeps == ASSUME ToldInv, Finish PROVE ToldInv'
<1> USE DEF ToldInv
<1>0. Types
  OBVIOUS
<1>1. /\ UNCHANGED <<table, stage, batch, sweep, spell, marked, given, odd, spent>>
      /\ run # NoRun /\ run.todo = {} /\ run' = NoRun
      /\ jobs' = IF run.failed /\ Running.tries + 1 < MaxTries
                   THEN jobs \cup {[Running EXCEPT !.tries = @ + 1]} ELSE jobs
  BY DEF Finish, world, offline
<1>2. AtWork
  BY <1>0, <1>1 DEF Types
<1>3. PICK j : run.job = {j} /\ Running = j /\ IsJob(j)
  <2>1. PICK j \in run.job : run.job = {j}
    BY <1>2 DEF AtWork
  <2> QED BY <1>0, <2>1 DEF Running, Types
<1>4. run'.job = {} /\ run'.sent = {} /\ run'.failed = FALSE
  BY <1>1 DEF NoRun
<1>5. [Running EXCEPT !.tries = @ + 1] = [alert |-> j.alert, tries |-> j.tries + 1]
  BY <1>3 DEF IsJob
<1>6. \A K : Never(K)' <=> Never(K)
  BY <1>1 DEF Never
<1>7. spent["send"] \in Nat /\ j.tries \in Nat
  BY <1>0, <1>3 DEF Types, Faults, IsJob
<1>8. PICK r : r = [alert |-> j.alert, tries |-> j.tries + 1]
  OBVIOUS
<1>9. r.alert = j.alert /\ r.tries = j.tries + 1 /\ IsJob(r)
  BY <1>7, <1>8 DEF IsJob
<1>10. jobs' = IF run.failed /\ j.tries + 1 < MaxTries THEN jobs \cup {r} ELSE jobs
  BY <1>1, <1>3, <1>5, <1>8
<1>11. Types'
  BY <1>0, <1>1, <1>4, <1>9, <1>10 DEF Types
<1>12. run.sent = {}
  BY <1>1, <1>2 DEF AtWork
<1>13. Marks'
  BY <1>1, <1>4, <1>6, <1>12 DEF Marks
<1>14. Attempts'
  <2>1. Never({"redis"}) => /\ \A k \in jobs : k.tries <= spent["send"]
                            /\ run.failed => r.tries <= spent["send"]
    BY <1>3, <1>9 DEF Attempts
  <2> QED BY <1>1, <1>4, <1>6, <1>10, <2>1 DEF Attempts
<1>15. Somewhere'
  <2> SUFFICES ASSUME Never({"redis"}), "untold" \notin odd, spent["send"] < MaxTries,
                      NEW a \in table
               PROVE  Pending(a)' \/ Served(a)'
    BY <1>1, <1>6 DEF Somewhere
  <2>1. Pending(a) \/ Served(a)
    BY DEF Somewhere
  <2>2. Served(a) => Served(a)'
    BY <1>1 DEF Served
  <2>3. ASSUME a # j.alert PROVE Pending(a) => Pending(a)'
    BY <1>1, <1>3, <1>10, <2>3 DEF Pending
  <2>4. ASSUME a = j.alert, run.failed PROVE Pending(a)'
    <3>1. j.tries + 1 < MaxTries
      BY <1>3, <1>7, <2>4 DEF Attempts
    <3>2. r \in jobs' /\ r.alert = a
      BY <1>9, <1>10, <2>4, <3>1
    <3> QED BY <3>2 DEF Pending
  <2>5. ASSUME a = j.alert, ~ run.failed PROVE Served(a)'
    BY <1>1, <1>3, <2>5 DEF Attempts, Served
  <2> QED BY <2>1, <2>2, <2>3, <2>4, <2>5
<1> QED BY <1>11, <1>13, <1>14, <1>15

\* Every step keeps the invariant.
LEMMA ToldStep == ToldInv /\ [Next]_vars => ToldInv'
<1> SUFFICES ASSUME ToldInv, [Next]_vars PROVE ToldInv'
  OBVIOUS
<1>1. CASE UNCHANGED vars
  <2>1. Grows
    BY <1>1 DEF vars, Grows, ToldInv, Types
  <2>2. sweep' = [w \in Workers |-> sweep'[w]]
    BY <1>1 DEF vars, ToldInv, Types
  <2>3. \A a : Pending(a) => Pending(a)'
    BY <1>1 DEF vars, Pending
  <2>4. Quiet
    BY <1>1, <2>1, <2>2, <2>3 DEF vars, Quiet, notify
  <2> QED BY <2>4, QuietKeeps
<1> QED BY <1>1, BatchIsQuiet, SweepIsQuiet, QuietKeeps, InsertKeeps, NotifyKeeps, CrashKeeps,
           StartKeeps, ChannelKeeps, FinishKeeps DEF Next

\* It holds at first: nothing is stored, queued or sent.
LEMMA ToldInit == Init => ToldInv
<1> SUFFICES ASSUME Init PROVE ToldInv
  OBVIOUS
<1>1. run.job = {} /\ run.sent = {} /\ run.failed = FALSE
  BY DEF Init, NoRun
<1>2. Types
  BY <1>1 DEF Init, Types
<1>3. Marks
  BY <1>1 DEF Init, Marks
<1>4. Attempts
  BY <1>1 DEF Init, Attempts
<1>5. Somewhere
  BY DEF Init, Somewhere
<1> QED BY <1>2, <1>3, <1>4, <1>5 DEF ToldInv

\* Nothing is lost between an alert's row and its channels, and no channel is told
\* twice by a retry: what Told says of enqueueNotify, runNotify and dispatchEvent
\* holds for every number of workers, channels, alerts, attempts and faults.
THEOREM EveryAlertIsTold == Spec => []Told
  BY ToldInit, ToldStep, InvTold, PTL DEF Spec

-----------------------------------------------------------------------------
(* What repeats.                                                            *)

IsRaised(a) == a = Alert(a.rule, a.at) /\ a.rule \in {"panic", "speed"} /\ a.at \in Ticks
IsSilence(a) == a.rule = "offline" /\ \E n \in 0 .. spell.n : a = Alert("offline", n)

Shape ==
  /\ \A a \in batch.events \cup batch.mine : IsRaised(a)
  /\ \A a, b \in batch.events : a.rule = "speed" /\ b.rule = "speed" => a = b
  /\ \A a \in table : IsRaised(a) \/ IsSilence(a)
  /\ batch = [fixes |-> batch.fixes, pre |-> batch.pre, events |-> batch.events, mine |-> batch.mine]
  /\ spell = [n |-> spell.n, quiet |-> spell.quiet] /\ spell.n \in Nat
  /\ DOMAIN track \subseteq Ticks
  /\ last \in Nat

\* While the device is silent the flag goes only with a sweep whose insert failed,
\* so at most one sweep has a row to write and the row is not there yet.
Silence ==
  /\ \A w \in Workers : sweep[w] \in {"claim", "insert", "notify"} => spell.quiet
  /\ \A w \in Workers : sweep[w] = "clear" => ~ spell.quiet
  /\ \A w \in Workers : sweep[w] = "insert" => flag /\ Alert("offline", spell.n) \notin table
  /\ \A v, w \in Workers : sweep[v] = "insert" /\ sweep[w] = "insert" => v = w
  /\ spell.quiet /\ ~ flag => Alert("offline", spell.n) \notin table

\* The row of an alert has its key, and the alerts that the batch took through
\* the gate have their keys and no rows.
Rows ==
  Never({"redis"}) =>
    /\ "twice" \notin odd
    /\ \A a \in table : a.rule = "offline" \/ a \in claims
    /\ stage \in {"cool", "insert"} =>
         /\ batch.events \subseteq batch.mine /\ batch.mine \subseteq claims
         /\ batch.mine \cap table = {}

\* The marker is at the newest row of the rule or beyond it.
Spaced ==
  Never({"fail"}) /\ "back" \notin odd =>
    /\ \A a \in table : a.rule = "speed" => a.at <= last
    /\ \A a, b \in table : a.rule = "speed" /\ b.rule = "speed" /\ a.at < b.at => a.at + Cooldown <= b.at
    /\ stage = "insert" =>
         \A b \in batch.events : b.rule = "speed" =>
           /\ b.at = last
           /\ \A a \in table : a.rule = "speed" => a.at + Cooldown <= b.at

GateInv == ToldInv /\ Shape /\ Silence /\ Rows /\ Spaced

\* The invariant says what the run checks.
LEMMA InvNoRepeat == GateInv => AlertsDoNotRepeat
  BY DEF GateInv, Rows, Spaced, AlertsDoNotRepeat

\* What every step does: faults and the history of what went wrong only grow.
LEMMA StepGrows == ASSUME Types, [Next]_vars PROVE Grows /\ odd \subseteq odd'
<1>1. UNCHANGED spent => Grows
  BY DEF Grows, Types
<1>2. \A k \in Faults : Spend(k) => Grows
  BY SpendGrows
<1>3. \A k \in {"late", "fail", "redis", "send", "handoff", "crash"} : Spend(k) => Grows
  BY <1>2 DEF Faults
<1>4. CASE UNCHANGED vars
  BY <1>1, <1>4 DEF vars
<1>5. CASE Feed
  <2>1. (Spend("late") \/ UNCHANGED spent) /\ (odd' = odd \/ odd' = odd \cup {"order"})
    BY <1>5, Zenon DEF Feed
  <2> QED BY <1>1, <1>3, <2>1
<1>6. CASE Claim
  <2>1. (Spend("redis") \/ UNCHANGED spent) /\ UNCHANGED odd
    BY <1>6 DEF Claim
  <2> QED BY <1>1, <1>3, <2>1
<1>7. CASE Cool
  <2>1. UNCHANGED spent /\ (odd' = odd \/ odd' = odd \cup {"back"})
    BY <1>7, Zenon DEF Cool
  <2> QED BY <1>1, <2>1
<1>8. CASE Insert \/ Ack \/ Turn \/ Start \/ Finish
  <2>1. UNCHANGED spent /\ odd \subseteq odd'
    BY <1>8 DEF Insert, Ack, Turn, Start, Finish, Stored
  <2> QED BY <1>1, <2>1
<1>9. CASE InsertFails
  <2>1. Spend("fail") /\ odd \subseteq odd'
    BY <1>9 DEF InsertFails
  <2> QED BY <1>3, <2>1
<1>10. CASE Notify \/ Save
  <2>1. (Spend("redis") \/ UNCHANGED spent) /\ odd \subseteq odd'
    BY <1>10 DEF Notify, Save
  <2> QED BY <1>1, <1>3, <2>1
<1>11. CASE Handoff \/ Crash
  <2>1. (Spend("handoff") \/ Spend("crash")) /\ odd \subseteq odd'
    BY <1>11 DEF Handoff, Crash
  <2> QED BY <1>3, <2>1
<1>12. ASSUME NEW w \in Workers,
              SweepRead(w) \/ SweepClaim(w) \/ SweepInsert(w) \/ SweepFails(w) \/ SweepNotify(w) \/ SweepClear(w)
       PROVE  Grows /\ odd \subseteq odd'
  <2>1. (UNCHANGED spent \/ Spend("fail") \/ Spend("redis")) /\ odd \subseteq odd'
    BY <1>12 DEF SweepRead, SweepClaim, SweepInsert, SweepFails, SweepNotify, SweepClear, Stored
  <2> QED BY <1>1, <1>3, <2>1
<1>13. ASSUME NEW c \in Channels, Skip(c) \/ Send(c) \/ Mark(c) \/ SendFails(c)
       PROVE  Grows /\ odd \subseteq odd'
  <2>1. (UNCHANGED spent \/ Spend("send") \/ Spend("redis")) /\ odd \subseteq odd'
    BY <1>13 DEF Skip, Send, Mark, SendFails
  <2> QED BY <1>1, <1>3, <2>1
<1> QED BY <1>4, <1>5, <1>6, <1>7, <1>8, <1>9, <1>10, <1>11, <1>12, <1>13 DEF Next

\* The delivery touches nothing that the gate looks at.
LEMMA DeliveryIsApart ==
  ASSUME Start \/ Finish \/ \E c \in Channels : Skip(c) \/ Send(c) \/ Mark(c) \/ SendFails(c)
  PROVE  UNCHANGED world /\ \A x : x \in odd' => x \in odd \/ x = "doubled"
  BY DEF Start, Finish, Skip, Send, Mark, SendFails

\* What a batch raises: edges and levels at its ticks, and one level at most.
LEMMA RaisedShape ==
  ASSUME NEW F \in SUBSET Ticks
  PROVE  /\ \A a \in Raised(F) : IsRaised(a)
         /\ \A a, b \in Raised(F) : a.rule = "speed" /\ b.rule = "speed" => a = b
<1> DEFINE High == {t \in F : track[t] = "high"}
           P == {u \in High : Reading(F, u) = "low"}
           S == {u \in High : \A v \in High : u <= v}
<1>1. Raised(F) = {Alert("panic", t) : t \in P} \cup {Alert("speed", t) : t \in S}
  BY DEF Raised
<1>2. P \subseteq Ticks /\ S \subseteq Ticks
  OBVIOUS
<1>3. \A u, v \in S : u = v
  BY DEF Ticks
<1> HIDE DEF P, S
<1>4. \A t : /\ Alert("panic", t).rule = "panic" /\ Alert("panic", t).at = t
             /\ Alert("speed", t).rule = "speed" /\ Alert("speed", t).at = t
  BY DEF Alert
<1>5. \A a \in Raised(F) : \/ \E t \in P : a = Alert("panic", t)
                           \/ \E t \in S : a = Alert("speed", t)
  BY <1>1
<1>6. \A a \in Raised(F) : a.rule = "speed" => \E t \in S : a = Alert("speed", t)
  BY <1>4, <1>5
<1>7. \A a \in Raised(F) : IsRaised(a)
  BY <1>2, <1>4, <1>5 DEF IsRaised
<1> QED BY <1>3, <1>6, <1>7

\* Replacing two fields of the batch.
LEMMA BatchWith ==
  ASSUME NEW b, b = [fixes |-> b.fixes, pre |-> b.pre, events |-> b.events, mine |-> b.mine], NEW x
  PROVE  /\ [b EXCEPT !.events = x] = [fixes |-> b.fixes, pre |-> b.pre, events |-> x, mine |-> b.mine]
         /\ [b EXCEPT !.mine = x] = [fixes |-> b.fixes, pre |-> b.pre, events |-> b.events, mine |-> x]
<1> DEFINE f == b.fixes  p == b.pre  e == b.events  m == b.mine
<1> HIDE DEF f, p, e, m
<1>1. b = [fixes |-> f, pre |-> p, events |-> e, mine |-> m]
  BY DEF f, p, e, m
<1>2. /\ [b EXCEPT !.events = x] = [fixes |-> f, pre |-> p, events |-> x, mine |-> m]
      /\ [b EXCEPT !.mine = x] = [fixes |-> f, pre |-> p, events |-> e, mine |-> x]
  BY <1>1
<1> QED BY <1>2 DEF f, p, e, m

\* What the actions of the batch do with it.
LEMMA FeedDoes ==
  ASSUME Feed
  PROVE  /\ stage = "idle" /\ stage' \in {"save", "claim"} /\ UNCHANGED <<claims, last, table, spell, flag, sweep, track>>
         /\ \E F \in SUBSET DOMAIN track : batch' = [fixes |-> batch'.fixes, pre |-> batch'.pre, events |-> Raised(F), mine |-> {}]
         /\ \A x : x \in odd' => x \in odd \/ x = "order"
<1>1. /\ stage = "idle" /\ UNCHANGED <<claims, last, table, spell, flag, sweep, track>>
  BY DEF Feed, keys, offline
<1>2. PICK B \in SUBSET (DOMAIN track \ acked) :
        /\ batch' = [fixes |-> B, pre |-> engine[owner].io, events |-> Raised(Taken(B)), mine |-> {}]
        /\ stage' = IF Raised(Taken(B)) = {} THEN "save" ELSE "claim"
        /\ odd' = IF \E t \in Taken(B), u \in fed : t < u THEN odd \cup {"order"} ELSE odd
  BY Zenon DEF Feed
<1>3. PICK F : F = Taken(B) /\ F \in SUBSET DOMAIN track
  BY DEF Taken
<1>4. batch' = [fixes |-> batch'.fixes, pre |-> batch'.pre, events |-> Raised(F), mine |-> {}]
  BY <1>2, <1>3
<1> QED BY <1>1, <1>2, <1>3, <1>4

\* The claim lets through what has no key and what Redis did not answer for.
LEMMA ClaimDoes ==
  ASSUME Shape, Claim
  PROVE  /\ stage = "claim" /\ stage' = "cool"
         /\ UNCHANGED <<last, table, spell, flag, sweep, track, odd, fed, saved, engine, acked, owner>>
         /\ \E D \in SUBSET batch.events :
              /\ IF D = {} THEN UNCHANGED spent ELSE Spend("redis")
              /\ LET fresh == batch.events \ (claims \ D)
                 IN /\ claims' = claims \cup (fresh \ D)
                    /\ batch' = [fixes |-> batch.fixes, pre |-> batch.pre, events |-> fresh, mine |-> fresh \ D]
<1>1. /\ stage = "claim" /\ stage' = "cool"
      /\ UNCHANGED <<last, table, spell, flag, sweep, track, odd, fed, saved, engine, acked, owner>>
  BY DEF Claim, offline
<1>2. PICK D \in SUBSET batch.events :
        /\ IF D = {} THEN UNCHANGED spent ELSE Spend("redis")
        /\ claims' = claims \cup ((batch.events \ (claims \ D)) \ D)
        /\ batch' = [batch EXCEPT !.events = batch.events \ (claims \ D), !.mine = (batch.events \ (claims \ D)) \ D]
  BY Zenon DEF Claim
<1>3. PICK fresh : fresh = batch.events \ (claims \ D)
  OBVIOUS
<1>4. PICK b : b = [batch EXCEPT !.events = fresh]
  OBVIOUS
<1>5. b = [fixes |-> batch.fixes, pre |-> batch.pre, events |-> fresh, mine |-> batch.mine]
  BY <1>4, BatchWith DEF Shape
<1>6. batch' = [b EXCEPT !.mine = fresh \ D]
  BY <1>2, <1>3, <1>4
<1>7. /\ b = [fixes |-> b.fixes, pre |-> b.pre, events |-> b.events, mine |-> b.mine]
      /\ b.fixes = batch.fixes /\ b.pre = batch.pre /\ b.events = fresh
  BY <1>5
<1>8. [b EXCEPT !.mine = fresh \ D] = [fixes |-> b.fixes, pre |-> b.pre, events |-> b.events, mine |-> fresh \ D]
  BY <1>7, BatchWith
<1>9. batch' = [fixes |-> batch.fixes, pre |-> batch.pre, events |-> fresh, mine |-> fresh \ D]
  BY <1>6, <1>7, <1>8
<1> QED BY <1>1, <1>2, <1>3, <1>9

\* The cooldown lets through what is far enough from the marker, and moves it.
LEMMA CoolDoes ==
  ASSUME Shape, Cool
  PROVE  /\ stage = "cool" /\ stage' \in {"save", "insert"}
         /\ UNCHANGED <<claims, table, spell, flag, sweep, track, spent, fed, saved, engine, acked, owner>>
         /\ LET passed == {a \in batch.events : ~ Cooled(a)}
                speed == {a.at : a \in {b \in passed : b.rule = "speed"}}
            IN /\ batch' = [fixes |-> batch.fixes, pre |-> batch.pre, events |-> passed, mine |-> batch.mine]
               /\ last' = IF speed = {} THEN last ELSE Max(speed)
               /\ stage' = "save" => passed = {}
         /\ odd' = IF last' < last THEN odd \cup {"back"} ELSE odd
<1>1. [batch EXCEPT !.events = {a \in batch.events : ~ Cooled(a)}]
        = [fixes |-> batch.fixes, pre |-> batch.pre, events |-> {a \in batch.events : ~ Cooled(a)}, mine |-> batch.mine]
  BY BatchWith, Zenon DEF Shape
<1> QED BY <1>1, Zenon DEF Cool, offline

\* The marker stays or goes to the one level that passed.
LEMMA CoolMarks ==
  ASSUME Shape, Cool
  PROVE  /\ last' \in Nat
         /\ \A a \in batch'.events : a.rule = "speed" => a.at = last' /\ a.at \in Ticks
         /\ last' = last \/ \E a \in batch'.events : a.rule = "speed"
<1> DEFINE passed == {a \in batch.events : ~ Cooled(a)}
           levels == {b \in passed : b.rule = "speed"}
           speed == {a.at : a \in levels}
<1>1. batch'.events = passed /\ last' = IF speed = {} THEN last ELSE Max(speed)
  BY CoolDoes
<1>2. \A a, b \in levels : a = b /\ a.at \in Ticks
  BY DEF Shape, IsRaised
<1>3. CASE levels = {}
  BY <1>1, <1>3 DEF Shape
<1>4. ASSUME NEW a \in levels PROVE last' = a.at /\ a.at \in Ticks
  <2>1. speed = {a.at}
    BY <1>2
  <2>2. a.at \in Nat
    BY <1>2 DEF Ticks
  <2>3. Max({a.at}) = a.at
    BY <2>2 DEF Max
  <2> QED BY <1>1, <1>2, <2>1, <2>3
<1>5. CASE levels # {}
  <2>1. PICK a \in levels : TRUE
    BY <1>5
  <2>2. last' = a.at /\ a.at \in Ticks
    BY <1>4
  <2> HIDE DEF levels
  <2>3. last' \in Nat
    BY <2>2 DEF Ticks
  <2>4. \A b \in batch'.events : b.rule = "speed" => b \in levels
    BY <1>1 DEF levels
  <2>5. a \in batch'.events /\ a.rule = "speed"
    BY <1>1 DEF levels
  <2> QED BY <1>4, <2>3, <2>4, <2>5
<1> QED BY <1>3, <1>5

\* Every step keeps the shape of alerts, batch, spell and marker.
LEMMA ShapeStep == ASSUME GateInv, [Next]_vars PROVE Shape'
<1>0. Types /\ Shape /\ Silence
  BY DEF GateInv, ToldInv
<1> USE <1>0
<1>1. ASSUME UNCHANGED <<batch, table, spell, track, last>> PROVE Shape'
  BY <1>1 DEF Shape, IsSilence, IsRaised
<1>2. CASE Feed
  <2>1. PICK F \in SUBSET DOMAIN track :
          batch' = [fixes |-> batch'.fixes, pre |-> batch'.pre, events |-> Raised(F), mine |-> {}]
    BY <1>2, FeedDoes
  <2>2. UNCHANGED <<last, table, spell, track>>
    BY <1>2, FeedDoes
  <2>3. F \in SUBSET Ticks
    BY DEF Shape
  <2>4. batch'.events = Raised(F) /\ batch'.mine = {}
    BY <2>1
  <2>5. batch' = [fixes |-> batch'.fixes, pre |-> batch'.pre, events |-> batch'.events, mine |-> batch'.mine]
    BY <2>1, <2>4
  <2> QED BY <2>2, <2>3, <2>4, <2>5, RaisedShape DEF Shape, IsSilence
<1>3. CASE Claim
  <2>1. UNCHANGED <<last, table, spell, track>>
    BY <1>3, ClaimDoes
  <2>2. PICK fresh, mine :
          /\ fresh \subseteq batch.events /\ mine \subseteq fresh
          /\ batch' = [fixes |-> batch.fixes, pre |-> batch.pre, events |-> fresh, mine |-> mine]
    BY <1>3, ClaimDoes
  <2>3. batch'.events = fresh /\ batch'.mine = mine
    BY <2>2
  <2>4. batch' = [fixes |-> batch'.fixes, pre |-> batch'.pre, events |-> batch'.events, mine |-> batch'.mine]
    BY <2>2
  <2> QED BY <2>1, <2>2, <2>3, <2>4 DEF Shape, IsSilence
<1>4. CASE Cool
  <2>1. UNCHANGED <<table, spell, track>>
    BY <1>4, CoolDoes
  <2>2. PICK passed :
          /\ passed \subseteq batch.events
          /\ batch' = [fixes |-> batch.fixes, pre |-> batch.pre, events |-> passed, mine |-> batch.mine]
    BY <1>4, CoolDoes
  <2>3. batch'.events = passed /\ batch'.mine = batch.mine
    BY <2>2
  <2>4. batch' = [fixes |-> batch'.fixes, pre |-> batch'.pre, events |-> batch'.events, mine |-> batch'.mine]
    BY <2>2
  <2>5. last' \in Nat
    BY <1>4, CoolMarks
  <2> QED BY <2>1, <2>2, <2>3, <2>4, <2>5 DEF Shape, IsSilence
<1>5. CASE Insert
  <2>1. table' = table \cup batch.events /\ UNCHANGED <<batch, spell, track, last>>
    BY <1>5 DEF Insert, Stored, keys, offline
  <2> QED BY <2>1 DEF Shape, IsSilence
<1>6. CASE InsertFails
  <2>1. UNCHANGED <<batch, table, spell, track>> /\ (last' = 0 \/ last' = last)
    BY <1>6 DEF InsertFails, offline
  <2> QED BY <2>1 DEF Shape, IsSilence
<1>7. CASE Ack \/ Crash
  <2>1. UNCHANGED <<table, spell, track, last>> /\ batch' = NoBatch
    BY <1>7 DEF Ack, Crash, keys, offline
  <2>2. /\ batch'.events = {} /\ batch'.mine = {}
        /\ batch' = [fixes |-> batch'.fixes, pre |-> batch'.pre, events |-> batch'.events, mine |-> batch'.mine]
    BY <2>1 DEF NoBatch
  <2> QED BY <2>1, <2>2 DEF Shape, IsSilence
<1>8. CASE Turn
  <2>1. UNCHANGED <<batch, table, track, last>>
    BY <1>8 DEF Turn, keys
  <2>2. spell' = [n |-> spell'.n, quiet |-> spell'.quiet] /\ spell'.n \in Nat /\ spell.n <= spell'.n
    <3>1. CASE spell' = [spell EXCEPT !.quiet = FALSE]
      <4> DEFINE n == spell.n q == spell.quiet
      <4> HIDE DEF n, q
      <4>1. spell = [n |-> n, quiet |-> q] /\ n \in Nat
        BY DEF Shape, n, q
      <4>2. spell' = [n |-> n, quiet |-> FALSE]
        BY <3>1, <4>1
      <4> QED BY <4>1, <4>2
    <3>2. CASE spell' = [n |-> spell.n + 1, quiet |-> TRUE]
      BY <3>2 DEF Shape
    <3> QED BY <1>8, <3>1, <3>2 DEF Turn
  <2>3. spell.n \in Nat
    BY DEF Shape
  <2>4. \A n \in 0 .. spell.n : n \in 0 .. spell'.n
    BY <2>2, <2>3
  <2>5. \A a : IsSilence(a) => IsSilence(a)'
    BY <2>4 DEF IsSilence
  <2> QED BY <2>1, <2>2, <2>5 DEF Shape
<1>9. ASSUME NEW w \in Workers, SweepInsert(w) PROVE Shape'
  <2>1. table' = table \cup {Alert("offline", spell.n)} /\ UNCHANGED <<batch, spell, track, last>>
    BY <1>9 DEF SweepInsert, Stored, keys
  <2>2. IsSilence(Alert("offline", spell.n))
    BY DEF IsSilence, Shape, Alert
  <2> QED BY <2>1, <2>2 DEF Shape, IsSilence
<1>10. CASE Notify \/ Save \/ Handoff \/ UNCHANGED vars
  <2>1. UNCHANGED <<batch, table, spell, track, last>>
    BY <1>10 DEF Notify, Save, Handoff, vars, keys, offline
  <2> QED BY <1>1, <2>1
<1>11. ASSUME NEW w \in Workers, SweepRead(w) \/ SweepClaim(w) \/ SweepFails(w) \/ SweepNotify(w) \/ SweepClear(w)
       PROVE  Shape'
  <2>1. UNCHANGED <<batch, table, spell, track, last>>
    BY <1>11 DEF SweepRead, SweepClaim, SweepFails, SweepNotify, SweepClear, keys
  <2> QED BY <1>1, <2>1
<1>12. CASE Start \/ Finish \/ \E c \in Channels : Skip(c) \/ Send(c) \/ Mark(c) \/ SendFails(c)
  <2>1. UNCHANGED <<batch, table, spell, track, last>>
    BY <1>12, DeliveryIsApart DEF world, keys, offline
  <2> QED BY <1>1, <2>1
<1> QED BY <1>2, <1>3, <1>4, <1>5, <1>6, <1>7, <1>8, <1>9, <1>10, <1>11, <1>12 DEF Next

\* Two silences are one alert when they are the same spell, and no level or edge
\* is a silence.
LEMMA Silences ==
  /\ \A m, n : Alert("offline", m) = Alert("offline", n) => m = n
  /\ \A a, n : IsRaised(a) => a # Alert("offline", n)
<1>1. \A n : Alert("offline", n).rule = "offline" /\ Alert("offline", n).at = n
  BY DEF Alert
<1> QED BY <1>1 DEF IsRaised

\* Every step keeps what Silence says of the sweeps, the flag and the row.
LEMMA SilenceStep == ASSUME GateInv, [Next]_vars PROVE Silence'
<1>0. Types /\ Shape /\ Silence
  BY DEF GateInv, ToldInv
<1> USE <1>0
<1>1. sweep = [w \in Workers |-> sweep[w]]
  BY DEF Types
<1>2. ASSUME UNCHANGED <<spell, flag, sweep>>,
             Alert("offline", spell.n) \in table' => Alert("offline", spell.n) \in table
      PROVE  Silence'
  BY <1>2 DEF Silence
<1>3. CASE Insert
  <2>1. table' = table \cup batch.events /\ UNCHANGED <<spell, flag, sweep>>
    BY <1>3 DEF Insert, Stored, offline
  <2>2. Alert("offline", spell.n) \notin batch.events
    BY Silences DEF Shape
  <2> QED BY <1>2, <2>1, <2>2
<1>4. CASE Crash
  <2>1. UNCHANGED <<table, spell, flag>> /\ sweep' = [sweep EXCEPT ![owner] = "none"]
    BY <1>4 DEF Crash
  <2>2. \A w \in Workers : sweep'[w] = sweep[w] \/ sweep'[w] = "none"
    BY <1>1, <2>1
  <2> QED BY <2>1, <2>2 DEF Silence
<1>5. CASE Turn
  <2>1. /\ UNCHANGED <<table, flag, sweep>>
        /\ \A w \in Workers : sweep[w] = "none"
    BY <1>5 DEF Turn
  <2>2. CASE spell.quiet
    <3>1. spell' = [spell EXCEPT !.quiet = FALSE]
      BY <1>5, <2>2 DEF Turn
    <3> DEFINE n == spell.n q == spell.quiet
    <3> HIDE DEF n, q
    <3>2. spell = [n |-> n, quiet |-> q]
      BY DEF Shape, n, q
    <3>3. spell' = [n |-> n, quiet |-> FALSE]
      BY <3>1, <3>2
    <3>4. spell'.quiet = FALSE
      BY <3>3
    <3> QED BY <2>1, <3>4 DEF Silence
  <2>3. CASE ~ spell.quiet
    <3>1. spell' = [n |-> spell.n + 1, quiet |-> TRUE]
      BY <1>5, <2>3 DEF Turn
    <3>2. spell'.n = spell.n + 1 /\ spell.n \in Nat
      BY <3>1 DEF Shape
    <3>3. ~ IsSilence(Alert("offline", spell.n + 1))
      <4>1. \A n \in 0 .. spell.n : n # spell.n + 1
        BY <3>2
      <4> QED BY <4>1, Silences DEF IsSilence
    <3>4. Alert("offline", spell'.n) \notin table'
      BY <2>1, <3>2, <3>3, Silences DEF Shape
    <3> QED BY <2>1, <3>4 DEF Silence
  <2> QED BY <2>2, <2>3
<1>6. ASSUME NEW w \in Workers, SweepRead(w) PROVE Silence'
  <2>1. /\ UNCHANGED <<table, spell, flag>> /\ sweep[w] = "none"
        /\ sweep' = [sweep EXCEPT ![w] = IF spell.quiet THEN "claim" ELSE "clear"]
    BY <1>6 DEF SweepRead
  <2>2. /\ \A x \in Workers \ {w} : sweep'[x] = sweep[x]
        /\ sweep'[w] = IF spell.quiet THEN "claim" ELSE "clear"
    BY <1>1, <2>1
  <2> QED BY <2>1, <2>2 DEF Silence
<1>7. ASSUME NEW w \in Workers, SweepClaim(w) PROVE Silence'
  <2>1. /\ UNCHANGED <<table, spell>> /\ sweep[w] = "claim" /\ flag' = TRUE
        /\ sweep' = [sweep EXCEPT ![w] = IF flag THEN "none" ELSE "insert"]
    BY <1>7 DEF SweepClaim
  <2>2. /\ \A x \in Workers \ {w} : sweep'[x] = sweep[x]
        /\ sweep'[w] = IF flag THEN "none" ELSE "insert"
    BY <1>1, <2>1
  <2> QED BY <2>1, <2>2 DEF Silence
<1>8. ASSUME NEW w \in Workers, SweepInsert(w) PROVE Silence'
  <2>1. /\ UNCHANGED <<spell, flag>> /\ sweep[w] = "insert"
        /\ sweep' = [sweep EXCEPT ![w] = "notify"]
    BY <1>8 DEF SweepInsert
  <2>2. /\ \A x \in Workers \ {w} : sweep'[x] = sweep[x]
        /\ sweep'[w] = "notify"
    BY <1>1, <2>1
  <2>3. \A x \in Workers : sweep'[x] # "insert"
    BY <2>1, <2>2 DEF Silence
  <2> QED BY <2>1, <2>2, <2>3 DEF Silence
<1>9. ASSUME NEW w \in Workers, SweepFails(w) PROVE Silence'
  <2>1. /\ UNCHANGED <<table, spell>> /\ sweep[w] = "insert" /\ flag' = FALSE
        /\ sweep' = [sweep EXCEPT ![w] = "none"]
    BY <1>9 DEF SweepFails
  <2>2. /\ \A x \in Workers \ {w} : sweep'[x] = sweep[x]
        /\ sweep'[w] = "none"
    BY <1>1, <2>1
  <2>3. \A x \in Workers : sweep'[x] # "insert"
    BY <2>1, <2>2 DEF Silence
  <2> QED BY <2>1, <2>2, <2>3 DEF Silence
<1>10. ASSUME NEW w \in Workers, SweepNotify(w) \/ SweepClear(w) PROVE Silence'
  <2>1. /\ UNCHANGED <<table, spell>>
        /\ sweep' = [sweep EXCEPT ![w] = "none"]
        /\ UNCHANGED flag \/ sweep[w] = "clear"
    BY <1>10 DEF SweepNotify, SweepClear
  <2>2. /\ \A x \in Workers \ {w} : sweep'[x] = sweep[x]
        /\ sweep'[w] = "none"
    BY <1>1, <2>1
  <2>3. CASE UNCHANGED flag
    BY <2>1, <2>2, <2>3 DEF Silence
  <2>4. CASE sweep[w] = "clear"
    <3>1. ~ spell.quiet
      BY <2>4 DEF Silence
    <3>2. \A x \in Workers : sweep'[x] # "insert"
      BY <2>2, <3>1 DEF Silence
    <3> QED BY <2>1, <2>2, <3>1, <3>2 DEF Silence
  <2> QED BY <2>1, <2>3, <2>4
<1>11. CASE Feed \/ Claim \/ Cool
  <2>1. UNCHANGED <<table, spell, flag, sweep>>
    BY <1>11, FeedDoes, ClaimDoes, CoolDoes
  <2> QED BY <1>2, <2>1
<1>12. CASE InsertFails \/ Notify \/ Save \/ Ack \/ Handoff \/ UNCHANGED vars
  <2>1. UNCHANGED <<table, spell, flag, sweep>>
    BY <1>12 DEF InsertFails, Notify, Save, Ack, Handoff, vars, offline
  <2> QED BY <1>2, <2>1
<1>13. CASE Start \/ Finish \/ \E c \in Channels : Skip(c) \/ Send(c) \/ Mark(c) \/ SendFails(c)
  <2>1. UNCHANGED <<table, spell, flag, sweep>>
    BY <1>13, DeliveryIsApart DEF world, offline
  <2> QED BY <1>2, <2>1
<1> QED BY <1>3, <1>4, <1>5, <1>6, <1>7, <1>8, <1>9, <1>10, <1>11, <1>12, <1>13 DEF Next

\* A condition on the faults outlives no fault it names.
LEMMA NeverSpends ==
  ASSUME Types, NEW k \in Faults, NEW K \in SUBSET Faults, k \in K, Spend(k) PROVE ~ Never(K)'
  BY SpendGrows DEF Never, Types

\* Every step keeps the agreement of rows and keys.
LEMMA RowsStep == ASSUME GateInv, [Next]_vars PROVE Rows'
<1>0. Types /\ Shape /\ Silence /\ Rows
  BY DEF GateInv, ToldInv
<1> USE <1>0
<1> SUFFICES ASSUME Never({"redis"})'
             PROVE  /\ "twice" \notin odd'
                    /\ \A a \in table' : a.rule = "offline" \/ a \in claims'
                    /\ stage' \in {"cool", "insert"} =>
                         /\ batch'.events \subseteq batch'.mine /\ batch'.mine \subseteq claims'
                         /\ batch'.mine \cap table' = {}
  BY DEF Rows
<1>1. Never({"redis"}) /\ ~ Spend("redis")
  BY StepGrows, NeverBefore, NeverSpends DEF Faults
<1>2. /\ "twice" \notin odd
      /\ \A a \in table : a.rule = "offline" \/ a \in claims
      /\ stage \in {"cool", "insert"} =>
           /\ batch.events \subseteq batch.mine /\ batch.mine \subseteq claims
           /\ batch.mine \cap table = {}
  BY <1>1 DEF Rows
<1>3. \A a \in batch.events \cup batch.mine : a.rule # "offline"
  BY DEF Shape, IsRaised
<1>4. CASE Feed
  <2>1. UNCHANGED <<table, claims>> /\ stage' \notin {"cool", "insert"} /\ "twice" \notin odd'
    BY <1>2, <1>4, FeedDoes
  <2> QED BY <1>2, <2>1
<1>5. CASE Claim
  <2>1. /\ stage = "claim" /\ UNCHANGED <<table, odd>>
        /\ \E D \in SUBSET batch.events :
              /\ IF D = {} THEN UNCHANGED spent ELSE Spend("redis")
              /\ LET fresh == batch.events \ (claims \ D)
                 IN /\ claims' = claims \cup (fresh \ D)
                    /\ batch' = [fixes |-> batch.fixes, pre |-> batch.pre, events |-> fresh, mine |-> fresh \ D]
    BY <1>5, ClaimDoes
  <2>2. PICK fresh : /\ fresh = batch.events \ claims /\ claims' = claims \cup fresh
                     /\ batch' = [fixes |-> batch.fixes, pre |-> batch.pre, events |-> fresh, mine |-> fresh]
    <3>1. \A x : x \ {} = x
      OBVIOUS
    <3> QED BY <1>1, <2>1, <3>1
  <2>3. batch'.events = fresh /\ batch'.mine = fresh
    BY <2>2
  <2>4. fresh \cap table = {}
    BY <1>2, <1>3, <2>2
  <2> QED BY <1>2, <2>1, <2>2, <2>3, <2>4
<1>6. CASE Cool
  <2>1. /\ stage = "cool" /\ UNCHANGED <<table, claims>> /\ "twice" \notin odd'
        /\ batch'.events \subseteq batch.events /\ batch'.mine = batch.mine
    BY <1>2, <1>6, CoolDoes
  <2> QED BY <1>2, <2>1
<1>7. CASE Insert
  <2>1. /\ stage = "insert" /\ stage' = "notify" /\ table' = table \cup batch.events /\ UNCHANGED claims
        /\ odd' = IF batch.events \cap table = {} THEN odd ELSE odd \cup {"twice"}
    BY <1>7 DEF Insert, Stored, keys
  <2> QED BY <1>2, <2>1
<1>8. CASE InsertFails
  <2>1. /\ stage = "insert" /\ stage' = "ack" /\ UNCHANGED table
        /\ claims' = claims \/ claims' = claims \ batch.mine
        /\ "twice" \notin odd'
    BY <1>2, <1>8 DEF InsertFails
  <2> QED BY <1>2, <2>1
<1>9. CASE Crash
  <2>1. stage' = "idle" /\ UNCHANGED <<table, claims>> /\ "twice" \notin odd'
    BY <1>2, <1>9 DEF Crash, keys
  <2> QED BY <1>2, <2>1
<1>10. CASE Notify \/ Save \/ Ack \/ Handoff
  <2>1. stage' \notin {"cool", "insert"} /\ UNCHANGED <<table, claims>> /\ "twice" \notin odd'
    BY <1>2, <1>10 DEF Notify, Save, Ack, Handoff, keys
  <2> QED BY <1>2, <2>1
<1>11. ASSUME NEW w \in Workers, SweepInsert(w) PROVE Rows'
  <2>1. /\ sweep[w] = "insert" /\ table' = table \cup {Alert("offline", spell.n)}
        /\ UNCHANGED <<stage, batch, claims>>
        /\ odd' = IF {Alert("offline", spell.n)} \cap table = {} THEN odd ELSE odd \cup {"twice"}
    BY <1>11 DEF SweepInsert, Stored, keys
  <2>2. Alert("offline", spell.n) \notin table
    BY <2>1 DEF Silence
  <2>3. Alert("offline", spell.n).rule = "offline" /\ Alert("offline", spell.n) \notin batch.mine
    BY <1>3 DEF Alert
  <2> QED BY <1>2, <2>1, <2>2, <2>3 DEF Rows
<1>12. ASSUME NEW w \in Workers, SweepRead(w) \/ SweepClaim(w) \/ SweepFails(w) \/ SweepNotify(w) \/ SweepClear(w)
       PROVE  UNCHANGED <<table, stage, batch, claims, odd>>
  BY <1>12 DEF SweepRead, SweepClaim, SweepFails, SweepNotify, SweepClear, keys
<1>13. CASE Start \/ Finish \/ \E c \in Channels : Skip(c) \/ Send(c) \/ Mark(c) \/ SendFails(c)
  <2>1. UNCHANGED <<table, stage, batch, claims>> /\ "twice" \notin odd'
    BY <1>2, <1>13, DeliveryIsApart DEF world, keys
  <2> QED BY <1>2, <2>1
<1>14. CASE Turn \/ UNCHANGED vars
  <2>1. UNCHANGED <<table, stage, batch, claims, odd>>
    BY <1>14 DEF Turn, vars, keys
  <2> QED BY <1>2, <2>1
<1>15. CASE UNCHANGED <<table, stage, batch, claims, odd>>
  BY <1>2, <1>15
<1>16. ASSUME NEW w \in Workers, SweepInsert(w)
       PROVE  /\ "twice" \notin odd'
              /\ \A a \in table' : a.rule = "offline" \/ a \in claims'
              /\ stage' \in {"cool", "insert"} =>
                   /\ batch'.events \subseteq batch'.mine /\ batch'.mine \subseteq claims'
                   /\ batch'.mine \cap table' = {}
  BY <1>11, <1>16 DEF Rows
<1> QED BY <1>4, <1>5, <1>6, <1>7, <1>8, <1>9, <1>10, <1>12, <1>13, <1>14, <1>15, <1>16 DEF Next

\* Every step keeps the rows behind the marker and their distance.
LEMMA SpacedStep == ASSUME GateInv, [Next]_vars PROVE Spaced'
<1>0. Types /\ Shape /\ Spaced
  BY DEF GateInv, ToldInv
<1> USE <1>0
<1> DEFINE Q == /\ \A a \in table : a.rule = "speed" => a.at <= last
                /\ \A a, b \in table : a.rule = "speed" /\ b.rule = "speed" /\ a.at < b.at => a.at + Cooldown <= b.at
                /\ stage = "insert" =>
                     \A b \in batch.events : b.rule = "speed" =>
                       /\ b.at = last
                       /\ \A a \in table : a.rule = "speed" => a.at + Cooldown <= b.at
<1> SUFFICES ASSUME Never({"fail"})', "back" \notin odd' PROVE Q'
  BY DEF Spaced
<1>1. Never({"fail"}) /\ ~ Spend("fail") /\ "back" \notin odd
  BY StepGrows, NeverBefore, NeverSpends DEF Faults
<1>2. Q
  BY <1>1 DEF Spaced
<1>3. ASSUME UNCHANGED <<table, last>>, stage' # "insert" \/ UNCHANGED <<stage, batch>> PROVE Q'
  BY <1>2, <1>3
<1>4. \A a \in table \cup batch.events : a.rule = "speed" => a.at \in Ticks
  <2>1. \A a : IsSilence(a) => a.rule # "speed"
    BY DEF IsSilence
  <2> QED BY <2>1 DEF Shape, IsRaised
<1>5. CASE Feed \/ Claim
  <2>1. UNCHANGED <<table, last>> /\ stage' # "insert"
    BY <1>5, FeedDoes, ClaimDoes
  <2> QED BY <1>3, <2>1
<1>6. CASE Cool
  <2>1. /\ UNCHANGED table /\ last' >= last /\ last \in Nat /\ last' \in Nat
    <3>1. ~ last' < last
      BY <1>6, CoolDoes
    <3>2. last \in Nat /\ last' \in Nat
      BY <1>6, CoolMarks DEF Shape
    <3> QED BY <1>6, <3>1, <3>2, CoolDoes
  <2>2. \A b \in batch'.events : b.rule = "speed" => b.at = last' /\ b.at \in Ticks /\ ~ Cooled(b)
    BY <1>6, CoolDoes, CoolMarks
  <2>3. ASSUME NEW b \in batch'.events, b.rule = "speed", NEW a \in table, a.rule = "speed"
        PROVE  a.at + Cooldown <= b.at
    <3>1. a.at <= last /\ a.at \in Ticks
      BY <1>2, <1>4, <2>3
    <3>2. b.at = last' /\ ~ (last > 0 /\ b.at < last + Cooldown /\ last < b.at + Cooldown)
      BY <2>2, <2>3 DEF Cooled
    <3>3. a.at \in Nat /\ a.at > 0 /\ b.at \in Nat /\ Cooldown \in Nat
      BY <2>1, <3>1, <3>2 DEF Ticks
    <3>4. last > 0
      BY <2>1, <3>1, <3>3
    <3>5. b.at >= last + Cooldown \/ last >= b.at + Cooldown
      BY <2>1, <3>2, <3>3, <3>4
    <3>6. \A x, y, l, c \in Nat : x <= l /\ l <= y /\ (y >= l + c \/ l >= y + c) => x + c <= y
      OBVIOUS
    <3>7. a.at <= last /\ last <= b.at
      BY <2>1, <3>1, <3>2
    <3> QED BY <2>1, <3>3, <3>5, <3>6, <3>7
  <2>4. \A a \in table : a.rule = "speed" => a.at <= last'
    BY <1>2, <1>4, <2>1 DEF Ticks
  <2> QED BY <1>2, <2>1, <2>2, <2>3, <2>4
<1>7. CASE Insert
  <2>1. /\ stage = "insert" /\ stage' = "notify" /\ table' = table \cup batch.events /\ UNCHANGED last
    BY <1>7 DEF Insert, Stored, keys
  <2>2. \A a, b \in batch.events : a.rule = "speed" /\ b.rule = "speed" => a = b
    BY DEF Shape
  <2>3. last \in Nat
    BY DEF Shape
  <2>4. \A a \in table' : a.rule = "speed" => a.at <= last'
    BY <1>2, <2>1, <2>3
  <2>5. ASSUME NEW a \in table', NEW b \in table', a.rule = "speed", b.rule = "speed", a.at < b.at
        PROVE  a.at + Cooldown <= b.at
    <3>1. CASE b \in batch.events
      BY <1>2, <1>4, <2>1, <2>2, <2>5, <3>1 DEF Ticks
    <3>2. CASE b \in table /\ a \in batch.events
      <4>1. a.at = last /\ b.at <= last
        BY <1>2, <2>1, <2>5, <3>2
      <4>2. a.at \in Ticks /\ b.at \in Ticks
        BY <1>4, <2>5, <3>2
      <4> QED BY <2>5, <4>1, <4>2 DEF Ticks
    <3>3. CASE b \in table /\ a \in table
      BY <1>2, <2>5, <3>3
    <3> QED BY <2>1, <3>1, <3>2, <3>3
  <2> QED BY <2>1, <2>4, <2>5
<1>8. CASE InsertFails
  BY <1>1, <1>8 DEF InsertFails
<1>9. CASE Notify \/ Save \/ Ack \/ Handoff \/ Crash
  <2>1. UNCHANGED <<table, last>> /\ stage' # "insert"
    BY <1>9 DEF Notify, Save, Ack, Handoff, Crash, keys
  <2> QED BY <1>3, <2>1
<1>10. ASSUME NEW w \in Workers, SweepInsert(w) PROVE Q'
  <2>1. /\ table' = table \cup {Alert("offline", spell.n)} /\ UNCHANGED <<stage, batch, last>>
    BY <1>10 DEF SweepInsert, Stored, keys
  <2>2. Alert("offline", spell.n).rule # "speed"
    BY DEF Alert
  <2> QED BY <1>2, <2>1, <2>2
<1>11. ASSUME NEW w \in Workers, SweepRead(w) \/ SweepClaim(w) \/ SweepFails(w) \/ SweepNotify(w) \/ SweepClear(w)
       PROVE  Q'
  <2>1. UNCHANGED <<table, stage, batch, last>>
    BY <1>11 DEF SweepRead, SweepClaim, SweepFails, SweepNotify, SweepClear, keys
  <2> QED BY <1>3, <2>1
<1>12. CASE Start \/ Finish \/ \E c \in Channels : Skip(c) \/ Send(c) \/ Mark(c) \/ SendFails(c)
  <2>1. UNCHANGED <<table, stage, batch, last>>
    BY <1>12, DeliveryIsApart DEF world, keys
  <2> QED BY <1>3, <2>1
<1>13. CASE Turn \/ UNCHANGED vars
  <2>1. UNCHANGED <<table, stage, batch, last>>
    BY <1>13 DEF Turn, vars, keys
  <2> QED BY <1>3, <2>1
<1> QED BY <1>5, <1>6, <1>7, <1>8, <1>9, <1>10, <1>11, <1>12, <1>13 DEF Next

\* It holds at first: no rows, no batch, no sweep.
LEMMA GateInit == Init => GateInv
<1> SUFFICES ASSUME Init PROVE GateInv
  OBVIOUS
<1>1. batch = NoBatch /\ batch.events = {} /\ batch.mine = {} /\ batch.fixes = {} /\ batch.pre = "unset"
  BY DEF Init, NoBatch
<1>2. batch = [fixes |-> batch.fixes, pre |-> batch.pre, events |-> batch.events, mine |-> batch.mine]
  BY <1>1 DEF NoBatch
<1>3. spell.n \in Nat /\ spell = [n |-> spell.n, quiet |-> spell.quiet]
  BY DEF Init
<1>4. DOMAIN track \subseteq Ticks
  BY DEF Init
<1>5. Shape
  BY <1>1, <1>2, <1>3, <1>4 DEF Init, Shape
<1>6. Silence
  BY DEF Init, Silence
<1>7. Rows /\ Spaced
  BY DEF Init, Rows, Spaced
<1> QED BY <1>5, <1>6, <1>7, ToldInit DEF GateInv

\* Every step keeps the invariant.
LEMMA GateStep == GateInv /\ [Next]_vars => GateInv'
  BY ToldStep, ShapeStep, SilenceStep, RowsStep, SpacedStep DEF GateInv

\* No alert of a rule or of a sweep gets a second row, whatever is delivered again
\* and whichever workers sweep, and alerts with a cooldown keep their distance (gate,
\* COOLDOWN_SCRIPT, runOfflineSweep), for any number of fixes, spells and faults.
THEOREM NoAlertRepeats == Spec => []AlertsDoNotRepeat
  BY GateInit, GateStep, InvNoRepeat, PTL DEF Spec

-----------------------------------------------------------------------------
(* What is taken as known.                                                  *)

Less == {p \in Nat \X Nat : p[1] < p[2]}

\* The natural numbers are well ordered.
LEMMA Least ==
  ASSUME NEW S \in SUBSET Nat, S # {}
  PROVE  \E m \in S : \A n \in S : m <= n
<1>1. IsWellFoundedOn(Less, Nat)
  BY NatLessThanWellFounded DEF OpToRel, Less
<1>2. PICK m \in S : \A n \in S : ~ (<<n, m>> \in Less)
  BY <1>1, WFMin
<1>3. ASSUME NEW n \in S PROVE m <= n
  <2>1. n < m => <<n, m>> \in Less
    BY DEF Less
  <2> QED BY <1>2, <2>1
<1> QED BY <1>3

\* A set of ticks that is not empty has a greatest one.
LEMMA Greatest ==
  ASSUME NEW S \in SUBSET Ticks, S # {}
  PROVE  Max(S) \in S /\ \A t \in S : t <= Max(S)
<1> DEFINE Bounds == {n \in Nat : \A t \in S : t <= n}
<1>1. NumFixes \in Bounds
  BY DEF Ticks
<1>2. PICK m \in Bounds : \A n \in Bounds : m <= n
  <2> HIDE DEF Bounds
  <2>1. Bounds \in SUBSET Nat
    BY DEF Bounds
  <2> QED BY <1>1, <2>1, Least
<1>3. m \in S
  <2> SUFFICES ASSUME m \notin S PROVE FALSE
    OBVIOUS
  <2>1. \A t \in S : t \in Nat /\ t > 0 /\ t < m
    BY <1>2 DEF Ticks
  <2>2. m - 1 \in Bounds
    BY <2>1
  <2> QED BY <1>2, <2>2
<1>4. \E x \in S : \A y \in S : x >= y
  BY <1>2, <1>3 DEF Ticks
<1>5. Max(S) \in S /\ \A y \in S : Max(S) >= y
  BY <1>4 DEF Max
<1> QED BY <1>5 DEF Ticks

Readings == {"null", "low", "high"}

\* What a reading r vouches for: high, that an edge after every low one of S was
\* raised; nothing, that there was none.
Known(r, S, A) ==
  /\ r = "high" => \A t \in S : track[t] = "low" => \E a \in A : a.rule = "panic" /\ a.at > t
  /\ r = "null" => \A t \in S : track[t] # "low"

\* More alerts vouch for more, and fewer ticks ask for less.
LEMMA KnownGrows ==
  ASSUME NEW r, NEW S, NEW A, NEW T \in SUBSET S, NEW B, A \subseteq B, Known(r, S, A)
  PROVE  Known(r, T, B)
  BY DEF Known

\* The reading before a tick is the newest that a fix before it has.
LEMMA ReadingIs ==
  ASSUME NEW F \in SUBSET Ticks, NEW t \in Nat
  PROVE  \/ /\ Reading(F, t) = Warm(owner)
            /\ \A u \in F : u < t => track[u] = "none"
         \/ \E m \in F : /\ m < t /\ track[m] # "none" /\ Reading(F, t) = track[m]
                         /\ \A u \in F : u < t /\ track[u] # "none" => u <= m
<1> DEFINE R == {u \in F : u < t /\ track[u] # "none"}
<1>1. Reading(F, t) = IF R = {} THEN Warm(owner) ELSE track[Max(R)]
  BY DEF Reading
<1>2. CASE R = {}
  BY <1>1, <1>2
<1>3. CASE R # {}
  <2>1. R \in SUBSET Ticks
    OBVIOUS
  <2>2. Max(R) \in R /\ \A u \in R : u <= Max(R)
    <3> HIDE DEF R
    <3> QED BY <1>3, <2>1, Greatest
  <2>3. PICK m : m = Max(R)
    OBVIOUS
  <2> QED BY <1>1, <1>3, <2>2, <2>3
<1> QED BY <1>2, <1>3

\* What an engine knows after a batch, if it knew what came before and the batch is
\* newer: a rise in the batch is raised.
LEMMA FeedKnows ==
  ASSUME NEW F \in SUBSET Ticks, \A t \in F : track[t] \in {"high", "low", "none"},
         Warm(owner) \in Readings, fed \subseteq Ticks, \A t \in F, u \in fed : u < t,
         Known(Warm(owner), fed, table)
  PROVE  LET r == IF F = {} THEN Warm(owner) ELSE Reading(F, NumFixes + 1)
         IN r \in Readings /\ Known(r, fed \cup F, table \cup Raised(F))
<1> DEFINE W == Warm(owner)
           r == IF F = {} THEN W ELSE Reading(F, NumFixes + 1)
<1>1. CASE F = {}
  BY <1>1, KnownGrows
<1>2. ASSUME NEW h \in F, track[h] = "high", Reading(F, h) = "low"
      PROVE  \E a \in table \cup Raised(F) : a.rule = "panic" /\ a.at = h
  <2>1. Alert("panic", h) \in Raised(F)
    BY <1>2 DEF Raised
  <2> QED BY <2>1 DEF Alert
<1>3. ASSUME F # {} PROVE r \in Readings /\ Known(r, fed \cup F, table \cup Raised(F))
  <2>1. \A t \in F : t \in Nat /\ t < NumFixes + 1
    BY DEF Ticks
  <2>2. \/ /\ r = W
           /\ \A u \in F : track[u] = "none"
        \/ \E m \in F : /\ track[m] # "none" /\ r = track[m]
                        /\ \A u \in F : track[u] # "none" => u <= m
    <3>1. NumFixes + 1 \in Nat
      OBVIOUS
    <3> QED BY <1>3, <2>1, <3>1, ReadingIs
  <2>3. CASE r = W /\ \A u \in F : track[u] = "none"
    BY <2>3 DEF Known
  <2>4. ASSUME NEW m \in F, track[m] # "none", r = track[m],
               \A u \in F : track[u] # "none" => u <= m
        PROVE  r \in Readings /\ Known(r, fed \cup F, table \cup Raised(F))
    <3>1. r \in {"high", "low"}
      BY <2>4
    <3> SUFFICES ASSUME r = "high", NEW t \in fed \cup F, track[t] = "low"
                 PROVE  \E a \in table \cup Raised(F) : a.rule = "panic" /\ a.at > t
      BY <3>1 DEF Known, Readings
    <3>2. track[m] = "high" /\ t \in Nat
      BY <2>4 DEF Ticks
    <3>3. CASE \E u \in F : track[u] = "low"
      <4> DEFINE L == {u \in F : track[u] = "low"}
      <4>1. PICK l \in L : \A u \in L : u <= l
        <5>1. L \in SUBSET Ticks /\ L # {}
          BY <3>3
        <5> HIDE DEF L
        <5> QED BY <5>1, Greatest
      <4>2. l < m
        BY <2>1, <2>4, <3>2, <4>1
      <4> DEFINE H == {u \in F : u > l /\ track[u] = "high"}
      <4>3. PICK h \in H : \A u \in H : h <= u
        <5>1. H \in SUBSET Nat /\ m \in H
          BY <2>1, <2>4, <3>2, <4>2
        <5> HIDE DEF H
        <5> QED BY <5>1, Least
      <4>4. Reading(F, h) = "low"
        <5>1. PICK n \in F : /\ n < h /\ track[n] # "none" /\ Reading(F, h) = track[n]
                             /\ \A u \in F : u < h /\ track[u] # "none" => u <= n
          BY <2>1, <4>1, <4>3, ReadingIs
        <5>2. l <= n
          BY <4>1, <4>3, <5>1
        <5>3. track[n] # "high"
          BY <2>1, <4>1, <4>3, <5>1, <5>2
        <5> QED BY <5>1, <5>3
      <4>5. t < h
        BY <2>1, <3>2, <4>1, <4>3
      <4> QED BY <1>2, <4>3, <4>4, <4>5
    <3>4. CASE ~ \E u \in F : track[u] = "low"
      <4> DEFINE H == {u \in F : track[u] = "high"}
      <4>1. PICK h \in H : \A u \in H : h <= u
        <5>1. H \in SUBSET Nat /\ m \in H
          BY <2>1, <2>4, <3>2
        <5> HIDE DEF H
        <5> QED BY <5>1, Least
      <4>2. Reading(F, h) = W
        <5>1. \A n \in F : n < h => track[n] = "none"
          BY <2>1, <3>4, <4>1
        <5> QED BY <2>1, <4>1, <5>1, ReadingIs
      <4>3. t \in fed /\ t < h
        BY <3>4, <4>1
      <4>4. CASE W = "low"
        BY <1>2, <4>1, <4>2, <4>3, <4>4
      <4>5. CASE W # "low"
        BY <4>3, <4>5 DEF Known, Readings
      <4> QED BY <4>4, <4>5
    <3> QED BY <3>3, <3>4
  <2> QED BY <2>2, <2>3, <2>4
<1> QED BY <1>1, <1>3

IsEngine(e) == e = [io |-> e.io, seen |-> e.seen] /\ e.io \in {"unset"} \cup Readings

Frame ==
  /\ owner \in Workers /\ saved \in Readings /\ batch.pre \in {"unset"} \cup Readings
  /\ engine = [w \in Workers |-> engine[w]] /\ \A w \in Workers : IsEngine(engine[w])
  /\ \A t \in DOMAIN track : track[t] \in {"high", "low", "none"}
  /\ fed \subseteq DOMAIN track /\ fed \subseteq acked \cup batch.fixes
  /\ stage = "idle" => batch.fixes = {}

InOrder == odd \cap {"claimed", "blind", "stale", "order"} = {}

\* The stored reading vouches for the ticks that are acknowledged, the reading at work
\* for all that were taken in, counting what is still at the gate; the two are equal
\* between batches.  A claimed edge has its row or is about to be stored.
Edged ==
  /\ Known(saved, fed \cap acked, table)
  /\ \A a \in claims : a.rule = "panic" => a \in table \/ (stage \in {"cool", "insert"} /\ a \in batch.mine)
  /\ stage \in {"cool", "insert"} => \A a \in batch.mine : a.rule = "panic" => a \in batch.events
  /\ stage \in {"claim", "cool", "insert"} => Known(Warm(owner), fed, table \cup batch.events)
  /\ stage \in {"notify", "save"} => Known(Warm(owner), fed, table)
  /\ stage \in {"claim", "cool", "insert", "notify", "save"} => Before = saved
  /\ stage = "ack" => Known(saved, fed, table)
  /\ stage \in {"idle", "ack"} => Warm(owner) = saved
Edge == InOrder => Edged

\* A flagged silence has its row or a sweep that is about to write it.
Flagged ==
  "claimed" \notin odd /\ flag /\ spell.quiet /\ (\A w \in Workers : sweep[w] # "insert")
    => Alert("offline", spell.n) \in table

AlarmInv == GateInv /\ Frame /\ Edge /\ Flagged

\* The invariant says what the run checks.
LEMMA InvRecorded == AlarmInv => AlarmIsRecorded
<1> SUFFICES ASSUME AlarmInv, InOrder PROVE Recorded
  BY DEF AlarmIsRecorded, InOrder
<1>1. ASSUME stage = "idle", Warm(owner) = "high", {t \in fed : track[t] = "low"} # {}
      PROVE  \E a \in table : a.rule = "panic" /\ a.at > Max({t \in fed : track[t] = "low"})
  <2> DEFINE low == {t \in fed : track[t] = "low"}
  <2>1. low \in SUBSET Ticks /\ low # {}
    BY <1>1 DEF AlarmInv, GateInv, Shape, Frame
  <2>2. Max(low) \in low
    <3> HIDE DEF low
    <3> QED BY <2>1, Greatest
  <2>3. fed \cap acked = fed /\ saved = "high"
    BY <1>1 DEF AlarmInv, Frame, Edge, Edged
  <2>4. Known("high", fed, table)
    BY <2>3 DEF AlarmInv, Edge, Edged
  <2> QED BY <2>2, <2>4 DEF Known
<1>2. flag /\ spell.quiet /\ (\A w \in Workers : sweep[w] # "insert") => Alert("offline", spell.n) \in table
  BY DEF AlarmInv, Flagged, InOrder
<1> QED BY <1>1, <1>2 DEF Recorded

\* Every step keeps a flagged silence in hand or stored.
LEMMA FlaggedStep == ASSUME GateInv, Flagged, [Next]_vars PROVE Flagged'
<1>0. Types /\ Shape /\ Silence
  BY DEF GateInv, ToldInv
<1> USE <1>0
<1>1. sweep = [w \in Workers |-> sweep[w]]
  BY DEF Types
<1>2. odd \subseteq odd'
  BY StepGrows
<1>3. ASSUME UNCHANGED <<spell, flag, sweep>>, table \subseteq table' PROVE Flagged'
  BY <1>2, <1>3 DEF Flagged
<1>4. CASE Crash
  <2>1. /\ UNCHANGED <<table, spell, flag>> /\ sweep' = [sweep EXCEPT ![owner] = "none"]
        /\ sweep[owner] = "insert" => "claimed" \in odd'
    BY <1>4 DEF Crash
  <2>2. \A w \in Workers : sweep'[w] = sweep[w] \/ w = owner
    BY <1>1, <2>1
  <2> QED BY <1>2, <2>1, <2>2 DEF Flagged
<1>5. CASE Turn
  <2>1. UNCHANGED <<table, flag, sweep>>
    BY <1>5 DEF Turn
  <2>2. CASE spell.quiet
    <3>1. spell' = [spell EXCEPT !.quiet = FALSE]
      BY <1>5, <2>2 DEF Turn
    <3> DEFINE n == spell.n q == spell.quiet
    <3> HIDE DEF n, q
    <3>2. spell = [n |-> n, quiet |-> q]
      BY DEF Shape, n, q
    <3>3. spell' = [n |-> n, quiet |-> FALSE]
      BY <3>1, <3>2
    <3>4. spell'.quiet = FALSE
      BY <3>3
    <3> QED BY <3>4 DEF Flagged
  <2>3. CASE ~ spell.quiet
    BY <1>5, <2>1, <2>3 DEF Turn, Flagged
  <2> QED BY <2>2, <2>3
<1>6. ASSUME NEW w \in Workers, SweepRead(w) \/ SweepNotify(w) PROVE Flagged'
  <2>1. /\ UNCHANGED <<table, spell, flag>> /\ sweep[w] # "insert"
        /\ \E s : sweep' = [sweep EXCEPT ![w] = s]
    BY <1>6 DEF SweepRead, SweepNotify
  <2>2. \A x \in Workers \ {w} : sweep'[x] = sweep[x]
    BY <1>1, <2>1
  <2> QED BY <1>2, <2>1, <2>2 DEF Flagged
<1>7. ASSUME NEW w \in Workers, SweepClaim(w) PROVE Flagged'
  <2>1. /\ UNCHANGED <<table, spell>> /\ sweep[w] = "claim"
        /\ sweep' = [sweep EXCEPT ![w] = IF flag THEN "none" ELSE "insert"]
    BY <1>7 DEF SweepClaim
  <2>2. /\ \A x \in Workers \ {w} : sweep'[x] = sweep[x]
        /\ sweep'[w] = IF flag THEN "none" ELSE "insert"
    BY <1>1, <2>1
  <2> QED BY <1>2, <2>1, <2>2 DEF Flagged
<1>8. ASSUME NEW w \in Workers, SweepInsert(w) PROVE Flagged'
  <2>1. table' = table \cup {Alert("offline", spell.n)} /\ UNCHANGED spell
    BY <1>8 DEF SweepInsert, Stored
  <2> QED BY <2>1 DEF Flagged
<1>9. ASSUME NEW w \in Workers, SweepFails(w) \/ SweepClear(w) PROVE Flagged'
  BY <1>9 DEF SweepFails, SweepClear, Flagged
<1>10. CASE Feed \/ Claim \/ Cool
  <2>1. UNCHANGED <<table, spell, flag, sweep>>
    BY <1>10, FeedDoes, ClaimDoes, CoolDoes
  <2> QED BY <1>3, <2>1
<1>11. CASE Insert \/ InsertFails \/ Notify \/ Save \/ Ack \/ Handoff \/ UNCHANGED vars
  <2>1. UNCHANGED <<spell, flag, sweep>> /\ table \subseteq table'
    BY <1>11 DEF Insert, Stored, InsertFails, Notify, Save, Ack, Handoff, vars, offline
  <2> QED BY <1>3, <2>1
<1>12. CASE Start \/ Finish \/ \E c \in Channels : Skip(c) \/ Send(c) \/ Mark(c) \/ SendFails(c)
  <2>1. UNCHANGED <<table, spell, flag, sweep>>
    BY <1>12, DeliveryIsApart DEF world, offline
  <2> QED BY <1>3, <2>1
<1> QED BY <1>4, <1>5, <1>6, <1>7, <1>8, <1>9, <1>10, <1>11, <1>12 DEF Next

\* A batch B of which F is taken in: the engine reads on from there.
Takes(B, F) ==
  /\ batch' = [fixes |-> B, pre |-> engine[owner].io, events |-> Raised(F), mine |-> {}]
  /\ fed' = fed \cup F
  /\ odd' = IF \E t \in F, u \in fed : t < u THEN odd \cup {"order"} ELSE odd
  /\ stage' = IF Raised(F) = {} THEN "save" ELSE "claim"
  /\ engine' = [w \in Workers |-> engine'[w]]
  /\ \A w \in Workers \ {owner} : engine'[w] = engine[w]
  /\ engine'[owner].io = IF F = {} THEN engine[owner].io ELSE Reading(F, NumFixes + 1)
  /\ engine'[owner] = [io |-> engine'[owner].io, seen |-> engine'[owner].seen]
  /\ UNCHANGED <<track, acked, owner, saved, claims, table>>

\* That is what a batch does when it is fed.
LEMMA FeedTakes ==
  ASSUME Frame, Feed
  PROVE  \E B \in SUBSET (DOMAIN track \ acked) : \E F \in SUBSET B : Takes(B, F)
<1>1. PICK B \in SUBSET (DOMAIN track \ acked) :
        /\ batch' = [fixes |-> B, pre |-> engine[owner].io, events |-> Raised(Taken(B)), mine |-> {}]
        /\ fed' = fed \cup Taken(B)
        /\ odd' = IF \E t \in Taken(B), u \in fed : t < u THEN odd \cup {"order"} ELSE odd
        /\ stage' = IF Raised(Taken(B)) = {} THEN "save" ELSE "claim"
        /\ engine' = [engine EXCEPT ![owner] =
              [io   |-> IF Taken(B) = {} THEN @.io ELSE Reading(Taken(B), NumFixes + 1),
               seen |-> Max(Taken(B) \cup {@.seen})]]
  BY Zenon DEF Feed
<1>2. PICK F \in SUBSET B : F = Taken(B)
  BY DEF Taken
<1>3. PICK s : s = Max(F \cup {engine[owner].seen})
  OBVIOUS
<1>4. PICK r : r = IF F = {} THEN engine[owner].io ELSE Reading(F, NumFixes + 1)
  OBVIOUS
<1>5. engine' = [engine EXCEPT ![owner] = [io |-> r, seen |-> s]]
  BY <1>1, <1>2, <1>3, <1>4
<1>6. engine = [w \in Workers |-> engine[w]] /\ owner \in Workers
  BY DEF Frame
<1>7. /\ engine' = [w \in Workers |-> engine'[w]]
      /\ \A w \in Workers \ {owner} : engine'[w] = engine[w]
      /\ engine'[owner] = [io |-> r, seen |-> s]
  BY <1>5, <1>6
<1>8. engine'[owner].io = r /\ engine'[owner] = [io |-> engine'[owner].io, seen |-> engine'[owner].seen]
  BY <1>7
<1>9. UNCHANGED <<track, acked, owner, saved, claims, table>>
  BY DEF Feed, keys
<1>10. /\ batch' = [fixes |-> B, pre |-> engine[owner].io, events |-> Raised(F), mine |-> {}]
       /\ fed' = fed \cup F
       /\ odd' = IF \E t \in F, u \in fed : t < u THEN odd \cup {"order"} ELSE odd
       /\ stage' = IF Raised(F) = {} THEN "save" ELSE "claim"
  BY <1>1, <1>2
<1>11. Takes(B, F)
  BY <1>4, <1>7, <1>8, <1>9, <1>10 DEF Takes
<1> QED BY <1>11

\* The reading of a tick is one of the three.
LEMMA ReadingIsOne ==
  ASSUME Frame, Shape, NEW F \in SUBSET DOMAIN track, NEW t \in Nat
  PROVE  Reading(F, t) \in Readings
<1>1. F \in SUBSET Ticks
  BY DEF Shape
<1>2. Warm(owner) \in Readings
  BY DEF Frame, IsEngine, Warm, Readings
<1>3. \A m \in F : track[m] # "none" => track[m] \in Readings
  BY DEF Frame, Readings
<1> QED BY <1>1, <1>2, <1>3, ReadingIs

\* After a failed insert the engine has the reading from before the batch.
LEMMA InsertFailsDoes ==
  ASSUME Frame, InsertFails
  PROVE  /\ stage = "insert" /\ stage' = "ack"
         /\ engine' = [w \in Workers |-> engine'[w]]
         /\ \A w \in Workers \ {owner} : engine'[w] = engine[w]
         /\ engine'[owner] = [io |-> batch.pre, seen |-> engine[owner].seen]
         /\ UNCHANGED <<track, acked, owner, saved, batch, table, fed>>
         /\ "claimed" \notin odd' => claims' = claims \ batch.mine
         /\ "blind" \notin odd' => Before = "low" \/ \A t \in batch.fixes : track[t] # "low"
<1>1. /\ stage = "insert" /\ stage' = "ack" /\ UNCHANGED <<track, acked, owner, saved, batch, table, fed>>
      /\ engine' = [engine EXCEPT ![owner].io = batch.pre]
      /\ "claimed" \notin odd' => claims' = claims \ batch.mine
      /\ "blind" \notin odd' => Before = "low" \/ \A t \in batch.fixes : track[t] # "low"
  BY DEF InsertFails
<1>2. engine = [w \in Workers |-> engine[w]] /\ owner \in Workers
      /\ engine[owner] = [io |-> engine[owner].io, seen |-> engine[owner].seen]
  BY DEF Frame, IsEngine
<1>3. PICK e : e = [engine[owner] EXCEPT !.io = batch.pre]
  OBVIOUS
<1>4. engine' = [engine EXCEPT ![owner] = e]
  BY <1>1, <1>3
<1>5. /\ engine' = [w \in Workers |-> engine'[w]]
      /\ \A w \in Workers \ {owner} : engine'[w] = engine[w]
      /\ engine'[owner] = e
  BY <1>2, <1>4
<1>6. e = [io |-> batch.pre, seen |-> engine[owner].seen]
  <2> DEFINE i == engine[owner].io  s == engine[owner].seen
  <2>1. PICK f : f = engine[owner]
    OBVIOUS
  <2> HIDE DEF i, s
  <2>2. f = [io |-> i, seen |-> s]
    BY <1>2, <2>1 DEF i, s
  <2>3. e = [io |-> batch.pre, seen |-> s]
    BY <1>3, <2>1, <2>2
  <2> QED BY <2>3 DEF s
<1> QED BY <1>1, <1>5, <1>6

\* Every step keeps the types of the engines, the readings and the ticks taken in.
LEMMA FrameStep == ASSUME GateInv, Frame, [Next]_vars PROVE Frame'
<1>0. Types /\ Shape
  BY DEF GateInv, ToldInv
<1> USE <1>0
<1>1. ASSUME UNCHANGED <<owner, saved, batch, engine, track, fed, acked>>, stage' # "idle" \/ UNCHANGED stage
      PROVE  Frame'
  BY <1>1 DEF Frame, IsEngine
<1>2. CASE Feed
  <2>0. PICK B \in SUBSET (DOMAIN track \ acked) : \E F \in SUBSET B : Takes(B, F)
    BY <1>2, FeedTakes
  <2>1. PICK F \in SUBSET B : Takes(B, F)
    BY <2>0
  <2>2. batch'.fixes = B /\ batch'.pre = engine[owner].io
    BY <2>1 DEF Takes
  <2>3. fed \subseteq acked
    BY <1>2 DEF Feed, Frame
  <2>4. NumFixes + 1 \in Nat /\ F \in SUBSET DOMAIN track
    OBVIOUS
  <2>5. engine'[owner].io \in {"unset"} \cup Readings
    BY <2>1, <2>4, ReadingIsOne DEF Takes, Frame, IsEngine
  <2>6. \A w \in Workers : IsEngine(engine'[w])
    BY <2>1, <2>5 DEF Takes, Frame, IsEngine
  <2>7. batch'.pre \in {"unset"} \cup Readings
    BY <2>2 DEF Frame, IsEngine
  <2>8. /\ fed' \subseteq DOMAIN track' /\ fed' \subseteq acked' \cup batch'.fixes /\ stage' # "idle"
        /\ owner' \in Workers /\ saved' \in Readings
        /\ \A t \in DOMAIN track' : track'[t] \in {"high", "low", "none"}
    BY <2>1, <2>2, <2>3 DEF Takes, Frame
  <2> QED BY <2>1, <2>6, <2>7, <2>8 DEF Takes, Frame, IsEngine
<1>3. CASE Claim \/ Cool
  <2>1. UNCHANGED <<owner, saved, engine, track, fed, acked>> /\ stage' # "idle"
        /\ batch'.pre = batch.pre /\ batch'.fixes = batch.fixes
    BY <1>3, ClaimDoes, CoolDoes
  <2> QED BY <2>1 DEF Frame, IsEngine
<1>4. CASE InsertFails
  <2>1. /\ stage' = "ack"
        /\ engine' = [w \in Workers |-> engine'[w]]
        /\ \A w \in Workers \ {owner} : engine'[w] = engine[w]
        /\ engine'[owner] = [io |-> batch.pre, seen |-> engine[owner].seen]
        /\ UNCHANGED <<track, acked, owner, saved, batch, table, fed>>
    BY <1>4, InsertFailsDoes
  <2>2. IsEngine(engine'[owner])
    BY <2>1 DEF Frame, IsEngine
  <2>3. \A w \in Workers : IsEngine(engine'[w])
    BY <2>1, <2>2 DEF Frame
  <2> QED BY <2>1, <2>3 DEF Frame, IsEngine
<1>5. CASE Insert \/ Notify
  <2>1. UNCHANGED <<owner, saved, batch, engine, track, fed, acked>> /\ stage' # "idle"
    BY <1>5 DEF Insert, Notify, keys
  <2> QED BY <1>1, <2>1
<1>6. CASE Save
  <2>1. /\ UNCHANGED <<owner, batch, engine, track, fed, acked>> /\ stage' = "ack"
        /\ saved' = saved \/ saved' = Warm(owner)
    BY <1>6 DEF Save
  <2>2. Warm(owner) \in Readings
    BY DEF Frame, IsEngine, Warm
  <2> QED BY <2>1, <2>2 DEF Frame, IsEngine
<1>7. CASE Ack
  <2>1. /\ UNCHANGED <<owner, saved, engine, track, fed>>
        /\ acked' = acked \cup batch.fixes /\ batch' = NoBatch
    BY <1>7 DEF Ack, keys
  <2>2. batch'.fixes = {} /\ batch'.pre = "unset"
    BY <2>1 DEF NoBatch
  <2> QED BY <2>1, <2>2 DEF Frame, IsEngine
<1>8. CASE Handoff
  <2>1. /\ UNCHANGED <<saved, batch, engine, track, fed, acked, stage>> /\ owner' \in Workers
    BY <1>8 DEF Handoff, keys
  <2> QED BY <2>1 DEF Frame, IsEngine
<1>9. CASE Crash
  <2>1. /\ UNCHANGED <<saved, track, acked>> /\ owner' \in Workers
        /\ engine' = [engine EXCEPT ![owner] = Fresh]
        /\ batch' = NoBatch /\ fed' = fed \cap acked
    BY <1>9 DEF Crash, keys
  <2>2. batch'.fixes = {} /\ batch'.pre = "unset"
    BY <2>1 DEF NoBatch
  <2>3. IsEngine(Fresh)
    BY DEF IsEngine, Fresh
  <2>4. engine' = [w \in Workers |-> engine'[w]] /\ \A w \in Workers : IsEngine(engine'[w])
    BY <2>1, <2>3 DEF Frame
  <2> QED BY <2>1, <2>2, <2>4 DEF Frame, IsEngine
<1>10. CASE Turn \/ UNCHANGED vars
  <2>1. UNCHANGED <<owner, saved, batch, engine, track, fed, acked, stage>>
    BY <1>10 DEF Turn, vars, keys
  <2> QED BY <1>1, <2>1
<1>11. ASSUME NEW w \in Workers, SweepRead(w) \/ SweepClaim(w) \/ SweepInsert(w) \/ SweepFails(w) \/ SweepNotify(w) \/ SweepClear(w)
       PROVE  Frame'
  <2>1. UNCHANGED <<owner, saved, batch, engine, track, fed, acked, stage>>
    BY <1>11 DEF SweepRead, SweepClaim, SweepInsert, SweepFails, SweepNotify, SweepClear, keys
  <2> QED BY <1>1, <2>1
<1>12. CASE Start \/ Finish \/ \E c \in Channels : Skip(c) \/ Send(c) \/ Mark(c) \/ SendFails(c)
  <2>1. UNCHANGED <<owner, saved, batch, engine, track, fed, acked, stage>>
    BY <1>12, DeliveryIsApart DEF world, keys
  <2> QED BY <1>1, <2>1
<1> QED BY <1>2, <1>3, <1>4, <1>5, <1>6, <1>7, <1>8, <1>9, <1>10, <1>11, <1>12 DEF Next

\* Every step keeps the readings vouched for; one step per action.
LEMMA EdgeStep == ASSUME GateInv, Frame, Edge, [Next]_vars PROVE Edge'
<1>0. Types /\ Shape
  BY DEF GateInv, ToldInv
<1> USE <1>0
<1> SUFFICES ASSUME InOrder' PROVE Edged'
  BY DEF Edge
<1>1. InOrder
  BY StepGrows DEF InOrder
<1>2. Edged
  BY <1>1 DEF Edge
<1>3. ASSUME UNCHANGED <<track, saved, fed, acked, claims, stage, batch, owner, engine>>, table \subseteq table'
      PROVE  Edged'
  <2>1. Warm(owner)' = Warm(owner) /\ Before' = Before
    BY <1>3 DEF Warm, Before
  <2>2. table \cup batch.events \subseteq table' \cup batch'.events
    BY <1>3
  <2> QED BY <1>2, <1>3, <2>1, <2>2 DEF Edged, Known
<1>4. "order" \notin odd' /\ "claimed" \notin odd' /\ "blind" \notin odd' /\ "stale" \notin odd'
  BY DEF InOrder
<1>5. CASE Feed
  <2>1. PICK B \in SUBSET (DOMAIN track \ acked) : \E F \in SUBSET B : Takes(B, F)
    BY <1>5, FeedTakes
  <2>2. PICK F \in SUBSET B : Takes(B, F)
    BY <2>1
  <2>3. stage = "idle" /\ fed \subseteq acked /\ fed \cap acked = fed
    BY <1>5 DEF Feed, Frame
  <2>4. F \in SUBSET Ticks /\ fed \subseteq Ticks /\ F \cap acked = {}
    BY DEF Shape, Frame
  <2>5. \A t \in F, u \in fed : u < t
    <3>1. \A t \in F, u \in fed : ~ t < u /\ t # u
      BY <1>4, <2>2, <2>3, <2>4 DEF Takes
    <3> QED BY <2>4, <3>1 DEF Ticks
  <2>6. Warm(owner) = saved /\ Warm(owner) \in Readings /\ Known(Warm(owner), fed, table)
    BY <1>2, <2>3 DEF Edged, Frame
  <2>7. \A t \in F : track[t] \in {"high", "low", "none"}
    BY DEF Frame
  <2> DEFINE r == IF F = {} THEN Warm(owner) ELSE Reading(F, NumFixes + 1)
  <2>8. r \in Readings /\ Known(r, fed \cup F, table \cup Raised(F))
    BY <2>4, <2>5, <2>6, <2>7, FeedKnows
  <2>9. r # "unset"
    BY <2>8 DEF Readings
  <2>10. Warm(owner)' = r
    BY <2>2, <2>9 DEF Takes, Warm
  <2>11. batch'.events = Raised(F) /\ batch'.pre = engine[owner].io
    BY <2>2 DEF Takes
  <2>12. Before' = saved'
    BY <2>2, <2>6, <2>11 DEF Before, Takes, Warm
  <2>13. UNCHANGED <<track, acked, claims, table, saved>> /\ fed' = fed \cup F
         /\ stage' = IF Raised(F) = {} THEN "save" ELSE "claim"
    BY <2>2 DEF Takes
  <2>14. fed' \cap acked' = fed \cap acked
    BY <2>4, <2>13
  <2>15. Known(saved, fed \cap acked, table)'
    BY <1>2, <2>13, <2>14 DEF Edged, Known
  <2>16. \A a \in claims : a.rule = "panic" => a \in table
    BY <1>2, <2>3 DEF Edged
  <2> HIDE DEF r
  <2>17. Known(Warm(owner), fed, table \cup batch.events)'
    BY <2>8, <2>10, <2>11, <2>13 DEF Known
  <2>18. stage' = "save" => Known(Warm(owner), fed, table)'
    <3>1. stage' = "save" => table' \cup batch'.events = table'
      BY <2>11, <2>13
    <3> QED BY <2>17, <3>1 DEF Known
  <2> QED BY <2>12, <2>13, <2>15, <2>16, <2>17, <2>18 DEF Edged
<1>6. CASE Claim
  <2>1. stage = "claim" /\ stage' = "cool" /\ UNCHANGED <<table, track, fed, saved, engine, acked, owner>>
    BY <1>6, ClaimDoes
  <2>2. PICK D \in SUBSET batch.events :
          /\ claims' = claims \cup ((batch.events \ (claims \ D)) \ D)
          /\ batch' = [fixes |-> batch.fixes, pre |-> batch.pre,
                       events |-> batch.events \ (claims \ D), mine |-> (batch.events \ (claims \ D)) \ D]
    BY <1>6, ClaimDoes
  <2>3. /\ batch'.pre = batch.pre /\ batch'.events = batch.events \ (claims \ D)
        /\ batch'.mine = (batch.events \ (claims \ D)) \ D
    BY <2>2
  <2>4. \A a \in claims : a.rule = "panic" => a \in table
    BY <1>2, <2>1 DEF Edged
  <2>5. \A a \in table \cup batch.events : a.rule = "panic" => a \in table' \cup batch'.events
    BY <2>1, <2>3, <2>4
  <2>6. Warm(owner)' = Warm(owner) /\ Before' = Before
    BY <2>1, <2>3 DEF Warm, Before
  <2>7. Known(Warm(owner), fed, table \cup batch.events)'
    <3>1. Known(Warm(owner), fed, table \cup batch.events)
      BY <1>2, <2>1 DEF Edged
    <3> QED BY <2>1, <2>5, <2>6, <3>1 DEF Known
  <2>8. Known(saved, fed \cap acked, table)'
    BY <1>2, <2>1 DEF Edged, Known
  <2>9. \A a \in claims' : a.rule = "panic" => a \in table' \/ a \in batch'.mine
    BY <2>1, <2>2, <2>3, <2>4
  <2>10. batch'.mine \subseteq batch'.events /\ Before' = saved'
    BY <1>2, <2>1, <2>3, <2>6 DEF Edged
  <2> QED BY <2>1, <2>7, <2>8, <2>9, <2>10 DEF Edged
<1>7. CASE Cool
  <2>1. /\ stage = "cool" /\ stage' \in {"save", "insert"}
        /\ UNCHANGED <<claims, table, track, fed, saved, engine, acked, owner>>
    BY <1>7, CoolDoes
  <2>2. /\ batch' = [fixes |-> batch.fixes, pre |-> batch.pre, events |-> {a \in batch.events : ~ Cooled(a)}, mine |-> batch.mine]
        /\ stage' = "save" => {a \in batch.events : ~ Cooled(a)} = {}
    BY <1>7, CoolDoes
  <2>3. /\ batch'.pre = batch.pre /\ batch'.mine = batch.mine
        /\ batch'.events = {a \in batch.events : ~ Cooled(a)}
        /\ stage' = "save" => batch'.events = {}
    BY <2>2
  <2>4. \A a \in batch.events : a.rule = "panic" => a \in batch'.events
    BY <2>3 DEF Cooled
  <2>5. Warm(owner)' = Warm(owner) /\ Before' = Before
    BY <2>1, <2>3 DEF Warm, Before
  <2>6. Known(Warm(owner), fed, table \cup batch.events)'
    <3>1. Known(Warm(owner), fed, table \cup batch.events)
      BY <1>2, <2>1 DEF Edged
    <3>2. \A a \in table \cup batch.events : a.rule = "panic" => a \in table' \cup batch'.events
      BY <2>1, <2>4
    <3> QED BY <2>1, <2>5, <3>1, <3>2 DEF Known
  <2>7. stage' = "save" => Known(Warm(owner), fed, table)'
    <3>1. stage' = "save" => table' \cup batch'.events = table'
      BY <2>3
    <3> QED BY <2>6, <3>1 DEF Known
  <2>8. Known(saved, fed \cap acked, table)'
    BY <1>2, <2>1 DEF Edged, Known
  <2>9. \A a \in batch'.mine : a.rule = "panic" => a \in batch'.events
    BY <1>2, <2>1, <2>3, <2>4 DEF Edged
  <2>10. \A a \in claims' : a.rule = "panic" => a \in table' \/ a \in batch'.mine
    BY <1>2, <2>1, <2>3 DEF Edged
  <2>11. stage' = "save" => \A a \in claims' : a.rule = "panic" => a \in table'
    BY <2>3, <2>9, <2>10
  <2>12. Before' = saved'
    BY <1>2, <2>1, <2>5 DEF Edged
  <2> QED BY <2>1, <2>6, <2>7, <2>8, <2>9, <2>10, <2>11, <2>12 DEF Edged
<1>8. CASE Insert
  <2>1. /\ stage = "insert" /\ stage' = "notify" /\ table' = table \cup batch.events
        /\ UNCHANGED <<claims, batch, track, fed, saved, engine, acked, owner>>
    BY <1>8 DEF Insert, Stored, keys
  <2>2. Warm(owner)' = Warm(owner) /\ Before' = Before
    BY <2>1 DEF Warm, Before
  <2>3. Known(Warm(owner), fed, table)' /\ Known(saved, fed \cap acked, table)'
    <3>1. Known(Warm(owner), fed, table \cup batch.events) /\ Known(saved, fed \cap acked, table)
      BY <1>2, <2>1 DEF Edged
    <3> QED BY <2>1, <2>2, <3>1 DEF Known
  <2>4. \A a \in claims' : a.rule = "panic" => a \in table'
    BY <1>2, <2>1 DEF Edged
  <2>5. Before' = saved'
    BY <1>2, <2>1, <2>2 DEF Edged
  <2> QED BY <2>1, <2>3, <2>4, <2>5 DEF Edged
<1>9. CASE InsertFails
  <2>1. /\ stage = "insert" /\ stage' = "ack"
        /\ engine'[owner] = [io |-> batch.pre, seen |-> engine[owner].seen]
        /\ UNCHANGED <<track, acked, owner, saved, batch, table, fed>>
        /\ claims' = claims \ batch.mine
        /\ Before = "low" \/ \A t \in batch.fixes : track[t] # "low"
    BY <1>4, <1>9, InsertFailsDoes
  <2>2. engine'[owner].io = batch.pre
    BY <2>1
  <2>3. Before = saved /\ Known(saved, fed \cap acked, table)
    BY <1>2, <2>1 DEF Edged
  <2>4. Warm(owner)' = saved'
    BY <2>1, <2>2, <2>3 DEF Warm, Before
  <2>5. Known(saved, fed, table)'
    <3>1. \A t \in fed : t \in fed \cap acked \/ t \in batch.fixes
      BY DEF Frame
    <3>2. saved = "low" \/ \A t \in fed : track[t] = "low" => t \in fed \cap acked
      BY <2>1, <2>3, <3>1
    <3> QED BY <2>1, <2>3, <3>2 DEF Known
  <2>6. Known(saved, fed \cap acked, table)'
    BY <2>1, <2>3 DEF Known
  <2>7. \A a \in claims' : a.rule = "panic" => a \in table'
    BY <1>2, <2>1 DEF Edged
  <2> QED BY <2>1, <2>4, <2>5, <2>6, <2>7 DEF Edged
<1>10. CASE Notify
  <2>1. /\ stage = "notify" /\ stage' = "save"
        /\ UNCHANGED <<table, claims, batch, track, fed, saved, engine, acked, owner>>
    BY <1>10 DEF Notify, keys
  <2>2. Warm(owner)' = Warm(owner) /\ Before' = Before
    BY <2>1 DEF Warm, Before
  <2> QED BY <1>2, <2>1, <2>2 DEF Edged, Known
<1>11. CASE Save
  <2>1. /\ stage = "save" /\ stage' = "ack" /\ saved' = Warm(owner)
        /\ UNCHANGED <<table, claims, batch, track, fed, engine, acked, owner>>
    BY <1>4, <1>11 DEF Save
  <2>2. Warm(owner)' = saved'
    BY <2>1 DEF Warm
  <2>3. Known(Warm(owner), fed, table)
    BY <1>2, <2>1 DEF Edged
  <2>4. Known(saved, fed, table)' /\ Known(saved, fed \cap acked, table)'
    BY <2>1, <2>3 DEF Known
  <2>5. \A a \in claims' : a.rule = "panic" => a \in table'
    BY <1>2, <2>1 DEF Edged
  <2> QED BY <2>1, <2>2, <2>4, <2>5 DEF Edged
<1>12. CASE Ack
  <2>1. /\ stage = "ack" /\ stage' = "idle"
        /\ UNCHANGED <<table, claims, track, fed, saved, engine, owner>>
    BY <1>12 DEF Ack, keys
  <2>2. Warm(owner)' = saved'
    BY <1>2, <2>1 DEF Warm, Edged
  <2>3. Known(saved, fed, table)
    BY <1>2, <2>1 DEF Edged
  <2>4. Known(saved, fed \cap acked, table)'
    BY <2>1, <2>3 DEF Known
  <2>5. \A a \in claims' : a.rule = "panic" => a \in table'
    BY <1>2, <2>1 DEF Edged
  <2> QED BY <2>1, <2>2, <2>4, <2>5 DEF Edged
<1>13. CASE Handoff
  <2>1. /\ stage = "idle" /\ UNCHANGED <<stage, table, claims, batch, track, fed, saved, engine, acked>>
        /\ engine[owner'].io = "unset"
    BY <1>4, <1>13 DEF Handoff, keys
  <2>2. Warm(owner)' = saved'
    BY <2>1 DEF Warm
  <2>3. Known(saved, fed \cap acked, table)'
    BY <1>2, <2>1 DEF Edged, Known
  <2>4. \A a \in claims' : a.rule = "panic" => a \in table'
    BY <1>2, <2>1 DEF Edged
  <2> QED BY <2>1, <2>2, <2>3, <2>4 DEF Edged
<1>14. CASE Crash
  <2>1. /\ stage \notin {"cool", "insert"} /\ stage' = "idle"
        /\ UNCHANGED <<table, claims, track, saved, acked>>
        /\ fed' = fed \cap acked /\ engine' = [engine EXCEPT ![owner] = Fresh]
        /\ engine[owner'].io = "unset" \/ owner' = owner
        /\ owner' \in Workers
    BY <1>4, <1>14 DEF Crash, keys
  <2>2. engine'[owner'].io = "unset"
    <3>1. Fresh.io = "unset"
      BY DEF Fresh
    <3>2. \A w \in Workers : engine'[w] = IF w = owner THEN Fresh ELSE engine[w]
      BY <2>1 DEF Frame
    <3> QED BY <2>1, <3>1, <3>2
  <2>3. Warm(owner)' = saved'
    BY <2>2 DEF Warm
  <2>4. Known(saved, fed \cap acked, table)'
    BY <1>2, <2>1 DEF Edged, Known
  <2>5. \A a \in claims' : a.rule = "panic" => a \in table'
    BY <1>2, <2>1 DEF Edged
  <2> QED BY <2>1, <2>3, <2>4, <2>5 DEF Edged
<1>15. CASE Turn \/ UNCHANGED vars
  <2>1. UNCHANGED <<track, saved, fed, acked, claims, stage, batch, owner, engine, table>>
    BY <1>15 DEF Turn, vars, keys
  <2> QED BY <1>3, <2>1
<1>16. ASSUME NEW w \in Workers, SweepRead(w) \/ SweepClaim(w) \/ SweepInsert(w) \/ SweepFails(w) \/ SweepNotify(w) \/ SweepClear(w)
       PROVE  Edged'
  <2>1. UNCHANGED <<track, saved, fed, acked, claims, stage, batch, owner, engine>> /\ table \subseteq table'
    BY <1>16 DEF SweepRead, SweepClaim, SweepInsert, SweepFails, SweepNotify, SweepClear, keys, Stored
  <2> QED BY <1>3, <2>1
<1>17. CASE Start \/ Finish \/ \E c \in Channels : Skip(c) \/ Send(c) \/ Mark(c) \/ SendFails(c)
  <2>1. UNCHANGED <<track, saved, fed, acked, claims, stage, batch, owner, engine, table>>
    BY <1>17, DeliveryIsApart DEF world, keys
  <2> QED BY <1>3, <2>1
<1> QED BY <1>5, <1>6, <1>7, <1>8, <1>9, <1>10, <1>11, <1>12, <1>13, <1>14, <1>15, <1>16, <1>17 DEF Next

\* It holds at first: no reading is known.
LEMMA AlarmInit == Init => AlarmInv
<1> SUFFICES ASSUME Init PROVE AlarmInv
  OBVIOUS
<1>1. batch.events = {} /\ batch.mine = {} /\ batch.fixes = {} /\ batch.pre = "unset"
  BY DEF Init, NoBatch
<1>2. \A w \in Workers : engine[w] = Fresh
  BY DEF Init
<1>3. Fresh.io = "unset" /\ Fresh = [io |-> Fresh.io, seen |-> Fresh.seen]
  BY DEF Fresh
<1>4. \A t \in DOMAIN track : track[t] \in {"high", "low", "none"}
  BY DEF Init
<1>5. engine = [w \in Workers |-> engine[w]]
  BY DEF Init
<1>6. Frame
  BY <1>1, <1>2, <1>3, <1>4, <1>5 DEF Init, Frame, IsEngine, Readings
<1>7. Warm(owner) = saved
  BY <1>2, <1>3 DEF Init, Warm
<1>8. Edge
  BY <1>7 DEF Init, Edge, Edged, Known
<1>9. Flagged
  BY DEF Init, Flagged
<1> QED BY <1>6, <1>8, <1>9, GateInit DEF AlarmInv

\* Every step keeps the invariant.
LEMMA AlarmStep == AlarmInv /\ [Next]_vars => AlarmInv'
  BY GateStep, FrameStep, EdgeStep, FlaggedStep DEF AlarmInv

\* No alarm is taken as known without its row: through batches that fail or come
\* again, moves of the shard and deaths, what rollbackIo, saveIoState and the gate do
\* together keeps an edge from being lost, outside the cases that the property names.
THEOREM NoAlarmIsLost == Spec => []AlarmIsRecorded
  BY AlarmInit, AlarmStep, InvRecorded, PTL DEF Spec

=============================================================================
