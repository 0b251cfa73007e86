------------------------------- MODULE AlertGate -------------------------------
(***************************************************************************)
(* The alerts of one device: the rule engine (apps/worker/src/rules/       *)
(* engine.ts), its gate and table (rules/persister.ts, rules/writer.ts),   *)
(* the batch handler around them (main.ts), the sweep for silent devices   *)
(* (jobs/offlineWorker.ts, rules/offline.ts) and the delivery to the       *)
(* channels of a rule (jobs/notifyQueue.ts, jobs/notifyWorker.ts,          *)
(* notify/dispatch.ts).                                                    *)
(*                                                                         *)
(* A fix reads high, low or nothing.  A rising reading is a "panic", which *)
(* is an edge and passes every cooldown; a high one is a "speed", a level  *)
(* with a cooldown.  The rules and the sweep share the table and the queue *)
(* only, so a behaviour has fixes or silent spells.  Durations and peaks   *)
(* of an alert, skewed clocks and the expiry of keys are left out.         *)
(***************************************************************************)
EXTENDS Naturals, FiniteSets, FiniteSetsExt

CONSTANTS
  Workers, Channels,
  NumFixes, BatchSize, Cooldown, NumSpells,
  MaxTries,     \* attempts of a delivery job
  MaxLate,      \* batches that leave an older fix behind
  MaxFails,     \* inserts that fail
  MaxRedis,     \* commands that Redis refuses
  MaxSends,     \* sends that a channel refuses
  MaxHandoffs, MaxCrashes,
  MaxKinds      \* kinds of these that come together in one behaviour

ASSUME AlertAssumption ==
  /\ NumFixes \in Nat /\ BatchSize \in Nat \ {0} /\ Cooldown \in Nat /\ NumSpells \in Nat
  /\ MaxTries \in Nat \ {0}
  /\ MaxLate \in Nat /\ MaxFails \in Nat /\ MaxRedis \in Nat /\ MaxSends \in Nat
  /\ MaxHandoffs \in Nat /\ MaxCrashes \in Nat /\ MaxKinds \in Nat

VARIABLES
  track,    \* tick -> reading
  acked,    \* ticks whose stream entry is acknowledged
  owner,    \* the worker that has the shard
  engine,   \* worker -> RuleEngine: [io, seen], io = "unset" when the map has no entry
  saved,    \* rule:iostate
  claims,   \* rule:seen, the alerts that are claimed
  last,     \* rule:cd, the fix time of the last "speed", 0 for none
  batch,    \* [fixes, pre, events, mine]: what the owner works on
  stage,    \* where it is in the batch
  table,    \* the events table
  spell,    \* [n, quiet]: the silent spell, and whether the device is silent
  flag,     \* rule:offline
  sweep,    \* worker -> what its sweep is about to do
  jobs,     \* the notify queue: [alert, tries]
  run,      \* the delivery that runs: [job, todo, failed, sent]
  marked,   \* notify:sent, <<alert, channel>>
  given,    \* <<alert, channel>> that were sent
  odd,      \* history: what went wrong so far in ways the properties name
  fed,      \* history: ticks that an engine has taken in and that did not come back
  spent     \* faults of each kind so far

vars == <<track, acked, owner, engine, saved, claims, last, batch, stage, table, spell,
          flag, sweep, jobs, run, marked, given, odd, fed, spent>>
keys == <<saved, claims, last>>
offline == <<spell, flag, sweep>>
notify == <<jobs, run, marked, given>>

Ticks == 1 .. NumFixes
Alert(rule, at) == [rule |-> rule, at |-> at]

Faults == {"late", "fail", "redis", "send", "handoff", "crash"}
Limit(k) == CASE k = "late" -> MaxLate [] k = "fail" -> MaxFails [] k = "redis" -> MaxRedis
              [] k = "send" -> MaxSends [] k = "handoff" -> MaxHandoffs [] k = "crash" -> MaxCrashes
Spend(k) == /\ spent[k] < Limit(k)
            /\ Cardinality({j \in Faults : j = k \/ spent[j] > 0}) <= MaxKinds
            /\ spent' = [spent EXCEPT ![k] = @ + 1]
Never(K) == \A k \in K : spent[k] = 0

NoBatch == [fixes |-> {}, pre |-> "unset", events |-> {}, mine |-> {}]
NoRun == [job |-> {}, todo |-> {}, failed |-> FALSE, sent |-> {}]
Fresh == [io |-> "unset", seen |-> 0]

Init ==
  /\ \/ track \in [Ticks -> {"high", "low", "none"}] /\ spell = [n |-> NumSpells, quiet |-> FALSE]
     \/ track = <<>> /\ spell = [n |-> 0, quiet |-> FALSE]
  /\ acked = {} /\ owner \in Workers /\ engine = [w \in Workers |-> Fresh]
  /\ saved = "null" /\ claims = {} /\ last = 0
  /\ batch = NoBatch /\ stage = "idle" /\ table = {}
  /\ flag = FALSE /\ sweep = [w \in Workers |-> "none"]
  /\ jobs = {} /\ run = NoRun /\ marked = {} /\ given = {}
  /\ odd = {} /\ fed = {} /\ spent = [k \in Faults |-> 0]

-----------------------------------------------------------------------------
(* RuleEngine.feed.                                                        *)

\* The reading that the engine compares with first: its own, or the stored one.
Warm(w) == IF engine[w].io = "unset" THEN saved ELSE engine[w].io

\* A fix that is older than the newest one is skipped.
Taken(B) == {t \in B : t >= engine[owner].seen}

\* The reading before tick t; one that is missing keeps the one before it.
Reading(F, t) ==
  LET R == {u \in F : u < t /\ track[u] # "none"}
  IN IF R = {} THEN Warm(owner) ELSE track[Max(R)]

\* Every rising edge, and the first high reading of the batch.
Raised(F) ==
  LET High == {t \in F : track[t] = "high"}
  IN {Alert("panic", t) : t \in {u \in High : Reading(F, u) = "low"}}
     \cup {Alert("speed", t) : t \in {u \in High : \A v \in High : u <= v}}

Feed ==
  /\ stage = "idle"
  /\ \E B \in SUBSET (DOMAIN track \ acked) :
       LET F == Taken(B)
       IN /\ B # {} /\ Cardinality(B) <= BatchSize
          /\ IF \E t \in DOMAIN track \ (acked \cup B) : \E u \in B : t < u
               THEN Spend("late") ELSE UNCHANGED spent
          /\ engine' = [engine EXCEPT ![owner] = [io   |-> IF F = {} THEN @.io ELSE Reading(F, NumFixes + 1),
                                                  seen |-> Max(F \cup {@.seen})]]
          /\ batch' = [fixes |-> B, pre |-> engine[owner].io, events |-> Raised(F), mine |-> {}]
          /\ stage' = IF Raised(F) = {} THEN "save" ELSE "claim"
          /\ fed' = fed \cup F
          /\ odd' = IF \E t \in F, u \in fed : t < u THEN odd \cup {"order"} ELSE odd
  /\ UNCHANGED <<track, acked, owner, keys, table, offline, notify>>

-----------------------------------------------------------------------------
(* RulePersister.persist: claim, cool down, insert.                        *)

\* Mutant of Claim: the answers of the SET NX are not looked at.
ClaimAll ==
  /\ stage = "claim"
  /\ claims' = claims \cup batch.events
  /\ batch' = [batch EXCEPT !.mine = batch.events]
  /\ stage' = "cool"
  /\ UNCHANGED <<track, acked, owner, engine, saved, last, table, offline, notify, odd, fed, spent>>

\* SET NX of each alert's own key; one that was there is a redelivery.  A command
\* that fails claims nothing and lets its alert through.
Claim ==
  /\ stage = "claim"
  /\ \E D \in SUBSET batch.events :
       /\ IF D = {} THEN UNCHANGED spent ELSE Spend("redis")
       /\ LET fresh == batch.events \ (claims \ D)
          IN /\ claims' = claims \cup (fresh \ D)
             /\ batch' = [batch EXCEPT !.events = fresh, !.mine = fresh \ D]
  /\ stage' = "cool"
  /\ UNCHANGED <<track, acked, owner, engine, saved, last, table, offline, notify, odd, fed>>

\* The cooldown compares fix times, both ways, with the alert that passed last; the
\* marker follows that alert, backwards too ("back").
Cooled(a) == a.rule = "speed" /\ last > 0
             /\ a.at < last + Cooldown /\ last < a.at + Cooldown

Cool ==
  /\ stage = "cool"
  /\ LET passed == {a \in batch.events : ~ Cooled(a)}
         speed == {a.at : a \in {b \in passed : b.rule = "speed"}}
     IN /\ batch' = [batch EXCEPT !.events = passed]
        /\ last' = IF speed = {} THEN last ELSE Max(speed)
        /\ odd' = IF last' < last THEN odd \cup {"back"} ELSE odd
        /\ stage' = IF passed = {} THEN "save" ELSE "insert"
  /\ UNCHANGED <<track, acked, owner, engine, saved, claims, table, offline, notify, fed, spent>>

\* queue.add: an alert whose job is in the queue or at work is not added again.
Queued(A) == jobs \cup {[alert |-> a, tries |-> 0] : a \in {b \in A : ~ \E j \in jobs \cup run.job : j.alert = b}}

Stored(A) ==
  /\ table' = table \cup A
  /\ odd' = IF A \cap table = {} THEN odd ELSE odd \cup {"twice"}

Insert ==
  /\ stage = "insert"
  /\ Stored(batch.events)
  /\ stage' = "notify"
  /\ UNCHANGED <<track, acked, owner, engine, keys, batch, offline, notify, fed, spent>>

Before == IF batch.pre = "unset" THEN saved ELSE batch.pre

\* Mutant of InsertFails: the engine keeps the reading of the failed batch.
InsertFailsForward ==
  /\ stage = "insert" /\ Spend("fail")
  /\ claims' = claims \ batch.mine
  /\ last' = IF \E a \in batch.events : a.rule = "speed" THEN 0 ELSE last
  /\ stage' = "ack"
  /\ UNCHANGED <<track, acked, owner, engine, saved, batch, table, offline, notify, odd, fed>>

\* Every key of this call is released, if Redis answers, and the engine goes back
\* to the reading from before the batch, which is not saved.
InsertFails ==
  /\ stage = "insert" /\ Spend("fail")
  /\ \E released \in BOOLEAN :
       /\ claims' = IF released THEN claims \ batch.mine ELSE claims
       /\ last' = IF released /\ \E a \in batch.events : a.rule = "speed" THEN 0 ELSE last
       /\ odd' = odd \cup (IF released THEN {} ELSE {"claimed"})
                     \cup (IF Before # "low" /\ \E t \in batch.fixes : track[t] = "low" THEN {"blind"} ELSE {})
  /\ engine' = [engine EXCEPT ![owner].io = batch.pre]
  /\ stage' = "ack"
  /\ UNCHANGED <<track, acked, owner, saved, batch, table, offline, notify, fed>>

-----------------------------------------------------------------------------
(* The end of the batch handler.                                           *)

\* A job for each stored alert; a refusal is counted and passed over.
Notify ==
  /\ stage = "notify"
  /\ \/ jobs' = Queued(batch.events) /\ UNCHANGED spent
     \/ Spend("redis") /\ UNCHANGED jobs
  /\ stage' = "save"
  /\ UNCHANGED <<track, acked, owner, engine, keys, batch, table, offline, run, marked, given, odd, fed>>

Save ==
  /\ stage = "save"
  /\ \/ saved' = Warm(owner) /\ UNCHANGED <<odd, spent>>
     \/ Spend("redis") /\ odd' = odd \cup {"stale"} /\ UNCHANGED saved
  /\ stage' = "ack"
  /\ UNCHANGED <<track, acked, owner, engine, claims, last, batch, table, offline, notify, fed>>

Ack ==
  /\ stage = "ack"
  /\ acked' = acked \cup batch.fixes
  /\ stage' = "idle" /\ batch' = NoBatch
  /\ UNCHANGED <<track, owner, engine, keys, table, offline, notify, odd, fed, spent>>

\* The shard goes to another worker; nothing clears the rule engine of the first.
Handoff ==
  /\ stage = "idle" /\ Spend("handoff")
  /\ owner' \in Workers \ {owner}
  /\ odd' = IF engine[owner'].io = "unset" THEN odd ELSE odd \cup {"stale"}
  /\ UNCHANGED <<track, acked, engine, keys, batch, stage, table, offline, notify, fed>>

\* The owner dies: its batch is delivered again, its sweep and its delivery stop,
\* and the queue hands the delivery out again.
Crash ==
  /\ Spend("crash")
  /\ engine' = [engine EXCEPT ![owner] = Fresh]
  /\ owner' \in Workers
  /\ odd' = odd \cup (IF stage \in {"cool", "insert"} \/ sweep[owner] = "insert" THEN {"claimed"} ELSE {})
                \cup (IF stage = "notify" \/ sweep[owner] = "notify" THEN {"untold"} ELSE {})
                \cup (IF engine[owner'].io = "unset" \/ owner' = owner THEN {} ELSE {"stale"})
  /\ batch' = NoBatch /\ stage' = "idle"
  /\ sweep' = [sweep EXCEPT ![owner] = "none"]
  /\ jobs' = jobs \cup run.job /\ run' = NoRun
  /\ fed' = fed \cap acked
  /\ UNCHANGED <<track, acked, keys, table, spell, flag, marked, given>>

-----------------------------------------------------------------------------
(* runOfflineSweep, on any worker.  The device is silent for hours before   *)
(* it counts as offline and a sweep runs every minute, so one has seen it   *)
(* return before the next spell.                                            *)

Turn ==
  /\ \A w \in Workers : sweep[w] = "none"
  /\ IF spell.quiet THEN spell' = [spell EXCEPT !.quiet = FALSE]
                    ELSE spell.n < NumSpells /\ ~ flag /\ spell' = [n |-> spell.n + 1, quiet |-> TRUE]
  /\ UNCHANGED <<track, acked, owner, engine, keys, batch, stage, table, flag, sweep, notify, odd, fed, spent>>

SweepRead(w) ==
  /\ track = <<>> /\ sweep[w] = "none"
  /\ spell.quiet # flag
  /\ sweep' = [sweep EXCEPT ![w] = IF spell.quiet THEN "claim" ELSE "clear"]
  /\ UNCHANGED <<track, acked, owner, engine, keys, batch, stage, table, spell, flag, notify, odd, fed, spent>>

\* SET NX: the sweep that loses has nothing to write.
SweepClaim(w) ==
  /\ sweep[w] = "claim"
  /\ flag' = TRUE
  /\ sweep' = [sweep EXCEPT ![w] = IF flag THEN "none" ELSE "insert"]
  /\ UNCHANGED <<track, acked, owner, engine, keys, batch, stage, table, spell, notify, odd, fed, spent>>

SweepInsert(w) ==
  /\ sweep[w] = "insert"
  /\ Stored({Alert("offline", spell.n)})
  /\ sweep' = [sweep EXCEPT ![w] = "notify"]
  /\ UNCHANGED <<track, acked, owner, engine, keys, batch, stage, spell, flag, notify, fed, spent>>

SweepFails(w) ==
  /\ sweep[w] = "insert" /\ Spend("fail")
  /\ flag' = FALSE
  /\ sweep' = [sweep EXCEPT ![w] = "none"]
  /\ UNCHANGED <<track, acked, owner, engine, keys, batch, stage, table, spell, notify, odd, fed>>

SweepNotify(w) ==
  /\ sweep[w] = "notify"
  /\ \/ jobs' = Queued({Alert("offline", spell.n)}) /\ UNCHANGED spent
     \/ Spend("redis") /\ UNCHANGED jobs
  /\ sweep' = [sweep EXCEPT ![w] = "none"]
  /\ UNCHANGED <<track, acked, owner, engine, keys, batch, stage, table, spell, flag, run, marked, given, odd, fed>>

SweepClear(w) ==
  /\ sweep[w] = "clear"
  /\ flag' = FALSE
  /\ sweep' = [sweep EXCEPT ![w] = "none"]
  /\ UNCHANGED <<track, acked, owner, engine, keys, batch, stage, table, spell, notify, odd, fed, spent>>

-----------------------------------------------------------------------------
(* runNotify and dispatchEvent, one channel at a time.                     *)

world == <<track, acked, owner, engine, keys, batch, stage, table, offline, fed>>

Start ==
  /\ run = NoRun
  /\ \E j \in jobs : /\ jobs' = jobs \ {j}
                     /\ run' = [job |-> {j}, todo |-> Channels, failed |-> FALSE, sent |-> {}]
  /\ UNCHANGED <<world, marked, given, odd, spent>>

Running == CHOOSE j \in run.job : TRUE

\* A channel that was served on an earlier attempt is passed over.
Skip(c) ==
  /\ run.sent = {} /\ c \in run.todo /\ <<Running.alert, c>> \in marked
  /\ run' = [run EXCEPT !.todo = @ \ {c}]
  /\ UNCHANGED <<world, jobs, marked, given, odd, spent>>

\* Mutant of Send: a retry does not ask which channels were served.
SendAgain(c) ==
  /\ run.sent = {} /\ c \in run.todo
  /\ given' = given \cup {<<Running.alert, c>>}
  /\ odd' = IF <<Running.alert, c>> \in given THEN odd \cup {"doubled"} ELSE odd
  /\ run' = [run EXCEPT !.sent = {c}]
  /\ UNCHANGED <<world, jobs, marked, spent>>

\* A channel that is not marked is sent the alert.
Send(c) ==
  /\ run.sent = {} /\ c \in run.todo /\ <<Running.alert, c>> \notin marked
  /\ given' = given \cup {<<Running.alert, c>>}
  /\ odd' = IF <<Running.alert, c>> \in given THEN odd \cup {"doubled"} ELSE odd
  /\ run' = [run EXCEPT !.sent = {c}]
  /\ UNCHANGED <<world, jobs, marked, spent>>

\* The mark comes after the send; when it fails, the channel counts as failed.
Mark(c) ==
  /\ c \in run.sent
  /\ \/ /\ marked' = marked \cup {<<Running.alert, c>>} /\ UNCHANGED spent
        /\ run' = [run EXCEPT !.sent = {}, !.todo = @ \ {c}]
     \/ /\ Spend("redis") /\ UNCHANGED marked
        /\ run' = [run EXCEPT !.sent = {}, !.todo = @ \ {c}, !.failed = TRUE]
  /\ UNCHANGED <<world, jobs, given, odd>>

SendFails(c) ==
  /\ run.sent = {} /\ c \in run.todo /\ <<Running.alert, c>> \notin marked
  /\ Spend("send")
  /\ run' = [run EXCEPT !.todo = @ \ {c}, !.failed = TRUE]
  /\ UNCHANGED <<world, jobs, marked, given, odd>>

\* A failed channel throws: the queue tries the job again up to its last attempt.
Finish ==
  /\ run # NoRun /\ run.todo = {}
  /\ LET j == Running
     IN jobs' = IF run.failed /\ j.tries + 1 < MaxTries THEN jobs \cup {[j EXCEPT !.tries = @ + 1]} ELSE jobs
  /\ run' = NoRun
  /\ UNCHANGED <<world, marked, given, odd, spent>>

-----------------------------------------------------------------------------
Next ==
  \/ Feed \/ Claim \/ Cool \/ Insert \/ InsertFails \/ Notify \/ Save \/ Ack
  \/ Handoff \/ Crash \/ Turn \/ Start \/ Finish
  \/ \E w \in Workers : \/ SweepRead(w) \/ SweepClaim(w) \/ SweepInsert(w)
                        \/ SweepFails(w) \/ SweepNotify(w) \/ SweepClear(w)
  \/ \E c \in Channels : Skip(c) \/ Send(c) \/ Mark(c) \/ SendFails(c)

Spec == Init /\ [][Next]_vars

\* The reading that the engine believes is high, or the silence that is flagged, has
\* its row.
Recorded ==
  /\ stage = "idle" /\ Warm(owner) = "high" =>
       LET low == {t \in fed : track[t] = "low"}
       IN low = {} \/ \E a \in table : a.rule = "panic" /\ a.at > Max(low)
  /\ flag /\ spell.quiet /\ (\A w \in Workers : sweep[w] # "insert") => Alert("offline", spell.n) \in table

\* The engine never takes an alarm as known, and a sweep a silence as reported, that
\* has no row: otherwise nothing would raise it again.  It holds through failed
\* inserts, replays, late fixes and moves of the shard, unless a claim outlived its
\* insert, a failed batch also held the low reading, or a worker judged by a reading
\* that was no longer the last one (persist, rollbackIo, saveIoState, runOfflineSweep).
AlarmIsRecorded ==
  odd \cap {"claimed", "blind", "stale", "order"} = {} => Recorded

\* No alert has two rows, whatever is replayed, and two alerts of a rule with a
\* cooldown are at least that far apart in fix time (gate, COOLDOWN_SCRIPT,
\* runOfflineSweep's claim), if Redis answered and, for the cooldown, every insert
\* held and its marker never moved back.
AlertsDoNotRepeat ==
  Never({"redis"}) =>
    /\ "twice" \notin odd
    /\ Never({"fail"}) /\ "back" \notin odd => \A a, b \in table :
         a.rule = "speed" /\ b.rule = "speed" /\ a.at < b.at => a.at + Cooldown <= b.at

\* A retry never sends to a channel that was served, and once the queue is empty
\* every stored alert has reached every channel that did not refuse its last attempt
\* (enqueueNotify, runNotify, dispatchEvent), if no worker died in between.
Told ==
  /\ Never({"redis", "crash"}) => "doubled" \notin odd
  /\ (/\ Never({"redis"}) /\ "untold" \notin odd /\ spent["send"] < MaxTries
      /\ stage = "idle" /\ jobs = {} /\ run = NoRun /\ \A w \in Workers : sweep[w] # "notify")
       => table \X Channels \subseteq given
=============================================================================
