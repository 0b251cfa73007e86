-------------------------------- MODULE TripLog --------------------------------
(***************************************************************************)
(* The trips of one device: the streaming engine                           *)
(* (apps/worker/src/trip/engine.ts), the persister that turns its events   *)
(* into rows (trip/persister.ts, trip/writer.ts), the batch handler that   *)
(* asks for rebuilds (main.ts, jobs/queue.ts) and the rebuild itself       *)
(* (jobs/recomputeWorker.ts, trip/recompute.ts).                           *)
(*                                                                         *)
(* The device has a fix for every tick from 1 to NumFixes: it drives or    *)
(* its ignition is off.  A tick stands for the run of fixes that completes *)
(* a threshold of the engine, so a drive opens a trip and a stop closes    *)
(* it.  Distances, drivers, skewed clocks and unregistered devices are     *)
(* left out.  One worker at a time has the device's shard (ShardLease);    *)
(* the positions of a batch are durable before its trips are looked at     *)
(* (ShardPipeline).                                                        *)
(***************************************************************************)
EXTENDS Naturals, Sequences, FiniteSets, SequencesExt

CONSTANTS
  Workers,
  NumFixes, MaxClock, BatchSize,
  Guard,        \* RECOMPUTE_GUARD_MS
  Margin,       \* the stop threshold by which a rebuild pads what it reads
  Horizon,      \* POSITIONS_RETENTION_MS
  Width,        \* MAX_RECOMPUTE_WINDOW_MS
  MaxIdle,      \* ORPHAN_TRIP_MAX_IDLE_MS
  Hour,         \* the ticks that share a part of a job's id
  MaxLate,      \* batches that leave an older fix behind
  MaxFails,     \* statements of the persister and of the rebuild that fail
  MaxDown,      \* times that the queue refuses a job
  MaxHandoffs, MaxCrashes,
  MaxKinds      \* kinds of these that come together in one behaviour

ASSUME TripAssumption ==
  /\ NumFixes \in Nat /\ MaxClock \in Nat /\ BatchSize \in Nat \ {0}
  /\ Guard \in Nat /\ Margin \in Nat /\ Horizon \in Nat /\ Width \in Nat /\ MaxIdle \in Nat
  /\ Hour \in Nat \ {0}
  /\ MaxLate \in Nat /\ MaxFails \in Nat /\ MaxDown \in Nat /\ MaxHandoffs \in Nat
  /\ MaxCrashes \in Nat /\ MaxKinds \in Nat

VARIABLES
  track,    \* tick -> what the device does
  clock,
  pos,      \* ticks whose position is durable
  acked,    \* ticks whose stream entry is acknowledged
  owner,    \* the worker that has the shard
  engine,   \* worker -> TripEngine: [trip, seen], trip = 0 when parked
  late,     \* worker -> the earliest late fix not yet handed on, 0 for none
  held,     \* worker -> pendingCompensation: the windows the queue refused
  openId,   \* worker -> TripPersister.openIds: the open row, 0 for none
  batch,    \* [fixes, events, next]: what the owner works on
  stage,    \* where it is in the batch
  rows,     \* the trips table; the index is the id
  jobs,     \* the recompute queue
  job,      \* the rebuild that runs
  sweep,    \* the orphan sweep: [due, rows], what it has read and not yet closed
  apart,    \* history: the ways in which a rebuild did not see whole, settled journeys
  spent     \* faults of each kind so far

vars == <<track, clock, pos, acked, owner, engine, late, held, openId, batch, stage,
          rows, jobs, job, sweep, apart, spent>>
world == <<track, clock, pos, acked, owner>>
memory == <<engine, late, held, openId>>

Ticks == 1 .. NumFixes
Less(a, b) == IF a > b THEN a - b ELSE 0

Faults == {"late", "fail", "down", "handoff", "crash"}
Limit(k) == CASE k = "late" -> MaxLate [] k = "fail" -> MaxFails [] k = "down" -> MaxDown
              [] k = "handoff" -> MaxHandoffs [] k = "crash" -> MaxCrashes
Spend(k) == /\ spent[k] < Limit(k)
            /\ Cardinality({j \in Faults : j = k \/ spent[j] > 0}) <= MaxKinds
            /\ spent' = [spent EXCEPT ![k] = @ + 1]
Never(K) == \A k \in K : spent[k] = 0

NoBatch == [fixes |-> {}, events |-> <<>>, next |-> 1]
NoJob == [phase |-> "none", req |-> {}, from |-> 0, to |-> 0, doomed |-> {}, trips |-> {}, live |-> {}]
With(status) == {i \in DOMAIN rows : rows[i].status = status}

Init ==
  /\ track \in [Ticks -> {"drive", "off"}]
  /\ clock = 0 /\ pos = {} /\ acked = {} /\ owner \in Workers
  /\ engine = [w \in Workers |-> [trip |-> 0, seen |-> 0]]
  /\ late = [w \in Workers |-> 0] /\ held = [w \in Workers |-> {}]
  /\ openId = [w \in Workers |-> 0]
  /\ batch = NoBatch /\ stage = "idle"
  /\ rows = <<>> /\ jobs = {} /\ job = NoJob /\ sweep = [due |-> FALSE, rows |-> {}]
  /\ apart = {} /\ spent = [k \in Faults |-> 0]

-----------------------------------------------------------------------------
(* TripEngine.                                                             *)

Event(kind, start, end) == [type |-> kind, start |-> start, end |-> end]
Moved(e, t) ==
  CASE e.trip = 0 /\ track[t] = "drive" ->
         [e EXCEPT !.seen = t, !.trip = t, !.out = Append(@, Event("open", t, t))]
    [] e.trip > 0 /\ track[t] = "off" ->
         [e EXCEPT !.seen = t, !.trip = 0, !.out = Append(@, Event("close", e.trip, t))]
    [] OTHER -> [e EXCEPT !.seen = t]

\* Mutant of Step: a late record is dropped and forgotten.
StepUnnoted(e, t) == IF t < e.seen THEN e ELSE Moved(e, t)

\* One record: a late one is dropped and noted, the others move the engine.
Step(e, t) ==
  IF t < e.seen THEN [e EXCEPT !.late = IF @ = 0 THEN t ELSE Min({@, t})] ELSE Moved(e, t)

Feed(e, S) == FoldLeft(Step, e, SetToSortSeq(S, <))

\* The trips that a fresh engine closes over a set of positions.
Trips(S) == SelectSeq(Feed([trip |-> 0, seen |-> 0, late |-> 0, out |-> <<>>], S).out,
                      LAMBDA ev : ev.type = "close")

-----------------------------------------------------------------------------
(* The batch handler and TripPersister.apply, one statement at a time.     *)

\* A tick is long against a batch and a rebuild.
Tick ==
  /\ clock < MaxClock /\ stage = "idle" /\ job = NoJob
  /\ clock' = clock + 1
  /\ UNCHANGED <<track, pos, acked, owner, memory, batch, stage, rows, jobs, job, sweep, spent, apart>>

\* The owner takes a batch of what has arrived, writes its positions and feeds
\* the engine; a buffered fix may be left for a later batch.
Deliver ==
  /\ stage = "idle"
  /\ \E B \in SUBSET {t \in Ticks \ acked : t <= clock} :
       LET e == engine[owner]
           r == Feed([trip |-> e.trip, seen |-> e.seen, late |-> late[owner], out |-> <<>>], B)
       IN /\ B # {} /\ Cardinality(B) <= BatchSize
          /\ IF \E t \in Ticks \ (acked \cup B) : \E u \in B : t < u
               THEN Spend("late") ELSE UNCHANGED spent
          /\ pos' = pos \cup B
          /\ engine' = [engine EXCEPT ![owner] = [trip |-> r.trip, seen |-> r.seen]]
          /\ late' = [late EXCEPT ![owner] = r.late]
          /\ batch' = [fixes |-> B, events |-> r.out, next |-> 1]
  /\ stage' = "apply"
  /\ UNCHANGED <<track, clock, acked, owner, held, openId, rows, jobs, job, sweep, apart>>

Next1 == batch.events[batch.next]
Applying(kind) == /\ stage = "apply" /\ batch.next <= Len(batch.events)
                  /\ Next1.type = kind

\* closeTrip: UPDATE ... WHERE status = 'open'.
Finished(id, end) ==
  IF rows[id].status = "open" THEN [rows EXCEPT ![id].status = "closed", ![id].end = end] ELSE rows

\* An open event finds a row that the engine never closed: the row ends at its
\* last position before the new trip.
ForceClose ==
  /\ Applying("open") /\ openId[owner] > 0
  /\ LET id == openId[owner]
         seen == {t \in pos : rows[id].start <= t /\ t < Next1.start}
     IN rows' = Finished(id, IF seen = {} THEN Next1.start ELSE Max(seen))
  /\ openId' = [openId EXCEPT ![owner] = 0]
  /\ UNCHANGED <<world, engine, late, held, batch, stage, jobs, job, sweep, spent, apart>>

OpenAnyway ==
  /\ Applying("open")
  /\ rows' = Append(rows, [start |-> Next1.start, end |-> 0, status |-> "open"])
  /\ openId' = [openId EXCEPT ![owner] = Len(rows')]
  /\ batch' = [batch EXCEPT !.next = @ + 1]
  /\ UNCHANGED <<world, engine, late, held, stage, jobs, job, sweep, spent, apart>>

OpenTrip ==
  /\ Applying("open") /\ openId[owner] = 0
  /\ rows' = Append(rows, [start |-> Next1.start, end |-> 0, status |-> "open"])
  /\ openId' = [openId EXCEPT ![owner] = Len(rows')]
  /\ batch' = [batch EXCEPT !.next = @ + 1]
  /\ UNCHANGED <<world, engine, late, held, stage, jobs, job, sweep, spent, apart>>

\* A close without a known row is counted as missed.
CloseTrip ==
  /\ Applying("close")
  /\ rows' = IF openId[owner] = 0 THEN rows ELSE Finished(openId[owner], Next1.end)
  /\ openId' = [openId EXCEPT ![owner] = 0]
  /\ batch' = [batch EXCEPT !.next = @ + 1]
  /\ UNCHANGED <<world, engine, late, held, stage, jobs, job, sweep, spent, apart>>

\* A statement fails: the rest of the batch's events is dropped.
PersistFails ==
  /\ stage = "apply" /\ batch.next <= Len(batch.events)
  /\ Spend("fail")
  /\ stage' = "compensate"
  /\ UNCHANGED <<world, memory, batch, rows, jobs, job, sweep, apart>>

Request(from, to, due) == [from |-> from, to |-> to, due |-> due]

\* The window of the batch's trips, due when its end has settled.
Lost == LET span == ToSet(batch.events)
        IN Request(Min({ev.start : ev \in span}), Max({ev.end : ev \in span}) + Guard, clock + Guard)

\* The late fixes, up to what has settled, or from the live edge once it has.
Behind(w) == IF late[w] + Guard >= clock THEN Request(late[w], late[w] + Guard, late[w] + Guard)
                                         ELSE Request(late[w], clock - Guard, clock)

\* queue.add: a job whose id exists, waiting or running, is not added again.
SameId(a, b) == a.from \div Hour = b.from \div Hour /\ a.to \div Hour = b.to \div Hour
Queued(R) == jobs \cup {r \in R : ~ \E j \in jobs \cup job.req : SameId(j, r)}

Compensate ==
  /\ stage = "compensate"
  /\ \/ /\ jobs' = Queued({Lost}) /\ UNCHANGED <<held, spent>>
     \/ /\ Spend("down")
        /\ held' = [held EXCEPT ![owner] = {LET all == @ \cup {Lost} IN
                      Request(Min({r.from : r \in all}), Max({r.to : r \in all}), clock + Guard)}]
        /\ UNCHANGED jobs
  /\ stage' = "apply" /\ batch' = [batch EXCEPT !.next = Len(batch.events) + 1]
  /\ UNCHANGED <<world, engine, late, openId, rows, job, sweep, apart>>

\* What a worker hands to the queue at the end of a batch, of any of its shards: the
\* queue takes it all or, while it is down, nothing.
DrainForgets(w) ==
  /\ \/ jobs' = Queued(held[w] \cup (IF late[w] = 0 THEN {} ELSE {Behind(w)})) /\ UNCHANGED spent
     \/ Spend("down") /\ UNCHANGED jobs
  /\ held' = [held EXCEPT ![w] = {}] /\ late' = [late EXCEPT ![w] = 0]

Drain(w) ==
  \/ /\ jobs' = Queued(held[w] \cup (IF late[w] = 0 THEN {} ELSE {Behind(w)}))
     /\ held' = [held EXCEPT ![w] = {}] /\ late' = [late EXCEPT ![w] = 0]
     /\ UNCHANGED spent
  \/ /\ held[w] # {} \/ late[w] > 0
     /\ Spend("down")
     /\ UNCHANGED <<jobs, held, late>>

EndBatch ==
  /\ stage = "apply" /\ batch.next > Len(batch.events)
  /\ Drain(owner)
  /\ acked' = acked \cup batch.fixes
  /\ stage' = "idle" /\ batch' = NoBatch
  /\ UNCHANGED <<track, clock, pos, owner, engine, openId, rows, job, sweep, apart>>

\* A batch of another shard of a worker that no longer has this one.
OtherShard ==
  /\ \E w \in Workers : /\ held[w] # {} \/ late[w] > 0
                        /\ w = owner => stage = "idle"
                        /\ Drain(w)
  /\ UNCHANGED <<world, engine, openId, batch, stage, rows, job, sweep, apart>>

-----------------------------------------------------------------------------
(* Shards that move: forgetShard, warmStart and the orphan sweep.          *)

Warm == IF With("open") = {} THEN {0} ELSE With("open")

Handoff ==
  /\ stage = "idle" /\ Spend("handoff")
  /\ \E w \in Workers \ {owner}, id \in Warm :
       /\ owner' = w
       /\ openId' = [openId EXCEPT ![owner] = 0, ![w] = id]
  /\ UNCHANGED <<track, clock, pos, acked, engine, late, held, batch, stage, rows, jobs, job, sweep, apart>>

\* The owner dies and comes back, or another worker takes its shard; a rebuild
\* that ran in the process is taken up again.
Crash ==
  /\ Spend("crash")
  /\ engine' = [engine EXCEPT ![owner] = [trip |-> 0, seen |-> 0]]
  /\ late' = [late EXCEPT ![owner] = 0] /\ held' = [held EXCEPT ![owner] = {}]
  /\ \E w \in Workers, id \in Warm :
       /\ owner' = w
       /\ openId' = [openId EXCEPT ![owner] = 0, ![w] = id]
       /\ sweep' = [due |-> w = owner, rows |-> {}]
  /\ batch' = NoBatch /\ stage' = "idle"
  /\ \/ jobs' = jobs \cup job.req /\ job' = NoJob
     \/ UNCHANGED <<jobs, job>>
  /\ UNCHANGED <<track, clock, pos, acked, rows, apart>>

LastFix(i) == Max({rows[i].start} \cup {t \in pos : t >= rows[i].start})

SweepRead ==
  /\ sweep.due
  /\ sweep' = [due |-> FALSE,
               rows |-> {[id |-> i, end |-> LastFix(i)] : i \in {j \in With("open") : LastFix(j) + MaxIdle < clock}}]
  /\ UNCHANGED <<world, memory, batch, stage, rows, jobs, job, spent, apart>>

\* Mutant of SweepClose: the id of the device is forgotten, whichever row it names.
SweepCloseByDevice ==
  /\ \E o \in sweep.rows :
       /\ rows' = Finished(o.id, o.end)
       /\ openId' = [openId EXCEPT ![owner] = 0]
       /\ sweep' = [sweep EXCEPT !.rows = @ \ {o}]
  /\ UNCHANGED <<world, engine, late, held, batch, stage, jobs, job, spent, apart>>

\* The id is forgotten only when it is still the row that was closed.
SweepClose ==
  /\ \E o \in sweep.rows :
       /\ rows' = Finished(o.id, o.end)
       /\ openId' = [openId EXCEPT ![owner] = IF @ = o.id THEN 0 ELSE @]
       /\ sweep' = [sweep EXCEPT !.rows = @ \ {o}]
  /\ UNCHANGED <<world, engine, late, held, batch, stage, jobs, job, spent, apart>>

-----------------------------------------------------------------------------
(* recomputeTrips, one query at a time.                                    *)

Floor == Less(clock, Horizon)

\* What a rebuild may not see of the journeys: one still goes on, its window is too
\* old, one reaches out of it, or one that lies beyond the window has no row.
Driving == stage # "idle" \/ engine[owner].trip > 0 \/ With("open") # {}
Recorded(ev) == \E i \in With("closed") : rows[i].start = ev.start /\ rows[i].end = ev.end
Clipped(ev) == ev.start <= job.to /\ ev.end >= job.from
               /\ (ev.start < job.from \/ ev.end > job.to + Margin)
Watch ==
  LET all == IF job.phase = "positions" THEN ToSet(Trips(pos)) ELSE {}
  IN apart' = apart \cup (IF Driving THEN {"driving"} ELSE {})
                    \cup (IF job = NoJob /\ job' = NoJob THEN {"old"} ELSE {})
                    \cup (IF \E ev \in all : Clipped(ev) THEN {"clipped"} ELSE {})
                    \cup (IF \E ev \in all : ev.start > job.to /\ ~ Recorded(ev) THEN {"edge"} ELSE {})

\* The window grows to the closed trips that it touches and is cut at the age
\* of the oldest positions and at its greatest width.
ReadWindow ==
  /\ job = NoJob
  /\ \E j \in jobs :
       LET hit == {i \in With("closed") : rows[i].start <= j.to /\ rows[i].end >= j.from}
           lo == Min({j.from} \cup {rows[i].start : i \in hit})
           hi == Max({j.to} \cup {rows[i].end : i \in hit})
       IN /\ j.due <= clock
          /\ jobs' = jobs \ {j}
          /\ job' = IF hi <= Floor THEN NoJob
                    ELSE [NoJob EXCEPT !.phase = "ids", !.req = {j}, !.to = hi, !.live = With("open"),
                                       !.from = Max({lo, Floor, Less(hi, Width)})]
  /\ Watch
  /\ UNCHANGED <<world, memory, batch, stage, rows, sweep, spent>>

ReadIds ==
  /\ job.phase = "ids"
  /\ job' = [job EXCEPT !.phase = "positions",
                        !.doomed = {i \in With("closed") : rows[i].start \in job.from .. job.to}]
  /\ Watch
  /\ UNCHANGED <<world, memory, batch, stage, rows, jobs, sweep, spent>>

\* Positions are dropped a little after the horizon that the rebuild assumes.
ReadPositions ==
  /\ job.phase = "positions"
  /\ LET read == {t \in pos : /\ t \in Less(job.from, Margin) .. (job.to + Margin)
                              /\ t + Horizon + Margin >= clock}
     IN job' = [job EXCEPT !.phase = "commit",
                           !.trips = {p \in Ticks \X Ticks : /\ p[1] \in job.from .. job.to
                                                             /\ Event("close", p[1], p[2]) \in ToSet(Trips(read))}]
  /\ Watch
  /\ UNCHANGED <<world, memory, batch, stage, rows, jobs, sweep, spent>>

\* The rows of the trips found, in some order.
Rebuilt == LET found == SetToSeq(job.trips)
           IN [n \in DOMAIN found |-> [start |-> found[n][1], end |-> found[n][2], status |-> "closed"]]

\* Mutant of Commit: every closed trip of the window goes, not only the rows read.
CommitRange ==
  /\ job.phase = "commit"
  /\ LET starts == {p[1] : p \in job.trips}
         gone(i) == \/ rows[i].start \in job.from .. job.to /\ rows[i].status = "closed"
                    \/ rows[i].start \in starts
     IN rows' = [i \in DOMAIN rows |-> IF gone(i) THEN [rows[i] EXCEPT !.status = "gone"] ELSE rows[i]]
                \o Rebuilt
  /\ job' = NoJob
  /\ Watch
  /\ UNCHANGED <<world, memory, batch, stage, jobs, sweep, spent>>

\* The transaction: the rows of before go, the trips come, and whatever else
\* starts where one of them does goes too.
Commit ==
  /\ job.phase = "commit"
  /\ LET starts == {p[1] : p \in job.trips}
         gone(i) == \/ i \in job.doomed /\ rows[i].status = "closed"
                    \/ rows[i].start \in starts
     IN rows' = [i \in DOMAIN rows |-> IF gone(i) THEN [rows[i] EXCEPT !.status = "gone"] ELSE rows[i]]
                \o Rebuilt
  /\ job' = NoJob
  /\ Watch
  /\ UNCHANGED <<world, memory, batch, stage, jobs, sweep, spent>>

\* The queue tries a failed job again.
RebuildFails ==
  /\ job # NoJob /\ Spend("fail")
  /\ jobs' = jobs \cup job.req /\ job' = NoJob
  /\ UNCHANGED <<world, memory, batch, stage, rows, sweep, apart>>

-----------------------------------------------------------------------------
Next ==
  \/ Tick \/ Deliver \/ ForceClose \/ OpenTrip \/ CloseTrip \/ PersistFails \/ Compensate
  \/ EndBatch \/ OtherShard \/ Handoff \/ Crash \/ SweepRead \/ SweepClose
  \/ ReadWindow \/ ReadIds \/ ReadPositions \/ Commit \/ RebuildFails

Spec == Init /\ [][Next]_vars

\* At most one row of the device is open, through failed statements, moves of the
\* shard, a crash and the orphan sweep that runs beside the batches of the next
\* owner: an open row beside the current one would be billed to now for ever
\* (TripPersister.apply's force-close, closeOrphans, warmStart, forgetShard).
OneOpenRow == Cardinality(With("open")) <= 1

Quiet == /\ ~ Driving /\ jobs = {} /\ job = NoJob
         /\ \A w \in Workers : late[w] = 0 /\ held[w] = {}

Exact ==
  LET span(r) == <<r.start, r.end>>
      kept == SelectSeq(rows, LAMBDA r : r.status = "closed" /\ r.start > Floor)
      all == SelectSeq(Trips(pos), LAMBDA ev : ev.start > Floor)
  IN /\ Len(kept) = Len(all)
     /\ {span(kept[n]) : n \in DOMAIN kept} = {span(all[n]) : n \in DOMAIN all}

\* Once nothing is pending, the closed trips are exactly the journeys of the stored
\* positions, each recorded once, whatever came late, failed or was refused by the
\* queue, as long as one worker had the shard and every rebuild ran between two
\* drives over whole journeys (takeLate, markLate, pendingCompensation,
\* enqueueRecompute, recomputeTrips).
SettledIsExact ==
  Quiet /\ apart = {} /\ Never({"crash", "handoff"}) => Exact

Replaced(i) == \E k \in DOMAIN rows' : /\ rows'[k].status = "closed"
                                       /\ rows'[k].start <= rows[i].end /\ rows[i].start <= rows'[k].end

\* A rebuild never takes a closed trip out of the history without a trip over the
\* same time in its place, also when streaming closes trips between its queries and
\* when positions have been dropped, as long as its window holds whole journeys and
\* the trip was not open when the window was read (recomputeTrips).
RebuildReplaces ==
  [][Never({"crash", "handoff"}) /\ "clipped" \notin apart =>
       \A i \in With("closed") \ job.live : rows'[i].status = "gone" => Replaced(i)]_vars
=============================================================================
