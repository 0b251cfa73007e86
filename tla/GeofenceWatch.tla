------------------------------ MODULE GeofenceWatch ------------------------------
(***************************************************************************)
(* One device and one geofence: the transition engine                      *)
(* (apps/worker/src/geofence/engine.ts), the persister that records the    *)
(* crossings (geofence/persister.ts, geofence/writer.ts) and the part of   *)
(* the batch handler that joins them (apps/worker/src/main.ts, onBatch).   *)
(*                                                                         *)
(* The engine's state is in the memory of a worker process, the events are *)
(* in Postgres, the claims and the marker of the confirmed side in Redis;  *)
(* a shard moves between workers, and a batch that was not acknowledged is *)
(* processed again by the next owner.  One worker at a time processes the  *)
(* shard (ShardLease); of the entries of the stream only the device's      *)
(* fixes are kept.                                                         *)
(***************************************************************************)
EXTENDS Naturals, Sequences, FiniteSets, SequencesExt

CONSTANTS
  Workers, None,
  NumFixes,      \* fixes that the device sends
  Lag,           \* how much older than its place in the stream a late fix is
  BatchSize,
  Streak,        \* enterStreak and exitStreak of GeofenceEngine
  MaxOdd,        \* fixes that are late, or not usable (invalid or skewed)
  MaxFails,      \* inserts of events that fail
  MaxLosses,     \* best-effort calls that fail: the claim, the close, the marker
  MaxEdits,      \* times the fence is removed or added
  MaxHandoffs,   \* times the shard goes to another worker
  MaxCrashes,    \* deaths of a worker
  MaxKinds       \* kinds of these that come together in one behaviour

ASSUME GeofenceAssumption ==
  /\ NumFixes \in Nat /\ Lag \in Nat /\ MaxOdd \in Nat /\ MaxKinds \in Nat
  /\ BatchSize \in Nat \ {0} /\ Streak \in Nat /\ Streak > 1
  /\ MaxFails \in Nat /\ MaxLosses \in Nat /\ MaxEdits \in Nat
  /\ MaxHandoffs \in Nat /\ MaxCrashes \in Nat
  /\ None \notin {"in", "out"} \cup [inside : BOOLEAN, pend : {"in", "out", None}, n : Nat]

VARIABLES
  stream,   \* the device's fixes, as they arrived
  acked,    \* how many of them are acknowledged
  fence,    \* the fence exists
  owner,    \* the worker that has the shard
  engine,   \* worker -> what its engine knows of the device
  stage,    \* where the owner is in the batch
  batch,    \* [to, out, fresh, mine]: its last fix, the transitions, those to be
            \* recorded, the claims to release
  claims,   \* geofence:evt keys
  marker,   \* geofence:state: the confirmed side is "in"
  events,   \* the rows of the events table
  spent     \* faults of each kind so far

vars == <<stream, acked, fence, owner, engine, stage, batch, claims, marker, events, spent>>

Sides == {"in", "out"}
FixType == [side : Sides, usable : BOOLEAN, at : Nat]
Crossing == [side : Sides, at : Nat]
Pair == [inside : BOOLEAN, pend : Sides \cup {None}, n : Nat]
Unseen == [seen |-> 0, pair |-> None]
NoBatch == [to |-> 0, out |-> <<>>, fresh |-> <<>>, mine |-> {}]

Faults == {"odd", "fail", "loss", "edit", "handoff", "crash"}
Limit(k) == CASE k = "odd" -> MaxOdd [] k = "fail" -> MaxFails [] k = "loss" -> MaxLosses [] k = "edit" -> MaxEdits
              [] k = "handoff" -> MaxHandoffs [] k = "crash" -> MaxCrashes
Spend(k) == /\ spent[k] < Limit(k)
            /\ Cardinality({j \in Faults : j = k \/ spent[j] > 0}) <= MaxKinds
            /\ spent' = [spent EXCEPT ![k] = @ + 1]

\* Every variable has its type, and a streak in the making is shorter than the
\* one that confirms a side.
TypeOK ==
  /\ stream \in Seq(FixType) /\ acked \in 0 .. Len(stream)
  /\ fence \in BOOLEAN /\ owner \in Workers
  /\ engine \in [Workers -> [seen : Nat, pair : Pair \cup {None}]]
  /\ stage \in {"idle", "claim", "insert", "close", "save", "ack"}
  /\ batch \in [to : 0 .. Len(stream), out : Seq(Crossing), fresh : Seq(Crossing),
                mine : SUBSET Crossing]
  /\ claims \subseteq Crossing /\ marker \in BOOLEAN
  /\ events \in Seq([side : Sides, at : Nat, ended : Nat])
  /\ spent \in [Faults -> Nat]
  /\ \A w \in Workers : engine[w].pair # None => engine[w].pair.n < Streak

Init ==
  /\ stream = <<>> /\ acked = 0 /\ fence = TRUE
  /\ owner \in Workers
  /\ engine = [w \in Workers |-> Unseen]
  /\ stage = "idle" /\ batch = NoBatch
  /\ claims = {} /\ marker = FALSE /\ events = <<>>
  /\ spent = [k \in Faults |-> 0]

-----------------------------------------------------------------------------
(* The world: the device, the operator, the shard's leases.                *)

\* A fix arrives; buffered ones come late.
Fix ==
  /\ Len(stream) < NumFixes
  /\ \E s \in Sides, u \in BOOLEAN, lag \in {0, Lag} :
       /\ stream' = Append(stream, [side |-> s, usable |-> u, at |-> Len(stream) + 1 + Lag - lag])
       /\ IF u /\ lag = 0 THEN UNCHANGED spent ELSE Spend("odd")
  /\ UNCHANGED <<acked, fence, owner, engine, stage, batch, claims, marker, events>>

Edit ==
  /\ stage = "idle" /\ Spend("edit")
  /\ fence' = ~fence
  /\ UNCHANGED <<stream, acked, owner, engine, stage, batch, claims, marker, events>>

\* The shard goes to another worker between two batches; the engine of the one
\* that loses it keeps what it knows.
Handoff ==
  /\ stage = "idle" /\ Spend("handoff")
  /\ \E w \in Workers \ {owner} : owner' = w
  /\ UNCHANGED <<stream, acked, fence, engine, stage, batch, claims, marker, events>>

\* The owner dies, with all its engine knew.
Crash ==
  /\ Spend("crash")
  /\ engine' = [engine EXCEPT ![owner] = Unseen]
  /\ owner' \in Workers
  /\ stage' = "idle" /\ batch' = NoBatch
  /\ UNCHANGED <<stream, acked, fence, claims, marker, events>>

-----------------------------------------------------------------------------
(* GeofenceEngine.                                                         *)

\* The pair before a fix: on first sight, the side the marker says.
Settled(in) == [inside |-> in, pend |-> None, n |-> 0]
Before(e) == IF e.pair = None THEN Settled(marker) ELSE e.pair

\* A fix on the other side, the observations of that side in a row with it, and
\* whether they are enough.
Other(e, r) == Before(e).inside # (r.side = "in")
Observed(e, r) == IF Before(e).pend = r.side THEN Before(e).n + 1 ELSE 1
Confirms(e, r) == Other(e, r) /\ Observed(e, r) >= Streak

\* Mutant of Step: the side that is confirmed is not kept.
StepForgets(e, r) ==
  IF Confirms(e, r) THEN Settled(Before(e).inside)
  ELSE IF Other(e, r) THEN [inside |-> Before(e).inside, pend |-> r.side, n |-> Observed(e, r)]
  ELSE Settled(r.side = "in")

\* step: a side is confirmed after Streak observations in a row.
Step(e, r) ==
  IF Other(e, r) /\ ~Confirms(e, r)
  THEN [inside |-> Before(e).inside, pend |-> r.side, n |-> Observed(e, r)]
  ELSE Settled(r.side = "in")

\* Mutant of Counts: a fix that is not usable is observed like any other.
CountsAny(e, r) == r.at >= e.seen

\* feed passes over fixes that are not usable and those that come late.
Counts(e, r) == r.usable /\ r.at >= e.seen

Observe(e, r) ==
  IF ~Counts(e, r) THEN e
  ELSE [seen |-> r.at, any |-> TRUE,
        pair |-> IF fence THEN Step(e, r) ELSE e.pair,
        out |-> IF fence /\ Confirms(e, r) THEN Append(e.out, [side |-> r.side, at |-> r.at])
                ELSE e.out]

\* The engine after each of the fixes of a batch.
Feeding(e, fixes) ==
  LET run[n \in 0 .. Len(fixes)] ==
        IF n = 0 THEN [seen |-> e.seen, pair |-> e.pair, out |-> <<>>, any |-> FALSE]
        ELSE Observe(run[n - 1], fixes[n])
  IN run

\* feed, and prune at its end.
Fed(e, fixes) ==
  LET f == Feeding(e, fixes)[Len(fixes)] IN
  [seen |-> f.seen, pair |-> IF f.any /\ ~fence THEN None ELSE f.pair, out |-> f.out]

\* Mutant of Rolled: the transitions are taken back in their own order.
RolledForward(pair, out) ==
  IF pair = None \/ out = <<>> THEN pair
  ELSE Settled(Last(out).side = "out")

\* rollback, last transition first: the pair is back on the side before the first.
Rolled(pair, out) ==
  IF pair = None \/ out = <<>> THEN pair
  ELSE Settled(Head(out).side = "out")

-----------------------------------------------------------------------------
(* onBatch.                                                                *)

\* records.sort by fixTime, which keeps the order of equal ones.
Place(fixes, i) ==
  Cardinality({j \in 1 .. Len(fixes) :
                 fixes[j].at < fixes[i].at \/ (fixes[j].at = fixes[i].at /\ j <= i)})
ByTime(fixes) ==
  [n \in 1 .. Len(fixes) |-> fixes[CHOOSE i \in 1 .. Len(fixes) : Place(fixes, i) = n]]

\* The marker is read and the engine fed with the fixes of a batch.
Feed ==
  /\ stage = "idle" /\ acked < Len(stream)
  /\ \E k \in 1 .. BatchSize :
       /\ acked + k <= Len(stream)
       /\ LET f == Fed(engine[owner], ByTime(SubSeq(stream, acked + 1, acked + k))) IN
            /\ engine' = [engine EXCEPT ![owner] = [seen |-> f.seen, pair |-> f.pair]]
            /\ batch' = [to |-> acked + k, out |-> f.out, fresh |-> <<>>, mine |-> {}]
            /\ stage' = IF f.out = <<>> THEN "ack" ELSE "claim"
  /\ UNCHANGED <<stream, acked, fence, owner, claims, marker, events, spent>>

\* The elements of a list at the indices I, in the order of the list.
Nth(I, k) == CHOOSE i \in I : Cardinality({j \in I : j <= i}) = k
At(list, I) == [k \in 1 .. Cardinality(I) |-> list[Nth(I, k)]]

\* Mutant of Fresh: what is claimed already is recorded again.
FreshAll == batch.out
Unclaimed ==
  {i \in 1 .. Len(batch.out) :
     batch.out[i] \notin claims /\ \A j \in 1 .. i - 1 : batch.out[j] # batch.out[i]}
Fresh == At(batch.out, Unclaimed)

\* SET NX for each transition: those that have a claim already are duplicates.
Claim ==
  /\ stage = "claim"
  /\ batch' = [batch EXCEPT !.fresh = Fresh, !.mine = ToSet(Fresh)]
  /\ claims' = claims \cup ToSet(Fresh)
  /\ stage' = IF Fresh = <<>> THEN "ack" ELSE "insert"
  /\ UNCHANGED <<stream, acked, fence, owner, engine, marker, events, spent>>

\* Redis refuses the commands: every transition is recorded, without a claim.
ClaimLost ==
  /\ stage = "claim" /\ Spend("loss")
  /\ batch' = [batch EXCEPT !.fresh = batch.out]
  /\ stage' = "insert"
  /\ UNCHANGED <<stream, acked, fence, owner, engine, claims, marker, events>>

\* writeGeofenceEvents.
Insert ==
  /\ stage = "insert"
  /\ events' = events \o [i \in 1 .. Len(batch.fresh) |->
                 [side |-> batch.fresh[i].side, at |-> batch.fresh[i].at, ended |-> 0]]
  /\ stage' = "close"
  /\ UNCHANGED <<stream, acked, fence, owner, engine, batch, claims, marker, spent>>

\* It fails: the claims are released, the engine is rolled back, and the batch
\* is acknowledged all the same.
InsertFails ==
  /\ stage = "insert" /\ Spend("fail")
  /\ claims' = claims \ batch.mine
  /\ engine' = [engine EXCEPT ![owner] = [seen |-> @.seen, pair |-> Rolled(@.pair, batch.out)]]
  /\ stage' = "ack"
  /\ UNCHANGED <<stream, acked, fence, owner, batch, marker, events>>

Latest(table, open) == CHOOSE j \in open : \A k \in open : table[j].at >= table[k].at

\* Mutant of Ends: the state ends with the batch's last crossing.
EndsWithBatch(table, c) ==
  LET open == {i \in 1 .. Len(table) :
                 table[i].side # c.side /\ table[i].ended = 0 /\ table[i].at < c.at} IN
  IF open = {} THEN table ELSE [table EXCEPT ![Latest(table, open)].ended = Last(batch.fresh).at]

\* closeGeofenceStates for one row: the latest opposite one before it ends now.
Ends(table, c) ==
  LET open == {i \in 1 .. Len(table) :
                 table[i].side # c.side /\ table[i].ended = 0 /\ table[i].at < c.at} IN
  IF open = {} THEN table ELSE [table EXCEPT ![Latest(table, open)].ended = c.at]

\* The table after each of the rows.
Closing(table, rows) ==
  LET run[n \in 0 .. Len(rows)] == IF n = 0 THEN table ELSE Ends(run[n - 1], rows[n])
  IN run

Close ==
  /\ stage = "close"
  /\ \/ events' = Closing(events, batch.fresh)[Len(batch.fresh)] /\ UNCHANGED spent
     \/ Spend("loss") /\ UNCHANGED events
  /\ stage' = "save"
  /\ UNCHANGED <<stream, acked, fence, owner, engine, batch, claims, marker>>

\* The marker of the confirmed side, last.
Save ==
  /\ stage = "save"
  /\ \/ marker' = (Last(batch.fresh).side = "in") /\ UNCHANGED spent
     \/ Spend("loss") /\ UNCHANGED marker
  /\ stage' = "ack"
  /\ UNCHANGED <<stream, acked, fence, owner, engine, batch, claims, events>>

\* XACK, by the shard consumer.
Ack ==
  /\ stage = "ack"
  /\ acked' = batch.to /\ batch' = NoBatch
  /\ stage' = "idle"
  /\ UNCHANGED <<stream, fence, owner, engine, claims, marker, events, spent>>

Next ==
  \/ Fix \/ Edit \/ Handoff \/ Crash
  \/ Feed \/ Claim \/ ClaimLost \/ Insert \/ InsertFails \/ Close \/ Save \/ Ack

Spec == Init /\ [][Next]_vars

-----------------------------------------------------------------------------
(* Properties.                                                             *)

\* None of these has happened.
Never(K) == \A k \in K : spent[k] = 0

\* Which side the recorded events leave the device on; outside before any.
RecordedInside == events # <<>> /\ Last(events).side = "in"

\* What a worker starts from is the recorded side: no marker was lost, nobody
\* died with a claim in its hand, the shard did not come back to a worker whose
\* engine still knows the side from before, and no fix was late for a worker that
\* does not know it, so that its crossing would pass for one recorded before.
Undisturbed ==
  /\ Never({"loss", "crash"}) /\ spent["handoff"] <= 1
  /\ Never({"handoff"}) \/ Never({"odd"})

\* Or whatever was lost, nobody has to start from a marker.
Steady == Undisturbed \/ Never({"handoff", "edit", "crash"})

\* Between batches the owner's engine has confirmed exactly the side that the
\* last recorded event says: a failed write never leaves a crossing in memory
\* only, to be missing for good, and never one that is recorded again.
SideIsRecorded ==
  Undisturbed /\ stage = "idle" /\ engine[owner].pair # None =>
    engine[owner].pair.inside = RecordedInside

\* A crossing is recorded once: processing a batch again, after a crash at any
\* point, writes no second row for the same instant, as long as Redis keeps
\* the claims.
OneRowPerCrossing ==
  Never({"loss"}) =>
    \A i, j \in 1 .. Len(events) :
      events[i].side = events[j].side /\ events[i].at = events[j].at => i = j

\* Enter and exit alternate in what is recorded, through failed inserts, an
\* edited fence and a move of the shard, and through lost calls if nobody has to
\* start from a marker.
EventsAlternate ==
  Steady =>
    \A i \in 1 .. Len(events) - 1 : events[i].side # events[i + 1].side

\* The fixes that count: usable, and none before them is newer.
Counted == At(stream, {i \in 1 .. Len(stream) : stream[i].usable})
InOrder(i) == \A j \in 1 .. i - 1 : Counted[j].at <= Counted[i].at

\* With everything processed, a device whose last Streak usable fixes came in
\* order and are on one side is recorded on that side, if the insert did not
\* fail, nobody died and the fence was there all the time.
CrossingNoticed ==
  LET c == Counted
      n == Len(c)
      last == n - Streak + 1 .. n IN
  (/\ Never({"fail", "edit", "handoff", "crash"})
   /\ stage = "idle" /\ acked = Len(stream)
   /\ n >= Streak /\ \A i \in last : InOrder(i))
  => \A s \in Sides : (\A i \in last : c[i].side = s) => RecordedInside = (s = "in")

\* A duration runs to the next crossing: no crossing of the fence lies between
\* the beginning and the end of a recorded state, also when the close of one
\* failed.
DurationIsToNext ==
  Steady =>
    \A i, j \in 1 .. Len(events) :
      events[i].ended # 0 => ~(events[i].at < events[j].at /\ events[j].at < events[i].ended)
=============================================================================
