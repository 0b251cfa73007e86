---------------------------- MODULE UsageOutbox ----------------------------
(***************************************************************************)
(* The overage meter of one subscriber (apps/worker/src/billing/           *)
(* usageReporter.ts, packages/db/src/repos/usage.ts): usage_daily counts   *)
(* the devices of a day, every run of the reporter walks a window of past  *)
(* days and tells Stripe's additive meter what it has not been told yet.   *)
(* A submission is written to usage_reports before the call and confirmed  *)
(* after it; a run that dies in between leaves it pending for the next.    *)
(*                                                                         *)
(* Time is counted in ticks of twelve hours, the period of the job; day d  *)
(* lasts from tick 2d to tick 2d + 1.                                      *)
(***************************************************************************)
EXTENDS Integers, FiniteSets, FiniteSetsExt

CONSTANTS
    None,         \* no row, no pending submission, no allowance
    Prices,       \* base prices the subscriber may be on
    Included,     \* price -> devices included, None for a flat plan
    Window,       \* days a run walks (STRIPE_BACKFILL_DAYS)
    Dedup,        \* ticks for which Stripe remembers an identifier (24 h)
    MaxTick,      \* bound: the last tick
    MaxDevices,   \* bound: devices that report on one day
    MaxGrowth,    \* bound: device-days found in all
    MaxChanges,   \* bound: plan changes, lapses and resubscriptions
    MaxAborts     \* bound: runs that die or fail half way

\* A row of usage_reports.
ReportRow == [reported : Nat, price : Prices, target : Nat \cup {None}, id : (Nat \X Nat) \cup {None}]

ASSUME UsageAssumption ==
    /\ None \notin Nat /\ None \notin Prices /\ None \notin ReportRow
    /\ Window \in Nat \ {0} /\ Dedup \in Nat \ {0} /\ MaxTick \in Nat
    /\ \A p \in Prices : Included[p] \in Nat \cup {None}

Days == 0 .. MaxTick \div 2

VARIABLES
    now,      \* the tick
    usage,    \* usage_daily: day -> devices counted
    sub,      \* the tenant row: price, when it took effect, when it lapsed
    log,      \* usage_reports: day -> None or the row
    meter,    \* Stripe: day -> value accepted so far
    ids,      \* Stripe: identifiers accepted, with their tick
    run,      \* the reporter: where it is and what it has read
    since,    \* the tick since which no run has walked its whole window
    force,    \* what was owed for a day by the plan in force when it began
    hist      \* events counted against the bounds

vars == <<now, usage, sub, log, meter, ids, run, since, force, hist>>

overageDevices(n, included) == Max({0, n - included})

\* Devices beyond the allowance of price p; a flat plan and no plan owe none.
Owed(n, p) == IF p = None \/ Included[p] = None THEN 0 ELSE overageDevices(n, Included[p])

\* The complete days a run at tick t bills, and the first of them.
billableDays(t) == {d \in Days : d < t \div 2 /\ d >= (t \div 2) - Window}

Idle == [at |-> "idle"]

Starts(d) == 2 * d

-----------------------------------------------------------------------------
(* The subscription, the devices and the clock.                            *)

Init ==
    /\ now = 0
    /\ usage = [d \in Days |-> 0]
    /\ \E p \in Prices : sub = [price |-> p, from |-> None, until |-> None]
    /\ log = [d \in Days |-> None]
    /\ meter = [d \in Days |-> 0]
    /\ ids = {}
    /\ run = Idle
    /\ since = None
    /\ force = [d \in Days |-> IF d = 0 THEN sub.price ELSE None]
    /\ hist = [growth |-> 0, changes |-> 0, aborts |-> 0, outage |-> FALSE, resumed |-> FALSE]

Count(f) == hist' = [hist EXCEPT ![f] = @ + 1]

\* A device first reports for a day that has begun, on time or from its buffer.
Sweep(d) ==
    /\ Starts(d) <= now /\ usage[d] < MaxDevices /\ hist.growth < MaxGrowth
    /\ usage' = [usage EXCEPT ![d] = @ + 1]
    /\ Count("growth")
    /\ UNCHANGED <<now, sub, log, meter, ids, run, since, force>>

\* Twelve hours pass. A run that broke off is made good by the retries of the
\* job or by the next tick; longer than that is an outage.
Tick ==
    /\ now < MaxTick
    /\ hist' = [hist EXCEPT !.outage = @ \/ (since # None /\ now + 1 - since >= Dedup)]
    /\ now' = now + 1
    /\ force' = [d \in Days |->
                   IF Starts(d) = now + 1 /\ sub.until = None THEN sub.price ELSE force[d]]
    /\ UNCHANGED <<usage, sub, log, meter, ids, run, since>>

\* A subscription event that carries price p: the plan changed, or a lapsed
\* subscriber came back. Only another price moves its start. A change in the
\* first instant of a day belongs to that day.
Subscribe(p) ==
    /\ hist.changes < MaxChanges
    /\ p # sub.price \/ sub.until # None
    /\ sub' = [price |-> p, from |-> IF p # sub.price THEN now ELSE sub.from, until |-> None]
    /\ force' = [d \in Days |-> IF Starts(d) = now THEN p ELSE force[d]]
    /\ hist' = [hist EXCEPT !.changes = @ + 1, !.resumed = @ \/ p = sub.price]
    /\ UNCHANGED <<now, usage, log, meter, ids, run, since>>

\* The subscription ends: the tenant row keeps the instant of the event.
Lapse ==
    /\ hist.changes < MaxChanges /\ sub.until = None
    /\ sub' = [sub EXCEPT !.until = now]
    /\ force' = [d \in Days |-> IF Starts(d) = now THEN None ELSE force[d]]
    /\ Count("changes")
    /\ UNCHANGED <<now, usage, log, meter, ids, run, since>>

-----------------------------------------------------------------------------
(* One run of the reporter.                                                *)

\* The subscribers are listed: one that lapsed before the window is not, and
\* one on a flat plan is passed over.
listActiveSubscribers(first) == IF sub.until = None THEN TRUE ELSE sub.until >= Starts(first)

Start ==
    /\ run = Idle /\ billableDays(now) # {}
    /\ listActiveSubscribers(Min(billableDays(now))) /\ Included[sub.price] # None
    /\ run' = [at |-> "read", sub |-> sub, days |-> billableDays(now)]
    /\ since' = IF since = None THEN now ELSE since
    /\ UNCHANGED <<now, usage, sub, log, meter, ids, force, hist>>

\* Usage and what has been reported, read once for the whole window.
Read ==
    /\ run.at = "read"
    /\ run' = [at |-> "day", sub |-> run.sub, days |-> run.days,
               usage |-> [d \in run.days |-> usage[d]], log |-> [d \in run.days |-> log[d]]]
    /\ UNCHANGED <<now, usage, sub, log, meter, ids, since, force, hist>>

day == Min(run.days)
prior == run.log[day]
Reported == IF prior = None THEN 0 ELSE prior.reported
Over == Owed(run.usage[day], run.sub.price)

\* Mutant: a run starts from usage alone and forgets what is in flight.
PendingForgotten == FALSE

Pending == prior # None /\ prior.target # None

Lapsed == run.sub.until # None /\ Starts(day) >= run.sub.until

\* Mutant: only a recorded day notices that the plan changed.
FrozenByRow == prior # None /\ prior.price # run.sub.price

\* Mutant: a day is billed once and for all.
FrozenOnceBilled == prior # None \/ (run.sub.from # None /\ Starts(day) < run.sub.from)

Frozen ==
    \/ prior # None /\ prior.price # run.sub.price
    \/ prior = None /\ run.sub.from # None /\ Starts(day) < run.sub.from

Without(d) ==
    LET rest == run.days \ {d}
    IN [run EXCEPT !.at = "day", !.days = rest,
                   !.usage = [e \in rest |-> @[e]], !.log = [e \in rest |-> @[e]]]

\* The walk goes on with the next day, or the run is over.
NextDay ==
    IF run.days = {day} THEN run' = Idle /\ since' = None
    ELSE run' = Without(day) /\ UNCHANGED since

\* A day that began after the lapse, a day settled under another price, and a
\* day without a row from before the current price are left as they are.
Skip ==
    /\ run.at = "day"
    /\ Lapsed \/ (~Pending /\ Frozen)
    /\ NextDay
    /\ UNCHANGED <<now, usage, sub, log, meter, ids, force, hist>>

\* A day that owes nothing new gets its row, once.
recordOverageReport ==
    /\ run.at = "day" /\ ~Lapsed /\ ~Pending /\ ~Frozen
    /\ Over <= Reported
    /\ log' = IF prior # None THEN log ELSE
              [log EXCEPT ![day] = [reported |-> Over, price |-> run.sub.price, target |-> None, id |-> None]]
    /\ NextDay
    /\ UNCHANGED <<now, usage, sub, meter, ids, force, hist>>

\* The submission is written before the call. The row keeps what was confirmed.
beginOverageReport ==
    /\ run.at = "day" /\ ~Lapsed /\ ~Pending /\ ~Frozen
    /\ Over > Reported
    /\ log' = [log EXCEPT ![day] =
                 [reported |-> IF @ = None THEN Reported ELSE @.reported,
                  price |-> run.sub.price, target |-> Over, id |-> <<Reported, Over>>]]
    /\ run' = [run EXCEPT !.at = "submit", !.log[day] = log'[day]]
    /\ UNCHANGED <<now, usage, sub, meter, ids, since, force, hist>>

\* Stripe takes a value unless it remembers the identifier.
Known(d, id) == \E i \in ids : i.day = d /\ i.id = id /\ now - i.at < Dedup

\* The call of a new submission, or of a pending one with its own identifier.
reportUsage ==
    /\ run.at = "submit" \/ (run.at = "day" /\ ~Lapsed /\ Pending)
    /\ IF Known(day, prior.id) THEN UNCHANGED <<meter, ids>>
       ELSE /\ meter' = [meter EXCEPT ![day] = @ + (prior.target - prior.reported)]
            /\ ids' = ids \cup {[day |-> day, id |-> prior.id, at |-> now]}
    /\ run' = [run EXCEPT !.at = IF run.at = "submit" THEN "confirm" ELSE "settle"]
    /\ UNCHANGED <<now, usage, sub, log, since, force, hist>>

\* The row advances and the marker goes. A submission of this run ends the
\* day; a pending one is settled first, then the day is looked at.
confirmOverageReport ==
    /\ run.at \in {"confirm", "settle"}
    /\ log' = [log EXCEPT ![day] = [@ EXCEPT !.reported = prior.target, !.target = None, !.id = None]]
    /\ IF run.at = "confirm" THEN NextDay
       ELSE run' = [run EXCEPT !.at = "day", !.log[day] = log'[day]] /\ UNCHANGED since
    /\ UNCHANGED <<now, usage, sub, meter, ids, force, hist>>

\* A query or the call fails, or the process dies: the run is over, the job
\* is tried again.
Abort ==
    /\ run # Idle /\ hist.aborts < MaxAborts
    /\ run' = Idle
    /\ Count("aborts")
    /\ UNCHANGED <<now, usage, sub, log, meter, ids, since, force>>

Report ==
    \/ Start \/ Read \/ Skip \/ recordOverageReport
    \/ beginOverageReport \/ reportUsage \/ confirmOverageReport

Next ==
    \/ Report \/ Abort \/ Tick \/ Lapse
    \/ \E d \in Days : Sweep(d)
    \/ \E p \in Prices : Subscribe(p)

Spec == Init /\ [][Next]_vars

\* The queue runs the job at every tick and retries it, and time passes.
FairSpec == Spec /\ WF_vars(Report) /\ WF_vars(Tick)

-----------------------------------------------------------------------------
(* What the reporter promises.                                             *)

\* Stripe has been told exactly what usage_reports says, or also what the row
\* holds as pending: a submission that landed and was not recorded is neither
\* lost nor sent twice by the runs that follow (usageReporter.ts, STEP 0 and
\* beginOverageReport), as long as the job is not down for longer than Stripe
\* remembers an identifier.
MeterMatchesLog ==
    ~hist.outage =>
        \A d \in Days :
            IF log[d] = None THEN meter[d] = 0
            ELSE meter[d] \in {log[d].reported} \cup ({log[d].target} \ {None})

\* No day is billed beyond what the plan in force when it began allows: a plan
\* change, a lapse and late usage never turn past days into overage (the two
\* freezes and the lapse check of reportDailyOverage). Left out is the
\* subscriber that comes back at the price it lapsed from.
NoDayOverbilled ==
    ~hist.outage /\ ~hist.resumed =>
        \A d \in Days : meter[d] <= Owed(usage[d], force[d])

\* The plan a day is billed by is still the current one.
Due(d) ==
    /\ d \in billableDays(MaxTick)
    /\ force[d] = sub.price /\ Included[sub.price] # None
    /\ sub.until # None => Starts(d) < sub.until /\ listActiveSubscribers(Min(billableDays(MaxTick)))
    /\ \/ sub.from = None \/ sub.from <= Starts(d)
       \/ log[d] # None /\ log[d].price = sub.price

\* Usage that lands late, a run that dies at any point and a tick that is
\* missed cost nothing while the day is in the window: in the end the meter
\* holds all a day owes (the window and the delta of reportDailyOverage).
NothingOwedIsLost == <>[](\A d \in Days : Due(d) => meter[d] >= Owed(usage[d], sub.price))

=============================================================================
