--------------------------- MODULE UsageOutboxProofs ---------------------------
(***************************************************************************)
(* Machine-checked proofs about UsageOutbox, for every window, every       *)
(* memory of Stripe's, any usage, plan changes, lapses and broken runs:    *)
(* the meter agrees with usage_reports, and no day is overbilled.          *)
(***************************************************************************)
EXTENDS UsageOutbox, WellFoundedInduction, TLAPS

USE UsageAssumption

-----------------------------------------------------------------------------
(* Facts about the operators.                                              *)

\* The least of some days is one of them.
LEMMA MinInSet == ASSUME NEW D \in SUBSET Nat, D # {} PROVE Min(D) \in D
<1> DEFINE R == {p \in Nat \X Nat : p[1] < p[2]}
<1>1. IsWellFoundedOn(R, Nat)
  BY NatLessThanWellFounded DEF OpToRel
<1>a. \A y, z \in Nat : y < z => <<y, z>> \in R
  OBVIOUS
<1> HIDE DEF R
<1>2. PICK x \in D : \A y \in D : ~(<<y, x>> \in R)
  BY <1>1, WFMin
<1>3. ASSUME NEW y \in D PROVE x <= y
  <2>1. x \in Nat /\ y \in Nat OBVIOUS
  <2>2. ~(y < x) BY <1>2, <1>a, <2>1
  <2> QED BY <2>1, <2>2
<1> QED BY <1>3 DEF Min

-----------------------------------------------------------------------------
(* The invariant.                                                          *)

SubRow == [price : Prices, from : Nat \cup {None}, until : Nat \cup {None}]
Looking == [at : {"read"}, sub : SubRow, days : SUBSET Days]
Walking == [at : {"day", "submit", "confirm", "settle"}, sub : SubRow, days : SUBSET Days,
            usage : UNION {[D -> Nat] : D \in SUBSET Days},
            log : UNION {[D -> ReportRow \cup {None}] : D \in SUBSET Days}]
Told == [day : Days, id : Nat \X Nat, at : Nat]
Counters == [growth : Nat, changes : Nat, aborts : Nat, outage : BOOLEAN, resumed : BOOLEAN]

Types ==
  /\ now \in Nat /\ usage \in [Days -> Nat] /\ sub \in SubRow
  /\ log \in [Days -> ReportRow \cup {None}] /\ meter \in [Days -> Int] /\ ids \subseteq Told
  /\ run \in {Idle} \cup Looking \cup Walking
  /\ since \in Nat \cup {None} /\ force \in [Days -> Prices \cup {None}] /\ hist \in Counters

\* A run at work, the days it has still to look at, and days no run looks at
\* any more.
AtWork == run.at # "idle"
InHand(d) == AtWork /\ d \in run.days
Old(d) == 2 * (d + Window + 1) <= now
Over1(d) == Starts(d) + 2 <= now

\* Day d begins after the subscription s has lapsed; or under another price.
Ended(s, d) == s.until # None /\ s.until <= Starts(d)
Earlier(s, d) == s.from # None /\ Starts(d) < s.from

\* A submission of d is on its way, and it has reached Stripe.
IsPending(d) == log[d] # None /\ log[d].target # None
Landed(d) == \E i \in ids : i.day = d /\ i.id = log[d].id

\* What a run has read is still so: only it writes usage_reports.
RunInv ==
  /\ AtWork =>
       /\ run.days # {} /\ since # None
       /\ \A d \in run.days : Over1(d) /\ (Ended(sub, d) => Ended(run.sub, d))
  /\ run.at \in {"day", "submit", "confirm", "settle"} =>
       /\ run.usage \in [run.days -> Nat] /\ run.log \in [run.days -> ReportRow \cup {None}]
       /\ \A d \in run.days : run.log[d] = log[d] /\ run.usage[d] <= usage[d]
  /\ run.at \in {"submit", "confirm", "settle"} => IsPending(day)

Prompt == ~hist.outage

\* since bounds how long a broken walk may have lasted.
SinceInv ==
  since # None => since <= now /\ (Prompt => now - since < Dedup)

\* A pending submission carries its own identifier, belongs to a complete day
\* that no lapse hides, and is before a run, or waits for the next, or is out
\* of every window for good.
PendingInv ==
  \A d \in Days : log[d] # None =>
    /\ Over1(d)
    /\ IsPending(d) =>
         /\ log[d].id = <<log[d].reported, log[d].target>> /\ log[d].reported < log[d].target
         /\ ~Ended(sub, d) /\ (InHand(d) => ~Ended(run.sub, d))
         /\ InHand(d) \/ Old(d) \/ (~AtWork /\ since # None)

\* Identifiers are not used again.
IdsInv ==
  \A i \in ids : /\ log[i.day] # None
                 /\ i.id[2] <= log[i.day].reported \/ (IsPending(i.day) /\ i.id = log[i.day].id)

\* Stripe still remembers a submission that landed, as long as it can be sent
\* again.
Remembered(d) ==
  \/ Old(d) /\ ~InHand(d)
  \/ since # None /\ \E i \in ids : i.day = d /\ i.id = log[d].id /\ since <= i.at
MoneyInv ==
  Prompt =>
    /\ \A d \in Days :
         /\ log[d] = None => meter[d] = 0
         /\ log[d] # None /\ ~IsPending(d) => meter[d] = log[d].reported
         /\ IsPending(d) /\ ~Landed(d) => meter[d] = log[d].reported
         /\ IsPending(d) /\ Landed(d) => meter[d] = log[d].target /\ Remembered(d)
    /\ run.at \in {"confirm", "settle"} => Landed(day)

OutboxInv == Types /\ RunInv /\ SinceInv /\ PendingInv /\ IdsInv /\ MoneyInv

-----------------------------------------------------------------------------
(* Facts about the operators, continued.                                   *)

\* The day a tick falls in: half of it, rounded down.
LEMMA Halves == \A n, k \in Nat : n \div 2 \in Nat /\ (k <= n \div 2 <=> 2 * k <= n)
OBVIOUS

\* A run at tick t takes the complete days that are not out of the window.
LEMMA Billable ==
  ASSUME NEW t \in Nat, NEW d \in Days
  PROVE  d \in billableDays(t) <=> Starts(d) + 2 <= t /\ ~(2 * (d + Window + 1) <= t)
<1>1. d \in Nat /\ d + 1 \in Nat /\ d + Window + 1 \in Nat
  BY DEF Days
<1> DEFINE h == t \div 2
<1>2. h \in Nat /\ (d + 1 <= h <=> 2 * (d + 1) <= t)
      /\ (d + Window + 1 <= h <=> 2 * (d + Window + 1) <= t)
  BY <1>1, Halves
<1>3. d \in billableDays(t) <=> d < h /\ d >= h - Window
  BY DEF billableDays
<1> HIDE DEF h
<1> QED BY <1>1, <1>2, <1>3 DEF Starts

\* While days are left, the one in hand is one of them.
LEMMA DayInHand ==
  ASSUME run \in Looking \cup Walking, run.days # {} PROVE day \in run.days /\ day \in Days
<1>1. run.days \in SUBSET Days
  BY DEF Looking, Walking
<1>2. Days \subseteq Nat
  BY DEF Days
<1>3. run.days \in SUBSET Nat
  BY <1>1, <1>2
<1> QED BY <1>1, <1>3, MinInSet DEF day

\* The walk goes on, or it is over.
LEMMA WalkGoesOn ==
  ASSUME run \in Walking, run.usage \in [run.days -> Nat],
         run.log \in [run.days -> ReportRow \cup {None}], NextDay
  PROVE  \/ run' = Idle /\ since' = None /\ run.days = {day}
         \/ /\ run' \in Walking /\ run'.at = "day" /\ run'.sub = run.sub
            /\ run'.days = run.days \ {day} /\ run.days # {day} /\ since' = since
            /\ run'.usage = [e \in run.days \ {day} |-> run.usage[e]]
            /\ run'.log = [e \in run.days \ {day} |-> run.log[e]]
<1> DEFINE rest == run.days \ {day}
<1>1. CASE run.days = {day} BY <1>1 DEF NextDay
<1>2. CASE run.days # {day}
  <2>1. run' = Without(day) /\ since' = since
    BY <1>2 DEF NextDay
  <2> DEFINE u == [e \in rest |-> run.usage[e]]
             l == [e \in rest |-> run.log[e]]
  <2>2. run' = [at |-> "day", sub |-> run.sub, days |-> rest, usage |-> u, log |-> l]
    BY <2>1 DEF Without, Walking
  <2>3. rest \in SUBSET Days /\ run.sub \in SubRow
    BY DEF Walking
  <2>4. u \in [rest -> Nat] /\ l \in [rest -> ReportRow \cup {None}]
    OBVIOUS
  <2> HIDE DEF u, l, rest
  <2>5. run' \in Walking
    BY <2>2, <2>3, <2>4 DEF Walking
  <2> QED BY <1>2, <2>1, <2>2, <2>5 DEF rest, u, l
<1> QED BY <1>1, <1>2

-----------------------------------------------------------------------------
(* The steps.                                                              *)

\* The clock, the devices and the subscription leave the outbox alone, and a
\* lapse comes after the days that are complete.
Aside ==
  /\ UNCHANGED <<log, meter, ids, run, since>>
  /\ now' \in Nat /\ now <= now'
  /\ \A d \in Days : usage[d] <= usage'[d]
  /\ \A d \in Days : Over1(d) /\ Ended(sub', d) => Ended(sub, d)
  /\ Prompt' => Prompt /\ (since # None => now' - since < Dedup)

\* Such a step keeps the invariant.
LEMMA AsideKeeps == ASSUME OutboxInv, Aside, Types' PROVE OutboxInv'
<1> USE DEF OutboxInv, Aside
<1>0. /\ \A d \in Days : d \in Nat /\ (Over1(d) => Over1(d)') /\ (Old(d) => Old(d)')
      /\ now \in Nat /\ run.at = run'.at /\ run'.days = run.days
  BY DEF Types, Over1, Old, Starts, Days
<1>1. /\ AtWork' = AtWork /\ day' = day
      /\ \A d : InHand(d)' = InHand(d) /\ IsPending(d)' = IsPending(d) /\ Landed(d)' = Landed(d)
  BY DEF AtWork, InHand, IsPending, Landed, day
<1>2. AtWork => run.days \subseteq Days
  BY DEF AtWork, Types, Idle, Looking, Walking
<1>3. RunInv'
  <2>1. AtWork' => /\ run.days # {} /\ since # None
                   /\ \A d \in run.days : Over1(d)' /\ (Ended(sub, d)' => Ended(run.sub, d))
    BY <1>0, <1>1, <1>2 DEF RunInv
  <2>2. run.at \in {"day", "submit", "confirm", "settle"} =>
          \A d \in run.days : run.usage[d] <= usage'[d]
    <3> SUFFICES ASSUME run.at \in {"day", "submit", "confirm", "settle"}, NEW d \in run.days
                 PROVE  run.usage[d] <= usage'[d]
      OBVIOUS
    <3>1. d \in Days BY <1>2 DEF AtWork
    <3>2. run.usage[d] \in Nat /\ run.usage[d] <= usage[d] /\ usage[d] <= usage'[d]
      BY <3>1 DEF RunInv
    <3>3. usage[d] \in Nat /\ usage'[d] \in Nat BY <3>1 DEF Types
    <3> QED BY <3>2, <3>3
  <2>3. /\ run.at \in {"day", "submit", "confirm", "settle"} =>
             /\ run.usage \in [run.days -> Nat] /\ run.log \in [run.days -> ReportRow \cup {None}]
             /\ \A d \in run.days : run.log[d] = log[d]
        /\ run.at \in {"submit", "confirm", "settle"} => IsPending(day)
    BY DEF RunInv
  <2> QED BY <1>1, <2>1, <2>2, <2>3 DEF RunInv, Ended
<1>4. SinceInv'
  <2> SUFFICES ASSUME since # None PROVE since <= now' /\ (Prompt' => now' - since < Dedup)
    BY DEF SinceInv
  <2>1. since \in Nat /\ since <= now /\ now \in Nat BY DEF SinceInv, Types
  <2>2. since <= now' BY <2>1
  <2>3. Prompt' => now' - since < Dedup OBVIOUS
  <2> QED BY <2>2, <2>3
<1>5. PendingInv'
  BY <1>0, <1>1 DEF PendingInv, Ended, Types
<1>6. IdsInv'
  BY <1>1 DEF IdsInv, Types, Told
<1>7. \A d : Remembered(d) /\ d \in Days => Remembered(d)'
  BY <1>0, <1>1 DEF Remembered
<1>8. MoneyInv'
  <2> SUFFICES ASSUME Prompt' PROVE MoneyInv'
    BY DEF MoneyInv
  <2> QED BY <1>0, <1>1, <1>7 DEF MoneyInv
<1> QED BY <1>3, <1>4, <1>5, <1>6, <1>8

\* A counted event leaves the other counters alone.
LEMMA CounterTyped ==
  ASSUME hist \in Counters, NEW f \in {"growth", "changes", "aborts"}, Count(f)
  PROVE  hist' \in Counters /\ hist'.outage = hist.outage /\ hist'.resumed = hist.resumed
BY DEF Counters, Count

\* What leaves the outages alone leaves the promptness alone.
LEMMA SweepStep == ASSUME OutboxInv, NEW d \in Days, Sweep(d) PROVE OutboxInv'
<1> USE DEF Sweep, OutboxInv
<1>1. hist' \in Counters /\ hist'.outage = hist.outage
  BY CounterTyped DEF Types
<1>2. usage' \in [Days -> Nat] /\ \A e \in Days : usage[e] <= usage'[e]
  BY DEF Types
<1>3. Types'
  BY <1>1, <1>2 DEF Types
<1>4. Aside
  BY <1>1, <1>2 DEF Aside, Types, Prompt, SinceInv
<1> QED BY <1>3, <1>4, AsideKeeps

\* Half a day passes.
LEMMA TickStep == ASSUME OutboxInv, Tick PROVE OutboxInv'
<1> USE DEF Tick, OutboxInv
<1>0. now \in Nat /\ hist \in Counters /\ since \in Nat \cup {None}
  BY DEF Types
<1>1. /\ hist' \in Counters
      /\ ~hist'.outage => ~hist.outage /\ (since # None => now + 1 - since < Dedup)
  <2> DEFINE x == hist.outage \/ (since # None /\ now + 1 - since >= Dedup)
  <2>1. hist' = [hist EXCEPT !.outage = x] OBVIOUS
  <2>2. x \in BOOLEAN BY <1>0 DEF Counters
  <2>3. ~x => ~hist.outage /\ (since # None => now + 1 - since < Dedup)
    BY <1>0 DEF Counters
  <2> HIDE DEF x
  <2>4. hist' \in Counters /\ hist'.outage = x
    BY <2>1, <2>2, <1>0 DEF Counters
  <2> QED BY <2>3, <2>4
<1>2. force' \in [Days -> Prices \cup {None}]
  BY DEF Types, SubRow
<1>3. Types'
  BY <1>1, <1>2 DEF Types
<1>4. \A d \in Days : usage[d] <= usage'[d]
  BY DEF Types
<1>5. Aside
  BY <1>0, <1>1, <1>4 DEF Aside, Prompt
<1> QED BY <1>3, <1>5, AsideKeeps

\* A subscription event sets or replaces the plan.
LEMMA SubscribeStep == ASSUME OutboxInv, NEW p \in Prices, Subscribe(p) PROVE OutboxInv'
<1> USE DEF Subscribe, OutboxInv
<1>1. hist' \in Counters /\ hist'.outage = hist.outage
  <2> DEFINE b == hist.resumed \/ p = sub.price
  <2>1. hist \in Counters /\ b \in BOOLEAN BY DEF Types, Counters
  <2>2. hist' = [[hist EXCEPT !.changes = @ + 1] EXCEPT !.resumed = b] OBVIOUS
  <2> HIDE DEF b
  <2>3. PICK h : h = [hist EXCEPT !.changes = @ + 1] OBVIOUS
  <2>4. h \in Counters /\ h.outage = hist.outage BY <2>1, <2>3 DEF Counters
  <2>5. hist' = [h EXCEPT !.resumed = b] BY <2>2, <2>3
  <2> QED BY <2>1, <2>4, <2>5 DEF Counters
<1>2. sub' \in SubRow /\ sub'.until = None
  BY DEF Types, SubRow
<1>3. force' \in [Days -> Prices \cup {None}]
  BY DEF Types
<1>4. Types'
  BY <1>1, <1>2, <1>3 DEF Types
<1>5. Aside
  BY <1>1, <1>2 DEF Aside, Prompt, Types, SinceInv, Ended
<1> QED BY <1>4, <1>5, AsideKeeps

\* The subscription lapses.
LEMMA LapseStep == ASSUME OutboxInv, Lapse PROVE OutboxInv'
<1> USE DEF Lapse, OutboxInv
<1>1. hist' \in Counters /\ hist'.outage = hist.outage
  BY CounterTyped DEF Types
<1>2. sub' \in SubRow /\ sub'.until = now
  BY DEF Types, SubRow
<1>3. force' \in [Days -> Prices \cup {None}]
  BY DEF Types
<1>4. Types'
  BY <1>1, <1>2, <1>3 DEF Types
<1>5. \A d \in Days : Over1(d) => ~Ended(sub', d)
  BY <1>2 DEF Over1, Ended, Starts, Days, Types
<1>6. Aside
  BY <1>1, <1>5 DEF Aside, Prompt, Types, SinceInv
<1> QED BY <1>4, <1>6, AsideKeeps

\* A run begins: what is pending is in its window, or out of every later one.
LEMMA StartStep == ASSUME OutboxInv, Start PROVE OutboxInv'
<1> USE DEF Start, OutboxInv
<1>0. /\ ~AtWork /\ AtWork' /\ now \in Nat /\ run'.at = "read" /\ run'.sub = sub
      /\ run'.days = billableDays(now) /\ run'.days # {} /\ since' # None
      /\ since' = IF since = None THEN now ELSE since
  BY DEF AtWork, Idle, Types
<1>1. Types'
  <2>1. billableDays(now) \in SUBSET Days BY DEF billableDays
  <2>2. run' \in Looking BY <2>1 DEF Looking, Types
  <2> QED BY <2>2 DEF Types
<1>2. /\ \A d : IsPending(d)' = IsPending(d) /\ Landed(d)' = Landed(d)
      /\ \A d \in Days : Old(d)' = Old(d) /\ Over1(d)' = Over1(d)
  BY DEF IsPending, Landed, Old, Over1
<1>3. \A d \in Days : (InHand(d)' <=> Over1(d) /\ ~Old(d)) /\ ~InHand(d)
  BY <1>0, Billable DEF InHand, Over1, Old
<1>3a. run'.days \subseteq Days
  BY <1>0 DEF billableDays
<1>4. RunInv'
  BY <1>0, <1>2, <1>3, <1>3a DEF RunInv, InHand, Ended
<1>5. SinceInv'
  BY <1>0 DEF SinceInv, Types, Prompt
<1>6. PendingInv'
  BY <1>0, <1>2, <1>3 DEF PendingInv, Ended
<1>7. IdsInv'
  BY <1>2 DEF IdsInv
<1>8. \A d \in Days : Remembered(d) => Remembered(d)'
  BY <1>0, <1>2, <1>3 DEF Remembered
<1>9. MoneyInv'
  BY <1>0, <1>2, <1>8 DEF MoneyInv, Prompt
<1> QED BY <1>1, <1>4, <1>5, <1>6, <1>7, <1>9

\* A run reads usage and outbox: what it holds is the row of each day, or its absence.
LEMMA ReadStep == ASSUME OutboxInv, Read PROVE OutboxInv'
<1> USE DEF Read, OutboxInv
<1>0. run \in Looking /\ AtWork
  BY DEF Types, Idle, Walking, Looking, AtWork
<1> DEFINE u == [d \in run.days |-> usage[d]]
           l == [d \in run.days |-> log[d]]
<1>1. /\ run' = [at |-> "day", sub |-> run.sub, days |-> run.days, usage |-> u, log |-> l]
      /\ run.days \in SUBSET Days /\ run.sub \in SubRow
  BY <1>0 DEF Looking
<1>2. u \in [run.days -> Nat] /\ l \in [run.days -> ReportRow \cup {None}]
  BY <1>1 DEF Types
<1>2a. \A d \in run.days : l[d] = log[d] /\ u[d] = usage[d] /\ usage[d] \in Nat
  BY <1>1 DEF Types
<1> HIDE DEF u, l
<1>3. run' \in Walking /\ run'.at = "day" /\ run'.days = run.days /\ run'.sub = run.sub
      /\ run'.usage = u /\ run'.log = l
  BY <1>1, <1>2 DEF Walking
<1>4. Types'
  BY <1>3 DEF Types
<1>5. /\ AtWork' /\ \A d : IsPending(d)' = IsPending(d) /\ Landed(d)' = Landed(d)
      /\ \A d : InHand(d)' = InHand(d)
      /\ \A d : Old(d)' = Old(d) /\ Over1(d)' = Over1(d) /\ Remembered(d)' = Remembered(d)
  BY <1>0, <1>3 DEF IsPending, Landed, Old, Over1, InHand, AtWork, Remembered
<1>6. RunInv'
  <2>1. \A d \in run.days : u[d] <= usage[d] BY <1>2a
  <2> QED BY <1>0, <1>2, <1>2a, <1>3, <1>5, <2>1 DEF RunInv, Ended
<1>7. SinceInv' /\ IdsInv'
  BY <1>5 DEF SinceInv, IdsInv, Prompt
<1>8. PendingInv'
  BY <1>0, <1>3, <1>5 DEF PendingInv, Ended
<1>9. MoneyInv'
  BY <1>3, <1>5 DEF MoneyInv, Prompt
<1> QED BY <1>4, <1>6, <1>7, <1>8, <1>9

\* A run that breaks off leaves what is pending to the next.
LEMMA AbortStep == ASSUME OutboxInv, Abort PROVE OutboxInv'
<1> USE DEF Abort, OutboxInv
<1>0. AtWork /\ ~AtWork' /\ run'.at = "idle" /\ since # None
  BY DEF AtWork, Idle, Types, Looking, Walking, RunInv
<1>1. hist' \in Counters /\ hist'.outage = hist.outage
  BY CounterTyped DEF Types
<1>2. Types'
  BY <1>1 DEF Types
<1>3. /\ \A d : IsPending(d)' = IsPending(d) /\ Landed(d)' = Landed(d) /\ ~InHand(d)'
      /\ \A d : Old(d)' = Old(d) /\ Over1(d)' = Over1(d)
  BY <1>0 DEF IsPending, Landed, Old, Over1, InHand
<1>4. Prompt' = Prompt
  BY <1>1 DEF Prompt
<1>5. RunInv' /\ SinceInv' /\ IdsInv'
  BY <1>0, <1>3, <1>4 DEF RunInv, SinceInv, IdsInv
<1>6. PendingInv'
  BY <1>0, <1>3 DEF PendingInv, Ended
<1>7. \A d : Remembered(d) => Remembered(d)'
  BY <1>0, <1>3 DEF Remembered
<1>8. MoneyInv'
  BY <1>0, <1>3, <1>4, <1>7 DEF MoneyInv
<1> QED BY <1>2, <1>5, <1>6, <1>8

\* The run is done with a day that is not pending any more.
LEMMA DayDone ==
  ASSUME OutboxInv, run \in Walking, NextDay, UNCHANGED <<now, usage, sub, meter, ids, force, hist>>,
         log' \in [Days -> ReportRow \cup {None}],
         \A d \in Days : d # day => log'[d] = log[d],
         \A d \in Days : d = day => ~IsPending(d)', log[day] # None => log'[day] # None,
         \A i \in ids : i.day = day => i.id[2] <= log'[day].reported,
         Prompt => IF log'[day] = None THEN meter[day] = 0 ELSE meter[day] = log'[day].reported
  PROVE  OutboxInv'
<1> USE DEF OutboxInv
<1>0. /\ AtWork /\ run.days # {} /\ since # None /\ day \in run.days /\ day \in Days
      /\ run.usage \in [run.days -> Nat] /\ run.log \in [run.days -> ReportRow \cup {None}]
      /\ run.days \subseteq Days
  BY DayInHand DEF AtWork, RunInv, Walking
<1>1. \/ run' = Idle /\ since' = None /\ run.days = {day}
      \/ /\ run' \in Walking /\ run'.at = "day" /\ run'.sub = run.sub
         /\ run'.days = run.days \ {day} /\ run.days # {day} /\ since' = since
         /\ run'.usage = [e \in run.days \ {day} |-> run.usage[e]]
         /\ run'.log = [e \in run.days \ {day} |-> run.log[e]]
  BY <1>0, WalkGoesOn
<1>2. Types'
  BY <1>1 DEF Types
<1>3. /\ \A d \in Days : d # day => IsPending(d)' = IsPending(d) /\ Landed(d)' = Landed(d)
      /\ \A d : Old(d)' = Old(d) /\ Over1(d)' = Over1(d)
      /\ \A d \in Days : d # day => InHand(d)' = InHand(d)
      /\ \A d \in Days : d = day => ~InHand(d)'
      /\ run'.at \in {"idle", "day"}
      /\ Prompt' = Prompt
  BY <1>0, <1>1 DEF IsPending, Landed, Old, Over1, InHand, AtWork, Prompt, Idle
<1>3a. \A d \in Days : IsPending(d)' => d # day
  OBVIOUS
<1>4. RunInv'
  <2>1. CASE run' = Idle BY <2>1 DEF RunInv, AtWork, Idle
  <2>2. CASE /\ run' \in Walking /\ run'.at = "day" /\ run'.sub = run.sub
             /\ run'.days = run.days \ {day} /\ run.days # {day} /\ since' = since
             /\ run'.usage = [e \in run.days \ {day} |-> run.usage[e]]
             /\ run'.log = [e \in run.days \ {day} |-> run.log[e]]
    <3>1. run'.days # {} BY <1>0, <2>2
    <3>2. run.at \in {"day", "submit", "confirm", "settle"} BY DEF Walking
    <3>3. \A d \in run.days : /\ Over1(d) /\ (Ended(sub, d) => Ended(run.sub, d))
                              /\ run.log[d] = log[d] /\ run.usage[d] <= usage[d]
      BY <1>0, <3>2 DEF RunInv
    <3>4. \A d \in run'.days : /\ d \in run.days /\ d \in Days /\ d # day
                               /\ run'.log[d] = run.log[d] /\ run'.usage[d] = run.usage[d]
      BY <1>0, <2>2
    <3>5. run'.usage \in [run'.days -> Nat] /\ run'.log \in [run'.days -> ReportRow \cup {None}]
      BY <1>0, <2>2
    <3>6. \A d \in run'.days : run'.log[d] = log'[d] /\ run'.usage[d] <= usage'[d]
      BY <3>3, <3>4
    <3>7. \A d \in run'.days : Over1(d)' /\ (Ended(sub, d)' => Ended(run.sub, d)')
      BY <1>3, <2>2, <3>3, <3>4 DEF Ended
    <3> QED BY <1>0, <2>2, <3>1, <3>5, <3>6, <3>7 DEF RunInv
  <2> QED BY <1>1, <2>1, <2>2
<1>5. SinceInv'
  BY <1>1, <1>3 DEF SinceInv
<1>6. PendingInv'
  <2> SUFFICES ASSUME NEW d \in Days, log'[d] # None
               PROVE  /\ Over1(d)'
                      /\ IsPending(d)' =>
                           /\ log'[d].id = <<log'[d].reported, log'[d].target>>
                           /\ log'[d].reported < log'[d].target
                           /\ ~Ended(sub, d)' /\ (InHand(d)' => ~Ended(run'.sub, d))
                           /\ InHand(d)' \/ Old(d)' \/ (~AtWork' /\ since' # None)
    BY DEF PendingInv, Ended
  <2>1. CASE d = day
    <3>1. Over1(day) BY <1>0 DEF RunInv
    <3> QED BY <1>3, <2>1, <3>1
  <2>2. CASE d # day
    <3>1. Over1(d)' BY <1>3, <2>2 DEF PendingInv
    <3>2. ASSUME IsPending(d)'
          PROVE  /\ log'[d].id = <<log'[d].reported, log'[d].target>>
                 /\ log'[d].reported < log'[d].target
                 /\ ~Ended(sub, d)' /\ (InHand(d)' => ~Ended(run'.sub, d))
                 /\ InHand(d) \/ Old(d)
      <4>1. IsPending(d) /\ log'[d] = log[d] BY <1>3, <2>2, <3>2
      <4>2. log[d] # None BY <4>1 DEF IsPending
      <4>3. InHand(d)' => InHand(d) /\ run'.sub = run.sub
        BY <1>1, <1>3, <2>2 DEF InHand, AtWork, Idle
      <4> QED BY <1>0, <4>1, <4>2, <4>3 DEF PendingInv, Ended
    <3> QED BY <1>3, <2>2, <3>1, <3>2
  <2> QED BY <2>1, <2>2
<1>7. IdsInv'
  <2> SUFFICES ASSUME NEW i \in ids
               PROVE  /\ log'[i.day] # None
                      /\ \/ i.id[2] <= log'[i.day].reported
                         \/ IsPending(i.day)' /\ i.id = log'[i.day].id
    BY DEF IdsInv
  <2>1. i.day \in Days BY DEF Types, Told
  <2>2. CASE i.day = day BY <2>2 DEF IdsInv
  <2>3. CASE i.day # day BY <1>3, <2>1, <2>3 DEF IdsInv
  <2> QED BY <2>2, <2>3
<1>8. MoneyInv'
  <2> SUFFICES ASSUME Prompt, NEW d \in Days
               PROVE  /\ log'[d] = None => meter[d] = 0
                      /\ log'[d] # None /\ ~IsPending(d)' => meter[d] = log'[d].reported
                      /\ IsPending(d)' /\ ~Landed(d)' => meter[d] = log'[d].reported
                      /\ IsPending(d)' /\ Landed(d)' => meter[d] = log'[d].target /\ Remembered(d)'
    BY <1>3 DEF MoneyInv
  <2>1. CASE d = day BY <2>1
  <2>2. CASE d # day
    <3>1. ASSUME IsPending(d), Remembered(d) PROVE Remembered(d)'
      <4>1. log[d] # None /\ log'[d] = log[d] BY <2>2, <3>1 DEF IsPending
      <4>2. InHand(d) \/ Old(d) BY <1>0, <3>1, <4>1 DEF PendingInv
      <4>3. CASE since' = None /\ run.days = {day}
        BY <1>3, <2>2, <4>2, <4>3 DEF Remembered, InHand
      <4>4. CASE since' = since
        BY <1>3, <2>2, <3>1, <4>1, <4>4 DEF Remembered
      <4> QED BY <1>1, <4>3, <4>4
    <3> QED BY <1>3, <2>2, <3>1 DEF MoneyInv
  <2> QED BY <2>1, <2>2
<1> QED BY <1>2, <1>4, <1>5, <1>6, <1>7, <1>8

\* What a run at a day knows of it.
LEMMA AtDay ==
  ASSUME OutboxInv, run.at \in {"day", "submit", "confirm", "settle"}
  PROVE  /\ run \in Walking /\ AtWork /\ day \in run.days /\ day \in Days /\ run.days \subseteq Days
         /\ run.log \in [run.days -> ReportRow \cup {None}] /\ run.usage \in [run.days -> Nat]
         /\ prior = log[day] /\ run.usage[day] <= usage[day] /\ Over1(day) /\ since # None
         /\ run.sub \in SubRow /\ (Pending <=> IsPending(day)) /\ (Lapsed <=> Ended(run.sub, day))
         /\ log[day] \in ReportRow \cup {None} /\ usage[day] \in Nat /\ run.usage[day] \in Nat
<1> USE DEF OutboxInv
<1>1. run \in Walking BY DEF Types, Looking, Idle
<1>2. run.days \subseteq Days /\ run.sub \in SubRow BY <1>1 DEF Walking
<1>3. AtWork BY DEF AtWork
<1>4. day \in run.days /\ day \in Days BY <1>1, <1>3, DayInHand DEF RunInv
<1>5. /\ run.log \in [run.days -> ReportRow \cup {None}] /\ run.usage \in [run.days -> Nat]
      /\ run.log[day] = log[day] /\ run.usage[day] <= usage[day] /\ Over1(day) /\ since # None
  BY <1>3, <1>4 DEF RunInv
<1>6. log[day] \in ReportRow \cup {None} /\ usage[day] \in Nat BY <1>4 DEF Types
<1>6a. run.usage[day] \in Nat BY <1>4, <1>5
<1>7. (Pending <=> IsPending(day)) /\ (Lapsed <=> Ended(run.sub, day))
  <2>1. day \in Nat BY <1>4 DEF Days
  <2> QED BY <1>2, <1>5, <2>1 DEF Pending, prior, IsPending, Lapsed, Ended, SubRow, Starts
<1> QED BY <1>1, <1>2, <1>3, <1>4, <1>5, <1>6, <1>6a, <1>7 DEF prior

\* A day that owes nothing more is passed over.
LEMMA SkipDay == ASSUME OutboxInv, Skip PROVE OutboxInv'
<1> USE DEF Skip, OutboxInv
<1>1. /\ run \in Walking /\ AtWork /\ day \in run.days /\ day \in Days
      /\ (Pending <=> IsPending(day)) /\ (Lapsed <=> Ended(run.sub, day))
  BY AtDay
<1>2. ~IsPending(day)
  BY <1>1 DEF PendingInv, InHand, IsPending
<1>3. \A d \in Days : d = day => ~IsPending(d)'
  BY <1>2 DEF IsPending
<1>4. \A i \in ids : i.day = day => i.id[2] <= log[day].reported
  BY <1>2 DEF IdsInv
<1>5. Prompt => IF log[day] = None THEN meter[day] = 0 ELSE meter[day] = log[day].reported
  BY <1>1, <1>2 DEF MoneyInv
<1>6. log' \in [Days -> ReportRow \cup {None}]
  BY DEF Types
<1> QED BY <1>1, <1>3, <1>4, <1>5, <1>6, DayDone

\* What a plan charges for a day is a natural number.
LEMMA OwedIsNat == ASSUME NEW n \in Nat, NEW p \in Prices \cup {None} PROVE Owed(n, p) \in Nat
<1>1. CASE p = None \/ Included[p] = None BY <1>1 DEF Owed
<1>2. CASE p # None /\ Included[p] # None
  <2>1. Included[p] \in Nat BY <1>2
  <2>2. Max({0, n - Included[p]}) = IF n - Included[p] >= 0 THEN n - Included[p] ELSE 0
    BY <2>1 DEF Max
  <2> QED BY <1>2, <2>1, <2>2 DEF Owed, overageDevices
<1> QED BY <1>1, <1>2

\* A day within its allowance is written down without being sent.
LEMMA RecordDay == ASSUME OutboxInv, recordOverageReport PROVE OutboxInv'
<1> USE DEF recordOverageReport, OutboxInv
<1>1. /\ run \in Walking /\ AtWork /\ day \in run.days /\ day \in Days /\ prior = log[day]
      /\ (Pending <=> IsPending(day)) /\ run.sub \in SubRow /\ run.usage[day] \in Nat
  BY AtDay
<1>1a. run.sub.price \in Prices BY <1>1 DEF SubRow
<1>2. ~IsPending(day) BY <1>1
<1>3. CASE prior # None
  <2>1. log' = log BY <1>3
  <2>2. \A d \in Days : d = day => ~IsPending(d)' BY <1>2, <2>1 DEF IsPending
  <2>3. \A i \in ids : i.day = day => i.id[2] <= log[day].reported
    BY <1>2 DEF IdsInv
  <2>4. Prompt => meter[day] = log[day].reported
    BY <1>1, <1>2, <1>3 DEF MoneyInv
  <2>5. log' \in [Days -> ReportRow \cup {None}] BY <2>1 DEF Types
  <2> QED BY <1>1, <1>3, <2>1, <2>2, <2>3, <2>4, <2>5, DayDone
<1>4. CASE prior = None
  <2> DEFINE x == [reported |-> Over, price |-> run.sub.price, target |-> None, id |-> None]
  <2>1. Over \in Nat /\ Over = 0
    <3>1. Over \in Nat BY <1>1, <1>1a, OwedIsNat DEF Over
    <3>2. Over <= 0 BY <1>4 DEF Reported
    <3> QED BY <3>1, <3>2
  <2>2. x \in ReportRow /\ x.reported = 0 /\ x.target = None
    BY <1>1a, <2>1 DEF ReportRow
  <2>3. x # None BY <2>2
  <2>4. log' = [log EXCEPT ![day] = x] BY <1>4
  <2> HIDE DEF x
  <2>5. log' \in [Days -> ReportRow \cup {None}] /\ log'[day] = x
        /\ \A d \in Days : d # day => log'[d] = log[d]
    BY <1>1, <2>2, <2>4 DEF Types
  <2>6. \A d \in Days : d = day => ~IsPending(d)' BY <2>2, <2>5 DEF IsPending
  <2>7. \A i \in ids : i.day # day BY <1>1, <1>4 DEF IdsInv
  <2>8. Prompt => meter[day] = 0 BY <1>1, <1>4 DEF MoneyInv
  <2> QED BY <1>1, <2>2, <2>3, <2>5, <2>6, <2>7, <2>8, DayDone
<1> QED BY <1>3, <1>4

\* A new submission, written before the call, with an identifier that was never
\* used: its second part is beyond all that has been reported.
RunRewritten(a, x) ==
  /\ run' \in Walking /\ run'.at = a /\ run'.sub = run.sub /\ run'.days = run.days
  /\ run'.usage = run.usage /\ run'.log = [run.log EXCEPT ![day] = x]

\* The row of the day in hand is replaced in what the run holds.
LEMMA Rewrites ==
  ASSUME run \in Walking, run.log \in [run.days -> ReportRow \cup {None}], day \in run.days,
         NEW x \in ReportRow, NEW a \in {"day", "submit", "confirm", "settle"},
         run' = [run EXCEPT !.at = a, !.log[day] = x]
  PROVE  RunRewritten(a, x)
<1> DEFINE l == [run.log EXCEPT ![day] = x]
<1>1. run' = [at |-> a, sub |-> run.sub, days |-> run.days, usage |-> run.usage, log |-> l]
  BY DEF Walking
<1>2. l \in [run.days -> ReportRow \cup {None}] OBVIOUS
<1>3. run.days \in SUBSET Days /\ run.sub \in SubRow
      /\ run.usage \in UNION {[D -> Nat] : D \in SUBSET Days}
  BY DEF Walking
<1> HIDE DEF l
<1>4. run' \in Walking BY <1>1, <1>2, <1>3 DEF Walking
<1> QED BY <1>1, <1>4 DEF RunRewritten, l

\* A run that stays at its day and rewrites the row of it.
LEMMA DayGoesOn ==
  ASSUME OutboxInv, run.at \in {"day", "submit", "confirm", "settle"},
         UNCHANGED <<now, usage, sub, force, hist, since>>,
         NEW a \in {"day", "submit", "confirm", "settle"}, NEW x \in ReportRow,
         log' = [log EXCEPT ![day] = x], RunRewritten(a, x),
         a # "day" => x.target # None,
         x.target # None => /\ x.id = <<x.reported, x.target>> /\ x.reported < x.target
                            /\ ~Ended(run.sub, day)
  PROVE  /\ Types' <=> (meter \in [Days -> Int])' /\ (ids \subseteq Told)'
         /\ RunInv' /\ SinceInv' /\ PendingInv' /\ day' = day
         /\ log' \in [Days -> ReportRow \cup {None}] /\ log'[day] = x /\ x # None
         /\ \A d \in Days : d # day => log'[d] = log[d] /\ IsPending(d)' = IsPending(d)
         /\ \A d \in Days : d = day => (IsPending(d)' <=> x.target # None)
         /\ \A d : InHand(d)' = InHand(d) /\ Old(d)' = Old(d)
         /\ Prompt' = Prompt
<1> USE DEF OutboxInv, RunRewritten
<1>1. /\ run \in Walking /\ AtWork /\ day \in run.days /\ day \in Days /\ run.days \subseteq Days
      /\ run.log \in [run.days -> ReportRow \cup {None}] /\ run.usage \in [run.days -> Nat]
      /\ Over1(day) /\ since # None
  BY AtDay
<1>2. /\ log' \in [Days -> ReportRow \cup {None}] /\ log'[day] = x /\ x # None
      /\ \A d \in Days : d # day => log'[d] = log[d]
  BY <1>1 DEF Types
<1>3. /\ \A d \in Days : d # day => IsPending(d)' = IsPending(d)
      /\ \A d \in Days : d = day => (IsPending(d)' <=> x.target # None)
  BY <1>2 DEF IsPending
<1>4. day' = day /\ AtWork' BY <1>1 DEF day, AtWork
<1>5. \A d : InHand(d)' = InHand(d) /\ Old(d)' = Old(d) /\ Over1(d)' = Over1(d)
  BY <1>1, <1>4 DEF InHand, Old, Over1
<1>6. Types' <=> (meter \in [Days -> Int])' /\ (ids \subseteq Told)'
  BY <1>2 DEF Types
<1>7. RunInv'
  <2>1. \A d \in run.days : /\ Over1(d) /\ (Ended(sub, d) => Ended(run.sub, d))
                            /\ run.log[d] = log[d] /\ run.usage[d] <= usage[d]
    BY <1>1 DEF RunInv
  <2>2. run'.log \in [run'.days -> ReportRow \cup {None}] BY <1>1
  <2>3. \A d \in run'.days : run'.log[d] = log'[d] BY <1>1, <1>2, <2>1
  <2>4. a # "day" => IsPending(day)' BY <1>1, <1>3, <1>4
  <2>5. \A d \in run'.days : /\ Over1(d)' /\ (Ended(sub, d)' => Ended(run.sub, d)')
                             /\ run'.usage[d] <= usage'[d]
    BY <1>5, <2>1 DEF Ended
  <2> QED BY <1>1, <2>2, <2>3, <2>4, <2>5 DEF RunInv
<1>8. SinceInv' BY DEF SinceInv, Prompt
<1>9. PendingInv'
  <2> SUFFICES ASSUME NEW d \in Days, log'[d] # None
               PROVE  /\ Over1(d)'
                      /\ IsPending(d)' =>
                           /\ log'[d].id = <<log'[d].reported, log'[d].target>>
                           /\ log'[d].reported < log'[d].target
                           /\ ~Ended(sub, d)' /\ (InHand(d)' => ~Ended(run'.sub, d))
                           /\ InHand(d)' \/ Old(d)' \/ (~AtWork' /\ since' # None)
    BY DEF PendingInv, Ended
  <2>1. CASE d = day
    <3>1. InHand(d)' BY <1>1, <1>5, <2>1 DEF InHand
    <3>2. Ended(sub, d)' => Ended(run.sub, day) BY <1>1, <2>1 DEF RunInv, Ended
    <3>3. Ended(run'.sub, d) => Ended(run.sub, day) BY <2>1
    <3> QED BY <1>1, <1>2, <1>3, <1>5, <2>1, <3>1, <3>2, <3>3
  <2>2. CASE d # day
    <3>1. log'[d] = log[d] /\ IsPending(d)' = IsPending(d) BY <1>2, <1>3, <2>2
    <3>2. Ended(sub, d)' = Ended(sub, d) BY DEF Ended
    <3> QED BY <1>1, <1>4, <1>5, <3>1, <3>2 DEF PendingInv
  <2> QED BY <2>1, <2>2
<1> QED BY <1>2, <1>3, <1>4, <1>5, <1>6, <1>7, <1>8, <1>9 DEF Prompt

\* The target and the identifier are written before anything is sent.
LEMMA BeginDay == ASSUME OutboxInv, beginOverageReport PROVE OutboxInv'
<1> USE DEF beginOverageReport, OutboxInv
<1>1. /\ run \in Walking /\ AtWork /\ day \in run.days /\ day \in Days /\ prior = log[day]
      /\ run.log \in [run.days -> ReportRow \cup {None}]
      /\ (Pending <=> IsPending(day)) /\ run.sub \in SubRow /\ run.usage[day] \in Nat
      /\ (Lapsed <=> Ended(run.sub, day)) /\ log[day] \in ReportRow \cup {None}
  BY AtDay
<1>1a. run.sub.price \in Prices BY <1>1 DEF SubRow
<1>2. Over \in Nat BY <1>1, <1>1a, OwedIsNat DEF Over
<1>3. /\ Reported \in Nat /\ Reported < Over
      /\ Reported = IF log[day] = None THEN 0 ELSE log[day].reported
  BY <1>1, <1>2 DEF Reported, ReportRow
<1> DEFINE x == [reported |-> Reported, price |-> run.sub.price, target |-> Over,
                 id |-> <<Reported, Over>>]
<1>4. /\ x \in ReportRow /\ x.target = Over /\ x.reported = Reported /\ x.id = <<Reported, Over>>
      /\ x.target # None
  BY <1>1a, <1>2, <1>3 DEF ReportRow
<1>5. log' = [log EXCEPT ![day] = x]
  BY <1>1, <1>3
<1> HIDE DEF x
<1>6. log'[day] = x BY <1>1, <1>5 DEF Types
<1>7. RunRewritten("submit", x)
  <2>1. run' = [run EXCEPT !.at = "submit", !.log[day] = x] BY <1>6
  <2> QED BY <1>1, <1>4, <2>1, Rewrites
<1>8. /\ Types' <=> (meter \in [Days -> Int])' /\ (ids \subseteq Told)'
      /\ RunInv' /\ SinceInv' /\ PendingInv' /\ day' = day
      /\ log' \in [Days -> ReportRow \cup {None}] /\ log'[day] = x /\ x # None
      /\ \A d \in Days : d # day => log'[d] = log[d] /\ IsPending(d)' = IsPending(d)
      /\ \A d \in Days : d = day => (IsPending(d)' <=> x.target # None)
      /\ \A d : InHand(d)' = InHand(d) /\ Old(d)' = Old(d)
      /\ Prompt' = Prompt
  BY <1>1, <1>3, <1>4, <1>5, <1>7, DayGoesOn
<1>9. Types' BY <1>8 DEF Types
<1>10. \A i \in ids : i.day \in Days /\ i.id[2] \in Nat BY DEF Types, Told
<1>11. \A i \in ids : i.day = day => i.id[2] <= Reported
  BY <1>1, <1>3 DEF IdsInv
<1>12. IdsInv'
  <2> SUFFICES ASSUME NEW i \in ids
               PROVE  /\ log'[i.day] # None
                      /\ \/ i.id[2] <= log'[i.day].reported
                         \/ IsPending(i.day)' /\ i.id = log'[i.day].id
    BY DEF IdsInv
  <2>1. CASE i.day = day BY <1>4, <1>8, <1>11, <2>1
  <2>2. CASE i.day # day BY <1>8, <1>10, <2>2 DEF IdsInv
  <2> QED BY <2>1, <2>2
<1>13. MoneyInv'
  <2> SUFFICES ASSUME Prompt, NEW d \in Days
               PROVE  /\ log'[d] = None => meter[d] = 0
                      /\ log'[d] # None /\ ~IsPending(d)' => meter[d] = log'[d].reported
                      /\ IsPending(d)' /\ ~Landed(d)' => meter[d] = log'[d].reported
                      /\ IsPending(d)' /\ Landed(d)' => meter[d] = log'[d].target /\ Remembered(d)'
    BY <1>7, <1>8 DEF MoneyInv, RunRewritten
  <2>1. CASE d = day
    <3>1. meter[day] = Reported BY <1>1, <1>3 DEF MoneyInv
    <3>2. ~Landed(d)'
      <4> SUFFICES ASSUME NEW i \in ids, i.day = day, i.id = x.id PROVE FALSE
        BY <1>8, <2>1 DEF Landed
      <4>1. i.id[2] = Over BY <1>4
      <4>2. i.id[2] <= Reported BY <1>11
      <4> QED BY <1>2, <1>3, <4>1, <4>2
    <3> QED BY <1>4, <1>8, <2>1, <3>1, <3>2
  <2>2. CASE d # day
    <3>1. log'[d] = log[d] /\ IsPending(d)' = IsPending(d) BY <1>8, <2>2
    <3>2. Landed(d)' = Landed(d) /\ Remembered(d)' = Remembered(d)
      BY <1>8, <3>1 DEF Landed, Remembered
    <3> QED BY <3>1, <3>2 DEF MoneyInv
  <2> QED BY <2>1, <2>2
<1> QED BY <1>8, <1>9, <1>12, <1>13

\* The call: a submission that landed is one that Stripe still knows, because
\* the walk that sent it has not been over since.
LEMMA ReportDay == ASSUME OutboxInv, reportUsage PROVE OutboxInv'
<1> USE DEF reportUsage, OutboxInv
<1>1. /\ run.at \in {"day", "submit"}
      /\ run \in Walking /\ AtWork /\ day \in run.days /\ day \in Days /\ prior = log[day]
      /\ run.log \in [run.days -> ReportRow \cup {None}] /\ since # None
      /\ (Pending <=> IsPending(day)) /\ log[day] \in ReportRow \cup {None}
  BY AtDay
<1>2. IsPending(day) BY <1>1 DEF RunInv
<1> DEFINE x == log[day]
<1>3. /\ x \in ReportRow /\ x.target \in Nat /\ x.reported \in Nat /\ x.target # None
      /\ x.id = <<x.reported, x.target>> /\ x.reported < x.target
      /\ x.id \in Nat \X Nat
      /\ ~Ended(run.sub, day)
  <2>1. log[day] # None /\ log[day].target # None BY <1>2 DEF IsPending
  <2>2. x \in ReportRow BY <1>1, <2>1
  <2>3. x.target \in Nat /\ x.reported \in Nat BY <2>1, <2>2 DEF ReportRow
  <2>4. /\ x.id = <<x.reported, x.target>> /\ x.reported < x.target /\ ~Ended(run.sub, day)
    BY <1>1, <1>2, <2>1 DEF PendingInv, InHand
  <2> HIDE DEF x
  <2>5. x.id \in Nat \X Nat BY <2>3, <2>4
  <2> QED BY <2>1, <2>2, <2>3, <2>4, <2>5 DEF x
<1>4. PICK a \in {"confirm", "settle"} : run' = [run EXCEPT !.at = a]
  BY <1>1
<1>5. RunRewritten(a, x)
  <2>1. run.log[day] = x BY <1>1 DEF prior
  <2>2. [run.log EXCEPT ![day] = x] = run.log BY <1>1, <2>1
  <2>3. /\ run' \in Walking /\ run'.at = a /\ run'.sub = run.sub /\ run'.days = run.days
        /\ run'.usage = run.usage /\ run'.log = run.log
    BY <1>1, <1>4 DEF Walking
  <2> QED BY <2>2, <2>3 DEF RunRewritten
<1>6. log' = [log EXCEPT ![day] = x]
  <2>1. log \in [Days -> ReportRow \cup {None}] /\ log' = log BY DEF Types
  <2> QED BY <1>1, <2>1
<1> HIDE DEF x
<1>7. /\ Types' <=> (meter \in [Days -> Int])' /\ (ids \subseteq Told)'
      /\ RunInv' /\ SinceInv' /\ PendingInv' /\ day' = day
      /\ \A d \in Days : d # day => IsPending(d)' = IsPending(d)
      /\ \A d : InHand(d)' = InHand(d) /\ Old(d)' = Old(d)
      /\ Prompt' = Prompt
  BY <1>1, <1>3, <1>5, <1>6, DayGoesOn
<1>8. UNCHANGED <<log, since, now>> /\ now \in Nat BY DEF Types
<1>9. \A d : IsPending(d)' = IsPending(d) BY <1>8 DEF IsPending
<1>10. CASE Known(day, x.id)
  <2>1. UNCHANGED <<meter, ids>> BY <1>1, <1>10 DEF x
  <2>2. Landed(day) BY <1>10 DEF Known, Landed, x
  <2>3. Types' BY <1>7, <2>1 DEF Types
  <2>4. IdsInv' BY <1>8, <1>9, <2>1 DEF IdsInv
  <2>5. \A d : Landed(d)' = Landed(d) /\ Remembered(d)' = Remembered(d)
    BY <1>7, <1>8, <2>1 DEF Landed, Remembered
  <2>6. Landed(day)'
    BY <1>7, <2>2, <2>5
  <2>7. MoneyInv'
    BY <1>7, <1>8, <1>9, <2>1, <2>5, <2>6 DEF MoneyInv
  <2> QED BY <1>7, <2>3, <2>4, <2>7
<1>11. CASE ~Known(day, x.id)
  <2> DEFINE new == [day |-> day, id |-> x.id, at |-> now]
  <2>1. meter' = [meter EXCEPT ![day] = @ + (x.target - x.reported)] /\ ids' = ids \cup {new}
    BY <1>1, <1>11 DEF x
  <2>2. new \in Told /\ new.day = day /\ new.id = x.id /\ new.at = now BY <1>1, <1>3, <1>8 DEF Told
  <2> HIDE DEF new
  <2>3. Types'
    <3>1. meter \in [Days -> Int] /\ ids \subseteq Told BY DEF Types
    <3>2. meter' \in [Days -> Int] BY <1>1, <1>3, <2>1, <3>1
    <3>3. ids' \subseteq Told BY <2>1, <2>2, <3>1
    <3> QED BY <1>7, <3>2, <3>3
  <2>4. IdsInv'
    <3> SUFFICES ASSUME NEW i \in ids'
                 PROVE  /\ log[i.day] # None
                        /\ \/ i.id[2] <= log[i.day].reported
                           \/ IsPending(i.day) /\ i.id = log[i.day].id
      BY <1>8, <1>9 DEF IdsInv
    <3>1. CASE i \in ids BY <3>1 DEF IdsInv
    <3>2. CASE i = new BY <1>2, <2>2, <3>2 DEF IsPending, x
    <3> QED BY <2>1, <3>1, <3>2
  <2>5. ASSUME NEW d \in Days, d # day
        PROVE  Landed(d)' = Landed(d) /\ (Remembered(d) => Remembered(d)') /\ meter'[d] = meter[d]
    <3>1. \A i \in ids' : i.day = d => i \in ids BY <2>1, <2>2, <2>5
    <3>2. ids \subseteq ids' BY <2>1
    <3>3. Landed(d)' = Landed(d) BY <1>8, <3>1, <3>2 DEF Landed
    <3>4. Remembered(d) => Remembered(d)' BY <1>7, <1>8, <3>2 DEF Remembered
    <3> QED BY <2>1, <2>5, <3>3, <3>4 DEF Types
  <2>6. ASSUME NEW d \in Days, d = day PROVE Landed(d)' /\ Remembered(d)'
    <3>1. new \in ids' /\ new.day = d /\ new.id = log'[d].id /\ since <= new.at
      BY <1>1, <1>8, <2>1, <2>2, <2>6 DEF x, SinceInv
    <3> QED BY <1>1, <1>8, <3>1 DEF Landed, Remembered
  <2>7. Prompt => ~Landed(day)
    <3> SUFFICES ASSUME Prompt, Landed(day) PROVE FALSE OBVIOUS
    <3>1. Remembered(day) BY <1>1, <1>2 DEF MoneyInv
    <3>2. PICK i \in ids : i.day = day /\ i.id = x.id /\ since <= i.at
      BY <1>1, <3>1 DEF Remembered, InHand, x
    <3>3. i.at \in Nat /\ since \in Nat /\ now - since < Dedup BY <1>1 DEF Types, Told, SinceInv
    <3>4. now - i.at < Dedup BY <1>8, <3>2, <3>3
    <3> QED BY <1>11, <3>2, <3>4 DEF Known
  <2>8. Prompt => meter'[day] = x.target
    <3>1. Prompt => meter[day] = x.reported BY <1>1, <1>2, <2>7 DEF MoneyInv, x
    <3>2. meter'[day] = meter[day] + (x.target - x.reported) BY <1>1, <2>1 DEF Types
    <3> QED BY <1>3, <3>1, <3>2
  <2>9. MoneyInv'
    <3> SUFFICES ASSUME Prompt
                 PROVE  /\ \A d \in Days :
                             /\ log[d] = None => meter'[d] = 0
                             /\ log[d] # None /\ ~IsPending(d) => meter'[d] = log[d].reported
                             /\ IsPending(d) /\ ~Landed(d)' => meter'[d] = log[d].reported
                             /\ IsPending(d) /\ Landed(d)' => meter'[d] = log[d].target /\ Remembered(d)'
                        /\ Landed(day)'
      BY <1>7, <1>8, <1>9 DEF MoneyInv
    <3>1. Landed(day)' BY <1>1, <1>7, <2>6
    <3>2. ASSUME NEW d \in Days, d = day
          PROVE  /\ log[d] = None => meter'[d] = 0
                 /\ log[d] # None /\ ~IsPending(d) => meter'[d] = log[d].reported
                 /\ IsPending(d) /\ ~Landed(d)' => meter'[d] = log[d].reported
                 /\ IsPending(d) /\ Landed(d)' => meter'[d] = log[d].target /\ Remembered(d)'
      BY <1>2, <2>6, <2>8, <3>2 DEF IsPending, x
    <3>3. ASSUME NEW d \in Days, d # day
          PROVE  /\ log[d] = None => meter'[d] = 0
                 /\ log[d] # None /\ ~IsPending(d) => meter'[d] = log[d].reported
                 /\ IsPending(d) /\ ~Landed(d)' => meter'[d] = log[d].reported
                 /\ IsPending(d) /\ Landed(d)' => meter'[d] = log[d].target /\ Remembered(d)'
      BY <2>5, <3>3 DEF MoneyInv
    <3> QED BY <3>1, <3>2, <3>3
  <2> QED BY <1>7, <2>3, <2>4, <2>9
<1> QED BY <1>10, <1>11

\* The confirmation.
LEMMA ConfirmDay == ASSUME OutboxInv, confirmOverageReport PROVE OutboxInv'
<1> USE DEF confirmOverageReport, OutboxInv
<1>1. /\ run \in Walking /\ AtWork /\ day \in run.days /\ day \in Days /\ prior = log[day]
      /\ run.log \in [run.days -> ReportRow \cup {None}] /\ since # None
      /\ log[day] \in ReportRow \cup {None}
  BY AtDay
<1>2. IsPending(day) BY DEF RunInv
<1>3. /\ log[day] \in ReportRow /\ log[day].target \in Nat /\ log[day].reported \in Nat
      /\ log[day].id = <<log[day].reported, log[day].target>> /\ log[day].reported < log[day].target
  BY <1>1, <1>2 DEF IsPending, ReportRow, PendingInv
<1> DEFINE x == [reported |-> log[day].target, price |-> log[day].price, target |-> None, id |-> None]
<1>4. log' = [log EXCEPT ![day] = x]
  <2>1. [log[day] EXCEPT !.reported = prior.target, !.target = None, !.id = None] = x
    <3>1. PICK r \in ReportRow : r = log[day] BY <1>3
    <3>2. r = [reported |-> r.reported, price |-> r.price, target |-> r.target, id |-> r.id]
      BY DEF ReportRow
    <3>3. PICK a : a = [r EXCEPT !.reported = r.target] OBVIOUS
    <3>4. a = [reported |-> r.target, price |-> r.price, target |-> r.target, id |-> r.id]
      BY <3>2, <3>3
    <3>5. PICK b : b = [a EXCEPT !.target = None] OBVIOUS
    <3>6. b = [reported |-> r.target, price |-> r.price, target |-> None, id |-> r.id]
      BY <3>4, <3>5
    <3>7. [b EXCEPT !.id = None] = [reported |-> r.target, price |-> r.price, target |-> None, id |-> None]
      BY <3>6
    <3>8. [log[day] EXCEPT !.reported = prior.target, !.target = None, !.id = None] = [b EXCEPT !.id = None]
      BY <1>1, <3>1, <3>3, <3>5
    <3> QED BY <3>1, <3>7, <3>8
  <2> HIDE DEF x
  <2>2. log' = [log EXCEPT ![day] = [log[day] EXCEPT !.reported = prior.target, !.target = None, !.id = None]]
    OBVIOUS
  <2> QED BY <2>1, <2>2
<1>5. x \in ReportRow /\ x.reported = log[day].target /\ x.target = None /\ x # None
  <2>1. x \in ReportRow /\ x.reported = log[day].target /\ x.target = None BY <1>3 DEF ReportRow
  <2> QED BY <2>1
<1> HIDE DEF x
<1>6. /\ log' \in [Days -> ReportRow \cup {None}] /\ log'[day] = x
      /\ \A d \in Days : d # day => log'[d] = log[d]
  BY <1>1, <1>4, <1>5 DEF Types
<1>7. \A i \in ids : i.day = day => i.id[2] <= x.reported
  <2> SUFFICES ASSUME NEW i \in ids, i.day = day PROVE i.id[2] <= x.reported OBVIOUS
  <2>1. i.id[2] \in Nat BY DEF Types, Told
  <2>2. i.id[2] <= log[day].reported \/ i.id = <<log[day].reported, log[day].target>>
    BY <1>3 DEF IdsInv
  <2>3. i.id = <<log[day].reported, log[day].target>> => i.id[2] = log[day].target OBVIOUS
  <2> QED BY <1>3, <1>5, <2>1, <2>2, <2>3
<1>8. Prompt => meter[day] = x.reported
  BY <1>1, <1>2, <1>5 DEF MoneyInv
<1>9. CASE run.at = "confirm"
  <2>1. NextDay BY <1>9
  <2>2. \A d \in Days : d = day => ~IsPending(d)' BY <1>5, <1>6 DEF IsPending
  <2> QED BY <1>1, <1>5, <1>6, <1>7, <1>8, <2>1, <2>2, DayDone
<1>10. CASE run.at = "settle"
  <2>1. run' = [run EXCEPT !.at = "day", !.log[day] = x] /\ since' = since BY <1>6, <1>10
  <2>2. RunRewritten("day", x) BY <1>1, <1>5, <2>1, Rewrites
  <2>3. /\ Types' <=> (meter \in [Days -> Int])' /\ (ids \subseteq Told)'
        /\ RunInv' /\ SinceInv' /\ PendingInv'
        /\ \A d \in Days : d # day => log'[d] = log[d] /\ IsPending(d)' = IsPending(d)
        /\ \A d \in Days : d = day => (IsPending(d)' <=> x.target # None)
        /\ \A d : InHand(d)' = InHand(d) /\ Old(d)' = Old(d)
        /\ Prompt' = Prompt
    BY <1>4, <1>5, <1>10, <2>1, <2>2, DayGoesOn
  <2>4. Types' BY <2>3 DEF Types
  <2>5. IdsInv'
    <3> SUFFICES ASSUME NEW i \in ids
                 PROVE  /\ log'[i.day] # None
                        /\ \/ i.id[2] <= log'[i.day].reported
                           \/ IsPending(i.day)' /\ i.id = log'[i.day].id
      BY DEF IdsInv
    <3>0. i.day \in Days BY DEF Types, Told
    <3>1. CASE i.day = day BY <1>5, <1>6, <1>7, <3>1
    <3>2. CASE i.day # day BY <2>3, <3>0, <3>2 DEF IdsInv
    <3> QED BY <3>1, <3>2
  <2>6. MoneyInv'
    <3> SUFFICES ASSUME Prompt, NEW d \in Days
                 PROVE  /\ log'[d] = None => meter[d] = 0
                        /\ log'[d] # None /\ ~IsPending(d)' => meter[d] = log'[d].reported
                        /\ IsPending(d)' /\ ~Landed(d)' => meter[d] = log'[d].reported
                        /\ IsPending(d)' /\ Landed(d)' => meter[d] = log'[d].target /\ Remembered(d)'
      BY <2>2, <2>3 DEF MoneyInv, RunRewritten
    <3>1. CASE d = day BY <1>5, <1>6, <1>8, <2>3, <3>1
    <3>2. CASE d # day
      <4>1. log'[d] = log[d] /\ IsPending(d)' = IsPending(d) BY <2>3, <3>2
      <4>2. Landed(d)' = Landed(d) /\ Remembered(d)' = Remembered(d)
        BY <2>1, <2>3, <4>1 DEF Landed, Remembered
      <4> QED BY <4>1, <4>2 DEF MoneyInv
    <3> QED BY <3>1, <3>2
  <2> QED BY <2>3, <2>4, <2>5, <2>6
<1> QED BY <1>9, <1>10

\* The invariant of the outbox holds in every reachable state.
LEMMA OutboxHolds == Spec => []OutboxInv
<1>1. Init => OutboxInv
  <2> SUFFICES ASSUME Init PROVE OutboxInv OBVIOUS
  <2>0. MaxTick \div 2 \in Nat BY Halves
  <2>1. sub \in SubRow /\ sub.until = None BY DEF Init, SubRow
  <2>2. hist \in Counters BY DEF Init, Counters
  <2>3. Types
    BY <2>1, <2>2 DEF Init, Types, SubRow
  <2>4. run.at = "idle" BY DEF Init, Idle
  <2>5. \A d \in Days : log[d] = None /\ meter[d] = 0 BY DEF Init
  <2>6. RunInv /\ SinceInv /\ PendingInv
    BY <2>4, <2>5 DEF Init, RunInv, SinceInv, PendingInv, AtWork
  <2>7. IdsInv /\ MoneyInv
    BY <2>4, <2>5 DEF Init, IdsInv, MoneyInv, IsPending
  <2> QED BY <2>3, <2>6, <2>7 DEF OutboxInv
<1>2. OutboxInv /\ [Next]_vars => OutboxInv'
  <2> SUFFICES ASSUME OutboxInv, [Next]_vars PROVE OutboxInv' OBVIOUS
  <2>1. CASE Report
    BY <2>1, StartStep, ReadStep, SkipDay, RecordDay, BeginDay, ReportDay, ConfirmDay DEF Report
  <2>2. CASE Abort \/ Tick \/ Lapse BY <2>2, AbortStep, TickStep, LapseStep
  <2>3. ASSUME NEW d \in Days, Sweep(d) PROVE OutboxInv' BY <2>3, SweepStep
  <2>4. ASSUME NEW p \in Prices, Subscribe(p) PROVE OutboxInv' BY <2>4, SubscribeStep
  <2>5. CASE UNCHANGED vars
    <3>1. Types' BY <2>5 DEF OutboxInv, Types, vars
    <3>2. \A d \in Days : usage[d] <= usage[d] BY DEF OutboxInv, Types
    <3>3. Aside
      BY <2>5, <3>2 DEF Aside, vars, OutboxInv, Types, Prompt, SinceInv
    <3> QED BY <3>1, <3>3, AsideKeeps
  <2> QED BY <2>1, <2>2, <2>3, <2>4, <2>5 DEF Next
<1> QED BY <1>1, <1>2, PTL DEF Spec

\* The additive meter and usage_reports never part: a submission that landed and
\* was not confirmed is neither lost nor sent twice, whatever window and
\* whatever memory of Stripe's, however often runs break off and plans change,
\* as long as no broken walk lasts longer than Stripe remembers.
THEOREM MeterAgrees == Spec => []MeterMatchesLog
<1>1. OutboxInv => MeterMatchesLog
  <2> SUFFICES ASSUME OutboxInv, ~hist.outage, NEW d \in Days
               PROVE  IF log[d] = None THEN meter[d] = 0
                      ELSE meter[d] \in {log[d].reported} \cup ({log[d].target} \ {None})
    BY DEF MeterMatchesLog
  <2>1. Prompt BY DEF Prompt
  <2>2. MoneyInv BY DEF OutboxInv
  <2> QED BY <2>1, <2>2 DEF MoneyInv, IsPending
<1> QED BY <1>1, OutboxHolds, PTL

-----------------------------------------------------------------------------
(* No day is billed beyond the plan that was in force when it began.       *)

Straight == ~hist.resumed

\* Without a return at the old price, a day that is neither before the current
\* price nor after the lapse has the current price in force; so for the plan a
\* run holds, and for the price of a row.
ForceInv ==
  Straight =>
    /\ \A d \in Days : Starts(d) <= now /\ ~Earlier(sub, d) /\ ~Ended(sub, d) => force[d] = sub.price
    /\ \A d \in Days : InHand(d) /\ ~Earlier(run.sub, d) /\ ~Ended(run.sub, d) => force[d] = run.sub.price
    /\ \A d \in Days : log[d] # None => force[d] = log[d].price

\* What is reported or on its way is owed by the price of its row.
RowOwed(r, d) ==
  /\ r.reported <= Owed(usage[d], r.price)
  /\ r.target # None => r.target <= Owed(usage[d], r.price)
AmountInv == \A d \in Days : log[d] # None => RowOwed(log[d], d)
BillInv == ForceInv /\ AmountInv /\ (sub.until # None => sub.until <= now)

\* More usage never owes less.
LEMMA OwedGrows ==
  ASSUME NEW n \in Nat, NEW m \in Nat, n <= m, NEW p \in Prices \cup {None}
  PROVE  Owed(n, p) <= Owed(m, p)
<1>1. CASE p = None \/ Included[p] = None BY <1>1 DEF Owed
<1>2. CASE p # None /\ Included[p] # None
  <2>1. Included[p] \in Nat BY <1>2
  <2>2. \A k \in Nat : Max({0, k - Included[p]}) = IF k - Included[p] >= 0 THEN k - Included[p] ELSE 0
    BY <2>1 DEF Max
  <2> QED BY <1>2, <2>1, <2>2 DEF Owed, overageDevices
<1> QED BY <1>1, <1>2

\* A complete day's force is settled: only a day that begins now gets its own.
LEMMA SettledDays ==
  ASSUME OutboxInv, NEW d \in Days, InHand(d) \/ log[d] # None
  PROVE  Starts(d) + 2 <= now /\ Starts(d) \in Nat /\ now \in Nat
<1> USE DEF OutboxInv
<1>1. Over1(d) BY DEF RunInv, PendingInv, InHand
<1> QED BY <1>1 DEF Over1, Starts, Days, Types

\* Steps of a run, which leave the plan and the days alone.
LEMMA BillLog ==
  ASSUME OutboxInv, BillInv, UNCHANGED <<now, usage, sub, force>>, Straight' = Straight,
         \A d \in Days : InHand(d)' => InHand(d) /\ run'.sub = run.sub,
         \A d \in Days : log'[d] # None => \/ log'[d] = log[d]
                                           \/ /\ Straight => force[d] = log'[d].price
                                              /\ RowOwed(log'[d], d)
  PROVE  BillInv'
<1> USE DEF BillInv
<1>1. AmountInv' BY DEF AmountInv, RowOwed
<1>2. ForceInv' BY DEF ForceInv, Earlier, Ended
<1> QED BY <1>1, <1>2

\* Time that passes, and a lapse, change no past day and no row.
LEMMA BillWorld == ASSUME OutboxInv, BillInv, Tick \/ Lapse PROVE BillInv'
<1> USE DEF OutboxInv, BillInv
<1>0. /\ now \in Nat /\ sub \in SubRow /\ force \in [Days -> Prices \cup {None}]
      /\ \A d \in Days : Starts(d) \in Nat
  BY DEF Types, Starts, Days
<1>1. UNCHANGED <<usage, log, run>> BY DEF Tick, Lapse
<1>2. AmountInv' BY <1>1 DEF AmountInv, RowOwed
<1>3. hist'.resumed = hist.resumed
  <2>1. CASE Lapse BY <2>1, CounterTyped DEF Lapse, Types
  <2>2. CASE Tick
    <3>1. hist \in Counters BY DEF Types
    <3> QED BY <2>2, <3>1 DEF Tick, Counters
  <2> QED BY <2>1, <2>2
<1>4. \A d \in Days : InHand(d) \/ log[d] # None => force'[d] = force[d] /\ Starts(d) + 2 <= now
  <2> SUFFICES ASSUME NEW d \in Days, InHand(d) \/ log[d] # None
               PROVE  force'[d] = force[d] /\ Starts(d) + 2 <= now
    OBVIOUS
  <2>1. Starts(d) + 2 <= now /\ Starts(d) \in Nat /\ now \in Nat BY SettledDays
  <2>2. Starts(d) # now /\ Starts(d) # now + 1 BY <2>1
  <2> QED BY <2>1, <2>2 DEF Tick, Lapse
<1>5. \A d : InHand(d)' = InHand(d) BY <1>1 DEF InHand, AtWork
<1>6. CASE Tick
  <2>1. sub' = sub /\ now' = now + 1 BY <1>6 DEF Tick
  <2>2. sub.until # None => sub.until <= now + 1 BY <1>0 DEF SubRow
  <2>3. ASSUME Straight, NEW d \in Days, Starts(d) <= now + 1, ~Earlier(sub, d), ~Ended(sub, d)
        PROVE  force'[d] = sub.price
    <3>1. CASE Starts(d) = now + 1
      <4>1. sub.until = None BY <1>0, <2>3, <3>1 DEF Ended, SubRow
      <4> QED BY <1>6, <3>1, <4>1 DEF Tick
    <3>2. CASE Starts(d) # now + 1
      <4>1. Starts(d) <= now BY <1>0, <2>3, <3>2
      <4>2. force'[d] = force[d] BY <1>6, <3>2 DEF Tick
      <4> QED BY <2>3, <4>1, <4>2 DEF ForceInv
    <3> QED BY <3>1, <3>2
  <2>4. ForceInv'
    BY <1>1, <1>3, <1>4, <1>5, <2>1, <2>3 DEF ForceInv, Straight, Earlier, Ended
  <2> QED BY <1>2, <2>1, <2>2, <2>4
<1>7. CASE Lapse
  <2>1. /\ now' = now /\ sub.until = None
        /\ sub'.until = now /\ sub'.from = sub.from /\ sub'.price = sub.price
    BY <1>0, <1>7 DEF Lapse, SubRow
  <2>2. ASSUME Straight, NEW d \in Days, Starts(d) <= now, ~Earlier(sub', d), ~Ended(sub', d)
        PROVE  force'[d] = sub.price
    <3>1. Starts(d) # now BY <1>0, <2>1, <2>2 DEF Ended
    <3>2. force'[d] = force[d] BY <1>7, <3>1 DEF Lapse
    <3>3. ~Earlier(sub, d) /\ ~Ended(sub, d) BY <2>1, <2>2 DEF Earlier, Ended
    <3> QED BY <2>2, <3>2, <3>3 DEF ForceInv
  <2>3. ForceInv'
    BY <1>1, <1>3, <1>4, <1>5, <2>1, <2>2 DEF ForceInv, Straight, Earlier, Ended
  <2>4. sub'.until <= now' BY <1>0, <2>1
  <2> QED BY <1>2, <2>3, <2>4
<1> QED BY <1>6, <1>7

\* A new plan counts from its own day on.
LEMMA BillSubscribe == ASSUME OutboxInv, BillInv, NEW p \in Prices, Subscribe(p) PROVE BillInv'
<1> USE DEF OutboxInv, BillInv, Subscribe
<1>0. /\ now \in Nat /\ sub \in SubRow /\ force \in [Days -> Prices \cup {None}] /\ hist \in Counters
      /\ \A d \in Days : Starts(d) \in Nat
  BY DEF Types, Starts, Days
<1>1. UNCHANGED <<usage, log, run, now>> OBVIOUS
<1>2. AmountInv' BY <1>1 DEF AmountInv, RowOwed
<1>3. sub'.until = None /\ sub'.price = p /\ sub'.from = IF p # sub.price THEN now ELSE sub.from
  OBVIOUS
<1>4. \A d \in Days : InHand(d) \/ log[d] # None => force'[d] = force[d]
  <2> SUFFICES ASSUME NEW d \in Days, InHand(d) \/ log[d] # None PROVE force'[d] = force[d]
    OBVIOUS
  <2>1. Starts(d) + 2 <= now /\ Starts(d) \in Nat /\ now \in Nat BY SettledDays
  <2>2. Starts(d) # now BY <2>1
  <2> QED BY <2>2
<1>5. \A d : InHand(d)' = InHand(d) BY <1>1 DEF InHand, AtWork
<1>6. Straight' => Straight /\ p # sub.price
  <2> DEFINE b == hist.resumed \/ p = sub.price
  <2>1. b \in BOOLEAN BY <1>0 DEF Counters
  <2>2. hist' = [[hist EXCEPT !.changes = @ + 1] EXCEPT !.resumed = b] OBVIOUS
  <2>3. ~b => Straight /\ p # sub.price BY DEF Straight
  <2> HIDE DEF b
  <2>4. PICK h : h = [hist EXCEPT !.changes = @ + 1] OBVIOUS
  <2>5. h \in Counters BY <1>0, <2>4 DEF Counters
  <2>6. hist' = [h EXCEPT !.resumed = b] BY <2>2, <2>4
  <2>7. hist'.resumed = b BY <2>1, <2>5, <2>6 DEF Counters
  <2> QED BY <2>3, <2>7 DEF Straight
<1>7. ASSUME Straight', NEW d \in Days, Starts(d) <= now, ~Earlier(sub', d)
      PROVE  force'[d] = p
  <2>1. p # sub.price BY <1>6, <1>7
  <2>2. sub'.from = now BY <1>3, <2>1
  <2>3. ~(Starts(d) < now) BY <1>0, <1>7, <2>2 DEF Earlier
  <2>4. Starts(d) = now BY <1>0, <1>7, <2>3
  <2> QED BY <2>4
<1>8. ForceInv'
  BY <1>1, <1>3, <1>4, <1>5, <1>6, <1>7 DEF ForceInv, Earlier, Ended
<1> QED BY <1>2, <1>3, <1>8

\* A run writes no row but the one of the day in hand.
LEMMA BillRun ==
  ASSUME OutboxInv, BillInv, Start \/ Read \/ Abort \/ Skip \/ reportUsage \/ (\E d \in Days : Sweep(d))
  PROVE  BillInv'
<1> USE DEF OutboxInv
<1>1. CASE \E d \in Days : Sweep(d)
  <2>1. PICK e \in Days : Sweep(e) BY <1>1
  <2>2. UNCHANGED <<now, sub, log, run, force>> BY <2>1 DEF Sweep
  <2>3. hist'.resumed = hist.resumed BY <2>1, CounterTyped DEF Sweep, Types
  <2>4. \A d \in Days : usage[d] \in Nat /\ usage'[d] \in Nat /\ usage[d] <= usage'[d]
    BY <2>1 DEF Sweep, Types
  <2>5. \A d : InHand(d)' = InHand(d) BY <2>2 DEF InHand, AtWork
  <2>6. AmountInv'
    <3> SUFFICES ASSUME NEW d \in Days, log[d] # None PROVE RowOwed(log[d], d)'
      BY <2>2 DEF AmountInv
    <3>1. log[d] \in ReportRow BY DEF Types
    <3>2. log[d].price \in Prices /\ log[d].reported \in Nat /\ log[d].target \in Nat \cup {None}
      BY <3>1 DEF ReportRow
    <3>3. Owed(usage[d], log[d].price) <= Owed(usage'[d], log[d].price)
      BY <2>4, <3>2, OwedGrows
    <3>4. Owed(usage[d], log[d].price) \in Nat /\ Owed(usage'[d], log[d].price) \in Nat
      BY <2>4, <3>2, OwedIsNat
    <3>5. RowOwed(log[d], d) BY DEF BillInv, AmountInv
    <3> QED BY <2>2, <3>2, <3>3, <3>4, <3>5 DEF RowOwed
  <2>7. ForceInv' BY <2>2, <2>3, <2>5 DEF BillInv, ForceInv, Straight, Earlier, Ended
  <2> QED BY <2>2, <2>6, <2>7 DEF BillInv
<1>2. CASE Start
  <2>0. UNCHANGED <<now, usage, sub, force, log, hist>> /\ run'.sub = sub
        /\ run'.days = billableDays(now) /\ now \in Nat
    BY <1>2 DEF Start, Types
  <2>1. \A d \in Days : InHand(d)' => Starts(d) <= now
    <3> SUFFICES ASSUME NEW d \in Days, InHand(d)' PROVE Starts(d) <= now OBVIOUS
    <3>1. Starts(d) + 2 <= now BY <2>0, Billable DEF InHand
    <3> QED BY <2>0, <3>1 DEF Starts, Days
  <2>2. AmountInv' BY <2>0 DEF BillInv, AmountInv, RowOwed
  <2>3. ForceInv' BY <2>0, <2>1 DEF BillInv, ForceInv, Straight, Earlier, Ended
  <2> QED BY <2>0, <2>2, <2>3 DEF BillInv
<1>3. CASE Read
  <2>1. UNCHANGED <<now, usage, sub, force, log, hist>> BY <1>3 DEF Read
  <2>2. AtWork /\ run'.days = run.days /\ run'.sub = run.sub BY <1>3 DEF Read, AtWork
  <2> QED BY <2>1, <2>2, BillLog DEF InHand, Straight
<1>4. CASE Abort
  <2>1. UNCHANGED <<now, usage, sub, force, log>> /\ run' = Idle BY <1>4 DEF Abort
  <2>2. hist'.resumed = hist.resumed BY <1>4, CounterTyped DEF Abort, Types
  <2>3. \A d : ~InHand(d)' BY <2>1 DEF InHand, AtWork, Idle
  <2> QED BY <2>1, <2>2, <2>3, BillLog DEF Straight
<1>5. CASE Skip
  <2>1. UNCHANGED <<now, usage, sub, force, log, hist>> /\ NextDay /\ run.at = "day"
    BY <1>5 DEF Skip
  <2>2. /\ run \in Walking /\ run.usage \in [run.days -> Nat] /\ AtWork
        /\ run.log \in [run.days -> ReportRow \cup {None}]
    BY <2>1, AtDay
  <2>3. \A d : InHand(d)' => InHand(d) /\ run'.sub = run.sub
    BY <2>1, <2>2, WalkGoesOn DEF InHand, AtWork, Idle
  <2> QED BY <2>1, <2>3, BillLog DEF Straight
<1>6. CASE reportUsage
  <2>1. UNCHANGED <<now, usage, sub, force, log, hist>> BY <1>6 DEF reportUsage
  <2>2. run.at \in {"day", "submit"} BY <1>6 DEF reportUsage
  <2>3. run \in Walking /\ AtWork BY <2>2, AtDay
  <2>4. run'.days = run.days /\ run'.sub = run.sub BY <1>6, <2>3 DEF reportUsage, Walking
  <2> QED BY <2>1, <2>3, <2>4, BillLog DEF InHand, Straight
<1> QED BY <1>1, <1>2, <1>3, <1>4, <1>5, <1>6

\* The row that is written asks no more than the plan in force that day.
LEMMA BillDay ==
  ASSUME OutboxInv, BillInv, recordOverageReport \/ beginOverageReport \/ confirmOverageReport
  PROVE  BillInv'
<1> USE DEF OutboxInv
<1>0. run.at \in {"day", "submit", "confirm", "settle"} /\ UNCHANGED <<now, usage, sub, force, hist>>
  BY DEF recordOverageReport, beginOverageReport, confirmOverageReport
<1>1. /\ run \in Walking /\ AtWork /\ day \in run.days /\ day \in Days /\ prior = log[day]
      /\ run.log \in [run.days -> ReportRow \cup {None}] /\ run.usage \in [run.days -> Nat]
      /\ run.sub \in SubRow /\ (Lapsed <=> Ended(run.sub, day)) /\ run.usage[day] <= usage[day]
      /\ log[day] \in ReportRow \cup {None} /\ usage[day] \in Nat /\ run.usage[day] \in Nat
      /\ log \in [Days -> ReportRow \cup {None}]
  BY <1>0, AtDay DEF Types
<1>1a. run.sub.price \in Prices BY <1>1 DEF SubRow
<1>2. /\ Over \in Nat /\ Over <= Owed(usage[day], run.sub.price)
  BY <1>1, <1>1a, OwedIsNat, OwedGrows DEF Over
<1>2a. Owed(usage[day], run.sub.price) \in Nat BY <1>1, <1>1a, OwedIsNat
<1>3. \A d : InHand(d)' => InHand(d) /\ run'.sub = run.sub
  <2>1. CASE NextDay BY <1>1, <2>1, WalkGoesOn DEF InHand, AtWork, Idle
  <2>2. CASE \E x : run' = [run EXCEPT !.at = "day", !.log[day] = x]
    BY <1>1, <2>2 DEF InHand, Walking
  <2>3. CASE \E x : run' = [run EXCEPT !.at = "submit", !.log[day] = x]
    BY <1>1, <2>3 DEF InHand, Walking
  <2> QED BY <2>1, <2>2, <2>3 DEF recordOverageReport, beginOverageReport, confirmOverageReport
<1>4. ASSUME ~Frozen, ~Lapsed, Straight
      PROVE  force[day] = run.sub.price
  <2>1. CASE prior = None
    <3>1. ~Earlier(run.sub, day) BY <1>4, <2>1 DEF Frozen, Earlier
    <3> QED BY <1>1, <1>4, <3>1 DEF BillInv, ForceInv, InHand
  <2>2. CASE prior # None
    <3>1. log[day].price = run.sub.price BY <1>1, <1>4, <2>2 DEF Frozen
    <3> QED BY <1>1, <1>4, <2>2, <3>1 DEF BillInv, ForceInv
  <2> QED BY <2>1, <2>2
<1>5. SUFFICES ASSUME NEW x, log' = [log EXCEPT ![day] = x],
                      Straight => force[day] = x.price, RowOwed(x, day)
               PROVE  BillInv'
  <2>1. CASE recordOverageReport /\ prior # None
    <3>1. log' = log BY <2>1 DEF recordOverageReport
    <3> QED BY <1>0, <1>3, <3>1, BillLog DEF Straight
  <2>2. CASE recordOverageReport /\ prior = None
    <3> DEFINE y == [reported |-> Over, price |-> run.sub.price, target |-> None, id |-> None]
    <3>1. log' = [log EXCEPT ![day] = y] /\ ~Frozen /\ ~Lapsed BY <2>2 DEF recordOverageReport
    <3>2. y.reported = Over /\ y.price = run.sub.price /\ y.target = None OBVIOUS
    <3> HIDE DEF y
    <3>3. RowOwed(y, day) BY <1>2, <3>2 DEF RowOwed
    <3> QED BY <1>4, <1>5, <3>1, <3>2, <3>3
  <2>3. CASE beginOverageReport
    <3> DEFINE y == [reported |-> IF log[day] = None THEN Reported ELSE log[day].reported,
                     price |-> run.sub.price, target |-> Over, id |-> <<Reported, Over>>]
    <3>1. log' = [log EXCEPT ![day] = y] /\ ~Frozen /\ ~Lapsed BY <1>1, <2>3 DEF beginOverageReport
    <3>2. y.price = run.sub.price /\ y.target = Over
          /\ y.reported = IF log[day] = None THEN Reported ELSE log[day].reported
      OBVIOUS
    <3> HIDE DEF y
    <3>3. y.reported <= Owed(usage[day], run.sub.price)
      <4>1. CASE log[day] = None BY <1>1, <1>2a, <3>2, <4>1 DEF Reported
      <4>2. CASE log[day] # None
        <5>1. log[day].price = run.sub.price BY <1>1, <3>1, <4>2 DEF Frozen
        <5> QED BY <1>1, <3>2, <4>2, <5>1 DEF BillInv, AmountInv, RowOwed
      <4> QED BY <4>1, <4>2
    <3>4. RowOwed(y, day) BY <1>2, <3>2, <3>3 DEF RowOwed
    <3> QED BY <1>4, <1>5, <3>1, <3>2, <3>4
  <2>4. CASE confirmOverageReport
    <3>1. IsPending(day) BY <2>4 DEF RunInv, confirmOverageReport
    <3>2. log[day] \in ReportRow /\ log[day] # None /\ log[day].target # None
      BY <1>1, <3>1 DEF IsPending
    <3>3. PICK a : a = [log[day] EXCEPT !.reported = prior.target] OBVIOUS
    <3>4. PICK b : b = [a EXCEPT !.target = None] OBVIOUS
    <3>5. PICK y : y = [b EXCEPT !.id = None] OBVIOUS
    <3>6. log' = [log EXCEPT ![day] = y] BY <2>4, <3>3, <3>4, <3>5 DEF confirmOverageReport
    <3>7. log[day].target \in Nat BY <3>2 DEF ReportRow
    <3>8. a \in ReportRow /\ a.reported = log[day].target /\ a.price = log[day].price
      BY <1>1, <3>2, <3>3, <3>7 DEF ReportRow
    <3>9. b \in ReportRow /\ b.reported = log[day].target /\ b.price = log[day].price /\ b.target = None
      BY <3>4, <3>8 DEF ReportRow
    <3>10. y.reported = log[day].target /\ y.price = log[day].price /\ y.target = None
      BY <3>5, <3>9 DEF ReportRow
    <3>11. RowOwed(y, day) BY <1>1, <3>2, <3>10 DEF RowOwed, BillInv, AmountInv
    <3>12. Straight => force[day] = y.price BY <1>1, <3>2, <3>10 DEF BillInv, ForceInv
    <3> QED BY <1>5, <3>6, <3>11, <3>12
  <2> QED BY <2>1, <2>2, <2>3, <2>4
<1>6. \A d \in Days : log'[d] = log[d] \/ (d = day /\ log'[d] = x)
  BY <1>1, <1>5
<1> QED BY <1>0, <1>3, <1>5, <1>6, BillLog DEF Straight

\* A plan change, a lapse and late usage never turn past days into overage: for
\* every allowance and window, what the meter holds for a day is owed by the
\* plan that was in force when the day began, as long as no broken walk outlasts
\* Stripe's memory and no subscriber returns at the price it lapsed from.
THEOREM NeverOverbilled == Spec => []NoDayOverbilled
<1>1. Init => BillInv
  <2> SUFFICES ASSUME Init PROVE BillInv OBVIOUS
  <2>1. \A d \in Days : log[d] = None /\ d \in Nat BY DEF Init, Days
  <2>2. /\ run.at = "idle" /\ sub.until = None /\ now = 0
        /\ \A d \in Days : d = 0 => force[d] = sub.price
    BY DEF Init, Idle
  <2>3. \A d \in Days : Starts(d) <= now => force[d] = sub.price
    BY <2>1, <2>2 DEF Starts
  <2> QED BY <2>1, <2>2, <2>3 DEF BillInv, ForceInv, AmountInv, InHand, AtWork
<1>2. OutboxInv /\ BillInv /\ [Next]_vars => BillInv'
  <2> SUFFICES ASSUME OutboxInv, BillInv, [Next]_vars PROVE BillInv' OBVIOUS
  <2>1. CASE Report BY <2>1, BillRun, BillDay DEF Report
  <2>2. CASE Abort \/ \E d \in Days : Sweep(d) BY <2>2, BillRun
  <2>3. CASE Tick \/ Lapse BY <2>3, BillWorld
  <2>4. ASSUME NEW p \in Prices, Subscribe(p) PROVE BillInv' BY <2>4, BillSubscribe
  <2>5. CASE UNCHANGED vars
    <3>1. UNCHANGED <<now, usage, sub, force, log, run, hist>> BY <2>5 DEF vars
    <3>2. \A d : InHand(d)' = InHand(d) BY <3>1 DEF InHand, AtWork
    <3> QED BY <3>1, <3>2, BillLog DEF Straight
  <2> QED BY <2>1, <2>2, <2>3, <2>4, <2>5 DEF Next
<1>3. OutboxInv /\ BillInv => NoDayOverbilled
  <2> SUFFICES ASSUME OutboxInv, BillInv, ~hist.outage, ~hist.resumed, NEW d \in Days
               PROVE  meter[d] <= Owed(usage[d], force[d])
    BY DEF NoDayOverbilled
  <2>0. Prompt /\ Straight /\ MoneyInv BY DEF Prompt, Straight, OutboxInv
  <2>1. usage[d] \in Nat /\ force[d] \in Prices \cup {None} BY DEF OutboxInv, Types
  <2>2. CASE log[d] = None
    <3>1. meter[d] = 0 BY <2>0, <2>2 DEF MoneyInv
    <3>2. Owed(usage[d], force[d]) \in Nat BY <2>1, OwedIsNat
    <3> QED BY <3>1, <3>2
  <2>3. CASE log[d] # None
    <3>1. RowOwed(log[d], d) /\ force[d] = log[d].price
      BY <2>0, <2>3 DEF BillInv, AmountInv, ForceInv
    <3>2. \/ meter[d] = log[d].reported
          \/ log[d].target # None /\ meter[d] = log[d].target
      BY <2>0, <2>3 DEF MoneyInv, IsPending
    <3> QED BY <3>1, <3>2 DEF RowOwed
  <2> QED BY <2>2, <2>3
<1> QED BY <1>1, <1>2, <1>3, OutboxHolds, PTL DEF Spec
=============================================================================
