--------------------------- MODULE TenantGateProofs ---------------------------
(***************************************************************************)
(* Machine-checked proof about TenantGate, for every fleet, number of      *)
(* requests, lapses and failures, and every length of the ladder: nobody   *)
(* is cut off unwarned, and the registry that ingest obeys agrees with the *)
(* database.                                                               *)
(***************************************************************************)
EXTENDS TenantGate, TLAPS

USE GateAssumption

Stages == {"pass", "warn", "mark", "cut"}

\* What the sweep holds of the tenant it is looking at, and what it holds while
\* it walks over the fleet.
Looking == [at : Stages, lapsed : BOOLEAN, epi : Nat, past : Int, susp : BOOLEAN, stage : Int, sent : Int]
Walking == [at : {"up", "eval", "multi", "list", "flag", "retire"}, walk : {"up", "eval"},
            devs : SUBSET Devices, then : {"idle", "flag", "retire"}, dev : Devices \cup {None},
            keep : BOOLEAN]

TenantRow == [lapsed : BOOLEAN, epi : Nat, since : Int, susp : BOOLEAN, stage : Int,
              for : Nat \cup {None}]

\* The types the argument needs; of the requests only that they are not the sweep.
LadderTypes ==
  /\ job = [p \in Actors |-> job[p]]
  /\ seen \in Looking \cup Walking \cup {Idle, [at |-> "downlist"]}
  /\ tenant \in TenantRow
  /\ day \in Int

Final(e) == [epi |-> e, stage |-> SUSPEND_AFTER]

\* A final stage on the row, or in the list the sweep works from, was mailed for
\* the lapse it names; a stage about to be recorded has just been mailed; and a
\* run that has mailed works from a list in which the final stage is missing.
Mailed ==
  /\ tenant.stage >= SUSPEND_AFTER => Final(tenant.for) \in told
  /\ seen.at \in Stages =>
       /\ seen.stage >= SUSPEND_AFTER => Final(seen.epi) \in told
       /\ seen.at \in {"pass", "warn"} => seen.sent = 0
       /\ seen.at = "mark" => [epi |-> seen.epi, stage |-> noticeDue] \in told
       /\ seen.sent # 0 => seen.stage < SUSPEND_AFTER

LadderInv == LadderTypes /\ Mailed

\* A notice is never beyond the last stage of the ladder.
LEMMA NoticeIsBounded ==
  ASSUME LadderTypes, seen.at \in Stages
  PROVE  noticeDue \in Int /\ noticeDue <= SUSPEND_AFTER
<1>1. seen.past \in Int
  BY DEF LadderTypes, Looking, Walking, Stages, Idle
<1>2. \A a, b \in Int : Min({a, b}) \in Int /\ Min({a, b}) <= b
  <2> SUFFICES ASSUME NEW a \in Int, NEW b \in Int PROVE Min({a, b}) \in Int /\ Min({a, b}) <= b
    OBVIOUS
  <2>1. \E x \in {a, b} : \A y \in {a, b} : x =< y
    OBVIOUS
  <2> QED BY <2>1 DEF Min
<1> QED BY <1>1, <1>2 DEF noticeDue

\* What happens to a row whose suspension or lapse ends, with or without its ladder.
LEMMA LadderDown ==
  ASSUME NEW t \in TenantRow, NEW r, NEW u,
         \/ r = [t EXCEPT !.lapsed = FALSE] \/ r = [t EXCEPT !.susp = FALSE],
         u = [r EXCEPT !.stage = 0, !.for = None]
  PROVE  /\ r \in TenantRow /\ r.stage = t.stage /\ r.for = t.for /\ (r.susp => t.susp)
         /\ u \in TenantRow /\ u.stage = 0 /\ (u.susp => t.susp)
<1>1. r \in TenantRow /\ r.stage = t.stage /\ r.for = t.for /\ (r.susp => t.susp)
  BY DEF TenantRow
<1>2. PICK q : q = [r EXCEPT !.stage = 0]
  OBVIOUS
<1>3. q \in TenantRow /\ q.stage = 0 /\ q.susp = r.susp
  BY <1>1, <1>2 DEF TenantRow
<1>4. u = [q EXCEPT !.for = None]
  BY <1>2
<1>5. u \in TenantRow /\ u.stage = 0 /\ u.susp = r.susp
  BY <1>3, <1>4 DEF TenantRow
<1> QED BY <1>1, <1>5

\* A step that leaves the ladder as it is or takes it down, and suspends nobody.
LadderSpared ==
  /\ tenant' \in TenantRow
  /\ day' \in Int
  /\ \/ tenant'.stage = tenant.stage /\ tenant'.for = tenant.for
     \/ tenant'.stage = 0
  /\ tenant'.susp => tenant.susp
  /\ told' = told

\* What an operation of another process may do as far as the ladder goes.
Aside ==
  /\ job' = [p \in Actors |-> job'[p]] /\ seen' = seen
  /\ LadderSpared

\* Such a step keeps the invariant.
LEMMA AsideKeeps == LadderInv /\ Aside => LadderInv'
<1> SUFFICES ASSUME LadderInv, Aside PROVE LadderInv'
  OBVIOUS
<1>1. LadderTypes'
  BY DEF LadderInv, LadderTypes, Aside, LadderSpared
<1>2. noticeDue' = noticeDue
  BY DEF Aside, LadderSpared, noticeDue
<1>3. Mailed'
  BY <1>2 DEF LadderInv, Mailed, Aside, LadderSpared, Final
<1> QED BY <1>1, <1>3 DEF LadderInv

\* The walk of a request, and every other thing a request does, is aside.
LEMMA RequestsAreAside ==
  ASSUME LadderInv, NEW p \in Requests,
         \/ Step(p) \/ Restore(p) \/ Pay(p) \/ Boot(p)
         \/ \E d \in Devices : Create(p, d) \/ Retire(p, d)
  PROVE  Aside
<1>1. p \in Actors /\ Sweeper \in Actors /\ p # Sweeper
  BY DEF Actors
<1>2. ASSUME NEW j, job' = [job EXCEPT ![p] = j] PROVE job' = [q \in Actors |-> job'[q]] /\ seen' = seen
  BY <1>1, <1>2 DEF LadderInv, LadderTypes, seen
<1> USE DEF LadderInv, LadderTypes
<1>3. ASSUME NEW d \in Devices, activateDevice(p, d) PROVE Aside
  BY <1>2, <1>3 DEF activateDevice, Aside, LadderSpared
<1>4. ASSUME NEW d \in Devices, deactivateImei(p, d) PROVE Aside
  <2>1. job' = [job EXCEPT ![p] = [[@ EXCEPT !.at = "multi"] EXCEPT !.dev = d]]
    BY <1>1, <1>4 DEF deactivateImei
  <2> QED BY <1>2, <1>4, <2>1 DEF deactivateImei, Aside, LadderSpared
<1>5. CASE deactivateDevice(p) BY <1>2, <1>5 DEF deactivateDevice, Aside, LadderSpared
<1>6. CASE registryDevicesFor(p) BY <1>2, <1>6 DEF registryDevicesFor, Aside, LadderSpared
<1>7. CASE unsuspend(p)
  <2>1. PICK r : r = [tenant EXCEPT !.susp = FALSE]
    OBVIOUS
  <2>2. tenant' = tenant \/ tenant' = r \/ tenant' = [r EXCEPT !.stage = 0, !.for = None]
    BY <1>7, <2>1 DEF unsuspend
  <2> QED BY <1>2, <1>7, <2>1, <2>2, LadderDown, ZenonT(60) DEF unsuspend, Aside, LadderSpared
<1>8. CASE retire(p) \/ PaidCheck(p) \/ rehydrateRegistries(p)
  BY <1>2, <1>8 DEF retire, PaidCheck, rehydrateRegistries, Aside, LadderSpared
<1>9. CASE Restore(p) \/ Boot(p)
  BY <1>2, <1>9 DEF Restore, Boot, Serve, Aside, LadderSpared
<1>11. CASE Pay(p)
  <2>1. PICK r : r = [tenant EXCEPT !.lapsed = FALSE]
    OBVIOUS
  <2>2. tenant' = [r EXCEPT !.stage = 0, !.for = None]
    BY <1>11, <2>1 DEF Pay
  <2> QED BY <1>2, <1>11, <2>1, <2>2, LadderDown DEF Pay, Serve, Aside, LadderSpared
<1>10. ASSUME NEW d \in Devices, Create(p, d) \/ Retire(p, d) PROVE Aside
  BY <1>2, <1>10 DEF Create, Retire, Serve, Aside, LadderSpared
<1> QED BY <1>3, <1>4, <1>5, <1>6, <1>7, <1>8, <1>9, <1>10, <1>11 DEF Step

\* What the sweep does once its decision is made: it walks, or is over.
Walks ==
  /\ job' = [p \in Actors |-> job'[p]] /\ seen' \in Walking \cup {Idle}
  /\ LadderSpared

\* So does such a step of the sweep.
LEMMA WalksKeeps == LadderInv /\ Walks => LadderInv'
<1> SUFFICES ASSUME LadderInv, Walks PROVE LadderInv'
  OBVIOUS
<1>1. LadderTypes' /\ seen'.at \notin Stages
  BY DEF LadderInv, LadderTypes, Walks, LadderSpared, Walking, Stages, Idle
<1>2. Mailed'
  BY <1>1 DEF LadderInv, Mailed, Walks, LadderSpared, Final
<1> QED BY <1>1, <1>2 DEF LadderInv

\* A walk that is made, or goes on after a device.
LEMMA WalkTyped ==
  ASSUME NEW devs \in SUBSET Devices, NEW w \in {"up", "eval"}, NEW then \in {"idle", "flag"}
  PROVE  /\ Walk(w, devs, then) \in Walking \cup {Idle}
         /\ Walk("up", devs, "flag") \in Walking
  BY DEF Walk, Walking, Idle

\* A walk of the sweep stays one, or ends.
LEMMA AfterTyped ==
  ASSUME LadderTypes, seen \in Walking, NEW d
  PROVE  After(Sweeper, d) \in Walking \cup {Idle}
  BY DEF LadderTypes, After, Walking, Idle, seen

\* Once it walks, the sweep does nothing to the ladder but take it down.
LEMMA SweepWalks == ASSUME LadderInv, Step(Sweeper) PROVE Walks
<1>1. Sweeper \in Actors
  BY DEF Actors
<1>2. ASSUME NEW j \in Walking \cup {Idle}, job' = [job EXCEPT ![Sweeper] = j]
      PROVE  job' = [q \in Actors |-> job'[q]] /\ seen' \in Walking \cup {Idle}
  BY <1>1, <1>2 DEF LadderInv, LadderTypes, seen
<1>3. seen.at \in {"up", "eval", "multi", "list", "flag", "retire"} => seen \in Walking
  BY DEF LadderInv, LadderTypes, Looking, Stages, Idle
<1>4. seen.at \notin {"paid", "boot"}
  BY DEF LadderInv, LadderTypes, Looking, Walking, Stages, Idle
<1>5. Idle \in Walking \cup {Idle}
  OBVIOUS
<1>6. LadderTypes
  BY DEF LadderInv
<1>7. ASSUME NEW d \in Devices, activateDevice(Sweeper, d) PROVE Walks
  <2>1. seen \in Walking
    BY <1>3, <1>7 DEF activateDevice, seen
  <2> QED BY <1>2, <1>6, <1>7, <2>1, AfterTyped DEF activateDevice, Walks, LadderSpared, LadderTypes
<1>8. ASSUME NEW d \in Devices, deactivateImei(Sweeper, d) PROVE Walks
  <2>1. seen \in Walking
    BY <1>3, <1>8 DEF deactivateImei, seen
  <2>2. PICK q : q = [seen EXCEPT !.at = "multi"]
    OBVIOUS
  <2>3. q \in Walking
    BY <2>1, <2>2 DEF Walking
  <2>4. [q EXCEPT !.dev = d] \in Walking
    BY <2>3 DEF Walking
  <2>5. job' = [job EXCEPT ![Sweeper] = [q EXCEPT !.dev = d]]
    BY <1>1, <1>8, <2>2 DEF deactivateImei, seen
  <2> QED BY <1>2, <1>6, <1>8, <2>4, <2>5 DEF deactivateImei, Walks, LadderSpared, LadderTypes
<1>9. CASE deactivateDevice(Sweeper)
  <2>1. seen \in Walking
    BY <1>3, <1>9 DEF deactivateDevice, seen
  <2>2. seen.dev \in Devices \cup {None}
    BY <2>1 DEF Walking
  <2>3. After(Sweeper, seen.dev) \in Walking \cup {Idle}
    BY <1>6, <2>1, <2>2, AfterTyped
  <2> QED BY <1>2, <1>6, <1>9, <2>3 DEF deactivateDevice, Walks, LadderSpared, LadderTypes, seen
<1>10. CASE registryDevicesFor(Sweeper)
  <2>1. Active \cap Own \in SUBSET Devices
    BY DEF Active
  <2>2. Walk("eval", Active \cap Own, "idle") \in Walking \cup {Idle}
    BY <2>1, WalkTyped
  <2>3. PICK w : w = Walk("up", Active \cap Own, "flag")
    OBVIOUS
  <2>4. w \in Walking
    BY <2>1, <2>3, WalkTyped
  <2>5. seen.at = "list" => seen.keep \in BOOLEAN
    BY <1>3 DEF Walking
  <2>6. seen.at = "list" => [w EXCEPT !.keep = seen.keep] \in Walking
    BY <2>4, <2>5 DEF Walking
  <2>7. \E j \in Walking \cup {Idle} : job' = [job EXCEPT ![Sweeper] = j]
    BY <1>10, <2>2, <2>3, <2>6 DEF registryDevicesFor, seen
  <2> QED BY <1>2, <1>6, <1>10, <2>7 DEF registryDevicesFor, Walks, LadderSpared, LadderTypes
<1>11. CASE unsuspend(Sweeper)
  <2>1. PICK r : r = [tenant EXCEPT !.susp = FALSE]
    OBVIOUS
  <2>2. tenant' = tenant \/ tenant' = r \/ tenant' = [r EXCEPT !.stage = 0, !.for = None]
    BY <1>11, <2>1 DEF unsuspend
  <2> QED BY <1>2, <1>5, <1>6, <1>11, <2>1, <2>2, LadderDown, ZenonT(60) DEF unsuspend, Walks, LadderSpared, LadderTypes
<1>12. CASE retire(Sweeper)
  BY <1>2, <1>5, <1>6, <1>12 DEF retire, Walks, LadderSpared, LadderTypes
<1>13. ~PaidCheck(Sweeper) /\ ~rehydrateRegistries(Sweeper)
  BY <1>4 DEF PaidCheck, rehydrateRegistries, seen
<1> QED BY <1>7, <1>8, <1>9, <1>10, <1>11, <1>12, <1>13 DEF Step

\* The sweep's own steps up to its decision.
LEMMA LadderStep ==
  ASSUME LadderInv, Sweep \/ RestorePass \/ Warn \/ markLapseNotice \/ suspend PROVE LadderInv'
<1>0. Sweeper \in Actors /\ LadderTypes /\ Mailed
  BY DEF Actors, LadderInv
<1>1. ASSUME NEW j, job' = [job EXCEPT ![Sweeper] = j]
      PROVE  job' = [q \in Actors |-> job'[q]] /\ seen' = j
  BY <1>0, <1>1 DEF LadderTypes, seen
<1>2. seen.at \in Stages => seen \in Looking
  BY <1>0 DEF LadderTypes, Walking, Stages, Idle
<1>3. CASE Sweep
  <2>1. PICK j : /\ j = [at |-> "pass", lapsed |-> tenant.lapsed, epi |-> tenant.epi,
                         past |-> day - tenant.since, susp |-> tenant.susp,
                         stage |-> noticeStage, sent |-> 0]
                 /\ job' = [job EXCEPT ![Sweeper] = j]
    BY <1>3 DEF Sweep
  <2>2. noticeStage \in Int /\ (noticeStage >= SUSPEND_AFTER => Final(tenant.epi) \in told)
    BY <1>0 DEF LadderTypes, Mailed, noticeStage, TenantRow
  <2>3. j \in Looking
    BY <1>0, <2>1, <2>2 DEF Looking, Stages, LadderTypes, TenantRow
  <2>4. LadderTypes'
    BY <1>0, <1>1, <1>3, <2>1, <2>3 DEF LadderTypes, Sweep
  <2>5. /\ seen'.at = "pass" /\ seen'.epi = tenant.epi /\ seen'.stage = noticeStage
        /\ seen'.sent = 0
    <3>1. seen' = j
      BY <1>1, <2>1
    <3>2. j.at = "pass" /\ j.epi = tenant.epi /\ j.stage = noticeStage /\ j.sent = 0
      BY <2>1
    <3> QED BY <3>1, <3>2
  <2>6. UNCHANGED <<tenant, told>>
    BY <1>3 DEF Sweep
  <2>7. Mailed'
    BY <1>0, <2>2, <2>5, <2>6 DEF Mailed, Final, Stages
  <2> QED BY <2>4, <2>7 DEF LadderInv
<1>4. CASE RestorePass
  <2>1. seen \in Looking
    BY <1>2, <1>4 DEF RestorePass, Stages
  <2>2. CASE seen.lapsed
    <3>1. seen' = [seen EXCEPT !.at = "warn"] /\ job' = [q \in Actors |-> job'[q]]
      BY <1>1, <1>4, <2>2 DEF RestorePass
    <3>2. seen' \in Looking
      BY <2>1, <3>1 DEF Looking, Stages
    <3>3. LadderTypes'
      BY <1>0, <1>4, <3>1, <3>2 DEF LadderTypes, RestorePass
    <3>4. /\ seen'.at = "warn" /\ seen'.stage = seen.stage /\ seen'.epi = seen.epi
          /\ seen'.sent = seen.sent
      BY <2>1, <3>1 DEF Looking
    <3>5. Mailed'
      BY <1>0, <1>4, <3>4 DEF Mailed, RestorePass, Final, Stages
    <3> QED BY <3>3, <3>5 DEF LadderInv
  <2>3. CASE ~seen.lapsed
    <3>1. PICK w : w = Walk("up", {}, "flag")
      OBVIOUS
    <3>2. w \in Walking
      BY <3>1, WalkTyped
    <3>3. [w EXCEPT !.at = "list"] \in Walking
      BY <3>2 DEF Walking
    <3>4. \E j \in Walking \cup {Idle} : job' = [job EXCEPT ![Sweeper] = j]
      BY <1>4, <2>3, <3>1, <3>3 DEF RestorePass
    <3>5. Walks
      BY <1>0, <1>1, <1>4, <3>4 DEF RestorePass, Walks, LadderSpared, LadderTypes
    <3> QED BY <3>5, WalksKeeps
  <2> QED BY <2>2, <2>3
<1>5. CASE Warn
  <2>1. seen \in Looking /\ noticeDue \in Int /\ noticeDue <= SUSPEND_AFTER
    BY <1>0, <1>2, <1>5, NoticeIsBounded DEF Warn, Stages
  <2>2. CASE job' = [job EXCEPT ![Sweeper].at = "cut"] /\ UNCHANGED told
    <3>1. seen' = [seen EXCEPT !.at = "cut"] /\ job' = [q \in Actors |-> job'[q]]
      BY <1>0, <2>2 DEF LadderTypes, seen
    <3>2. seen' \in Looking
      BY <2>1, <3>1 DEF Looking, Stages
    <3>3. LadderTypes'
      BY <1>0, <1>5, <3>1, <3>2 DEF LadderTypes, Warn
    <3>4. /\ seen'.at = "cut" /\ seen'.stage = seen.stage /\ seen'.epi = seen.epi
          /\ seen'.sent = seen.sent
      BY <2>1, <3>1 DEF Looking
    <3>5. Mailed'
      BY <1>0, <1>5, <2>2, <3>4 DEF Mailed, Warn, Final, Stages
    <3> QED BY <3>3, <3>5 DEF LadderInv
  <2>3. CASE /\ noticeDue > seen.stage
             /\ told' = told \cup {[epi |-> seen.epi, stage |-> noticeDue]}
             /\ job' = [job EXCEPT ![Sweeper].at = "mark", ![Sweeper].sent = noticeDue]
    <3>1. PICK q : q = [seen EXCEPT !.at = "mark"]
      OBVIOUS
    <3>2. q \in Looking /\ q.stage = seen.stage /\ q.epi = seen.epi /\ q.past = seen.past
      BY <2>1, <3>1 DEF Looking, Stages
    <3>3. job' = [job EXCEPT ![Sweeper] = [q EXCEPT !.sent = noticeDue]]
      BY <1>0, <2>3, <3>1 DEF seen
    <3>4. seen' = [q EXCEPT !.sent = noticeDue] /\ job' = [p \in Actors |-> job'[p]]
      BY <1>1, <3>3
    <3>5. /\ seen' \in Looking /\ seen'.at = "mark" /\ seen'.stage = seen.stage
          /\ seen'.epi = seen.epi /\ seen'.past = seen.past /\ seen'.sent = noticeDue
      BY <2>1, <3>1, <3>2, <3>4 DEF Looking
    <3>6. LadderTypes'
      BY <1>0, <1>5, <3>4, <3>5 DEF LadderTypes, Warn
    <3>7. noticeDue' = noticeDue
      BY <3>5 DEF noticeDue
    <3>8. seen.stage < SUSPEND_AFTER
      BY <2>1, <2>3 DEF Looking
    <3>9. Mailed'
      BY <1>0, <1>5, <2>1, <2>3, <3>5, <3>7, <3>8 DEF Mailed, Warn, Final, Stages, Looking
    <3> QED BY <3>6, <3>9 DEF LadderInv
  <2> QED BY <1>5, <2>2, <2>3 DEF Warn
<1>6. CASE markLapseNotice
  <2>1. seen \in Looking /\ noticeDue \in Int /\ noticeDue <= SUSPEND_AFTER
    BY <1>0, <1>2, <1>6, NoticeIsBounded DEF markLapseNotice, Stages
  <2>2. seen' = [seen EXCEPT !.at = "cut"] /\ job' = [q \in Actors |-> job'[q]]
    BY <1>0, <1>6 DEF LadderTypes, markLapseNotice, seen
  <2>3. /\ seen' \in Looking /\ seen'.at = "cut" /\ seen'.stage = seen.stage
        /\ seen'.epi = seen.epi /\ seen'.sent = seen.sent
    BY <2>1, <2>2 DEF Looking, Stages
  <2>4. /\ tenant' \in TenantRow
        /\ tenant' = tenant \/ (tenant'.stage = noticeDue /\ tenant'.for = seen.epi)
    <3>1. PICK t : t = [tenant EXCEPT !.stage = noticeDue]
      OBVIOUS
    <3>2. t \in TenantRow /\ t.stage = noticeDue
      BY <1>0, <2>1, <3>1 DEF LadderTypes, TenantRow
    <3>3. seen.epi \in Nat
      BY <2>1 DEF Looking
    <3>4. PICK u : u = [t EXCEPT !.for = seen.epi]
      OBVIOUS
    <3>5. u \in TenantRow /\ u.stage = noticeDue /\ u.for = seen.epi
      BY <3>2, <3>3, <3>4 DEF TenantRow
    <3>6. tenant' = tenant \/ tenant' = u
      BY <1>6, <3>1, <3>4 DEF markLapseNotice
    <3> QED BY <1>0, <3>5, <3>6 DEF LadderTypes
  <2>5. LadderTypes'
    BY <1>0, <1>6, <2>2, <2>3, <2>4 DEF LadderTypes, markLapseNotice
  <2>6. noticeDue >= SUSPEND_AFTER => Final(seen.epi) \in told
    BY <1>0, <1>6, <2>1 DEF Mailed, markLapseNotice, Final, Stages
  <2>7. Mailed'
    BY <1>0, <1>6, <2>3, <2>4, <2>6 DEF Mailed, markLapseNotice, Final, Stages
  <2> QED BY <2>5, <2>7 DEF LadderInv
<1>7. CASE suspend
  <2>1. /\ job' = [q \in Actors |-> job'[q]] /\ seen' \in {Idle, [at |-> "downlist"]}
    BY <1>1, <1>7 DEF suspend
  <2>2. tenant' \in TenantRow /\ tenant'.stage = tenant.stage /\ tenant'.for = tenant.for
    BY <1>0, <1>7 DEF suspend, LadderTypes, TenantRow
  <2>3. LadderTypes' /\ seen'.at \notin Stages
    BY <1>0, <1>7, <2>1, <2>2 DEF LadderTypes, suspend, Stages, Idle
  <2>4. Mailed'
    BY <1>0, <1>7, <2>2, <2>3 DEF Mailed, suspend, Final
  <2> QED BY <2>3, <2>4 DEF LadderInv
<1> QED BY <1>3, <1>4, <1>5, <1>6, <1>7

\* The steps of the world.
LEMMA WorldStep ==
  ASSUME LadderInv, Lapse \/ NextDay \/ \E p \in Actors : Abort(p) PROVE Aside \/ Walks
<1>0. LadderTypes
  BY DEF LadderInv
<1>1. CASE Lapse
  <2>1. PICK t : t = [tenant EXCEPT !.lapsed = TRUE]
    OBVIOUS
  <2>2. t \in TenantRow /\ t.stage = tenant.stage /\ t.for = tenant.for /\ t.susp = tenant.susp
    BY <1>0, <2>1 DEF LadderTypes, TenantRow
  <2>3. PICK u : u = [t EXCEPT !.epi = @ + 1]
    OBVIOUS
  <2>4. u \in TenantRow /\ u.stage = t.stage /\ u.for = t.for /\ u.susp = t.susp
    BY <2>2, <2>3 DEF TenantRow
  <2>5. tenant' = [u EXCEPT !.since = day]
    BY <1>1, <1>0, <2>1, <2>3 DEF Lapse, LadderTypes, TenantRow
  <2>6. tenant' \in TenantRow /\ tenant'.stage = u.stage /\ tenant'.for = u.for /\ tenant'.susp = u.susp
    BY <1>0, <2>4, <2>5 DEF LadderTypes, TenantRow
  <2>7. Aside
    BY <1>0, <1>1, <2>2, <2>4, <2>6 DEF Lapse, Aside, LadderSpared, LadderTypes, seen
  <2> QED BY <2>7
<1>2. CASE NextDay
  BY <1>0, <1>2 DEF NextDay, Aside, LadderSpared, LadderTypes, seen
<1>3. ASSUME NEW p \in Actors, Abort(p) PROVE Aside \/ Walks
  <2>1. job' = [q \in Actors |-> job'[q]] /\ (seen' = seen \/ seen' = Idle)
    BY <1>0, <1>3 DEF Abort, LadderTypes, seen
  <2> QED BY <1>0, <1>3, <2>1 DEF Abort, Aside, Walks, LadderSpared, LadderTypes
<1> QED BY <1>1, <1>2, <1>3

\* The ladder's invariant holds at the start ...
LEMMA LadderInit == Init => LadderInv
<1> SUFFICES ASSUME Init PROVE LadderInv
  OBVIOUS
<1>1. Sweeper \in Actors /\ seen = Idle
  BY DEF Init, Actors, seen
<1>2. LadderTypes
  BY <1>1 DEF Init, LadderTypes, TenantRow
<1>3. Mailed
  BY <1>1 DEF Init, Mailed, Stages, Idle
<1> QED BY <1>2, <1>3 DEF LadderInv

\* ... and every step keeps it, and only suspend puts the flag on.
LEMMA LadderNext ==
  ASSUME LadderInv, [Next]_vars
  PROVE  LadderInv' /\ (~tenant.susp /\ tenant'.susp => suspend)
<1>1. CASE Aside
  BY <1>1, AsideKeeps DEF Aside, LadderSpared
<1>2. CASE Walks
  BY <1>2, WalksKeeps DEF Walks, LadderSpared
<1>3. CASE Sweep \/ RestorePass \/ Warn \/ markLapseNotice \/ suspend
  <2>1. markLapseNotice => (tenant'.susp => tenant.susp)
    BY DEF markLapseNotice, LadderInv, LadderTypes, TenantRow
  <2>2. Sweep \/ RestorePass \/ Warn => UNCHANGED tenant
    BY DEF Sweep, RestorePass, Warn
  <2> QED BY <1>3, <2>1, <2>2, LadderStep
<1>4. CASE UNCHANGED vars
  BY <1>4 DEF vars, LadderInv, LadderTypes, Mailed, seen, noticeDue, Final
<1>5. ASSUME NEW p \in Requests,
             \/ Step(p) \/ Restore(p) \/ Pay(p) \/ Boot(p)
             \/ \E d \in Devices : Create(p, d) \/ Retire(p, d)
      PROVE  Aside
  BY <1>5, RequestsAreAside
<1>6. Step(Sweeper) => Walks
  BY SweepWalks
<1>7. Lapse \/ NextDay \/ (\E p \in Actors : Abort(p)) => Aside \/ Walks
  BY WorldStep
<1> QED BY <1>1, <1>2, <1>3, <1>4, <1>5, <1>6, <1>7 DEF Next, SweepStep

\* Nobody is cut off unwarned, for every fleet, any interleaving of requests and
\* sweeps and any failure: when the flag goes on, the final notice of this very
\* lapse was mailed, by an earlier run (the readyToSuspend of runLapseSweep).
THEOREM WarnedBeforeCut == Spec => CutOnlyAfterWarning
<1>3. ASSUME LadderInv, suspend, ~tenant.susp, tenant'.susp, seen.epi = tenant.epi
      PROVE  [epi |-> tenant.epi, stage |-> SUSPEND_AFTER] \in told /\ seen.sent = 0
  <2>1. seen.at = "cut" /\ seen.stage >= SUSPEND_AFTER
    BY <1>3 DEF suspend
  <2>2. seen \in Looking
    BY <1>3, <2>1 DEF LadderInv, LadderTypes, Walking, Idle
  <2> QED BY <1>3, <2>1, <2>2 DEF LadderInv, Mailed, Final, Stages, Looking
<1>4. ASSUME LadderInv, [Next]_vars
      PROVE  [~tenant.susp /\ tenant'.susp /\ tenant.lapsed /\ seen.epi = tenant.epi =>
                [epi |-> tenant.epi, stage |-> SUSPEND_AFTER] \in told /\ seen.sent = 0]_vars
  BY LadderNext, <1>3, <1>4
<1> QED BY LadderInit, LadderNext, <1>4, PTL DEF Spec, CutOnlyAfterWarning

-----------------------------------------------------------------------------
(* The registry.                                                           *)

\* What a request holds, and what the sweep holds.
Paid == [at |-> "paid"]
Booting == [at : {"boot"}, susp : BOOLEAN]
AtWork(p) == job[p] \in Walking
JobTypes ==
  /\ job = [p \in Actors |-> job[p]]
  /\ \A p \in Requests : job[p] \in Walking \cup Booting \cup {Idle, Paid}
  /\ seen \in Walking \cup Looking \cup {Idle, [at |-> "downlist"]}

RegistryTypes ==
  /\ row \in [Devices -> {"absent", "active", "retired"}]
  /\ imei = [i \in {Imei[d] : d \in Devices} |-> imei[i]]
  /\ JobTypes

\* The four walks w that p may be on: a retirement, a restore, a registration (of
\* one new device or of a whole fleet) and a teardown, which is the sweep's alone.
Retirement(p, w) ==
  /\ p \in Requests /\ w.then = "retire" /\ w.dev \in Devices
  /\ \/ w.at \in {"eval", "multi"} /\ w.devs = {w.dev}
     \/ w.at = "retire"
Restoration(p, w) ==
  /\ w.then = "flag" /\ w.dev = None /\ w.at \in {"list", "up", "flag"}
  /\ w.at = "flag" => w.devs = {}
Registration(p, w) ==
  /\ p \in Requests /\ w.then = "idle" /\ w.at = "up"
  /\ w.dev # None => w.devs = {w.dev}
Teardown(p, w) ==
  /\ p = Sweeper /\ w.then = "idle" /\ w.at \in {"eval", "multi"}
  /\ w.devs \subseteq Own /\ (w.at = "multi" => w.dev \in w.devs)

Shape(p, w) ==
  w \in Walking =>
    /\ w.walk = IF w.at \in {"up", "list", "flag"} THEN "up" ELSE "eval"
    /\ Retirement(p, w) \/ Restoration(p, w) \/ Registration(p, w) \/ Teardown(p, w)
Shapes == \A p \in Actors : Shape(p, job[p])

\* A device that a request is creating or retiring: the request's death tears it.
Transit(d) == \E p \in Requests : AtWork(p) /\ job[p].dev = d

\* An IMEI is in service once, and nobody works on a row that was never created.
OneInService == \A d, e \in Active : Imei[d] = Imei[e] => d = e
Listed == \A p \in Actors : AtWork(p) => \A d \in job[p].devs \cup ({job[p].dev} \ {None}) : row[d] # "absent"

\* The registry agrees with the database, busy or not; a device that is created or
\* retired just now need not be accepted.
Accepts == \A d \in Active \ torn : ~Transit(d) /\ ~Suspended(d) => Accepted(d)
Rejects == \A d \in Devices \ torn : row[d] # "active" => imei[Imei[d]] # d /\ d \notin known

\* A restore has brought back what it has behind it, so that the flag may come off,
\* and a retirement has taken away what it has behind it, so that the row may go.
Restores ==
  \A p \in Actors : AtWork(p) /\ job[p].then = "flag" /\ job[p].at \in {"up", "flag"} =>
    \A d \in (Active \cap Own) \ torn : ~Transit(d) /\ d \notin job[p].devs => Accepted(d)
Retires ==
  \A p \in Requests : AtWork(p) /\ job[p].then = "retire" /\ job[p].dev \notin torn =>
    /\ job[p].at \in {"multi", "retire"} => imei[Imei[job[p].dev]] # job[p].dev
    /\ job[p].at = "retire" => job[p].dev \notin known

Registry == Accepts /\ Rejects /\ Restores /\ Retires

RegistryInv == RegistryTypes /\ Shapes /\ OneInService /\ Listed /\ Registry

\* The invariant says what the run checks: a device in transit is busy.
LEMMA InvRegistryAgrees == RegistryInv => RegistryAgrees
<1> SUFFICES ASSUME RegistryInv, NEW d \in Devices \ torn, ~Busy(d)
             PROVE  /\ row[d] = "active" /\ ~Suspended(d) => Accepted(d)
                    /\ row[d] # "active" => imei[Imei[d]] # d /\ d \notin known
  BY DEF RegistryAgrees
<1>1. ~Transit(d)
  <2> SUFFICES ASSUME NEW p \in Requests, job[p] \in Walking, job[p].dev = d PROVE FALSE
    BY DEF Transit, AtWork
  <2>1. "devs" \in DOMAIN job[p]
    BY DEF Walking
  <2> QED BY <2>1 DEF Busy, Actors
<1> QED BY <1>1 DEF RegistryInv, Registry, Accepts, Rejects, Active

\* What p may hold.
Fit(p, j) ==
  /\ j \in IF p = Sweeper THEN Walking \cup Looking \cup {Idle, [at |-> "downlist"]}
                          ELSE Walking \cup Booting \cup {Idle, Paid}
  /\ Shape(p, j)

Places == {"up", "eval", "multi", "list", "flag", "retire"}

\* A job is a walk exactly when it is at a place of a walk, or has a device.
LEMMA WalkOrNot ==
  /\ \A j \in Walking : j.at \in Places /\ "dev" \in DOMAIN j
  /\ \A j \in Looking \cup Booting \cup {Idle, Paid, [at |-> "downlist"]} :
       j \notin Walking /\ j.at \notin Places
  /\ \A j \in Booting \cup {Idle, Paid} : "dev" \notin DOMAIN j
<1>1. \A j \in Walking : j.at \in Places /\ "dev" \in DOMAIN j
  BY DEF Walking, Places
<1>2. \A j \in Looking \cup Booting \cup {Idle, Paid, [at |-> "downlist"]} : j.at \notin Places
  BY DEF Looking, Booting, Idle, Paid, Places, Stages
<1>3. \A j \in Booting \cup {Idle, Paid} : "dev" \notin DOMAIN j
  BY DEF Booting, Idle, Paid
<1> QED BY <1>1, <1>2, <1>3

\* Who is at a place of a walk is at work.
LEMMA PlacesAreWalks ==
  ASSUME JobTypes, NEW p \in Actors PROVE job[p].at \in Places => AtWork(p)
  BY WalkOrNot DEF JobTypes, AtWork, Actors, seen

\* One job is replaced.
LEMMA JobReplaced ==
  ASSUME JobTypes, Shapes, NEW p \in Actors, NEW j, Fit(p, j), job' = [job EXCEPT ![p] = j]
  PROVE  /\ JobTypes' /\ Shapes'
         /\ job'[p] = j /\ \A q \in Actors \ {p} : job'[q] = job[q]
<1>1. job'[p] = j /\ (\A q \in Actors \ {p} : job'[q] = job[q]) /\ job' = [q \in Actors |-> job'[q]]
  BY DEF JobTypes
<1>2. Sweeper \in Actors /\ Requests \subseteq Actors
  BY DEF Actors
<1>3. \A q \in Requests : job'[q] \in Walking \cup Booting \cup {Idle, Paid}
  BY <1>1, <1>2 DEF JobTypes, Fit
<1>4. seen' \in Walking \cup Looking \cup {Idle, [at |-> "downlist"]}
  BY <1>1, <1>2 DEF JobTypes, Fit, seen
<1>5. Shapes'
  BY <1>1 DEF Shapes, Fit
<1> QED BY <1>1, <1>3, <1>4, <1>5 DEF JobTypes

\* Steps that leave rows and registry alone, and put the tenant back on the air only
\* if its devices are back: p goes on to j, from nothing that was about a single
\* device, and a list that is made is the list of today.
LEMMA CalmKeeps ==
  ASSUME RegistryInv, NEW p \in Actors, NEW j, Fit(p, j), job' = [job EXCEPT ![p] = j],
         UNCHANGED <<row, imei, known, torn>>,
         \/ tenant.susp => tenant'.susp
         \/ \A d \in (Active \cap Own) \ torn : ~Transit(d) => Accepted(d),
         AtWork(p) => job[p].dev = None,
         j \in Walking => /\ \A d \in j.devs \cup ({j.dev} \ {None}) : row[d] # "absent"
                          /\ j.then = "retire" => j.at = "eval"
                          /\ j.then = "flag" => j.at = "list" \/ Active \cap Own \subseteq j.devs
  PROVE  RegistryInv'
<1> USE DEF RegistryInv, Registry
<1>1. JobTypes' /\ Shapes' /\ job'[p] = j /\ \A q \in Actors \ {p} : job'[q] = job[q]
  BY JobReplaced DEF RegistryTypes
<1>2. RegistryTypes'
  BY <1>1 DEF RegistryTypes
<1>3. Active' = Active
  BY DEF Active
<1>4. OneInService'
  BY <1>3 DEF OneInService
<1>5. Listed'
  BY <1>1 DEF Listed, AtWork
<1>6. \A d \in Devices : Transit(d) => Transit(d)'
  <2> SUFFICES ASSUME NEW d \in Devices, NEW q \in Requests, AtWork(q), job[q].dev = d
               PROVE  AtWork(q)' /\ job'[q].dev = d
    BY DEF Transit
  <2> QED BY <1>1 DEF AtWork, Actors
<1>7. \A d \in Devices : Accepted(d)' <=> Accepted(d)
  BY DEF Accepted
<1>8. Accepts' /\ Rejects'
  <2>1. Rejects'
    BY DEF Rejects
  <2>2. Accepts'
    <3> SUFFICES ASSUME NEW d \in Active \ torn, ~Transit(d)', ~Suspended(d)' PROVE Accepted(d)'
      BY <1>3 DEF Accepts
    <3>1. d \in Devices /\ ~Transit(d)
      BY <1>6 DEF Active
    <3>2. CASE \A e \in (Active \cap Own) \ torn : ~Transit(e) => Accepted(e)
      BY <1>7, <3>1, <3>2 DEF Accepts, Suspended
    <3>3. CASE tenant.susp => tenant'.susp
      BY <1>7, <3>1, <3>3 DEF Accepts, Suspended
    <3> QED BY <3>2, <3>3
  <2> QED BY <2>1, <2>2
<1>9. Restores'
  <2> SUFFICES ASSUME NEW q \in Actors, AtWork(q)', job'[q].then = "flag", job'[q].at \in {"up", "flag"},
                      NEW d \in (Active \cap Own) \ torn, ~Transit(d)', d \notin job'[q].devs
               PROVE  Accepted(d)'
    BY <1>3 DEF Restores
  <2>1. q # p
    BY <1>1 DEF AtWork
  <2>2. job'[q] = job[q] /\ AtWork(q) /\ ~Transit(d) /\ d \in Devices
    BY <1>1, <1>6, <2>1 DEF AtWork, Active
  <2> QED BY <1>7, <2>2 DEF Restores
<1>10. Retires'
  <2> SUFFICES ASSUME NEW q \in Requests, AtWork(q)', job'[q].then = "retire", job'[q].dev \notin torn
               PROVE  /\ job'[q].at \in {"multi", "retire"} => imei[Imei[job'[q].dev]] # job'[q].dev
                      /\ job'[q].at = "retire" => job'[q].dev \notin known
    BY DEF Retires
  <2>1. CASE q = p
    <3>1. Retirement(p, j)
      BY <1>1, <2>1 DEF Fit, Shape, AtWork, Restoration, Registration, Teardown
    <3> QED BY <1>1, <2>1, <3>1 DEF AtWork, Retirement
  <2>2. CASE q # p
    <3>1. job'[q] = job[q] /\ AtWork(q)
      BY <1>1, <2>2 DEF AtWork, Actors
    <3> QED BY <3>1 DEF Retires
  <2> QED BY <2>1, <2>2
<1> QED BY <1>2, <1>4, <1>1, <1>5, <1>8, <1>9, <1>10

\* Walks as they begin.
LEMMA WalksBegin ==
  ASSUME NEW devs \in SUBSET Devices
  PROVE  /\ Walk("up", devs, "flag") = [at |-> IF devs = {} THEN "flag" ELSE "up", walk |-> "up", devs |-> devs,
                                        then |-> "flag", dev |-> None, keep |-> FALSE]
         /\ \A w : Walk(w, devs, "idle") = IF devs = {} THEN Idle
              ELSE [at |-> w, walk |-> w, devs |-> devs, then |-> "idle", dev |-> None, keep |-> FALSE]
         /\ devs # {} => \A w, t : Walk(w, devs, t) =
              [at |-> w, walk |-> w, devs |-> devs, then |-> t, dev |-> None, keep |-> FALSE]
  BY DEF Walk

\* A restore that is yet to list its devices, or has listed them.
LEMMA RestoreBegins ==
  ASSUME NEW p \in Actors, NEW devs \in SUBSET Devices, NEW keep \in BOOLEAN
  PROVE  /\ [Walk("up", {}, "flag") EXCEPT !.at = "list"] =
              [at |-> "list", walk |-> "up", devs |-> {}, then |-> "flag", dev |-> None, keep |-> FALSE]
         /\ [Walk("up", devs, "flag") EXCEPT !.keep = keep] =
              [at |-> IF devs = {} THEN "flag" ELSE "up", walk |-> "up", devs |-> devs,
               then |-> "flag", dev |-> None, keep |-> keep]
         /\ Fit(p, [at |-> "list", walk |-> "up", devs |-> {}, then |-> "flag", dev |-> None, keep |-> keep])
         /\ Fit(p, [at |-> IF devs = {} THEN "flag" ELSE "up", walk |-> "up", devs |-> devs,
                    then |-> "flag", dev |-> None, keep |-> keep])
<1>1. [Walk("up", {}, "flag") EXCEPT !.at = "list"] =
              [at |-> "list", walk |-> "up", devs |-> {}, then |-> "flag", dev |-> None, keep |-> FALSE]
  <2>1. PICK w : w = Walk("up", {}, "flag")
    OBVIOUS
  <2>2. w = [at |-> "flag", walk |-> "up", devs |-> {}, then |-> "flag", dev |-> None, keep |-> FALSE]
    BY <2>1 DEF Walk
  <2>3. PICK u : u = [w EXCEPT !.at = "list"]
    OBVIOUS
  <2>4. u = [at |-> "list", walk |-> "up", devs |-> {}, then |-> "flag", dev |-> None, keep |-> FALSE]
    BY <2>2, <2>3
  <2> QED BY <2>1, <2>3, <2>4
<1>2. [Walk("up", devs, "flag") EXCEPT !.keep = keep] =
              [at |-> IF devs = {} THEN "flag" ELSE "up", walk |-> "up", devs |-> devs,
               then |-> "flag", dev |-> None, keep |-> keep]
  BY WalksBegin
<1>3. Fit(p, [at |-> "list", walk |-> "up", devs |-> {}, then |-> "flag", dev |-> None, keep |-> keep])
  BY DEF Fit, Walking, Shape, Restoration
<1>4. Fit(p, [at |-> IF devs = {} THEN "flag" ELSE "up", walk |-> "up", devs |-> devs,
                    then |-> "flag", dev |-> None, keep |-> keep])
  BY DEF Fit, Walking, Shape, Restoration
<1> QED BY <1>1, <1>2, <1>3, <1>4

\* Whoever holds no walk may take another thing that is none.
LEMMA IdleFits ==
  /\ \A p \in Actors : Fit(p, Idle)
  /\ \A p \in Requests : Fit(p, Paid) /\ \A j \in Booting : Fit(p, j)
  /\ \A j \in Looking \cup {[at |-> "downlist"]} : Fit(Sweeper, j)
  BY WalkOrNot DEF Fit, Shape, Actors

\* Requests that begin, but for a creation.
LEMMA ServeKeeps ==
  ASSUME RegistryInv, LadderTypes, NEW p \in Requests,
         Restore(p) \/ Pay(p) \/ Boot(p) \/ \E d \in Devices : Retire(p, d)
  PROVE  RegistryInv'
<1>0. p \in Actors /\ p # Sweeper /\ tenant.susp \in BOOLEAN
  BY DEF Actors, LadderTypes, TenantRow
<1>1. UNCHANGED <<row, imei, known, torn>> /\ job[p] = Idle
  BY DEF Restore, Pay, Boot, Retire, Serve
<1>2. ~AtWork(p)
  BY <1>1, WalkOrNot DEF AtWork
<1>3. CASE Restore(p)
  <2>1. PICK w : w = Walk("up", {}, "flag")
    OBVIOUS
  <2>2. w = [at |-> "flag", walk |-> "up", devs |-> {}, then |-> "flag", dev |-> None, keep |-> FALSE]
    BY <2>1 DEF Walk
  <2>3. PICK u : u = [w EXCEPT !.at = "list"]
    OBVIOUS
  <2>4. u = [at |-> "list", walk |-> "up", devs |-> {}, then |-> "flag", dev |-> None, keep |-> FALSE]
    BY <2>2, <2>3
  <2>5. PICK j : j = [u EXCEPT !.keep = TRUE]
    OBVIOUS
  <2>6. j = [at |-> "list", walk |-> "up", devs |-> {}, then |-> "flag", dev |-> None, keep |-> TRUE]
    BY <2>4, <2>5
  <2>7. job' = [job EXCEPT ![p] = j] /\ UNCHANGED tenant
    BY <1>3, <2>1, <2>3, <2>5 DEF Restore, Serve
  <2>8. Fit(p, j) /\ j.devs = {} /\ j.dev = None /\ j.at = "list" /\ j.then = "flag"
    BY <1>0, <2>6, RestoreBegins
  <2> QED BY <1>0, <1>1, <1>2, <2>7, <2>8, CalmKeeps
<1>4. CASE Pay(p)
  <2>1. PICK r : r = [tenant EXCEPT !.lapsed = FALSE]
    OBVIOUS
  <2>2. PICK u : u = [r EXCEPT !.stage = 0]
    OBVIOUS
  <2>3. tenant' = [u EXCEPT !.for = None]
    BY <1>4, <2>1, <2>2 DEF Pay
  <2>4. r \in TenantRow /\ r.susp = tenant.susp
    BY <2>1 DEF LadderTypes, TenantRow
  <2>5. u \in TenantRow /\ u.susp = r.susp
    BY <2>2, <2>4 DEF TenantRow
  <2>6. tenant'.susp = tenant.susp
    BY <2>3, <2>4, <2>5 DEF TenantRow
  <2>7. job' = [job EXCEPT ![p] = Paid]
    BY <1>4 DEF Pay, Serve, Paid
  <2> QED BY <1>0, <1>1, <1>2, <2>6, <2>7, IdleFits, WalkOrNot, CalmKeeps
<1>5. CASE Boot(p)
  <2>1. PICK j \in Booting : job' = [job EXCEPT ![p] = j]
    BY <1>0, <1>5 DEF Boot, Serve, Booting
  <2>2. UNCHANGED tenant
    BY <1>5 DEF Boot
  <2> QED BY <1>0, <1>1, <1>2, <2>1, <2>2, IdleFits, WalkOrNot, CalmKeeps
<1>6. ASSUME NEW d \in Devices, Retire(p, d) PROVE RegistryInv'
  <2>1. PICK w : w = Walk("eval", {d}, "retire")
    OBVIOUS
  <2>2. w = [at |-> "eval", walk |-> "eval", devs |-> {d}, then |-> "retire", dev |-> None, keep |-> FALSE]
    BY <2>1, WalksBegin
  <2>3. PICK j : j = [w EXCEPT !.dev = d]
    OBVIOUS
  <2>4. j = [at |-> "eval", walk |-> "eval", devs |-> {d}, then |-> "retire", dev |-> d, keep |-> FALSE]
    BY <2>2, <2>3
  <2>5. job' = [job EXCEPT ![p] = j] /\ UNCHANGED tenant /\ row[d] # "absent"
    BY <1>6, <2>1, <2>3 DEF Retire, Serve
  <2>6. Fit(p, j)
    BY <1>0, <2>4 DEF Fit, Walking, Shape, Retirement
  <2>7. j.devs = {d} /\ j.dev = d /\ j.at = "eval" /\ j.then = "retire"
    BY <2>4
  <2> QED BY <1>0, <1>1, <1>2, <2>5, <2>6, <2>7, CalmKeeps
<1> QED BY <1>3, <1>4, <1>5, <1>6

\* Lists that are made, by a request or by the sweep.
LEMMA ListKeeps ==
  ASSUME RegistryInv, NEW p \in Actors,
         PaidCheck(p) \/ registryDevicesFor(p) \/ rehydrateRegistries(p)
  PROVE  RegistryInv'
<1>1. UNCHANGED <<row, imei, known, torn, tenant>>
  BY DEF PaidCheck, registryDevicesFor, rehydrateRegistries
<1>2. JobTypes /\ Shapes
  BY DEF RegistryInv, RegistryTypes
<1>3. Active \in SUBSET Devices /\ (\A d \in Active : row[d] # "absent")
  BY DEF Active
<1>4. CASE PaidCheck(p)
  <2>1. ~AtWork(p)
    BY <1>4, WalkOrNot DEF PaidCheck, AtWork, Places
  <2>2. PICK j : /\ job' = [job EXCEPT ![p] = j]
                 /\ \/ j = Idle
                    \/ j = [at |-> "list", walk |-> "up", devs |-> {}, then |-> "flag", dev |-> None, keep |-> FALSE]
    BY <1>4, RestoreBegins DEF PaidCheck
  <2>3. Fit(p, j) /\ (j \in Walking => j.devs = {} /\ j.dev = None /\ j.at = "list" /\ j.then = "flag")
    <3>1. CASE j = Idle
      BY <3>1, IdleFits, WalkOrNot
    <3>2. CASE j = [at |-> "list", walk |-> "up", devs |-> {}, then |-> "flag", dev |-> None, keep |-> FALSE]
      <4>1. Fit(p, j)
        BY <3>2, RestoreBegins
      <4> QED BY <3>2, <4>1
    <3> QED BY <2>2, <3>1, <3>2
  <2> QED BY <1>1, <2>1, <2>2, <2>3, CalmKeeps
<1>5. CASE rehydrateRegistries(p)
  <2>1. ~AtWork(p)
    BY <1>5, WalkOrNot DEF rehydrateRegistries, AtWork, Places
  <2>2. PICK devs \in SUBSET Devices : devs \subseteq Active /\ job' = [job EXCEPT ![p] = Walk("up", devs, "idle")]
    BY <1>3, <1>5 DEF rehydrateRegistries
  <2>3. p \in Requests /\ p # Sweeper
    BY <1>2, <1>5 DEF rehydrateRegistries, JobTypes, Actors, seen, Walking, Looking, Stages, Idle
  <2>4. PICK j : j = Walk("up", devs, "idle")
    OBVIOUS
  <2>5. j = Idle \/ j = [at |-> "up", walk |-> "up", devs |-> devs, then |-> "idle", dev |-> None, keep |-> FALSE]
    BY <2>4, WalksBegin
  <2>6. Fit(p, j)
    <3>1. CASE j = Idle
      BY <3>1, IdleFits
    <3>2. CASE j = [at |-> "up", walk |-> "up", devs |-> devs, then |-> "idle", dev |-> None, keep |-> FALSE]
      BY <2>3, <3>2 DEF Fit, Walking, Shape, Registration
    <3> QED BY <2>5, <3>1, <3>2
  <2>7. j \in Walking => j.devs \subseteq Active /\ j.dev = None /\ j.then = "idle"
    BY <2>2, <2>5, WalkOrNot
  <2> QED BY <1>1, <1>3, <2>1, <2>2, <2>4, <2>6, <2>7, CalmKeeps
<1>6. CASE registryDevicesFor(p)
  <2>1. PICK devs : devs = Active \cap Own
    OBVIOUS
  <2>2. devs \in SUBSET Devices /\ devs \subseteq Active /\ devs \subseteq Own
    BY <1>3, <2>1
  <2>3. CASE job[p].at = "list"
    <3>1. AtWork(p)
      BY <1>2, <2>3, PlacesAreWalks DEF Places
    <3>2. job[p].dev = None
      BY <1>2, <2>3, <3>1 DEF Shapes, Shape, AtWork, Retirement, Registration, Teardown, Restoration
    <3>3. job[p].keep \in BOOLEAN
      BY <3>1 DEF AtWork, Walking
    <3>4. PICK j : j = [at |-> IF devs = {} THEN "flag" ELSE "up", walk |-> "up", devs |-> devs,
                        then |-> "flag", dev |-> None, keep |-> job[p].keep]
      OBVIOUS
    <3>5. job' = [job EXCEPT ![p] = j]
      BY <1>6, <2>1, <2>2, <2>3, <3>3, <3>4, RestoreBegins DEF registryDevicesFor
    <3>6. Fit(p, j)
      BY <2>2, <3>3, <3>4, RestoreBegins
    <3>7. j.devs = devs /\ j.dev = None /\ j.then = "flag"
      BY <3>4
    <3> QED BY <1>1, <1>3, <2>1, <2>2, <3>2, <3>5, <3>6, <3>7, CalmKeeps
  <2>4. CASE job[p].at = "downlist"
    <3>1. ~AtWork(p)
      BY <2>4, WalkOrNot DEF AtWork, Places
    <3>2. p = Sweeper
      BY <1>2, <2>4 DEF JobTypes, Actors, Walking, Booting, Idle, Paid
    <3>3. PICK j : j = Walk("eval", devs, "idle")
      OBVIOUS
    <3>4. j = Idle \/ j = [at |-> "eval", walk |-> "eval", devs |-> devs, then |-> "idle", dev |-> None, keep |-> FALSE]
      BY <2>2, <3>3, WalksBegin
    <3>5. Fit(p, j)
      <4>1. CASE j = Idle
        BY <4>1, IdleFits
      <4>2. CASE j = [at |-> "eval", walk |-> "eval", devs |-> devs, then |-> "idle", dev |-> None, keep |-> FALSE]
        BY <2>2, <3>2, <4>2 DEF Fit, Walking, Shape, Teardown
      <4> QED BY <3>4, <4>1, <4>2
    <3>6. j \in Walking => j.devs = devs /\ j.dev = None /\ j.then = "idle"
      BY <3>4, WalkOrNot
    <3>7. job' = [job EXCEPT ![p] = j]
      BY <1>6, <2>1, <2>4, <3>3 DEF registryDevicesFor
    <3> QED BY <1>1, <1>3, <2>2, <3>1, <3>5, <3>6, <3>7, CalmKeeps
  <2> QED BY <1>6, <2>3, <2>4 DEF registryDevicesFor
<1> QED BY <1>4, <1>5, <1>6

\* The sweep before it walks: its list, its notices and its decision.
LEMMA SweepKeeps ==
  ASSUME RegistryInv, LadderInv, LadderTypes',
         Sweep \/ RestorePass \/ Warn \/ markLapseNotice \/ suspend
  PROVE  RegistryInv'
<1>0. Sweeper \in Actors /\ LadderTypes /\ JobTypes
  BY DEF Actors, LadderInv, RegistryInv, RegistryTypes
<1>1. UNCHANGED <<row, imei, known, torn>>
  BY DEF Sweep, RestorePass, Warn, markLapseNotice, suspend
<1>2. ~AtWork(Sweeper)
  BY WalkOrNot DEF Sweep, RestorePass, Warn, markLapseNotice, suspend, AtWork, seen, Places, Idle
<1>3. ASSUME NEW j, job' = [job EXCEPT ![Sweeper] = j] PROVE seen' = j
  BY <1>0, <1>3 DEF LadderTypes, seen
<1>4. ASSUME NEW j, job' = [job EXCEPT ![Sweeper] = j], j.at \in Stages \cup {"idle", "downlist"},
             tenant.susp => tenant'.susp
      PROVE  RegistryInv'
  <2>1. seen' = j
    BY <1>3, <1>4
  <2>2. j \notin Walking
    BY <1>4, WalkOrNot DEF Stages, Places
  <2>3. Fit(Sweeper, j)
    BY <2>1, <2>2 DEF LadderTypes, Fit, Shape
  <2> QED BY <1>0, <1>1, <1>2, <1>4, <2>2, <2>3, CalmKeeps
<1>5. CASE Sweep
  <2>1. PICK j : /\ j = [at |-> "pass", lapsed |-> tenant.lapsed, epi |-> tenant.epi,
                         past |-> day - tenant.since, susp |-> tenant.susp,
                         stage |-> noticeStage, sent |-> 0]
                 /\ job' = [job EXCEPT ![Sweeper] = j] /\ UNCHANGED tenant
    BY <1>5 DEF Sweep
  <2>2. j.at = "pass"
    BY <2>1
  <2> QED BY <1>4, <2>1, <2>2 DEF Stages
<1>6. CASE RestorePass
  <2>1. seen \in Looking /\ UNCHANGED tenant
    BY <1>0, <1>6, WalkOrNot DEF RestorePass, LadderTypes, Idle, Places
  <2>2. CASE seen.lapsed
    <3>1. PICK j : j = [seen EXCEPT !.at = "warn"]
      OBVIOUS
    <3>2. job' = [job EXCEPT ![Sweeper] = j] /\ j.at = "warn"
      BY <1>6, <2>1, <2>2, <3>1 DEF RestorePass, Looking
    <3> QED BY <1>4, <2>1, <3>2 DEF Stages
  <2>3. CASE ~seen.lapsed
    <3>1. PICK j : /\ job' = [job EXCEPT ![Sweeper] = j]
                   /\ \/ j = Idle
                      \/ j = [at |-> "list", walk |-> "up", devs |-> {}, then |-> "flag", dev |-> None, keep |-> FALSE]
      BY <1>0, <1>6, <2>3, RestoreBegins DEF RestorePass
    <3>2. CASE j = Idle
      <4>1. j.at = "idle"
        BY <3>2 DEF Idle
      <4> QED BY <1>4, <2>1, <3>1, <4>1
    <3>3. CASE j = [at |-> "list", walk |-> "up", devs |-> {}, then |-> "flag", dev |-> None, keep |-> FALSE]
      <4>1. Fit(Sweeper, j)
        BY <1>0, <3>3, RestoreBegins
      <4>2. j.devs = {} /\ j.dev = None /\ j.at = "list" /\ j.then = "flag"
        BY <3>3
      <4> QED BY <1>0, <1>1, <1>2, <2>1, <3>1, <4>1, <4>2, CalmKeeps
    <3> QED BY <3>1, <3>2, <3>3
  <2> QED BY <2>2, <2>3
<1>7. CASE Warn
  <2>1. seen \in Looking /\ UNCHANGED tenant
    BY <1>0, <1>7, WalkOrNot DEF Warn, LadderTypes, Idle, Places
  <2>2. CASE job' = [job EXCEPT ![Sweeper].at = "cut"]
    <3>1. PICK j : j = [seen EXCEPT !.at = "cut"]
      OBVIOUS
    <3>2. job' = [job EXCEPT ![Sweeper] = j] /\ j.at = "cut"
      BY <2>1, <2>2, <3>1 DEF Looking, seen
    <3> QED BY <1>4, <2>1, <3>2 DEF Stages
  <2>3. CASE job' = [job EXCEPT ![Sweeper].at = "mark", ![Sweeper].sent = noticeDue]
    <3>1. PICK q : q = [seen EXCEPT !.at = "mark"]
      OBVIOUS
    <3>2. q \in Looking /\ q.at = "mark"
      BY <2>1, <3>1 DEF Looking, Stages
    <3>3. PICK j : j = [q EXCEPT !.sent = noticeDue]
      OBVIOUS
    <3>4. j.at = "mark"
      BY <3>2, <3>3 DEF Looking
    <3>5. job' = [job EXCEPT ![Sweeper] = j]
      BY <1>0, <2>3, <3>1, <3>3 DEF seen
    <3> QED BY <1>4, <2>1, <3>4, <3>5 DEF Stages
  <2> QED BY <1>7, <2>2, <2>3 DEF Warn
<1>8. CASE markLapseNotice
  <2>1. seen \in Looking
    BY <1>0, <1>8, WalkOrNot DEF markLapseNotice, LadderTypes, Idle, Places
  <2>2. PICK j : j = [seen EXCEPT !.at = "cut"]
    OBVIOUS
  <2>3. job' = [job EXCEPT ![Sweeper] = j] /\ j.at = "cut"
    BY <1>8, <2>1, <2>2 DEF markLapseNotice, Looking, seen
  <2>4. tenant'.susp = tenant.susp
    <3>1. PICK t : t = [tenant EXCEPT !.stage = noticeDue]
      OBVIOUS
    <3>2. DOMAIN t = DOMAIN tenant /\ t.susp = tenant.susp
      BY <3>1
    <3>3. tenant' = tenant \/ tenant' = [t EXCEPT !.for = seen.epi]
      BY <1>8, <3>1 DEF markLapseNotice
    <3> QED BY <1>0, <3>2, <3>3 DEF LadderTypes, TenantRow
  <2> QED BY <1>4, <2>3, <2>4 DEF Stages
<1>9. CASE suspend
  <2>1. PICK j : job' = [job EXCEPT ![Sweeper] = j] /\ (j = Idle \/ j = [at |-> "downlist"])
    BY <1>9 DEF suspend
  <2>2. j.at \in {"idle", "downlist"}
    BY <2>1 DEF Idle
  <2>3. tenant.susp => tenant'.susp
    BY <1>0, <1>9 DEF suspend, LadderTypes, TenantRow
  <2> QED BY <1>4, <2>1, <2>2, <2>3
<1> QED BY <1>5, <1>6, <1>7, <1>8, <1>9

\* The bill and the clock touch neither rows nor registry nor jobs.
LEMMA StillKeeps ==
  ASSUME RegistryInv, LadderTypes, Lapse \/ NextDay \/ UNCHANGED vars PROVE RegistryInv'
<1>1. UNCHANGED <<row, imei, known, torn, job>>
  BY DEF Lapse, NextDay, vars
<1>2. tenant'.susp = tenant.susp
  <2>1. PICK t : t = [tenant EXCEPT !.lapsed = TRUE]
    OBVIOUS
  <2>2. PICK u : u = [t EXCEPT !.epi = @ + 1]
    OBVIOUS
  <2>3. t \in TenantRow /\ t.susp = tenant.susp
    BY <2>1 DEF LadderTypes, TenantRow
  <2>4. u \in TenantRow /\ u.susp = t.susp
    BY <2>2, <2>3 DEF TenantRow
  <2>5. tenant' = tenant \/ tenant' = [u EXCEPT !.since = day]
    BY <2>1, <2>2 DEF Lapse, NextDay, vars
  <2> QED BY <2>3, <2>4, <2>5 DEF TenantRow
<1>3. RegistryTypes' /\ Shapes' /\ OneInService' /\ Listed'
  BY <1>1 DEF RegistryInv, RegistryTypes, JobTypes, seen, Shapes, OneInService, Active, Listed, AtWork
<1>4. Accepts' /\ Rejects'
  BY <1>1, <1>2 DEF RegistryInv, Registry, Accepts, Rejects, Active, Transit, AtWork, Suspended, Accepted
<1>5. Restores' /\ Retires'
  BY <1>1 DEF RegistryInv, Registry, Restores, Retires, Active, Transit, AtWork, Accepted
<1> QED BY <1>3, <1>4, <1>5 DEF RegistryInv, Registry

\* A restore takes the flag off once it has every device behind it.
LEMMA UnsuspendKeeps ==
  ASSUME RegistryInv, NEW p \in Actors, unsuspend(p) PROVE RegistryInv'
<1>1. UNCHANGED <<row, imei, known, torn>> /\ job' = [job EXCEPT ![p] = Idle] /\ job[p].at = "flag"
  BY DEF unsuspend
<1>2. AtWork(p)
  BY <1>1, PlacesAreWalks DEF RegistryInv, RegistryTypes, Places
<1>3. Restoration(p, job[p])
  BY <1>1, <1>2 DEF RegistryInv, Shapes, Shape, AtWork, Retirement, Registration, Teardown
<1>4. \A d \in (Active \cap Own) \ torn : ~Transit(d) => Accepted(d)
  BY <1>1, <1>2, <1>3 DEF RegistryInv, Registry, Restores, Restoration
<1> QED BY <1>1, <1>3, <1>4, IdleFits, WalkOrNot, CalmKeeps DEF Restoration

\* A walk goes on after d, or ends.
LEMMA WalkGoesOn ==
  ASSUME NEW p \in Actors, AtWork(p), Shape(p, job[p]), NEW d \in job[p].devs,
         job[p].at = "up" \/ (job[p].at = "multi" /\ job[p].dev = d)
  PROVE  /\ Fit(p, After(p, d))
         /\ \/ After(p, d) = Idle /\ job[p].then = "idle" /\ job[p].devs = {d}
            \/ /\ After(p, d) \in Walking
               /\ After(p, d).then = job[p].then /\ After(p, d).dev = job[p].dev
               /\ After(p, d).devs = job[p].devs \ {d}
<1> DEFINE w == job[p]
<1>1. w \in Walking /\ p \in Requests \cup {Sweeper}
  BY DEF AtWork, Actors
<1>2. CASE w.devs # {d}
  <2>1. PICK q : q = [w EXCEPT !.at = w.walk]
    OBVIOUS
  <2>2. q \in Walking /\ q.at = w.walk /\ q.walk = w.walk /\ q.devs = w.devs /\ q.then = w.then /\ q.dev = w.dev
    BY <1>1, <2>1 DEF Walking
  <2>3. PICK u : u = [q EXCEPT !.devs = @ \ {d}]
    OBVIOUS
  <2>4. /\ u \in Walking /\ u.at = w.walk /\ u.walk = w.walk /\ u.devs = w.devs \ {d}
        /\ u.then = w.then /\ u.dev = w.dev
    BY <2>2, <2>3 DEF Walking
  <2>5. After(p, d) = u
    BY <1>2, <2>1, <2>3 DEF After
  <2>6. ~Retirement(p, w) /\ (Registration(p, w) => w.dev = None)
    BY <1>2 DEF Retirement, Registration
  <2>7. /\ w.walk = IF w.at = "up" THEN "up" ELSE "eval"
        /\ Restoration(p, w) \/ Registration(p, w) \/ Teardown(p, w)
    BY <1>1, <2>6 DEF Shape
  <2>8. Shape(p, u)
    BY <2>4, <2>6, <2>7 DEF Shape, Restoration, Registration, Teardown
  <2>9. Fit(p, u)
    BY <1>1, <2>4, <2>8 DEF Fit
  <2> QED BY <2>4, <2>5, <2>9
<1>3. CASE w.devs = {d} /\ w.then = "idle"
  <2>1. After(p, d) = Idle
    BY <1>3 DEF After
  <2> QED BY <1>3, <2>1, IdleFits
<1>4. CASE w.devs = {d} /\ w.then # "idle"
  <2>1. PICK q : q = [w EXCEPT !.at = w.then]
    OBVIOUS
  <2>2. w.then \in {"flag", "retire"}
    BY <1>1, <1>4 DEF Walking
  <2>3. q \in Walking /\ q.at = w.then /\ q.walk = w.walk /\ q.devs = w.devs /\ q.then = w.then /\ q.dev = w.dev
    BY <1>1, <2>1, <2>2 DEF Walking
  <2>4. PICK u : u = [q EXCEPT !.devs = {}]
    OBVIOUS
  <2>5. /\ u \in Walking /\ u.at = w.then /\ u.walk = w.walk /\ u.devs = {}
        /\ u.then = w.then /\ u.dev = w.dev
    BY <2>3, <2>4 DEF Walking
  <2>6. After(p, d) = u
    BY <1>4, <2>1, <2>4 DEF After
  <2>7. Retirement(p, w) \/ Restoration(p, w)
    BY <1>1, <1>4 DEF Shape, Registration, Teardown
  <2>8. Shape(p, u)
    BY <1>1, <2>2, <2>5, <2>7 DEF Shape, Retirement, Restoration
  <2>9. Fit(p, u)
    BY <1>1, <2>5, <2>8 DEF Fit
  <2> QED BY <1>4, <2>5, <2>6, <2>9
<1> QED BY <1>2, <1>3, <1>4

\* What is kept of types, shapes and lists by p that goes on to j while no row
\* disappears or comes back.
LEMMA Frame ==
  ASSUME RegistryInv, NEW p \in Actors, NEW j, Fit(p, j), job' = [job EXCEPT ![p] = j],
         row' \in [Devices -> {"absent", "active", "retired"}],
         \A d \in Devices : row[d] # "absent" => row'[d] # "absent",
         imei' = [i \in {Imei[d] : d \in Devices} |-> imei'[i]],
         j \in Walking => \A d \in j.devs \cup ({j.dev} \ {None}) : row'[d] # "absent"
  PROVE  /\ RegistryTypes' /\ Shapes' /\ Listed'
         /\ job'[p] = j /\ \A q \in Actors \ {p} : job'[q] = job[q]
<1>1. JobTypes' /\ Shapes' /\ job'[p] = j /\ \A q \in Actors \ {p} : job'[q] = job[q]
  BY JobReplaced DEF RegistryInv, RegistryTypes
<1>2. Listed'
  <2> SUFFICES ASSUME NEW q \in Actors, AtWork(q)', NEW d \in job'[q].devs \cup ({job'[q].dev} \ {None})
               PROVE  row'[d] # "absent"
    BY DEF Listed
  <2>1. CASE q = p
    BY <1>1, <2>1 DEF AtWork
  <2>2. CASE q # p
    <3>1. job'[q] = job[q] /\ job[q] \in Walking
      BY <1>1, <2>2 DEF AtWork
    <3>2. row[d] # "absent"
      BY <3>1 DEF RegistryInv, Listed, AtWork
    <3>3. d \in Devices
      BY <3>1 DEF Walking
    <3> QED BY <3>2, <3>3
  <2> QED BY <2>1, <2>2
<1> QED BY <1>1, <1>2 DEF RegistryTypes

\* A retirement is at a step at which a registration of its device is noted.
LEMMA RetirementIsNoted ==
  ASSUME Shapes, NEW q \in Requests, AtWork(q), job[q].then = "retire"
  PROVE  Retirement(q, job[q]) /\ Retiring(job[q].dev)
<1>1. q \in Actors
  BY DEF Actors
<1>2. Retirement(q, job[q])
  BY <1>1 DEF Shapes, Shape, AtWork, Restoration, Registration, Teardown
<1> QED BY <1>1, <1>2 DEF Retirement, Retiring

\* A device is registered.
LEMMA ActivateKeeps ==
  ASSUME RegistryInv, NEW p \in Actors, NEW d \in Devices, activateDevice(p, d) PROVE RegistryInv'
<1> USE DEF RegistryInv, Registry
<1>1. /\ job[p].at = "up" /\ d \in job[p].devs /\ job' = [job EXCEPT ![p] = After(p, d)]
      /\ imei' = [imei EXCEPT ![Imei[d]] = d] /\ known' = known \cup {d}
      /\ torn' = IF row[d] = "retired" \/ Retiring(d) THEN torn \cup ({d, imei[Imei[d]]} \ {None}) ELSE torn
      /\ UNCHANGED <<row, tenant>>
  BY DEF activateDevice
<1>2. AtWork(p) /\ Shape(p, job[p])
  BY <1>1, PlacesAreWalks DEF RegistryTypes, Places, Shapes
<1>3. PICK j : j = After(p, d)
  OBVIOUS
<1>4. /\ Fit(p, j)
      /\ \/ j = Idle /\ job[p].then = "idle" /\ job[p].devs = {d}
         \/ j \in Walking /\ j.then = job[p].then /\ j.dev = job[p].dev /\ j.devs = job[p].devs \ {d}
  BY <1>1, <1>2, <1>3, WalkGoesOn
<1>5. /\ \A i \in {Imei[e] : e \in Devices} : imei'[i] = IF i = Imei[d] THEN d ELSE imei[i]
      /\ imei' = [i \in {Imei[e] : e \in Devices} |-> imei'[i]]
  BY <1>1 DEF RegistryTypes
<1>6. /\ RegistryTypes' /\ Shapes' /\ Listed'
      /\ job'[p] = j /\ \A q \in Actors \ {p} : job'[q] = job[q]
  <2>1. j \in Walking => \A e \in j.devs \cup ({j.dev} \ {None}) : row'[e] # "absent"
    BY <1>1, <1>2, <1>4, WalkOrNot DEF Listed
  <2>2. row' \in [Devices -> {"absent", "active", "retired"}] /\ \A e \in Devices : row[e] # "absent" => row'[e] # "absent"
    BY <1>1 DEF RegistryTypes
  <2> QED BY <1>1, <1>3, <1>4, <1>5, <2>1, <2>2, Frame
<1>7. Active' = Active /\ (\A e \in Devices : Suspended(e)' <=> Suspended(e))
  BY <1>1 DEF Active, Suspended
<1>8. \A e \in Devices \ {d} : Transit(e) => Transit(e)'
  <2> SUFFICES ASSUME NEW e \in Devices \ {d}, NEW q \in Requests, AtWork(q), job[q].dev = e
               PROVE  AtWork(q)' /\ job'[q].dev = e
    BY DEF Transit
  <2>1. CASE q = p
    <3>1. job[p].devs = {d} => job[p].then # "idle"
      BY <1>1, <1>2, <2>1 DEF Shape, AtWork, Registration, Retirement, Restoration, Teardown
    <3>2. j \in Walking /\ j.dev = e
      BY <1>4, <2>1, <3>1
    <3> QED BY <1>6, <2>1, <3>2 DEF AtWork
  <2>2. CASE q # p
    BY <1>6, <2>2 DEF AtWork, Actors
  <2> QED BY <2>1, <2>2
<1>9. row[d] # "absent"
  BY <1>1, <1>2 DEF Listed
<1>10. d \in torn' \/ (d \in Active /\ ~Retiring(d))
  BY <1>1, <1>9 DEF Active, RegistryTypes
<1>11. Accepted(d)'
  BY <1>1, <1>5 DEF Accepted
<1>12. ASSUME NEW e \in Active \ torn', Accepted(e) PROVE Accepted(e)'
  <2>1. e \in Devices /\ e # None /\ imei[Imei[e]] = e /\ e \in known
    BY <1>12 DEF Active, Accepted
  <2>2. CASE e = d
    BY <1>11, <2>2
  <2>3. CASE Imei[e] # Imei[d]
    BY <1>1, <1>5, <2>1, <2>3 DEF Accepted
  <2>4. CASE Imei[e] = Imei[d] /\ e # d
    <3>1. d \notin Active
      BY <1>12, <2>4 DEF OneInService
    <3>2. row[d] = "retired"
      BY <1>9, <3>1 DEF Active, RegistryTypes
    <3>3. e \in torn'
      BY <1>1, <2>1, <2>4, <3>2
    <3> QED BY <1>12, <3>3
  <2> QED BY <2>2, <2>3, <2>4
<1>13. torn \subseteq torn'
  BY <1>1
<1>14. Accepts'
  <2> SUFFICES ASSUME NEW e \in Active \ torn', ~Transit(e)', ~Suspended(e)' PROVE Accepted(e)'
    BY <1>7 DEF Accepts
  <2>1. e \in Devices
    BY DEF Active
  <2>2. CASE e = d
    BY <1>11, <2>2
  <2>3. CASE e # d
    BY <1>7, <1>8, <1>12, <1>13, <2>1, <2>3 DEF Accepts
  <2> QED BY <2>2, <2>3
<1>15. Rejects'
  <2> SUFFICES ASSUME NEW e \in Devices \ torn', row[e] # "active" PROVE imei'[Imei[e]] # e /\ e \notin known'
    BY <1>1 DEF Rejects
  <2>1. e # d
    BY <1>10 DEF Active
  <2> QED BY <1>1, <1>5, <1>13, <2>1 DEF Rejects
<1>16. Restores'
  <2> SUFFICES ASSUME NEW q \in Actors, AtWork(q)', job'[q].then = "flag", job'[q].at \in {"up", "flag"},
                      NEW e \in (Active \cap Own) \ torn', ~Transit(e)', e \notin job'[q].devs
               PROVE  Accepted(e)'
    BY <1>7 DEF Restores
  <2>1. CASE e = d
    BY <1>11, <2>1
  <2>2. CASE e # d
    <3>1. e \in Devices /\ ~Transit(e) /\ e \notin torn
      BY <1>8, <1>13, <2>2 DEF Active
    <3>2. AtWork(q) /\ job[q].then = "flag" /\ job[q].at \in {"up", "flag"} /\ e \notin job[q].devs
      <4>1. CASE q = p
        BY <1>1, <1>2, <1>4, <1>6, <2>2, <4>1, WalkOrNot DEF AtWork
      <4>2. CASE q # p
        BY <1>6, <4>2 DEF AtWork
      <4> QED BY <4>1, <4>2
    <3> QED BY <1>12, <3>1, <3>2 DEF Restores
  <2> QED BY <2>1, <2>2
<1>17. Retires'
  <2> SUFFICES ASSUME NEW q \in Requests, AtWork(q)', job'[q].then = "retire", job'[q].dev \notin torn'
               PROVE  /\ job'[q].at \in {"multi", "retire"} => imei'[Imei[job'[q].dev]] # job'[q].dev
                      /\ job'[q].at = "retire" => job'[q].dev \notin known'
    BY DEF Retires
  <2>1. q # p
    <3>1. ~Retirement(p, job[p])
      BY <1>1 DEF Retirement
    <3>2. job[p].then # "retire"
      BY <1>2, <3>1 DEF Shape, AtWork, Restoration, Registration, Teardown
    <3>3. j \in Walking => j.then # "retire"
      BY <1>4, <3>2, WalkOrNot
    <3> QED BY <1>6, <3>3 DEF AtWork
  <2>2. AtWork(q) /\ job'[q] = job[q]
    BY <1>6, <2>1 DEF AtWork, Actors
  <2>3. Retiring(job[q].dev) /\ job[q].dev \in Devices
    BY <2>2, RetirementIsNoted DEF Retirement
  <2>4. job[q].dev # d
    BY <1>10, <2>2, <2>3
  <2> QED BY <1>1, <1>5, <1>13, <2>2, <2>3, <2>4 DEF Retires
<1>18. OneInService'
  BY <1>7 DEF OneInService
<1> QED BY <1>6, <1>14, <1>15, <1>16, <1>17, <1>18

\* A step of a retirement or a teardown, as far as its device d goes: d is in transit,
\* or its tenant is suspended and no restore has it behind it, or it is torn.
TakesAway(p, d) ==
  /\ AtWork(p) /\ d \in job[p].devs
  /\ \/ Retirement(p, job[p]) /\ job[p].dev = d
     \/ Teardown(p, job[p]) /\ d \in Own /\ (d \in torn' \/ (tenant.susp /\ ~Restored(d)))

\* What is left of the registry when d is taken out of one of its two parts by p.
LEMMA TakingAwayKeeps ==
  ASSUME RegistryInv, NEW p \in Actors, NEW d \in Devices, TakesAway(p, d), NEW j, Fit(p, j),
         job' = [job EXCEPT ![p] = j], UNCHANGED <<row, tenant>>,
         j = Idle \/ (j \in Walking /\ j.then = job[p].then /\ j.devs \subseteq job[p].devs
                      /\ (j.dev = d \/ j.dev = job[p].dev)),
         j = Idle => Teardown(p, job[p]),
         torn \subseteq torn',
         imei' = [i \in {Imei[e] : e \in Devices} |-> imei'[i]],
         \A e \in Devices \ {d} : (imei[Imei[e]] = e <=> imei'[Imei[e]] = e) /\ (e \in known <=> e \in known'),
         imei'[Imei[d]] = d => imei[Imei[d]] = d,
         known' \subseteq known,
         j # Idle /\ j.then = "retire" /\ d \notin torn' =>
           /\ j.at \in {"multi", "retire"} => imei'[Imei[d]] # d
           /\ j.at = "retire" => d \notin known'
  PROVE  RegistryInv'
<1> USE DEF RegistryInv, Registry
<1>0. AtWork(p) /\ d \in job[p].devs /\ p \in Requests \cup {Sweeper}
  BY DEF TakesAway, Actors
<1>1. /\ RegistryTypes' /\ Shapes' /\ Listed'
      /\ job'[p] = j /\ \A q \in Actors \ {p} : job'[q] = job[q]
  <2>1. j \in Walking => \A e \in j.devs \cup ({j.dev} \ {None}) : row'[e] # "absent"
    BY <1>0, WalkOrNot DEF Listed
  <2>2. row' \in [Devices -> {"absent", "active", "retired"}] /\ \A e \in Devices : row[e] # "absent" => row'[e] # "absent"
    BY DEF RegistryTypes
  <2> QED BY <2>1, <2>2, Frame
<1>2. Active' = Active /\ (\A e \in Devices : Suspended(e)' <=> Suspended(e))
  BY DEF Active, Suspended
<1>3. \A e \in Devices : Transit(e) => Transit(e)'
  <2> SUFFICES ASSUME NEW e \in Devices, NEW q \in Requests, AtWork(q), job[q].dev = e
               PROVE  AtWork(q)' /\ job'[q].dev = e
    BY DEF Transit
  <2>1. CASE q = p
    <3>1. Retirement(p, job[p]) /\ job[p].dev = d
      BY <2>1 DEF TakesAway, Teardown
    <3>2. j \in Walking /\ j.dev = d
      BY <2>1, <3>1 DEF Teardown
    <3> QED BY <1>1, <2>1, <3>1, <3>2 DEF AtWork
  <2>2. CASE q # p
    BY <1>1, <2>2 DEF AtWork, Actors
  <2> QED BY <2>1, <2>2
<1>4. \A e \in Devices \ {d} : Accepted(e) => Accepted(e)'
  BY DEF Accepted
<1>5. d \in torn' \/ Transit(d)' \/ (Suspended(d) /\ ~Restored(d))
  <2>1. CASE Retirement(p, job[p]) /\ job[p].dev = d
    <3>1. Transit(d)
      BY <1>0, <2>1 DEF Transit, Retirement
    <3> QED BY <1>3, <3>1
  <2>2. CASE Teardown(p, job[p]) /\ d \in Own /\ (d \in torn' \/ (tenant.susp /\ ~Restored(d)))
    BY <2>2 DEF Suspended
  <2> QED BY <2>1, <2>2 DEF TakesAway
<1>6. Accepts'
  <2> SUFFICES ASSUME NEW e \in Active \ torn', ~Transit(e)', ~Suspended(e)' PROVE Accepted(e)'
    BY <1>2 DEF Accepts
  <2>1. e \in Devices /\ e # d
    BY <1>2, <1>5 DEF Active
  <2> QED BY <1>2, <1>3, <1>4, <2>1 DEF Accepts
<1>7. Rejects'
  BY DEF Rejects
<1>8. Restores'
  <2> SUFFICES ASSUME NEW q \in Actors, AtWork(q)', job'[q].then = "flag", job'[q].at \in {"up", "flag"},
                      NEW e \in (Active \cap Own) \ torn', ~Transit(e)', e \notin job'[q].devs
               PROVE  Accepted(e)'
    BY <1>2 DEF Restores
  <2>1. q # p
    BY <1>0, <1>1, WalkOrNot DEF AtWork, TakesAway, Retirement, Teardown
  <2>2. job'[q] = job[q] /\ AtWork(q)
    BY <1>1, <2>1 DEF AtWork
  <2>3. e # d
    BY <1>5, <2>2 DEF Restored
  <2>4. e \in Devices /\ ~Transit(e) /\ e \notin torn
    BY <1>3 DEF Active
  <2> QED BY <1>4, <2>2, <2>3, <2>4 DEF Restores
<1>9. Retires'
  <2> SUFFICES ASSUME NEW q \in Requests, AtWork(q)', job'[q].then = "retire", job'[q].dev \notin torn'
               PROVE  /\ job'[q].at \in {"multi", "retire"} => imei'[Imei[job'[q].dev]] # job'[q].dev
                      /\ job'[q].at = "retire" => job'[q].dev \notin known'
    BY DEF Retires
  <2>1. CASE q = p
    <3>1. Retirement(p, job[p]) /\ job[p].dev = d
      BY <2>1 DEF TakesAway, Teardown
    <3>2. j # Idle /\ j.then = "retire" /\ j.dev = d
      BY <1>1, <2>1, <3>1, WalkOrNot DEF AtWork
    <3> QED BY <1>1, <2>1, <3>2
  <2>2. CASE q # p
    <3>1. job'[q] = job[q] /\ AtWork(q)
      BY <1>1, <2>2 DEF AtWork, Actors
    <3>2. job[q].dev \in Devices
      BY <3>1, RetirementIsNoted DEF Retirement
    <3> QED BY <3>1, <3>2 DEF Retires
  <2> QED BY <2>1, <2>2
<1>10. OneInService'
  BY <1>2 DEF OneInService
<1> QED BY <1>1, <1>6, <1>7, <1>8, <1>9, <1>10

\* The mapping of a device goes, if it is its own.
LEMMA DeactivateImeiKeeps ==
  ASSUME RegistryInv, NEW p \in Actors, NEW d \in Devices, deactivateImei(p, d) PROVE RegistryInv'
<1> USE DEF RegistryInv
<1>1. /\ job[p].at = "eval" /\ d \in job[p].devs
      /\ job' = [job EXCEPT ![p].at = "multi", ![p].dev = d]
      /\ imei' = [imei EXCEPT ![Imei[d]] = IF @ = d THEN None ELSE @]
      /\ torn' = IF job[p].then = "idle" /\ (~tenant.susp \/ Restored(d)) THEN torn \cup {d} ELSE torn
      /\ UNCHANGED <<row, tenant, known>>
  BY DEF deactivateImei
<1>2. AtWork(p) /\ Shape(p, job[p]) /\ p \in Requests \cup {Sweeper}
  BY <1>1, PlacesAreWalks DEF RegistryTypes, Places, Shapes, Actors
<1>3. (Retirement(p, job[p]) /\ job[p].dev = d) \/ Teardown(p, job[p])
  BY <1>1, <1>2 DEF Shape, AtWork, Retirement, Restoration, Registration
<1>4. PICK q : q = [job[p] EXCEPT !.at = "multi"]
  OBVIOUS
<1>5. /\ q \in Walking /\ q.at = "multi" /\ q.walk = job[p].walk /\ q.devs = job[p].devs
      /\ q.then = job[p].then
  BY <1>2, <1>4 DEF AtWork, Walking
<1>6. PICK j : j = [q EXCEPT !.dev = d]
  OBVIOUS
<1>7. /\ j \in Walking /\ j.at = "multi" /\ j.walk = job[p].walk /\ j.devs = job[p].devs
      /\ j.then = job[p].then /\ j.dev = d
  BY <1>5, <1>6 DEF Walking
<1>8. job' = [job EXCEPT ![p] = j]
  BY <1>1, <1>4, <1>6 DEF RegistryTypes, JobTypes
<1>9. Fit(p, j)
  <2>1. Shape(p, j)
    BY <1>1, <1>2, <1>3, <1>7 DEF Shape, AtWork, Retirement, Teardown
  <2> QED BY <1>2, <1>7, <2>1 DEF Fit
<1>10. /\ imei' = [i \in {Imei[e] : e \in Devices} |-> imei'[i]]
       /\ \A i \in {Imei[e] : e \in Devices} :
            imei'[i] = IF i = Imei[d] /\ imei[i] = d THEN None ELSE imei[i]
  BY <1>1 DEF RegistryTypes
<1>11. imei'[Imei[d]] # d /\ \A e \in Devices \ {d} : imei[Imei[e]] = e <=> imei'[Imei[e]] = e
  BY <1>10
<1>12. TakesAway(p, d)
  BY <1>1, <1>2, <1>3 DEF TakesAway, Teardown
<1>13. torn \subseteq torn' /\ j # Idle
  BY <1>1, <1>7, WalkOrNot
<1>14. /\ UNCHANGED <<row, tenant>> /\ known' \subseteq known
       /\ imei' = [i \in {Imei[e] : e \in Devices} |-> imei'[i]]
       /\ \A e \in Devices \ {d} : (imei[Imei[e]] = e <=> imei'[Imei[e]] = e) /\ (e \in known <=> e \in known')
       /\ imei'[Imei[d]] # d
  BY <1>1, <1>10, <1>11
<1>15. /\ j \in Walking /\ j.then = job[p].then /\ j.devs \subseteq job[p].devs /\ j.dev = d
       /\ j.at # "retire"
  BY <1>7
<1> QED BY <1>8, <1>9, <1>12, <1>13, <1>14, <1>15, TakingAwayKeeps

\* Its owner, account and configuration go.
LEMMA DeactivateDeviceKeeps ==
  ASSUME RegistryInv, NEW p \in Actors, deactivateDevice(p) PROVE RegistryInv'
<1> USE DEF RegistryInv
<1>1. PICK d : d = job[p].dev
  OBVIOUS
<1>2. /\ job[p].at = "multi" /\ known' = known \ {d} /\ job' = [job EXCEPT ![p] = After(p, d)]
      /\ torn' = IF \/ job[p].then = "idle" /\ (~tenant.susp \/ Restored(d))
                    \/ imei[Imei[d]] = d
                 THEN torn \cup {d} ELSE torn
      /\ UNCHANGED <<row, tenant, imei>>
  BY <1>1 DEF deactivateDevice
<1>3. AtWork(p) /\ Shape(p, job[p])
  BY <1>2, PlacesAreWalks DEF RegistryTypes, Places, Shapes
<1>4. Retirement(p, job[p]) \/ Teardown(p, job[p])
  BY <1>2, <1>3 DEF Shape, AtWork, Restoration, Registration
<1>5. d \in job[p].devs /\ d \in Devices
  <2>1. d \in job[p].devs
    BY <1>1, <1>2, <1>4 DEF Retirement, Teardown
  <2> QED BY <1>3, <2>1 DEF AtWork, Walking
<1>6. PICK j : j = After(p, d)
  OBVIOUS
<1>7. /\ Fit(p, j)
      /\ \/ j = Idle /\ job[p].then = "idle" /\ job[p].devs = {d}
         \/ j \in Walking /\ j.then = job[p].then /\ j.dev = job[p].dev /\ j.devs = job[p].devs \ {d}
  BY <1>1, <1>2, <1>3, <1>5, <1>6, WalkGoesOn
<1>8. j = Idle => Teardown(p, job[p])
  BY <1>4, <1>7, WalkOrNot DEF Retirement
<1>9. TakesAway(p, d)
  BY <1>1, <1>2, <1>3, <1>4, <1>5 DEF TakesAway, Teardown
<1>10. imei' = [i \in {Imei[e] : e \in Devices} |-> imei'[i]]
  BY <1>2 DEF RegistryTypes
<1>11. job' = [job EXCEPT ![p] = j] /\ torn \subseteq torn' /\ known' \subseteq known
       /\ \A e \in Devices \ {d} : (imei[Imei[e]] = e <=> imei'[Imei[e]] = e) /\ (e \in known <=> e \in known')
  BY <1>2, <1>6
<1>12. d \notin torn' => imei'[Imei[d]] # d /\ d \notin known'
  BY <1>2
<1> QED BY <1>2, <1>5, <1>7, <1>8, <1>9, <1>10, <1>11, <1>12, TakingAwayKeeps

\* The row of a device that is gone from the registry follows.
LEMMA RetireKeeps ==
  ASSUME RegistryInv, NEW p \in Actors, retire(p) PROVE RegistryInv'
<1> USE DEF RegistryInv, Registry
<1>1. PICK d : d = job[p].dev
  OBVIOUS
<1>2. /\ job[p].at = "retire" /\ row' = [row EXCEPT ![d] = "retired"] /\ job' = [job EXCEPT ![p] = Idle]
      /\ UNCHANGED <<tenant, imei, known, torn>>
  BY <1>1 DEF retire
<1>3. AtWork(p) /\ Retirement(p, job[p])
  BY <1>2, PlacesAreWalks
     DEF RegistryTypes, Places, Shapes, Shape, AtWork, Restoration, Registration, Teardown
<1>4. p \in Requests /\ d \in Devices /\ job[p].then = "retire"
  BY <1>1, <1>3 DEF Retirement
<1>5. row' \in [Devices -> {"absent", "active", "retired"}] /\ row'[d] = "retired" /\ \A e \in Devices \ {d} : row'[e] = row[e]
  BY <1>2, <1>4 DEF RegistryTypes
<1>6. /\ RegistryTypes' /\ Shapes' /\ Listed'
      /\ job'[p] = Idle /\ \A q \in Actors \ {p} : job'[q] = job[q]
  <2>1. imei' = [i \in {Imei[e] : e \in Devices} |-> imei'[i]] /\ \A e \in Devices : row[e] # "absent" => row'[e] # "absent"
    BY <1>2, <1>5 DEF RegistryTypes
  <2> QED BY <1>2, <1>5, <2>1, IdleFits, WalkOrNot, Frame
<1>7. Active' = Active \ {d}
  BY <1>5 DEF Active
<1>8. \A e \in Devices \ {d} : Transit(e) => Transit(e)'
  <2> SUFFICES ASSUME NEW e \in Devices \ {d}, NEW q \in Requests, AtWork(q), job[q].dev = e
               PROVE  AtWork(q)' /\ job'[q].dev = e
    BY DEF Transit
  <2> QED BY <1>1, <1>6 DEF AtWork, Actors
<1>9. \A e \in Devices : (Accepted(e)' <=> Accepted(e)) /\ (Suspended(e)' <=> Suspended(e))
  BY <1>2 DEF Accepted, Suspended
<1>10. Accepts'
  <2> SUFFICES ASSUME NEW e \in (Active \ {d}) \ torn, ~Transit(e)', ~Suspended(e)' PROVE Accepted(e)'
    BY <1>2, <1>7 DEF Accepts
  <2>1. e \in Devices \ {d}
    BY DEF Active
  <2> QED BY <1>8, <1>9, <2>1 DEF Accepts
<1>11. Rejects'
  <2>1. d \notin torn => imei[Imei[d]] # d /\ d \notin known
    BY <1>1, <1>2, <1>3, <1>4 DEF Retires
  <2> QED BY <1>2, <1>5, <2>1 DEF Rejects
<1>12. Restores'
  <2> SUFFICES ASSUME NEW q \in Actors, AtWork(q)', job'[q].then = "flag", job'[q].at \in {"up", "flag"},
                      NEW e \in ((Active \ {d}) \cap Own) \ torn, ~Transit(e)', e \notin job'[q].devs
               PROVE  Accepted(e)'
    BY <1>2, <1>7 DEF Restores
  <2>1. q # p /\ job'[q] = job[q] /\ AtWork(q)
    BY <1>6, WalkOrNot DEF AtWork
  <2>2. e \in Devices \ {d}
    BY DEF Active
  <2> QED BY <1>8, <1>9, <2>1, <2>2 DEF Restores
<1>13. Retires'
  <2> SUFFICES ASSUME NEW q \in Requests, AtWork(q)', job'[q].then = "retire", job'[q].dev \notin torn
               PROVE  /\ job'[q].at \in {"multi", "retire"} => imei[Imei[job'[q].dev]] # job'[q].dev
                      /\ job'[q].at = "retire" => job'[q].dev \notin known
    BY <1>2 DEF Retires
  <2>1. q # p /\ job'[q] = job[q] /\ AtWork(q)
    BY <1>6, WalkOrNot DEF AtWork, Actors
  <2> QED BY <2>1 DEF Retires
<1>14. OneInService'
  BY <1>7 DEF OneInService
<1> QED BY <1>6, <1>10, <1>11, <1>12, <1>13, <1>14

\* A row is created for an IMEI that is out of service.
LEMMA CreateKeeps ==
  ASSUME RegistryInv, NEW p \in Requests, NEW d \in Devices, Create(p, d) PROVE RegistryInv'
<1> USE DEF RegistryInv, Registry
<1>0. p \in Actors /\ p # Sweeper
  BY DEF Actors
<1>1. PICK w : w = Walk("up", {d}, "idle")
  OBVIOUS
<1>2. w = [at |-> "up", walk |-> "up", devs |-> {d}, then |-> "idle", dev |-> None, keep |-> FALSE]
  BY <1>1, WalksBegin
<1>3. PICK j : j = [w EXCEPT !.dev = d]
  OBVIOUS
<1>4. j = [at |-> "up", walk |-> "up", devs |-> {d}, then |-> "idle", dev |-> d, keep |-> FALSE]
  BY <1>2, <1>3
<1>5. /\ row[d] = "absent" /\ \A e \in Active : Imei[e] # Imei[d]
      /\ row' = [row EXCEPT ![d] = "active"] /\ job[p] = Idle /\ job' = [job EXCEPT ![p] = j]
      /\ UNCHANGED <<tenant, imei, known, torn>>
  BY <1>1, <1>3 DEF Create, Serve
<1>6. Fit(p, j) /\ j \in Walking
  BY <1>0, <1>4 DEF Fit, Walking, Shape, Registration
<1>7. row' \in [Devices -> {"absent", "active", "retired"}] /\ row'[d] = "active" /\ \A e \in Devices \ {d} : row'[e] = row[e]
  BY <1>5 DEF RegistryTypes
<1>8. /\ RegistryTypes' /\ Shapes' /\ Listed'
      /\ job'[p] = j /\ \A q \in Actors \ {p} : job'[q] = job[q]
  <2>1. imei' = [i \in {Imei[e] : e \in Devices} |-> imei'[i]]
    BY <1>5 DEF RegistryTypes
  <2>2. j.devs = {d} /\ j.dev = d
    BY <1>4
  <2> QED BY <1>0, <1>5, <1>6, <1>7, <2>1, <2>2, Frame
<1>9. Active' = Active \cup {d}
  BY <1>7 DEF Active
<1>10. j.dev = d /\ j.then = "idle"
  BY <1>4
<1>11. Transit(d)' /\ \A e \in Devices : Transit(e) => Transit(e)'
  <2>1. Transit(d)'
    BY <1>6, <1>8, <1>10 DEF Transit, AtWork
  <2> SUFFICES ASSUME NEW e \in Devices, NEW q \in Requests, AtWork(q), job[q].dev = e
               PROVE  AtWork(q)' /\ job'[q].dev = e
    BY <2>1 DEF Transit
  <2>2. q # p
    BY <1>5, WalkOrNot DEF AtWork
  <2> QED BY <1>8, <2>2 DEF AtWork, Actors
<1>12. \A e \in Devices : (Accepted(e)' <=> Accepted(e)) /\ (Suspended(e)' <=> Suspended(e))
  BY <1>5 DEF Accepted, Suspended
<1>13. Accepts'
  <2> SUFFICES ASSUME NEW e \in (Active \cup {d}) \ torn, ~Transit(e)', ~Suspended(e)' PROVE Accepted(e)'
    BY <1>5, <1>9 DEF Accepts
  <2>1. e \in Active /\ e \in Devices
    BY <1>11 DEF Active
  <2> QED BY <1>11, <1>12, <2>1 DEF Accepts
<1>14. Rejects'
  BY <1>5, <1>7 DEF Rejects
<1>15. Restores'
  <2> SUFFICES ASSUME NEW q \in Actors, AtWork(q)', job'[q].then = "flag", job'[q].at \in {"up", "flag"},
                      NEW e \in ((Active \cup {d}) \cap Own) \ torn, ~Transit(e)', e \notin job'[q].devs
               PROVE  Accepted(e)'
    BY <1>5, <1>9 DEF Restores
  <2>1. q # p /\ job'[q] = job[q] /\ AtWork(q)
    BY <1>8, <1>10 DEF AtWork
  <2>2. e \in Active /\ e \in Devices
    BY <1>11 DEF Active
  <2> QED BY <1>11, <1>12, <2>1, <2>2 DEF Restores
<1>16. Retires'
  <2> SUFFICES ASSUME NEW q \in Requests, AtWork(q)', job'[q].then = "retire", job'[q].dev \notin torn
               PROVE  /\ job'[q].at \in {"multi", "retire"} => imei[Imei[job'[q].dev]] # job'[q].dev
                      /\ job'[q].at = "retire" => job'[q].dev \notin known
    BY <1>5 DEF Retires
  <2>1. q # p /\ job'[q] = job[q] /\ AtWork(q)
    BY <1>8, <1>10 DEF AtWork, Actors
  <2> QED BY <2>1 DEF Retires
<1>17. OneInService'
  BY <1>5, <1>9 DEF OneInService
<1> QED BY <1>8, <1>13, <1>14, <1>15, <1>16, <1>17

\* A request or a sweep dies: a device in transit is torn.
LEMMA AbortKeeps ==
  ASSUME RegistryInv, NEW p \in Actors, Abort(p) PROVE RegistryInv'
<1> USE DEF RegistryInv, Registry
<1>1. /\ job' = [job EXCEPT ![p] = Idle] /\ torn \subseteq torn'
      /\ p \in Requests /\ "dev" \in DOMAIN job[p] => {job[p].dev} \ {None} \subseteq torn'
      /\ UNCHANGED <<row, tenant, imei, known>>
  BY DEF Abort
<1>2. /\ RegistryTypes' /\ Shapes' /\ Listed'
      /\ job'[p] = Idle /\ \A q \in Actors \ {p} : job'[q] = job[q]
  <2>1. /\ imei' = [i \in {Imei[e] : e \in Devices} |-> imei'[i]]
        /\ row' \in [Devices -> {"absent", "active", "retired"}]
        /\ \A e \in Devices : row[e] # "absent" => row'[e] # "absent"
    BY <1>1 DEF RegistryTypes
  <2> QED BY <1>1, <2>1, IdleFits, WalkOrNot, Frame
<1>3. Active' = Active /\ \A e \in Devices : (Accepted(e)' <=> Accepted(e)) /\ (Suspended(e)' <=> Suspended(e))
  BY <1>1 DEF Active, Accepted, Suspended
<1>4. \A e \in Devices \ torn' : Transit(e) => Transit(e)'
  <2> SUFFICES ASSUME NEW e \in Devices \ torn', NEW q \in Requests, AtWork(q), job[q].dev = e
               PROVE  AtWork(q)' /\ job'[q].dev = e
    BY DEF Transit
  <2>1. "dev" \in DOMAIN job[q]
    BY WalkOrNot DEF AtWork
  <2>2. q # p
    BY <1>1, <2>1
  <2> QED BY <1>2, <2>2 DEF AtWork, Actors
<1>5. \A q \in Actors : AtWork(q)' => q # p /\ job'[q] = job[q] /\ AtWork(q)
  BY <1>2, WalkOrNot DEF AtWork
<1>6. Accepts'
  <2> SUFFICES ASSUME NEW e \in Active \ torn', ~Transit(e)', ~Suspended(e)' PROVE Accepted(e)'
    BY <1>3 DEF Accepts
  <2>1. e \in Devices
    BY DEF Active
  <2> QED BY <1>1, <1>3, <1>4, <2>1 DEF Accepts
<1>7. Rejects'
  BY <1>1 DEF Rejects
<1>8. Restores'
  <2> SUFFICES ASSUME NEW q \in Actors, AtWork(q)', job'[q].then = "flag", job'[q].at \in {"up", "flag"},
                      NEW e \in (Active \cap Own) \ torn', ~Transit(e)', e \notin job'[q].devs
               PROVE  Accepted(e)'
    BY <1>3 DEF Restores
  <2>1. e \in Devices
    BY DEF Active
  <2> QED BY <1>1, <1>3, <1>4, <1>5, <2>1 DEF Restores
<1>9. Retires'
  <2> SUFFICES ASSUME NEW q \in Requests, AtWork(q)', job'[q].then = "retire", job'[q].dev \notin torn'
               PROVE  /\ job'[q].at \in {"multi", "retire"} => imei[Imei[job'[q].dev]] # job'[q].dev
                      /\ job'[q].at = "retire" => job'[q].dev \notin known
    BY <1>1 DEF Retires
  <2>1. job'[q] = job[q] /\ AtWork(q)
    BY <1>5 DEF Actors
  <2> QED BY <1>1, <2>1 DEF Retires
<1>10. OneInService'
  BY <1>3 DEF OneInService
<1> QED BY <1>2, <1>6, <1>7, <1>8, <1>9, <1>10

\* Every step keeps the registry in order.
LEMMA RegistryNext ==
  ASSUME RegistryInv, LadderInv, [Next]_vars PROVE RegistryInv'
<1>1. LadderInv' /\ LadderTypes /\ LadderTypes'
  BY LadderNext DEF LadderInv
<1>2. ASSUME NEW p \in Actors, Step(p) PROVE RegistryInv'
  BY <1>2, ActivateKeeps, DeactivateImeiKeeps, DeactivateDeviceKeeps, ListKeeps, UnsuspendKeeps, RetireKeeps
     DEF Step
<1>3. ASSUME NEW p \in Requests,
             Restore(p) \/ Pay(p) \/ Boot(p) \/ \E d \in Devices : Create(p, d) \/ Retire(p, d)
      PROVE  RegistryInv'
  BY <1>1, <1>3, ServeKeeps, CreateKeeps
<1>4. CASE SweepStep
  BY <1>1, <1>2, <1>4, SweepKeeps DEF SweepStep, Actors
<1>5. CASE \E p \in Actors : Abort(p)
  BY <1>5, AbortKeeps
<1>6. CASE Lapse \/ NextDay \/ UNCHANGED vars
  BY <1>1, <1>6, StillKeeps
<1> QED BY <1>2, <1>3, <1>4, <1>5, <1>6 DEF Next, Actors

\* Ingest obeys the database, for every fleet and any interleaving of creations,
\* retirements, reclaimed IMEIs, suspensions, restores, boots, sweeps and deaths
\* half way: what RegistryAgrees says of activateDevice, deactivateDevice and their
\* callers.
THEOREM RegistryFollowsRows == Spec => []RegistryAgrees
<1>1. Init => RegistryInv
  <2> SUFFICES ASSUME Init PROVE RegistryInv
    OBVIOUS
  <2>1. job = [p \in Actors |-> Idle] /\ Sweeper \in Actors /\ Requests \subseteq Actors
    BY DEF Init, Actors
  <2>2. \A p \in Actors : job[p] = Idle /\ ~AtWork(p)
    BY <2>1, WalkOrNot DEF AtWork
  <2>3. RegistryTypes
    BY <2>1, <2>2 DEF Init, RegistryTypes, JobTypes, seen
  <2>4. Shapes /\ Listed /\ Restores /\ Retires
    BY <2>2 DEF Shapes, Shape, Listed, Restores, Retires, AtWork, Actors
  <2>5. OneInService
    BY DEF Init, OneInService
  <2>6. \A d \in Devices : imei[Imei[d]] = IF \E e \in Active : Imei[e] = Imei[d]
                                            THEN CHOOSE e \in Active : Imei[e] = Imei[d] ELSE None
    BY DEF Init
  <2>7. \A d \in Active : imei[Imei[d]] = d
    BY <2>5, <2>6 DEF OneInService, Active
  <2>8. \A d \in Devices \ Active : imei[Imei[d]] # d
    BY <2>6
  <2>9. Accepts /\ Rejects
    BY <2>7, <2>8 DEF Init, Accepts, Rejects, Accepted, Active
  <2> QED BY <2>3, <2>4, <2>5, <2>9 DEF RegistryInv, Registry
<1>2. RegistryInv /\ LadderInv /\ [Next]_vars => RegistryInv' /\ LadderInv'
  BY RegistryNext, LadderNext
<1> QED BY <1>1, <1>2, LadderInit, InvRegistryAgrees, PTL DEF Spec

=============================================================================
