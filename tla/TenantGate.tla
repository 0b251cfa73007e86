----------------------------- MODULE TenantGate -----------------------------
(***************************************************************************)
(* The device registry in Redis and the billing ladder of one tenant       *)
(* (packages/registry, apps/worker/src/jobs/lapseSweepWorker.ts, the       *)
(* create, retire and restore routes, the Stripe webhook and the boot      *)
(* rehydrate of the API). The database says which devices are in service   *)
(* and whether the tenant is suspended, the registry is what ingest obeys; *)
(* every operation writes the two one after the other and may overlap with *)
(* any other.                                                              *)
(***************************************************************************)
EXTENDS Integers, FiniteSets, FiniteSetsExt

CONSTANTS
    None,
    Devices,       \* device rows, in service or not yet created
    Imei,          \* device -> the IMEI of its hardware
    Own,           \* the devices of the tenant; the others belong to payers
    Requests,      \* requests the API may serve at the same time
    Sweeper,       \* the lapse sweep, one job at a time
    SUSPEND_AFTER, \* notices before the feed stops (SUSPEND_AFTER_DAYS)
    MaxDay,        \* bound: days
    MaxRequests,   \* bound: requests served
    MaxLapses,     \* bound: billing events that leave the tenant lapsed
    MaxAborts      \* bound: requests and sweeps that fail or die half way

ASSUME GateAssumption ==
    /\ SUSPEND_AFTER \in Nat \ {0} /\ Own \subseteq Devices /\ Sweeper \notin Requests
    /\ None \notin Devices

VARIABLES
    row,       \* devices: device -> "absent", "active" or "retired"
    tenant,    \* tenants: lapsed, episode, its day, suspended, notice stage and its episode
    imei,      \* registry:imei: IMEI -> device or None
    known,     \* device:tenant, device:account, device:config and the tenant index
    job,       \* requests in flight and the sweep
    day,
    told,      \* the notices mailed: episode and stage
    torn,      \* devices touched by operations that overtook each other or died
    hist       \* events counted against the bounds

vars == <<row, tenant, imei, known, job, day, told, torn, hist>>

Actors == Requests \cup {Sweeper}
Active == {d \in Devices : row[d] = "active"}
Idle == [at |-> "idle"]

Init ==
    /\ row \in [Devices -> {"absent", "active"}]
    /\ \A d, e \in Active : Imei[d] = Imei[e] => d = e
    /\ tenant = [lapsed |-> FALSE, epi |-> 0, since |-> 0, susp |-> FALSE, stage |-> 0, for |-> None]
    /\ imei = [i \in {Imei[d] : d \in Devices} |->
                 IF \E d \in Active : Imei[d] = i THEN CHOOSE d \in Active : Imei[d] = i ELSE None]
    /\ known = Active
    /\ job = [p \in Actors |-> Idle]
    /\ day = 0 /\ told = {} /\ torn = {}
    /\ hist = [requests |-> 0, lapses |-> 0, aborts |-> 0]

-----------------------------------------------------------------------------
(* The registry, device by device.                                         *)

\* A walk over devices by steps of kind w; what it does next is in then.
Walk(w, devs, then) ==
    IF devs = {} /\ then = "idle" THEN Idle
    ELSE [at |-> IF devs = {} THEN then ELSE w, walk |-> w, devs |-> devs, then |-> then, dev |-> None, keep |-> FALSE]

\* Where a walk goes when it has done d.
After(p, d) ==
    IF job[p].devs # {d} THEN [job[p] EXCEPT !.at = job[p].walk, !.devs = @ \ {d}]
    ELSE IF job[p].then = "idle" THEN Idle
    ELSE [job[p] EXCEPT !.at = job[p].then, !.devs = {}]

\* d was taken back into service by a restore that has not cleared its flag.
Restored(d) == \E p \in Actors : job[p].at \in {"up", "flag"} /\ job[p].then = "flag" /\ d \notin job[p].devs

Retiring(d) == \E p \in Actors : job[p].at \in {"eval", "multi", "retire"} /\ job[p].then = "retire" /\ job[p].dev = d

\* One MULTI: the mapping, the owner, the account, the config and the index.
\* A device that went out of service since it was listed is noted.
activateDevice(p, d) ==
    /\ job[p].at = "up" /\ d \in job[p].devs
    /\ imei' = [imei EXCEPT ![Imei[d]] = d]
    /\ known' = known \cup {d}
    /\ job' = [job EXCEPT ![p] = After(p, d)]
    /\ torn' = IF row[d] = "retired" \/ Retiring(d) THEN torn \cup ({d, imei[Imei[d]]} \ {None}) ELSE torn
    /\ UNCHANGED <<row, tenant, day, told, hist>>

\* Mutant: the mapping of an IMEI goes whoever holds it.
BlindHdel(p, d) ==
    /\ job[p].at = "eval" /\ d \in job[p].devs
    /\ imei' = [imei EXCEPT ![Imei[d]] = None]
    /\ job' = [job EXCEPT ![p].at = "multi", ![p].dev = d]
    /\ torn' = IF job[p].then = "idle" /\ (~tenant.susp \/ Restored(d)) THEN torn \cup {d} ELSE torn
    /\ UNCHANGED <<row, tenant, known, day, told, hist>>

\* The script HDEL_IF_MINE. A teardown that overlaps a restore is noted.
deactivateImei(p, d) ==
    /\ job[p].at = "eval" /\ d \in job[p].devs
    /\ imei' = [imei EXCEPT ![Imei[d]] = IF @ = d THEN None ELSE @]
    /\ job' = [job EXCEPT ![p].at = "multi", ![p].dev = d]
    /\ torn' = IF job[p].then = "idle" /\ (~tenant.susp \/ Restored(d)) THEN torn \cup {d} ELSE torn
    /\ UNCHANGED <<row, tenant, known, day, told, hist>>

\* The MULTI that follows it.
deactivateDevice(p) ==
    /\ job[p].at = "multi"
    /\ LET d == job[p].dev IN
         /\ known' = known \ {d}
         /\ job' = [job EXCEPT ![p] = After(p, d)]
         /\ torn' = IF \/ job[p].then = "idle" /\ (~tenant.susp \/ Restored(d))
                       \/ imei[Imei[d]] = d
                    THEN torn \cup {d} ELSE torn
    /\ UNCHANGED <<row, tenant, imei, day, told, hist>>

-----------------------------------------------------------------------------
(* Requests of the API.                                                    *)

Serve(p, j) ==
    /\ p \in Requests /\ job[p] = Idle /\ hist.requests < MaxRequests
    /\ job' = [job EXCEPT ![p] = j]
    /\ hist' = [hist EXCEPT !.requests = @ + 1]

\* A new row for an IMEI no row in service holds; a lapsed tenant has no
\* device left in its plan.
Create(p, d) ==
    /\ row[d] = "absent" /\ \A e \in Active : Imei[e] # Imei[d]
    /\ d \in Own => ~tenant.lapsed
    /\ row' = [row EXCEPT ![d] = "active"]
    /\ Serve(p, [Walk("up", {d}, "idle") EXCEPT !.dev = d])
    /\ UNCHANGED <<tenant, imei, known, day, told, torn>>

\* DELETE of a device, in service or already retired: registry first.
Retire(p, d) ==
    /\ row[d] # "absent"
    /\ Serve(p, [Walk("eval", {d}, "retire") EXCEPT !.dev = d])
    /\ UNCHANGED <<row, tenant, imei, known, day, told, torn>>

\* ... and the row second.
retire(p) ==
    /\ job[p].at = "retire"
    /\ row' = [row EXCEPT ![job[p].dev] = "retired"]
    /\ job' = [job EXCEPT ![p] = Idle]
    /\ UNCHANGED <<tenant, imei, known, day, told, torn, hist>>

\* A platform admin puts a suspended tenant back on the air.
Restore(p) ==
    /\ tenant.susp
    /\ Serve(p, [Walk("up", {}, "flag") EXCEPT !.at = "list", !.keep = TRUE])
    /\ UNCHANGED <<row, tenant, imei, known, day, told, torn>>

\* A live subscription event: the episode is over, and so is its ladder.
Pay(p) ==
    /\ tenant.lapsed
    /\ tenant' = [tenant EXCEPT !.lapsed = FALSE, !.stage = 0, !.for = None]
    /\ Serve(p, [at |-> "paid"])
    /\ UNCHANGED <<row, imei, known, day, told, torn>>

\* The webhook looks whether there is anything to restore.
PaidCheck(p) ==
    /\ job[p].at = "paid"
    /\ job' = [job EXCEPT ![p] = IF tenant.susp THEN [Walk("up", {}, "flag") EXCEPT !.at = "list"] ELSE Idle]
    /\ UNCHANGED <<row, tenant, imei, known, day, told, torn, hist>>

\* The devices of the tenant that are in service, to restore or to tear down.
registryDevicesFor(p) ==
    /\ job[p].at \in {"list", "downlist"}
    /\ LET devs == Active \cap Own IN
       job' = [job EXCEPT ![p] =
                 IF job[p].at = "list" THEN [Walk("up", devs, "flag") EXCEPT !.keep = job[p].keep]
                                       ELSE Walk("eval", devs, "idle")]
    /\ UNCHANGED <<row, tenant, imei, known, day, told, torn, hist>>

\* The flag comes off after the registry is back; an override keeps the ladder.
unsuspend(p) ==
    /\ job[p].at = "flag"
    /\ tenant' = IF ~tenant.susp THEN tenant
                 ELSE IF job[p].keep THEN [tenant EXCEPT !.susp = FALSE]
                 ELSE [tenant EXCEPT !.susp = FALSE, !.stage = 0, !.for = None]
    /\ job' = [job EXCEPT ![p] = Idle]
    /\ UNCHANGED <<row, imei, known, day, told, torn, hist>>

\* An API process starts: it reads who is suspended, then the devices, then
\* writes the registry without taking anything away.
Boot(p) ==
    /\ Serve(p, [at |-> "boot", susp |-> tenant.susp])
    /\ UNCHANGED <<row, tenant, imei, known, day, told, torn>>

rehydrateRegistries(p) ==
    /\ job[p].at = "boot"
    /\ job' = [job EXCEPT ![p] = Walk("up", IF job[p].susp THEN Active \ Own ELSE Active, "idle")]
    /\ UNCHANGED <<row, tenant, imei, known, day, told, torn, hist>>

-----------------------------------------------------------------------------
(* The lapse sweep.                                                        *)

\* Mutant: the stage of an earlier lapse counts too.
StageAnyLapse == tenant.stage

\* The stage counts when it was recorded for this lapse.
noticeStage == IF tenant.for = tenant.epi THEN tenant.stage ELSE 0

\* One run begins with a list of lapsed tenants.
Sweep ==
    /\ job[Sweeper] = Idle
    /\ job' = [job EXCEPT ![Sweeper] =
                 [at |-> "pass", lapsed |-> tenant.lapsed, epi |-> tenant.epi, past |-> day - tenant.since,
                  susp |-> tenant.susp, stage |-> noticeStage, sent |-> 0]]
    /\ UNCHANGED <<row, tenant, imei, known, day, told, torn, hist>>

seen == job[Sweeper]

\* Restore first: a tenant still flagged and no longer lapsed has paid.
RestorePass ==
    /\ seen.at = "pass"
    /\ job' = [job EXCEPT ![Sweeper] =
                 IF seen.lapsed THEN [seen EXCEPT !.at = "warn"]
                 ELSE IF tenant.susp THEN [Walk("up", {}, "flag") EXCEPT !.at = "list"]
                 ELSE Idle]
    /\ UNCHANGED <<row, tenant, imei, known, day, told, torn, hist>>

noticeDue == Min({seen.past + 1, SUSPEND_AFTER})

\* The notice is queued to a contact that can be reached ...
Warn ==
    /\ seen.at = "warn"
    /\ \/ /\ noticeDue > seen.stage
          /\ told' = told \cup {[epi |-> seen.epi, stage |-> noticeDue]}
          /\ job' = [job EXCEPT ![Sweeper].at = "mark", ![Sweeper].sent = noticeDue]
       \/ job' = [job EXCEPT ![Sweeper].at = "cut"] /\ UNCHANGED told
    /\ UNCHANGED <<row, tenant, imei, known, day, torn, hist>>

\* ... and recorded, unless a higher stage of the same lapse is.
markLapseNotice ==
    /\ seen.at = "mark"
    /\ tenant' = IF (tenant.for # None /\ tenant.for # seen.epi) \/ tenant.stage < noticeDue
                   THEN [tenant EXCEPT !.stage = noticeDue, !.for = seen.epi]
                   ELSE tenant
    /\ job' = [job EXCEPT ![Sweeper].at = "cut"]
    /\ UNCHANGED <<row, imei, known, day, told, torn, hist>>

\* Mutant: a suspension is carried out once, whatever became of its teardown.
SuspendOnce ==
    /\ seen.at = "cut"
    /\ LET ready == ~seen.susp /\ seen.past >= SUSPEND_AFTER /\ seen.stage >= SUSPEND_AFTER /\ ~tenant.susp
       IN /\ tenant' = IF ready THEN [tenant EXCEPT !.susp = TRUE] ELSE tenant
          /\ job' = [job EXCEPT ![Sweeper] = IF ready THEN [at |-> "downlist"] ELSE Idle]
    /\ UNCHANGED <<row, imei, known, day, told, torn, hist>>

\* A tenant that was suspended and still is has its teardown repeated; one
\* that has had its final notice is suspended: the flag first.
suspend ==
    /\ seen.at = "cut"
    /\ LET ready == ~seen.susp /\ seen.past >= SUSPEND_AFTER /\ seen.stage >= SUSPEND_AFTER /\ ~tenant.susp
       IN /\ tenant' = IF ready THEN [tenant EXCEPT !.susp = TRUE] ELSE tenant
          /\ job' = [job EXCEPT ![Sweeper] =
                       IF ready \/ (seen.susp /\ tenant.susp) THEN [at |-> "downlist"] ELSE Idle]
    /\ UNCHANGED <<row, imei, known, day, told, torn, hist>>

-----------------------------------------------------------------------------
(* The world.                                                              *)

\* A billing event that leaves the tenant lapsed begins an episode.
Lapse ==
    /\ hist.lapses < MaxLapses
    /\ tenant' = [tenant EXCEPT !.lapsed = TRUE, !.epi = @ + 1, !.since = day]
    /\ hist' = [hist EXCEPT !.lapses = @ + 1]
    /\ UNCHANGED <<row, imei, known, job, day, told, torn>>

NextDay ==
    /\ day < MaxDay
    /\ day' = day + 1
    /\ UNCHANGED <<row, tenant, imei, known, job, told, torn, hist>>

\* A request or a sweep fails or dies. One about a single device leaves that
\* device to a repetition of the request or to the next boot.
Abort(p) ==
    /\ job[p] # Idle /\ hist.aborts < MaxAborts
    /\ job' = [job EXCEPT ![p] = Idle]
    /\ hist' = [hist EXCEPT !.aborts = @ + 1]
    /\ torn' = IF p \in Requests /\ "dev" \in DOMAIN job[p]
               THEN torn \cup ({job[p].dev} \ {None}) ELSE torn
    /\ UNCHANGED <<row, tenant, imei, known, day, told>>

Step(p) ==
    \/ \E d \in Devices : activateDevice(p, d) \/ deactivateImei(p, d)
    \/ deactivateDevice(p) \/ registryDevicesFor(p) \/ unsuspend(p)
    \/ retire(p) \/ PaidCheck(p) \/ rehydrateRegistries(p)

SweepStep == Sweep \/ RestorePass \/ Warn \/ markLapseNotice \/ suspend \/ Step(Sweeper)

Next ==
    \/ \E p \in Requests :
         \/ Step(p) \/ Restore(p) \/ Pay(p) \/ Boot(p)
         \/ \E d \in Devices : Create(p, d) \/ Retire(p, d)
    \/ SweepStep
    \/ \E p \in Actors : Abort(p)
    \/ Lapse \/ NextDay

Spec == Init /\ [][Next]_vars

\* A request that was accepted goes on, and the queue repeats the sweep.
FairSpec == Spec /\ WF_vars(SweepStep) /\ \A p \in Requests : WF_vars(Step(p))

-----------------------------------------------------------------------------
(* What the registry and the ladder promise.                               *)

Suspended(d) == d \in Own /\ tenant.susp
Accepted(d) == imei[Imei[d]] = d /\ d \in known
Busy(d) == \E p \in Actors : "devs" \in DOMAIN job[p] /\ d \in job[p].devs \cup {job[p].dev}

\* Ingest obeys the database: every device in service of a tenant that is not
\* suspended is accepted, with its owner, and no retired one is - whoever
\* created, retired, reclaimed the IMEI, suspended, restored or rebooted, and
\* wherever a walk over the fleet died. Left out are devices a request is
\* working on, and those of two operations of which one acted on a list older
\* than what the other did (torn).
RegistryAgrees ==
    \A d \in Devices \ torn : ~Busy(d) =>
        /\ row[d] = "active" /\ ~Suspended(d) => Accepted(d)
        /\ row[d] # "active" => imei[Imei[d]] # d /\ d \notin known

\* Nobody is cut off unwarned: when the flag goes on, the final notice of this
\* very lapse was mailed by an earlier run of the sweep (readyToSuspend reads
\* the stage from before the run and counts it for its own episode only). Left
\* out is a billing event between the list and the flag of one run.
CutOnlyAfterWarning ==
    [][~tenant.susp /\ tenant'.susp /\ tenant.lapsed /\ seen.epi = tenant.epi =>
         [epi |-> tenant.epi, stage |-> SUSPEND_AFTER] \in told /\ seen.sent = 0]_vars

\* In the end the fleet follows the bill: a payer is not suspended and all its
\* devices are accepted, and a suspended tenant that is still lapsed feeds
\* nothing, although a webhook, a sweep or a boot died half way.
FleetFollowsBilling ==
    <>[](/\ ~tenant.lapsed => ~tenant.susp /\ \A d \in (Active \cap Own) \ torn : Accepted(d)
         /\ tenant.lapsed /\ tenant.susp => \A d \in Own \ torn : ~Accepted(d))
=============================================================================
