------------------------------ MODULE CommandQueue ------------------------------
(***************************************************************************)
(* The commands an operator sends to one device: the API that queues them  *)
(* (apps/api/src/routes: crud.ts, paramWrite.ts), the ingest session that  *)
(* takes them off cmd:pending, notes them in cmd:inflight and writes them  *)
(* to the socket (apps/ingest/src/session.ts, drainPending), and the       *)
(* worker's dispatcher that pairs answers with what is in flight and runs  *)
(* the status machine in Postgres (apps/worker/src/commands).              *)
(*                                                                         *)
(* The three work on the lists concurrently; each of their calls to Redis  *)
(* or Postgres is a step.  The device is external: it carries out what it  *)
(* receives in order and answers each command once, if still connected.    *)
(***************************************************************************)
EXTENDS Naturals, Sequences, FiniteSets, SequencesExt

CONSTANTS
  NumCmds,      \* commands the operator issues, one after the other
  Writes,       \* those that set the same parameter (setparam); each is followed
                \* by the command that reads it back
  Once,         \* those that must not be repeated (cpureset, deleterecords)
  None,
  MaxAttempts,  \* MAX_ATTEMPTS of reconcile.ts
  MaxLate,      \* timeouts of commands that may still be answered or are in
                \* flight a second time
  MaxDrops,     \* connections that are lost
  MaxRefusals,  \* requests that fail after their row was made
  MaxAborts,    \* dispatcher ticks that are cut short
  MaxCrashes,   \* deaths of the ingest process in the middle of a drain
  MaxKinds      \* kinds of these faults that come together in one behaviour

Cmds == 1 .. NumCmds

ASSUME CommandAssumption ==
  /\ NumCmds \in Nat /\ MaxAttempts \in Nat \ {0}
  /\ Writes \subseteq Cmds /\ Once \subseteq Cmds \ Writes
  /\ \A c \in Writes : c + 1 \in Cmds \ Writes
  /\ MaxLate \in Nat /\ MaxDrops \in Nat /\ MaxRefusals \in Nat
  /\ MaxAborts \in Nat /\ MaxCrashes \in Nat /\ MaxKinds \in Nat
  /\ None \notin [id : Cmds, attempt : Nat, stamped : BOOLEAN]

VARIABLES
  db,        \* command -> its status in Postgres
  answer,    \* command -> the command whose answer its row holds, or 0
  over,      \* the commands up to this one were made 24 h ago
  api,       \* where the request of the API is
  stale,     \* the queued writes that request found
  pending, inflight, resp,  \* cmd:pending, cmd:inflight, cmd:resp
  active,    \* cmd:active has the device
  link,      \* the device has a session
  hold,      \* the entry that drainPending has popped, or None
  noted,     \* it is in cmd:inflight
  todo, out, \* commands on their way to the device, answers on their way back
  runs,      \* command -> times the device carried it out
  value,     \* the last write it carried out
  disp,      \* where the dispatcher's tick is
  snap,      \* what its LRANGEs returned
  spent      \* faults of each kind so far

api_ == <<api, stale>>
lists == <<pending, inflight, resp, active>>
rows == <<db, answer, over>>
ingest == <<link, hold, noted>>
device == <<todo, out, runs, value>>
vars == <<rows, api_, lists, ingest, device, disp, snap, spent>>

Open == {"queued", "sent"}
Terminal == {"acked", "failed", "expired"}
Entry == [id : Cmds, attempt : Nat, stamped : BOOLEAN]
Response == [id : Cmds, nack : BOOLEAN]
EmptySnap == [inflight |-> <<>>, resp |-> <<>>, pending |-> <<>>, old |-> 0, sent |-> 0, now |-> 0]

Faults == {"late", "drop", "refusal", "abort", "crash"}
Limit(k) == CASE k = "late" -> MaxLate [] k = "drop" -> MaxDrops
              [] k = "refusal" -> MaxRefusals
              [] k = "abort" -> MaxAborts [] k = "crash" -> MaxCrashes
Spend(k) == /\ spent[k] < Limit(k)
            /\ Cardinality({j \in Faults : j = k \/ spent[j] > 0}) <= MaxKinds
            /\ spent' = [spent EXCEPT ![k] = @ + 1]

\* Every variable has its type, and no entry is beyond the last attempt.
TypeOK ==
  /\ db \in [Cmds -> {"none"} \cup Open \cup Terminal]
  /\ answer \in [Cmds -> Cmds \cup {0}]
  /\ over \in 0 .. NumCmds
  /\ api \in {"idle", "created", "pushed", "writing", "verified", "read", "queued"}
  /\ stale \in SUBSET Entry
  /\ pending \in Seq(Entry) /\ inflight \in Seq(Entry) /\ resp \in Seq(Response)
  /\ active \in BOOLEAN /\ link \in BOOLEAN /\ noted \in BOOLEAN
  /\ hold \in Entry \cup {None}
  /\ todo \in Seq(Cmds) /\ out \in Seq(Response)
  /\ runs \in [Cmds -> Nat] /\ value \in Cmds \cup {0}
  /\ disp \in {"idle", "snap", "purge", "mark", "settle", "resend", "trim", "count",
               "srem"}
  /\ snap \in [inflight : Seq(Entry), resp : Seq(Response), pending : Seq(Entry),
               old : Nat, sent : Nat, now : 0 .. NumCmds]
  /\ spent \in [Faults -> Nat]
  /\ \A i \in 1 .. Len(pending) : pending[i].attempt < MaxAttempts
  /\ \A i \in 1 .. Len(inflight) : inflight[i].attempt < MaxAttempts

Init ==
  /\ db = [c \in Cmds |-> "none"]
  /\ answer = [c \in Cmds |-> 0]
  /\ over = 0
  /\ api = "idle" /\ stale = {}
  /\ pending = <<>> /\ inflight = <<>> /\ resp = <<>> /\ active = FALSE
  /\ link = TRUE /\ hold = None /\ noted = FALSE
  /\ todo = <<>> /\ out = <<>> /\ runs = [c \in Cmds |-> 0] /\ value = 0
  /\ disp = "idle" /\ snap = EmptySnap
  /\ spent = [k \in Faults |-> 0]

\* The elements of a list at the indices I, in the order of the list.
Nth(I, k) == CHOOSE i \in I : Cardinality({j \in I : j <= i}) = k
At(list, I) == [k \in 1 .. Cardinality(I) |-> list[Nth(I, k)]]

\* UPDATE commands SET status = s WHERE id IN C AND status IN ('queued', 'sent')
Updated(C, s) == [c \in Cmds |-> IF c \in C /\ db[c] \in Open THEN s ELSE db[c]]

-----------------------------------------------------------------------------
(* The API: one request at a time.                                         *)

\* Commands are numbered in the order in which their rows are made.
Newest == Cardinality({c \in Cmds : db[c] # "none"})
Fresh == Newest + 1
Entered(c) == [id |-> c, attempt |-> 0, stamped |-> TRUE]

\* commands.create: the row.
Create ==
  /\ api = "idle" /\ Fresh \in Cmds
  /\ db' = [db EXCEPT ![Fresh] = "queued"]
  /\ api' = IF Fresh \in Writes THEN "writing" ELSE "created"
  /\ UNCHANGED <<answer, over, stale, lists, ingest, device, disp, snap, spent>>

\* A plain command is pushed, and then its device is made active.
Enqueue ==
  /\ api = "created"
  /\ pending' = Append(pending, Entered(Newest))
  /\ api' = "pushed"
  /\ UNCHANGED <<rows, stale, inflight, resp, active, ingest, device, disp, snap, spent>>

Activate ==
  /\ api = "pushed"
  /\ active' = TRUE
  /\ api' = "idle"
  /\ UNCHANGED <<rows, stale, pending, inflight, resp, ingest, device, disp, snap, spent>>

\* A write comes with the getparam that reads the parameter back.
CreateVerify ==
  /\ api = "writing"
  /\ db' = [db EXCEPT ![Fresh] = "queued"]
  /\ api' = "verified"
  /\ UNCHANGED <<answer, over, stale, lists, ingest, device, disp, snap, spent>>

\* queueParamWrite looks for queued writes of the same parameter...
ReadStale ==
  /\ api = "verified"
  /\ stale' = {e \in ToSet(pending) : e.id \in Writes}
  /\ api' = "read"
  /\ UNCHANGED <<rows, lists, ingest, device, disp, snap, spent>>

\* Mutant of EnqueueWrite: LPUSH, and what is queued already stays.
EnqueueAhead ==
  /\ api = "read"
  /\ pending' = <<Entered(Newest - 1), Entered(Newest)>> \o pending
  /\ active' = TRUE
  /\ api' = IF stale = {} THEN "idle" ELSE "queued"
  /\ UNCHANGED <<rows, stale, inflight, resp, ingest, device, disp, snap, spent>>

\* ... and queues both commands in place of the writes found: one MULTI.
EnqueueWrite ==
  /\ api = "read"
  /\ pending' = At(pending, {i \in 1 .. Len(pending) : pending[i] \notin stale})
                   \o <<Entered(Newest - 1), Entered(Newest)>>
  /\ active' = TRUE
  /\ api' = IF stale = {} THEN "idle" ELSE "queued"
  /\ UNCHANGED <<rows, stale, inflight, resp, ingest, device, disp, snap, spent>>

\* markSuperseded: their rows are closed, if nothing was heard of them.
Supersede ==
  /\ api = "queued"
  /\ db' = [c \in Cmds |-> IF db[c] = "queued" /\ \E e \in stale : e.id = c
                           THEN "expired" ELSE db[c]]
  /\ api' = "idle" /\ stale' = {}
  /\ UNCHANGED <<answer, over, lists, ingest, device, disp, snap, spent>>

\* A call fails and the request is given up; the rows stay.
EnqueueFails ==
  /\ api # "idle" /\ Spend("refusal")
  /\ api' = "idle" /\ stale' = {}
  /\ UNCHANGED <<rows, lists, ingest, device, disp, snap>>

\* 24 h pass: every command has the same time, so they expire in order.
Overdue ==
  /\ over < Newest /\ over' = over + 1
  /\ UNCHANGED <<db, answer, api_, lists, ingest, device, disp, snap, spent>>

-----------------------------------------------------------------------------
(* The ingest session: drainPending, and answers.                          *)

\* LPOP; an entry past its expiry is dropped.
Pop ==
  /\ link /\ hold = None /\ pending # <<>>
  /\ pending' = Tail(pending)
  /\ LET e == Head(pending) IN hold' = IF e.stamped /\ e.id <= over THEN None ELSE e
  /\ noted' = FALSE
  /\ UNCHANGED <<rows, api_, inflight, resp, active, link, device, disp, snap, spent>>

\* The MULTI that notes it in flight...
Note ==
  /\ hold # None /\ ~noted
  /\ inflight' = Append(inflight, hold) /\ active' = TRUE
  /\ noted' = TRUE
  /\ UNCHANGED <<rows, api_, pending, resp, link, hold, device, disp, snap, spent>>

\* ... and then the write to the socket, which nobody may be reading.
Write ==
  /\ hold # None /\ noted
  /\ todo' = IF link THEN Append(todo, hold.id) ELSE todo
  /\ hold' = None /\ noted' = FALSE
  /\ UNCHANGED <<rows, api_, lists, link, out, runs, value, disp, snap, spent>>

\* The process dies with an entry in its hand.
Crash ==
  /\ hold # None /\ Spend("crash")
  /\ hold' = None /\ noted' = FALSE /\ link' = FALSE
  /\ todo' = <<>> /\ out' = <<>>
  /\ UNCHANGED <<rows, api_, lists, runs, value, disp, snap>>

\* An answer arrives and is kept for the dispatcher.
Deliver ==
  /\ link /\ out # <<>>
  /\ resp' = Append(resp, Head(out)) /\ active' = TRUE
  /\ out' = Tail(out)
  /\ UNCHANGED <<rows, api_, pending, inflight, ingest, todo, runs, value, disp, snap, spent>>

-----------------------------------------------------------------------------
(* The device (external).                                                  *)

\* It carries out a command and answers, or refuses it and says so.
Execute ==
  /\ todo # <<>> /\ todo' = Tail(todo)
  /\ LET c == Head(todo) IN
       \/ /\ runs' = [runs EXCEPT ![c] = @ + 1]
          /\ value' = IF c \in Writes THEN c ELSE value
          /\ out' = Append(out, [id |-> c, nack |-> FALSE])
       \/ /\ c \notin Writes
          /\ out' = Append(out, [id |-> c, nack |-> TRUE])
          /\ UNCHANGED <<runs, value>>
  /\ UNCHANGED <<rows, api_, lists, ingest, disp, snap, spent>>

\* The connection is lost, with whatever was on its way; it comes back.
Drop ==
  /\ link /\ Spend("drop")
  /\ link' = FALSE /\ todo' = <<>> /\ out' = <<>>
  /\ UNCHANGED <<rows, api_, lists, hold, noted, runs, value, disp, snap>>

Reconnect ==
  /\ ~link /\ hold = None /\ link' = TRUE
  /\ UNCHANGED <<rows, api_, lists, hold, noted, device, disp, snap, spent>>

-----------------------------------------------------------------------------
(* The dispatcher (runCommandDispatch, processDevice, reconcile).          *)

\* Mutant of Sweep: only the commands of active devices expire.
SweepActive ==
  /\ disp = "idle"
  /\ IF active THEN db' = Updated(1 .. over, "expired") ELSE UNCHANGED db
  /\ disp' = IF active THEN "snap" ELSE "idle"
  /\ snap' = IF active THEN [EmptySnap EXCEPT !.now = over] ELSE EmptySnap
  /\ UNCHANGED <<answer, over, api_, lists, ingest, device, spent>>

\* A tick: the global expiry, and then the devices that are active.
Sweep ==
  /\ disp = "idle"
  /\ db' = Updated(1 .. over, "expired")
  /\ disp' = IF active THEN "snap" ELSE "idle"
  /\ snap' = IF active THEN [EmptySnap EXCEPT !.now = over] ELSE EmptySnap
  /\ UNCHANGED <<answer, over, api_, lists, ingest, device, spent>>

\* The answer to c may still come in: it is on its way, or has not been read.
Awaited(c) == \/ hold # None /\ hold.id = c
              \/ c \in ToSet(todo)
              \/ \E r \in ToSet(out) \cup ToSet(resp) : r.id = c
\* The first k in flight cannot all have timed out without bad luck.
TooEarly(k) ==
  \E i \in 1 .. k : \/ Awaited(inflight[i].id)
                     \/ \E j \in k + 1 .. Len(inflight) : inflight[j].id = inflight[i].id

\* The LRANGEs, one write on one connection.  The first `old` commands in
\* flight have been there for TIMEOUT_MS: the list is in the order of sending.
Snapshot ==
  /\ disp = "snap"
  /\ \E k \in 0 .. Len(inflight) :
       /\ snap' = [snap EXCEPT !.inflight = inflight, !.resp = resp, !.pending = pending,
                               !.old = k]
       /\ IF TooEarly(k) THEN Spend("late") ELSE UNCHANGED spent
  /\ disp' = "purge"
  /\ UNCHANGED <<rows, api_, lists, ingest, device>>

\* LREM key 1 e, for each e of a sequence that is in E: each takes the first copy
\* that is left, so of as many as the sequence has none is.
Copies(list, e, n) == Cardinality({j \in 1 .. n : list[j] = e})
Stays(list, es, E) ==
  {i \in 1 .. Len(list) : list[i] \in E => Copies(list, list[i], i) > Copies(es, list[i], Len(es))}
LRemAll(list, es, E) == At(list, Stays(list, es, E))

\* Queued commands past their expiry are closed and taken off the list.
Purge ==
  /\ disp = "purge"
  /\ LET due == {e \in ToSet(snap.pending) : e.stamped /\ e.id <= snap.now} IN
       /\ db' = Updated({e.id : e \in due}, "expired")
       /\ pending' = LRemAll(pending, snap.pending, due)
  /\ snap' = [snap EXCEPT !.pending = <<>>, !.now = 0]
  /\ disp' = "mark"
  /\ UNCHANGED <<answer, over, api_, inflight, resp, active, ingest, device, spent>>

\* What is in flight was sent.
MarkSent ==
  /\ disp = "mark"
  /\ db' = [c \in Cmds |-> IF db[c] = "queued" /\ \E e \in ToSet(snap.inflight) : e.id = c
                           THEN "sent" ELSE db[c]]
  /\ disp' = "settle"
  /\ UNCHANGED <<answer, over, api_, lists, ingest, device, snap, spent>>

\* reconcile: answers pair with the head of what is in flight, and of the
\* others the ones that timed out are repeated or given up...
Paired == 1 .. IF Len(snap.resp) < Len(snap.inflight) THEN Len(snap.resp) ELSE Len(snap.inflight)
Unanswered == (1 .. Len(snap.inflight)) \ Paired
\* Mutant of TimedOut: the window is not looked at.
TimedOutAtOnce == Unanswered
TimedOut == {i \in Unanswered : i <= snap.old}
\* Mutant of Retried: every command is repeated after a timeout.
RetriedAll == {i \in TimedOut : snap.inflight[i].attempt + 1 < MaxAttempts}
Retried == {i \in TimedOut : /\ snap.inflight[i].id \notin Once
                            /\ snap.inflight[i].attempt + 1 < MaxAttempts}
Remaining == Unanswered \ TimedOut
Id(i) == snap.inflight[i].id

\* ... and the rows of the ones answered or given up are closed.
Settle ==
  /\ disp = "settle"
  /\ LET acked == {i \in Paired : ~snap.resp[i].nack}
         failed == (Paired \ acked) \cup (TimedOut \ Retried)
         hit == {i \in acked : db[Id(i)] \in Open} IN
       /\ db' = [c \in Cmds |-> IF db[c] \notin Open THEN db[c]
                                ELSE IF \E i \in acked : Id(i) = c THEN "acked"
                                ELSE IF \E i \in failed : Id(i) = c THEN "failed" ELSE db[c]]
       /\ answer' = [c \in Cmds |-> IF \E i \in hit : Id(i) = c
                                    THEN snap.resp[CHOOSE i \in hit : Id(i) = c].id
                                    ELSE answer[c]]
  /\ disp' = "resend"
  /\ UNCHANGED <<over, api_, lists, ingest, device, snap, spent>>

NextRetry == CHOOSE i \in Retried : i > snap.sent /\ \A j \in Retried : j > snap.sent => i <= j

\* The next one to be tried again is queued as entry e, with the rows as given.
Requeue(table, e) ==
  /\ disp = "resend" /\ \E i \in Retried : i > snap.sent
  /\ db' = table
  /\ pending' = Append(pending, e)
  /\ snap' = [snap EXCEPT !.sent = NextRetry]
  /\ UNCHANGED <<answer, over, api_, inflight, resp, active, ingest, device, disp, spent>>

\* Mutant of Resend: the expiry is not carried over.
ResendUnstamped == Requeue(Updated({Id(NextRetry)}, "queued"),
  [id |-> Id(NextRetry), attempt |-> snap.inflight[NextRetry].attempt + 1, stamped |-> FALSE])
\* Mutant of Resend: the row is opened again whatever its status.
ResendReopens == Requeue([db EXCEPT ![Id(NextRetry)] = "queued"],
                         [snap.inflight[NextRetry] EXCEPT !.attempt = @ + 1])

\* The ones to be tried again are queued again, one by one.
Resend == Requeue(Updated({Id(NextRetry)}, "queued"),
                  [snap.inflight[NextRetry] EXCEPT !.attempt = @ + 1])

\* Everything of the snapshot whose id no longer waits leaves the list.
Clean ==
  /\ disp = "resend" /\ \A i \in Retried : i <= snap.sent
  /\ LET gone == {e \in ToSet(snap.inflight) : \A i \in Remaining : Id(i) # e.id} IN
       inflight' = LRemAll(inflight, snap.inflight, gone)
  /\ disp' = "trim"
  /\ UNCHANGED <<rows, api_, pending, resp, active, ingest, device, snap, spent>>

\* Mutant of Trim: DEL instead of LTRIM when nothing is left in flight.
TrimDeletes ==
  /\ disp = "trim"
  /\ resp' = IF Remaining = {} THEN <<>> ELSE SubSeq(resp, Len(snap.resp) + 1, Len(resp))
  /\ disp' = "count"
  /\ UNCHANGED <<rows, api_, pending, inflight, active, ingest, device, snap, spent>>

\* The answers used are dropped, and with nothing left in flight all of the
\* snapshot's; never one that came later.
Trim ==
  /\ disp = "trim"
  /\ LET n == IF Remaining = {} THEN Len(snap.resp) ELSE Cardinality(Paired) IN
       resp' = SubSeq(resp, n + 1, Len(resp))
  /\ disp' = "count"
  /\ UNCHANGED <<rows, api_, pending, inflight, active, ingest, device, snap, spent>>

\* LLEN, LLEN...
Count ==
  /\ disp = "count"
  /\ disp' = IF pending = <<>> /\ inflight = <<>> /\ Remaining = {} THEN "srem" ELSE "idle"
  /\ snap' = EmptySnap
  /\ UNCHANGED <<rows, api_, lists, ingest, device, spent>>

\* ... and SREM, which may come after somebody has added the device again.
SRem ==
  /\ disp = "srem"
  /\ active' = FALSE
  /\ disp' = "idle"
  /\ UNCHANGED <<rows, api_, pending, inflight, resp, ingest, device, snap, spent>>

\* A call throws or the worker dies: the rest of the tick is not done.
Abort ==
  /\ disp # "idle" /\ Spend("abort")
  /\ disp' = "idle" /\ snap' = EmptySnap
  /\ UNCHANGED <<rows, api_, lists, ingest, device>>

-----------------------------------------------------------------------------
Api == \/ Create \/ Enqueue \/ Activate
       \/ CreateVerify \/ ReadStale \/ EnqueueWrite \/ Supersede
Ingest == Pop \/ Note \/ Write \/ Deliver
Dispatcher == \/ Sweep \/ Snapshot \/ Purge \/ MarkSent \/ Settle \/ Resend \/ Clean
              \/ Trim \/ Count \/ SRem

Next ==
  \/ Api \/ EnqueueFails \/ Overdue
  \/ Ingest \/ Crash \/ Execute \/ Drop \/ Reconnect
  \/ Dispatcher \/ Abort

Spec == Init /\ [][Next]_vars

\* The dispatcher's job is repeated every 15 s, the day passes.
Fairness ==
  /\ WF_vars(Dispatcher)
  /\ WF_vars(Overdue)

FairSpec == Spec /\ Fairness

-----------------------------------------------------------------------------
(* Properties.                                                             *)

\* A command that must not be repeated is carried out at most once, whatever times
\* out, is lost or dies; and no command more than MAX_ATTEMPTS times, unless a tick
\* was cut short between the repeats it queued and the clean-up.
AttemptsBounded ==
  /\ \A c \in Once : runs[c] <= 1
  /\ spent["abort"] = 0 => \A c \in Cmds : runs[c] <= MaxAttempts

\* Without losses and late answers every command is carried out once: no
\* answer is overlooked or thrown away by the dispatcher's clean-up, however
\* the ingest appends fall between its calls.
RunsOnce == \A c \in Cmds : runs[c] <= 1

\* An acknowledged command's row holds the device's answer to that command.
AckedIsAnswered == \A c \in Cmds : db[c] = "acked" => answer[c] = c

\* "NEVER send a command past its 24 h expiry": not from the queue, and not
\* after a timeout queued it again either.
NeverSendsOverdue == [][hold' # None /\ hold' # hold => hold'.id > over]_vars

\* The status machine ends: acked, failed and expired are for good, whoever
\* of the API, the sweep and the dispatcher comes later.
TerminalStays == [][\A c \in Cmds : db[c] \in Terminal => db'[c] = db[c]]_vars

\* "Last instruction wins": the device never carries out an older write of a
\* parameter after a newer one.
LastInstructionWins == [][value' >= value]_vars

\* Every command reaches a final status and keeps it, also one that got lost on
\* the way: in the end no row is left open.
EveryCommandEnds == <>[](\A c \in Cmds : db[c] \notin Open)
=============================================================================
