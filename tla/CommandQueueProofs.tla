--------------------------- MODULE CommandQueueProofs ---------------------------
(***************************************************************************)
(* Machine-checked proofs about CommandQueue, for every number of commands *)
(* and faults.                                                             *)
(***************************************************************************)
EXTENDS CommandQueue, FiniteSetTheorems, SequenceTheorems, WellFoundedInduction, TLAPS

USE CommandAssumption

\* Rows are made in order, so the row that a request makes is a new one.
Made == {c \in Cmds : db[c] # "none"}
RowInv ==
  /\ db \in [Cmds -> {"none"} \cup Open \cup Terminal]
  /\ \E k \in 0 .. NumCmds : Made = 1 .. k

\* Rows are made in order, so the newest is the last and the fresh one follows it.
LEMMA NewestIsLast ==
  ASSUME RowInv
  PROVE  \E k \in 0 .. NumCmds : Made = 1 .. k /\ Newest = k /\ Fresh = k + 1
<1>1. PICK k \in 0 .. NumCmds : Made = 1 .. k BY DEF RowInv
<1>2. Cardinality(1 .. k) = k BY FS_Interval
<1> QED BY <1>1, <1>2 DEF Newest, Fresh, Made

\* The status machine never leaves acked, failed or expired.
Ends == \A c \in Cmds : db[c] \in Terminal => db'[c] = db[c]
\* A step that makes no row and opens none that has ended.
Moves == /\ db' \in [Cmds -> {"none"} \cup Open \cup Terminal]
         /\ \A c \in Cmds : /\ db[c] \notin Open => db'[c] = db[c]
                            /\ db[c] \in Open => db'[c] # "none"

\* Such a step keeps the order, and ends no row that had ended.
LEMMA MovesKeep == ASSUME RowInv, Moves PROVE RowInv' /\ Ends /\ Newest' = Newest
<1>1. Made' = Made BY DEF Made, Moves, Open
<1> QED BY <1>1 DEF RowInv, Moves, Ends, Terminal, Open, Newest, Made

\* So does a row that is made.
LEMMA NewRowKeeps ==
  ASSUME RowInv, db' = [db EXCEPT ![Fresh] = "queued"]
  PROVE  RowInv' /\ Ends /\ (Fresh \in Cmds => Newest' = Fresh)
<1>1. PICK k \in 0 .. NumCmds : Made = 1 .. k /\ Fresh = k + 1 BY NewestIsLast
<1>2. CASE k = NumCmds
  <2>1. Fresh \notin Cmds BY <1>1, <1>2 DEF Cmds
  <2>2. db' = db BY <2>1 DEF RowInv
  <2> QED BY <2>1, <2>2 DEF RowInv, Made, Ends
<1>3. CASE k # NumCmds
  <2>1. k + 1 \in Cmds /\ k + 1 \notin Made BY <1>1, <1>3 DEF Cmds
  <2>2. db[k + 1] = "none" BY <2>1 DEF Made
  <2>3. Made' = Made \cup {k + 1} BY <1>1, <2>1 DEF Made, RowInv
  <2>4. Made' = 1 .. k + 1 /\ k + 1 \in 0 .. NumCmds BY <1>1, <1>3, <2>3
  <2>5. db' \in [Cmds -> {"none"} \cup Open \cup Terminal] BY DEF RowInv, Open
  <2>6. Ends BY <1>1, <2>1, <2>2 DEF Ends, RowInv, Terminal
  <2>7. Newest' = k + 1
    <3>1. Cardinality(1 .. k + 1) = k + 1 BY FS_Interval
    <3> QED BY <2>4, <3>1 DEF Newest, Made
  <2> QED BY <1>1, <2>4, <2>5, <2>6, <2>7 DEF RowInv
<1> QED BY <1>2, <1>3

\* Every step moves rows or makes one.
LEMMA StepKeepsRows ==
  ASSUME RowInv, [Next]_vars
  PROVE  RowInv' /\ Ends /\ (Newest' = Newest \/ Create \/ CreateVerify)
<1>0. ASSUME UNCHANGED db PROVE RowInv' /\ Ends /\ Newest' = Newest
  BY <1>0 DEF RowInv, Made, Ends, Newest
<1>1. CASE Create \/ CreateVerify
  BY <1>1, NewRowKeeps DEF Create, CreateVerify
<1>2. ASSUME NEW C, NEW s \in Open \cup Terminal, db' = Updated(C, s)
      PROVE  RowInv' /\ Ends /\ Newest' = Newest
  <2>1. Moves BY <1>2 DEF Updated, Moves, RowInv, Open, Terminal
  <2> QED BY <2>1, MovesKeep
<1>3. CASE Sweep \/ Purge \/ Resend
  <2>1. "expired" \in Open \cup Terminal /\ "queued" \in Open \cup Terminal BY DEF Open, Terminal
  <2> QED BY <1>2, <1>3, <2>1 DEF Sweep, Purge, Resend, Requeue
<1>4. CASE Supersede \/ MarkSent
  <2>1. Moves BY <1>4 DEF Supersede, MarkSent, Moves, RowInv, Open, Terminal
  <2> QED BY <2>1, MovesKeep
<1>5. CASE Settle
  <2>1. Moves BY <1>5 DEF Settle, Moves, RowInv, Open, Terminal
  <2> QED BY <2>1, MovesKeep
<1>6. CASE UNCHANGED vars BY <1>0, <1>6 DEF vars, rows
<1>7. CASE Enqueue \/ Activate \/ ReadStale \/ EnqueueWrite \/ EnqueueFails \/ Overdue
  BY <1>0, <1>7 DEF Enqueue, Activate, ReadStale, EnqueueWrite, EnqueueFails, Overdue, rows
<1>8. CASE Ingest \/ Crash \/ Execute \/ Drop \/ Reconnect
  BY <1>0, <1>8 DEF Ingest, Pop, Note, Write, Deliver, Crash, Execute, Drop, Reconnect, rows
<1>9. CASE Snapshot \/ Clean \/ Trim \/ Count \/ SRem \/ Abort
  BY <1>0, <1>9 DEF Snapshot, Clean, Trim, Count, SRem, Abort, rows
<1> QED
  BY <1>1, <1>3, <1>4, <1>5, <1>6, <1>7, <1>8, <1>9 DEF Next, Api, Dispatcher

\* acked, failed and expired are for good, whoever of the API, the global sweep
\* and the dispatcher comes later, in whatever order their statements run.
THEOREM StatusIsFinal == Spec => TerminalStays
<1>1. Init => RowInv
  <2> SUFFICES ASSUME Init PROVE RowInv
    OBVIOUS
  <2>1. Made = 1 .. 0 BY DEF Init, Made
  <2>2. 0 \in 0 .. NumCmds OBVIOUS
  <2> QED BY <2>1, <2>2 DEF Init, RowInv
<1>2. RowInv /\ [Next]_vars => RowInv'
  BY StepKeepsRows
<1>3. RowInv /\ [Next]_vars => [Ends]_vars
  BY StepKeepsRows
<1>4. [Ends]_vars => [\A c \in Cmds : db[c] \in Terminal => db'[c] = db[c]]_vars
  BY DEF Ends
<1> QED BY <1>1, <1>2, <1>3, <1>4, PTL DEF Spec, TerminalStays
-----------------------------------------------------------------------------
(* Lists cut by index sets.                                                *)

\* A non-empty set of numbers has a least one: what the dispatcher repeats next.
Less == {p \in Nat \X Nat : p[1] < p[2]}
LEMMA Least ==
  ASSUME NEW S \in SUBSET Nat, S # {}
  PROVE  \E m \in S : \A n \in S : m <= n
<1>1. IsWellFoundedOn(Less, Nat)
  BY NatLessThanWellFounded DEF OpToRel, Less
<1>2. PICK m \in S : \A n \in S : ~ (<<n, m>> \in Less)
  BY <1>1, WFMin
<1>3. ASSUME NEW n \in S PROVE m <= n
  <2>1. n < m => <<n, m>> \in Less
    BY DEF Less
  <2> QED BY <1>2, <2>1
<1> QED BY <1>3

\* Indices up to i.
UpTo(I, i) == {j \in I : j <= i}
\* A later index has more indices up to it.
LEMMA UpToGrows ==
  ASSUME NEW I \in SUBSET Nat, IsFiniteSet(I), NEW i \in I, NEW j \in I
  PROVE  /\ Cardinality(UpTo(I, i)) \in 1 .. Cardinality(I)
         /\ i < j => Cardinality(UpTo(I, i)) < Cardinality(UpTo(I, j))
<1>1. UpTo(I, i) \in SUBSET I /\ UpTo(I, j) \in SUBSET I BY DEF UpTo
<1>2. IsFiniteSet(UpTo(I, i)) /\ IsFiniteSet(UpTo(I, j)) BY <1>1, FS_Subset
<1>3. /\ Cardinality(UpTo(I, i)) \in Nat /\ Cardinality(UpTo(I, j)) \in Nat
      /\ Cardinality(I) \in Nat /\ Cardinality(UpTo(I, i)) <= Cardinality(I)
  BY <1>1, <1>2, FS_Subset, FS_CardinalityType
<1>4. Cardinality(UpTo(I, i)) # 0
  <2>1. i \in UpTo(I, i) BY DEF UpTo
  <2> QED BY <2>1, <1>2, FS_EmptySet
<1>5. ASSUME i < j PROVE Cardinality(UpTo(I, i)) < Cardinality(UpTo(I, j))
  <2>1. UpTo(I, i) \in SUBSET UpTo(I, j)
    <3>1. \A m \in Nat : m <= i => m <= j BY <1>5
    <3> QED BY <3>1 DEF UpTo
  <2>2. j \in UpTo(I, j) /\ j \notin UpTo(I, i) BY <1>5 DEF UpTo
  <2>3. Cardinality(UpTo(I, i)) <= Cardinality(UpTo(I, j)) BY <1>2, <2>1, FS_Subset
  <2>4. Cardinality(UpTo(I, j)) # Cardinality(UpTo(I, i)) BY <1>2, <2>1, <2>2, FS_Subset
  <2> QED BY <2>3, <2>4, <1>3
<1> QED BY <1>3, <1>4, <1>5

\* There is a k-th index.
LEMMA NthIs ==
  ASSUME NEW I \in SUBSET Nat, IsFiniteSet(I), NEW k \in 1 .. Cardinality(I)
  PROVE  Nth(I, k) \in I /\ Cardinality(UpTo(I, Nth(I, k))) = k
<1> DEFINE f == [i \in I |-> Cardinality(UpTo(I, i))]
           n == Cardinality(I)
<1>1. n \in Nat BY FS_CardinalityType
<1>2. f \in [I -> 1 .. n] BY UpToGrows
<1>3. ASSUME NEW i \in I, NEW j \in I, f[i] = f[j] PROVE i = j
  <2>1. ~ (i < j) /\ ~ (j < i) BY <1>2, <1>3, UpToGrows
  <2> QED BY <2>1
<1>4. f \in Injection(I, 1 .. n)
  BY <1>2, <1>3 DEF Injection, IsInjective
<1>5. IsFiniteSet(1 .. n) /\ Cardinality(1 .. n) = n BY <1>1, FS_Interval
<1>6. f \in Surjection(I, 1 .. n) BY <1>4, <1>5, FS_Injection
<1>7. \E i \in I : f[i] = k BY <1>6 DEF Surjection
<1>8. \E i \in I : Cardinality({j \in I : j <= i}) = k BY <1>7 DEF UpTo
<1> QED BY <1>8 DEF Nth, UpTo

\* A list that is cut keeps the order: its elements are those of the list at
\* increasing indices.
LEMMA AtThins ==
  ASSUME NEW S, NEW list \in Seq(S), NEW I \in SUBSET (1 .. Len(list))
  PROVE  /\ At(list, I) \in Seq(S)
         /\ Len(At(list, I)) = Cardinality(I)
         /\ \E g \in [1 .. Len(At(list, I)) -> I] :
              /\ \A k \in 1 .. Len(At(list, I)) : At(list, I)[k] = list[g[k]]
              /\ \A k, l \in 1 .. Len(At(list, I)) : k < l => g[k] < g[l]
<1> DEFINE n == Cardinality(I)
           g == [k \in 1 .. n |-> Nth(I, k)]
           s == At(list, I)
<1>1. Len(list) \in Nat /\ list \in [1 .. Len(list) -> S] BY LenProperties
<1>2. IsFiniteSet(1 .. Len(list)) BY <1>1, FS_Interval
<1>3. IsFiniteSet(I) /\ I \in SUBSET Nat
  <2>1. IsFiniteSet(I) BY <1>2, FS_Subset
  <2> QED BY <1>1, <2>1
<1>4. n \in Nat BY <1>3, FS_CardinalityType
<1>5. \A k \in 1 .. n : Nth(I, k) \in I /\ Cardinality(UpTo(I, Nth(I, k))) = k
  BY <1>3, NthIs
<1>6. g \in [1 .. n -> I] BY <1>5
<1>7. s = [k \in 1 .. n |-> list[Nth(I, k)]] BY DEF At
<1>8. s \in [1 .. n -> S] BY <1>1, <1>5, <1>7
<1>9. s \in Seq(S) /\ Len(s) = n BY <1>4, <1>7, <1>8, SeqDef
<1>10. ASSUME NEW k \in 1 .. n, NEW l \in 1 .. n, k < l PROVE g[k] < g[l]
  <2>1. g[k] \in I /\ g[l] \in I /\ Cardinality(UpTo(I, g[k])) = k /\ Cardinality(UpTo(I, g[l])) = l
    BY <1>5
  <2>3. g[k] \in Nat /\ g[l] \in Nat BY <2>1, <1>3
  <2> HIDE DEF g
  <2>2. g[l] < g[k] => Cardinality(UpTo(I, g[l])) < Cardinality(UpTo(I, g[k])) BY <1>3, <2>1, UpToGrows
  <2> QED BY <1>10, <2>1, <2>2, <2>3
<1>11. \A k \in 1 .. n : s[k] = list[g[k]] BY <1>7
<1> HIDE DEF s, g, n
<1> QED BY <1>6, <1>9, <1>10, <1>11 DEF s, n

\* What is left of a list after its first n elements.
LEMMA AtTail ==
  ASSUME NEW S, NEW list \in Seq(S), NEW n \in 0 .. Len(list)
  PROVE  /\ Len(At(list, n + 1 .. Len(list))) = Len(list) - n
         /\ \A k \in 1 .. Len(list) - n : At(list, n + 1 .. Len(list))[k] = list[n + k]
<1> DEFINE I == n + 1 .. Len(list)
<1>1. Len(list) \in Nat BY LenProperties
<1>2. I \in SUBSET Nat /\ I \in SUBSET (1 .. Len(list)) BY <1>1
<1>3. IsFiniteSet(I) /\ Cardinality(I) = Len(list) - n
  <2>1. n + 1 \in Int /\ Len(list) \in Int /\ n <= Len(list) BY <1>1
  <2>2. IsFiniteSet(I) /\ Cardinality(I) = IF n + 1 > Len(list) THEN 0 ELSE Len(list) - (n + 1) + 1
    BY <2>1, FS_Interval
  <2> QED BY <1>1, <2>1, <2>2
<1>4. Len(At(list, I)) = Cardinality(I) BY <1>2, AtThins
<1>5. ASSUME NEW k \in 1 .. Len(list) - n PROVE Nth(I, k) = n + k
  <2>1. Nth(I, k) \in I /\ Cardinality(UpTo(I, Nth(I, k))) = k BY <1>2, <1>3, NthIs
  <2>2. PICK i \in I : i = Nth(I, k) BY <2>1
  <2>3. UpTo(I, i) = n + 1 .. i BY <1>1 DEF UpTo
  <2>4. Cardinality(n + 1 .. i) = i - n BY <1>1, FS_Interval
  <2> QED BY <2>1, <2>2, <2>3, <2>4, <1>1
<1>6. ASSUME NEW k \in 1 .. Len(list) - n PROVE At(list, I)[k] = list[n + k]
  <2>1. k \in 1 .. Cardinality(I) BY <1>3
  <2>2. At(list, I)[k] = list[Nth(I, k)] BY <2>1 DEF At
  <2> QED BY <2>2, <1>5
<1> QED BY <1>3, <1>4, <1>6

-----------------------------------------------------------------------------
(* The inductive invariant.                                                *)

\* No answer is late and nothing is lost or cut short.
Calm == MaxLate = 0 /\ MaxDrops = 0 /\ MaxAborts = 0 /\ MaxCrashes = 0

\* The times that a command may be sent.
Most(c) == IF c \in Once \/ Calm THEN 1 ELSE MaxAttempts

\* Every entry carries its expiry, and an attempt that it may still make.
Good == {e \in Entry : e.stamped /\ e.attempt < Most(e.id)}

TypeInv ==
  /\ answer \in [Cmds -> Cmds \cup {0}]
  /\ over \in 0 .. NumCmds
  /\ api \in {"idle", "created", "pushed", "writing", "verified", "read", "queued"}
  /\ stale \in SUBSET Entry
  /\ pending \in Seq(Good) /\ inflight \in Seq(Good) /\ resp \in Seq(Response)
  /\ active \in BOOLEAN /\ link \in BOOLEAN /\ noted \in BOOLEAN
  /\ hold \in Good \cup {None}
  /\ todo \in Seq(Cmds) /\ out \in Seq(Response)
  /\ runs \in [Cmds -> Nat] /\ value \in Cmds \cup {0}
  /\ disp \in {"idle", "snap", "purge", "mark", "settle", "resend", "trim", "count",
               "srem"}
  /\ snap \in [inflight : Seq(Good), resp : Seq(Response), pending : Seq(Good),
               old : Nat, sent : Nat, now : 0 .. NumCmds]
  /\ spent \in [Faults -> Nat]
  /\ \A k \in Faults : spent[k] <= Limit(k)

\* The commands of the request that is being served which are not queued yet.
Owed == CASE api \in {"created", "writing"} -> 1
          [] api \in {"verified", "read"} -> 2
          [] OTHER -> 0
Passed == Newest - Owed
ApiInv ==
  /\ api = "created" => Newest \in Cmds
  /\ api = "writing" => Newest \in Writes
  /\ api \in {"verified", "read"} => Newest - 1 \in Writes /\ Newest \in Cmds

\* Nothing is under way before it was queued.
PassedInv ==
  /\ \A i \in 1 .. Len(pending) : pending[i].id <= Passed
  /\ \A i \in 1 .. Len(inflight) : inflight[i].id <= Passed
  /\ \A i \in 1 .. Len(todo) : todo[i] <= Passed
  /\ hold # None => hold.id <= Passed
  /\ \A c \in Cmds : runs[c] > 0 => c <= Passed
  /\ value <= Passed

\* What the dispatcher read is still the head of the lists until it takes it off:
\* only the dispatcher takes entries from them.
Begins(s, t) == Len(s) <= Len(t) /\ \A i \in 1 .. Len(s) : s[i] = t[i]
Reading == {"purge", "mark", "settle", "resend"}
SnapInv ==
  /\ disp \in Reading => Begins(snap.inflight, inflight)
  /\ disp \in Reading \cup {"trim"} => Begins(snap.resp, resp)
  /\ disp \in (Reading \ {"resend"}) \cup {"snap"} => snap.sent = 0

\* How often a command was sent, less what was lost on the way.
InTodo(c) == Cardinality({i \in 1 .. Len(todo) : todo[i] = c})
InHand(c) == IF hold # None /\ noted /\ hold.id = c THEN 1 ELSE 0
Sent(c) == runs[c] + InTodo(c) + InHand(c)

\* The entries in flight that were queued again and are about to be taken off.
Doomed == IF disp = "resend" THEN {i \in Retried : i <= snap.sent} ELSE {}
\* Where the one entry of a command can be.
Queued(c) == {i \in 1 .. Len(pending) : pending[i].id = c}
Popped(c) == hold # None /\ ~noted /\ hold.id = c
Flying(c) == {i \in 1 .. Len(inflight) : inflight[i].id = c} \ Doomed

\* A tick that is cut short leaves a second entry of what it had queued again.
Tracked(c) == c \in Once \/ spent["abort"] = 0

\* A command has one entry at a time, which says how often it was sent before.
OneEntry(c) ==
  /\ Sent(c) <= Most(c)
  /\ \A i, j \in Queued(c) : i = j
  /\ \A i, j \in Flying(c) : i = j
  /\ Queued(c) = {} \/ Flying(c) = {}
  /\ Popped(c) => Queued(c) = {} /\ Flying(c) = {} /\ Sent(c) <= hold.attempt
  /\ \A i \in Queued(c) : Sent(c) <= pending[i].attempt
  /\ \A i \in Flying(c) : Sent(c) <= inflight[i].attempt + 1
  /\ disp \in Reading =>
       \A i, j \in 1 .. Len(snap.inflight) :
         snap.inflight[i].id = c /\ snap.inflight[j].id = c => i = j
EntryInv == \A c \in Cmds : Tracked(c) => OneEntry(c)

\* When nothing is late or lost: what is in flight is, in this order, what was
\* answered, carried out, sent and noted; and answers pair with their commands.
Cut == IF disp = "trim" THEN Len(snap.resp) ELSE 0
Paths ==
  /\ Len(inflight) + Cut = Len(resp) + Len(out) + Len(todo) + (IF hold # None /\ noted THEN 1 ELSE 0)
  /\ \A i \in 1 .. Len(resp) : i > Cut => inflight[i - Cut].id = resp[i].id
  /\ \A i \in 1 .. Len(out) : inflight[Len(resp) - Cut + i].id = out[i].id
  /\ \A i \in 1 .. Len(todo) : inflight[Len(resp) - Cut + Len(out) + i].id = todo[i]
  /\ hold # None /\ noted => inflight[Len(inflight)].id = hold.id
PairsInv ==
  disp \in Reading \cup {"trim"} =>
    /\ Len(snap.resp) <= Len(snap.inflight)
    /\ \A i \in 1 .. Len(snap.resp) : snap.resp[i].id = snap.inflight[i].id
InFlightInv == /\ link /\ snap.old = 0
               /\ Paths /\ PairsInv /\ AckedIsAnswered

\* And the commands are on their way in the order in which they were issued.
InOrder(queue) ==
  /\ \A i, j \in 1 .. Len(todo) : i < j => todo[i] < todo[j]
  /\ \A i, j \in 1 .. Len(queue) : i < j => queue[i].id < queue[j].id
  /\ \A i \in 1 .. Len(todo) : value <= todo[i]
  /\ \A i \in 1 .. Len(queue) : value <= queue[i].id
  /\ \A i \in 1 .. Len(todo), j \in 1 .. Len(queue) : todo[i] < queue[j].id
  /\ hold # None =>
       /\ value <= hold.id
       /\ \A i \in 1 .. Len(todo) : todo[i] < hold.id
       /\ \A i \in 1 .. Len(queue) : hold.id < queue[i].id
OrderInv == InOrder(pending)
CalmInv == Calm => InFlightInv /\ OrderInv

Inv == /\ RowInv /\ TypeInv /\ ApiInv /\ PassedInv /\ SnapInv /\ EntryInv /\ CalmInv
-----------------------------------------------------------------------------
(* Types.                                                                  *)

SnapType == [inflight : Seq(Good), resp : Seq(Response), pending : Seq(Good),
             old : Nat, sent : Nat, now : 0 .. NumCmds]

\* An entry that is made anew is good.
LEMMA GoodFacts ==
  /\ None \notin Good
  /\ \A c \in Cmds : Entered(c) \in Good /\ Entered(c).id = c /\ Entered(c).attempt = 0
  /\ \A e \in Good : e.id \in Cmds /\ e.attempt \in Nat /\ e.stamped /\ e.attempt < Most(e.id)
  /\ \A c \in Cmds : Most(c) \in Nat /\ 1 <= Most(c) /\ Most(c) <= MaxAttempts
<1>1. \A c \in Cmds : Most(c) \in Nat /\ 1 <= Most(c) /\ Most(c) <= MaxAttempts BY DEF Most
<1> QED BY <1>1 DEF Good, Entry, Entered

\* What a tick knows, field by field, after its LRANGEs, the purge and a repeat.
SnapOf(f, r, p, k, n, t) ==
  [inflight |-> f, resp |-> r, pending |-> p, old |-> k, sent |-> n, now |-> t]
\* A snapshot and its fields.
LEMMA SnapIs ==
  ASSUME NEW s \in SnapType
  PROVE  /\ s = SnapOf(s.inflight, s.resp, s.pending, s.old, s.sent, s.now)
         /\ s.inflight \in Seq(Good) /\ s.resp \in Seq(Response) /\ s.pending \in Seq(Good)
         /\ s.old \in Nat /\ s.sent \in Nat /\ s.now \in 0 .. NumCmds
  BY DEF SnapType, SnapOf
\* And the other way.
LEMMA SnapHas ==
  ASSUME NEW f \in Seq(Good), NEW r \in Seq(Response), NEW p \in Seq(Good), NEW k \in Nat,
         NEW n \in Nat, NEW t \in 0 .. NumCmds
  PROVE  /\ SnapOf(f, r, p, k, n, t) \in SnapType
         /\ SnapOf(f, r, p, k, n, t).inflight = f /\ SnapOf(f, r, p, k, n, t).resp = r
         /\ SnapOf(f, r, p, k, n, t).pending = p
  BY DEF SnapType, SnapOf

\* The entry that is next to be repeated is one of those that timed out.
LEMMA NextRetryIs ==
  ASSUME snap \in SnapType, \E i \in Retried : i > snap.sent
  PROVE  /\ NextRetry \in Retried /\ NextRetry > snap.sent
         /\ \A j \in Retried : j > snap.sent => NextRetry <= j
         /\ NextRetry \in 1 .. Len(snap.inflight)
         /\ snap.inflight[NextRetry] \in Good
<1> DEFINE S == {i \in Retried : i > snap.sent}
<1>1. Len(snap.inflight) \in Nat /\ snap.inflight \in Seq(Good) BY DEF SnapType
<1>2. Retried \in SUBSET (1 .. Len(snap.inflight)) BY DEF Retried, TimedOut, Unanswered
<1>3. S \in SUBSET Nat /\ S # {}
  <2>1. \A i \in 1 .. Len(snap.inflight) : i \in Nat BY <1>1
  <2> QED BY <1>2, <2>1
<1>4. \E m \in S : \A n \in S : m <= n BY <1>3, Least
<1>5. \E i \in Retried : i > snap.sent /\ \A j \in Retried : j > snap.sent => i <= j BY <1>4
<1>6. /\ NextRetry \in Retried /\ NextRetry > snap.sent
      /\ \A j \in Retried : j > snap.sent => NextRetry <= j
  BY <1>5 DEF NextRetry
<1>7. NextRetry \in 1 .. Len(snap.inflight) BY <1>2, <1>6
<1>8. snap.inflight[NextRetry] \in Good BY <1>1, <1>7, ElementOfSeq
<1> QED BY <1>6, <1>7, <1>8

\* What the steps of a tick do with what it knows.
LEMMA SnapSteps ==
  ASSUME snap \in SnapType, pending \in Seq(Good), inflight \in Seq(Good), resp \in Seq(Response),
         over \in 0 .. NumCmds
  PROVE  /\ EmptySnap \in SnapType /\ EmptySnap.sent = 0 /\ EmptySnap.old = 0
         /\ Sweep => snap' \in SnapType /\ snap'.sent = 0 /\ snap'.old = 0
         /\ Snapshot => \E k \in 0 .. Len(inflight) :
              /\ snap' = SnapOf(inflight, resp, pending, k, snap.sent, snap.now)
              /\ snap' \in SnapType
              /\ TooEarly(k) => Spend("late")
              /\ ~ TooEarly(k) => UNCHANGED spent
         /\ Purge => /\ snap' = SnapOf(snap.inflight, snap.resp, <<>>, snap.old, snap.sent, 0)
                     /\ snap' \in SnapType
         /\ Resend => /\ snap' = SnapOf(snap.inflight, snap.resp, snap.pending, snap.old, NextRetry, snap.now)
                      /\ snap' \in SnapType
<1>1. <<>> \in Seq(Good) /\ <<>> \in Seq(Response) OBVIOUS
<1> HIDE DEF Good, Response
<1>2. EmptySnap = SnapOf(<<>>, <<>>, <<>>, 0, 0, 0) BY DEF EmptySnap, SnapOf
<1>3. EmptySnap \in SnapType /\ EmptySnap.sent = 0 /\ EmptySnap.old = 0
  <2>1. 0 \in 0 .. NumCmds /\ 0 \in Nat OBVIOUS
  <2>2. SnapOf(<<>>, <<>>, <<>>, 0, 0, 0) \in SnapType BY <1>1, <2>1, SnapHas
  <2>3. EmptySnap.sent = 0 /\ EmptySnap.old = 0 BY DEF EmptySnap
  <2> QED BY <1>2, <2>2, <2>3
<1>4. ASSUME Sweep PROVE snap' \in SnapType /\ snap'.sent = 0 /\ snap'.old = 0
  <2>1. PICK x : x = over OBVIOUS
  <2>2. PICK z : z = 0 OBVIOUS
  <2>3. EmptySnap = SnapOf(<<>>, <<>>, <<>>, z, z, z) BY <1>2, <2>2
  <2>4. [EmptySnap EXCEPT !.now = x] = SnapOf(<<>>, <<>>, <<>>, z, z, x) BY <2>3 DEF SnapOf
  <2>5. snap' = SnapOf(<<>>, <<>>, <<>>, z, z, x) \/ snap' = EmptySnap BY <1>4, <2>1, <2>4 DEF Sweep
  <2>6. snap' = SnapOf(<<>>, <<>>, <<>>, 0, 0, over) \/ snap' = EmptySnap BY <2>1, <2>2, <2>5
  <2>7. SnapOf(<<>>, <<>>, <<>>, 0, 0, over) \in SnapType
    <3>1. 0 \in Nat OBVIOUS
    <3> QED BY <1>1, <3>1, SnapHas
  <2>8. SnapOf(<<>>, <<>>, <<>>, 0, 0, over).sent = 0 /\ SnapOf(<<>>, <<>>, <<>>, 0, 0, over).old = 0
    BY DEF SnapOf
  <2> QED BY <1>3, <2>6, <2>7, <2>8
<1>5. snap = SnapOf(snap.inflight, snap.resp, snap.pending, snap.old, snap.sent, snap.now)
  BY SnapIs
<1>50. PICK f0, r0, p0, k0, n0, t0 : /\ snap = SnapOf(f0, r0, p0, k0, n0, t0)
                                     /\ snap.inflight = f0 /\ snap.resp = r0 /\ snap.pending = p0
                                     /\ snap.old = k0 /\ snap.sent = n0 /\ snap.now = t0
  BY <1>5
<1>6. /\ snap.inflight \in Seq(Good) /\ snap.resp \in Seq(Response) /\ snap.pending \in Seq(Good)
      /\ snap.old \in Nat /\ snap.sent \in Nat /\ snap.now \in 0 .. NumCmds
  BY SnapIs
<1>7. ASSUME Snapshot
      PROVE  \E k \in 0 .. Len(inflight) :
              /\ snap' = SnapOf(inflight, resp, pending, k, snap.sent, snap.now)
              /\ snap' \in SnapType
              /\ TooEarly(k) => Spend("late")
              /\ ~ TooEarly(k) => UNCHANGED spent
  <2>1. PICK k \in 0 .. Len(inflight) :
          /\ snap' = [snap EXCEPT !.inflight = inflight, !.resp = resp, !.pending = pending, !.old = k]
          /\ IF TooEarly(k) THEN Spend("late") ELSE UNCHANGED spent
    BY <1>7, Zenon DEF Snapshot
  <2>2. snap' = SnapOf(inflight, resp, pending, k, snap.sent, snap.now)
    <3>1. PICK x : x = k OBVIOUS
    <3>2. [snap EXCEPT !.inflight = inflight, !.resp = resp, !.pending = pending, !.old = x]
            = SnapOf(inflight, resp, pending, x, n0, t0)
      <4>1. PICK a : a = [snap EXCEPT !.inflight = inflight] OBVIOUS
      <4>2. PICK b : b = [a EXCEPT !.resp = resp] OBVIOUS
      <4>3. PICK c : c = [b EXCEPT !.pending = pending] OBVIOUS
      <4>4. a = SnapOf(inflight, r0, p0, k0, n0, t0)
        BY <1>50, <4>1 DEF SnapOf
      <4>5. b = SnapOf(inflight, resp, p0, k0, n0, t0)
        BY <4>2, <4>4 DEF SnapOf
      <4>6. c = SnapOf(inflight, resp, pending, k0, n0, t0)
        BY <4>3, <4>5 DEF SnapOf
      <4>7. [c EXCEPT !.old = x] = SnapOf(inflight, resp, pending, x, n0, t0)
        BY <4>6, SMTT(30) DEF SnapOf
      <4> QED BY <4>1, <4>2, <4>3, <4>7
    <3> QED BY <1>50, <2>1, <3>1, <3>2
  <2>3. k \in Nat BY LenProperties
  <2>4. snap' \in SnapType BY <1>6, <2>2, <2>3, SnapHas
  <2> QED BY <2>1, <2>2, <2>4
<1>8. ASSUME Purge
      PROVE  /\ snap' = SnapOf(snap.inflight, snap.resp, <<>>, snap.old, snap.sent, 0)
             /\ snap' \in SnapType
  <2>1. snap' = [snap EXCEPT !.pending = <<>>, !.now = 0] BY <1>8, Zenon DEF Purge
  <2>2. snap' = SnapOf(snap.inflight, snap.resp, <<>>, snap.old, snap.sent, 0)
    <3>1. PICK x : x = 0 OBVIOUS
    <3>2. [snap EXCEPT !.pending = <<>>, !.now = x]
            = SnapOf(f0, r0, <<>>, k0, n0, x)
      <4>1. PICK a : a = [snap EXCEPT !.pending = <<>>] OBVIOUS
      <4>2. a = SnapOf(f0, r0, <<>>, k0, n0, t0)
        BY <1>50, <4>1 DEF SnapOf
      <4>3. [a EXCEPT !.now = x] = SnapOf(f0, r0, <<>>, k0, n0, x)
        BY <4>2 DEF SnapOf
      <4> QED BY <4>1, <4>3
    <3> QED BY <1>50, <2>1, <3>1, <3>2
  <2>3. 0 \in 0 .. NumCmds OBVIOUS
  <2> QED BY <1>1, <1>6, <2>2, <2>3, SnapHas
<1>9. ASSUME Resend
      PROVE  /\ snap' = SnapOf(snap.inflight, snap.resp, snap.pending, snap.old, NextRetry, snap.now)
             /\ snap' \in SnapType
  <2>1. snap' = [snap EXCEPT !.sent = NextRetry] /\ \E i \in Retried : i > snap.sent
    BY <1>9, Zenon DEF Resend, Requeue
  <2>2. snap' = SnapOf(snap.inflight, snap.resp, snap.pending, snap.old, NextRetry, snap.now)
    <3>1. PICK x : x = NextRetry OBVIOUS
    <3>2. [snap EXCEPT !.sent = x]
            = SnapOf(f0, r0, p0, k0, x, t0)
      BY <1>50 DEF SnapOf
    <3> QED BY <1>50, <2>1, <3>1, <3>2
  <2>3. NextRetry \in Nat
    <3>1. NextRetry \in 1 .. Len(snap.inflight) BY <2>1, NextRetryIs
    <3>2. Len(f0) \in Nat BY <1>6, LenProperties
    <3> QED BY <3>1, <3>2
  <2> QED BY <1>6, <2>2, <2>3, SnapHas
<1> QED BY <1>3, <1>4, <1>7, <1>8, <1>9


\* The number of rows made is a number of commands.
LEMMA NewestOK == ASSUME RowInv PROVE Newest \in 0 .. NumCmds /\ Fresh = Newest + 1
  BY NewestIsLast

\* A fault that is spent is within its limit.
LEMMA SpendKeeps ==
  ASSUME TypeInv, NEW k \in Faults, Spend(k)
  PROVE  spent' \in [Faults -> Nat] /\ \A j \in Faults : spent'[j] <= Limit(j)
<1>1. \A j \in Faults : Limit(j) \in Nat BY DEF Faults, Limit
<1>2. spent[k] \in Nat /\ spent[k] < Limit(k) /\ spent' = [spent EXCEPT ![k] = @ + 1]
  BY DEF Spend, TypeInv
<1>3. spent[k] + 1 \in Nat /\ spent[k] + 1 <= Limit(k) BY <1>1, <1>2
<1>4. spent' \in [Faults -> Nat] BY <1>2, <1>3 DEF TypeInv
<1>5. ASSUME NEW j \in Faults PROVE spent'[j] <= Limit(j)
  <2>1. CASE j = k BY <1>2, <1>3, <2>1 DEF TypeInv
  <2>2. CASE j # k BY <1>2, <2>2 DEF TypeInv
  <2> QED BY <2>1, <2>2
<1> QED BY <1>4, <1>5

\* The steps of the request keep count of the rows that they have made.
LEMMA ApiKeeps ==
  ASSUME Inv, [Next]_vars
  PROVE  ApiInv' /\ Passed' >= Passed /\ Passed \in Int /\ Passed' \in Int
         /\ ((Enqueue \/ EnqueueWrite) => Passed' = Newest)
         /\ (Enqueue => Passed = Newest - 1)
         /\ (EnqueueWrite => Passed = Newest - 2)
<1> USE DEF Inv
<1>1. Newest \in 0 .. NumCmds /\ Fresh = Newest + 1 BY NewestOK
<1>2. RowInv' /\ (Newest' = Newest \/ Create \/ CreateVerify) BY StepKeepsRows
<1>4. api \in {"idle", "created", "pushed", "writing", "verified", "read", "queued"} BY DEF TypeInv
<1>5. CASE Create
  <2>1. Newest' = Fresh BY <1>5, NewRowKeeps DEF Create
  <2> QED BY <1>1, <1>5, <2>1 DEF Create, Cmds, ApiInv, Passed, Owed, Enqueue, EnqueueWrite
<1>6. CASE CreateVerify
  <2>1. Newest \in Writes /\ Fresh \in Cmds BY <1>1, <1>6 DEF CreateVerify, ApiInv
  <2>2. Newest' = Fresh BY <1>6, <2>1, NewRowKeeps DEF CreateVerify
  <2>3. Newest' \in Cmds BY <2>1, <2>2
  <2> QED BY <1>1, <1>6, <2>1, <2>2, <2>3 DEF Cmds, CreateVerify, ApiInv, Passed, Owed, Enqueue, EnqueueWrite
<1>7. ASSUME Newest' = Newest, UNCHANGED api
      PROVE  ApiInv' /\ Passed' >= Passed /\ Passed \in Int /\ Passed' \in Int
  BY <1>1, <1>7 DEF ApiInv, Passed, Owed
<1>8. CASE Enqueue \/ Activate \/ ReadStale \/ EnqueueWrite \/ Supersede \/ EnqueueFails
  <2>1. Newest' = Newest
    BY <1>2, <1>8 DEF Enqueue, Activate, ReadStale, EnqueueWrite, Supersede, EnqueueFails, Create, CreateVerify, rows, Newest
  <2>2. CASE Enqueue BY <1>1, <2>1, <2>2 DEF Enqueue, EnqueueWrite, ApiInv, Passed, Owed
  <2>3. CASE EnqueueWrite BY <1>1, <2>1, <2>3 DEF Enqueue, EnqueueWrite, ApiInv, Passed, Owed
  <2>4. CASE Activate BY <1>1, <2>1, <2>4 DEF Activate, Enqueue, EnqueueWrite, ApiInv, Passed, Owed
  <2>5. CASE ReadStale BY <1>1, <2>1, <2>5 DEF ReadStale, Enqueue, EnqueueWrite, ApiInv, Passed, Owed
  <2>6. CASE Supersede BY <1>1, <2>1, <2>6 DEF Supersede, Enqueue, EnqueueWrite, ApiInv, Passed, Owed
  <2>7. CASE EnqueueFails
    <3>1. Passed \in Int /\ Passed <= Newest BY <1>1 DEF Passed, Owed
    <3>2. api' = "idle" /\ api # "idle" BY <2>7 DEF EnqueueFails
    <3>3. ApiInv' /\ Passed' = Newest BY <1>1, <2>1, <3>2 DEF ApiInv, Passed, Owed
    <3>4. api = "created" /\ Enqueue => Passed = Newest - 1 BY DEF Passed, Owed
    <3>5. api = "read" => Passed = Newest - 2 BY DEF Passed, Owed
    <3> QED BY <1>1, <3>1, <3>3, <3>4, <3>5 DEF Enqueue, EnqueueWrite
  <2> QED BY <1>8, <2>2, <2>3, <2>4, <2>5, <2>6, <2>7
<1>9. CASE UNCHANGED api /\ ~ Create /\ ~ CreateVerify
  BY <1>2, <1>4, <1>7, <1>9 DEF Enqueue, EnqueueWrite
<1>10. UNCHANGED api \/ Create \/ CreateVerify \/ Enqueue \/ Activate \/ ReadStale \/ EnqueueWrite
       \/ Supersede \/ EnqueueFails
  BY DEF Next, Api, Overdue, Ingest, Pop, Note, Write, Deliver, Crash, Execute, Drop, Reconnect, Dispatcher, Sweep, Snapshot, Purge, MarkSent, Settle, Resend, Requeue, Clean, Trim, Count, SRem, Abort, vars, api_
<1> QED BY <1>5, <1>6, <1>8, <1>9, <1>10

\* The lists after the LREMs and after the writes that are superseded.
LEMMA CutLists ==
  ASSUME TypeInv
  PROVE  /\ \A es, E : LRemAll(pending, es, E) \in Seq(Good) /\ LRemAll(inflight, es, E) \in Seq(Good)
         /\ At(pending, {i \in 1 .. Len(pending) : pending[i] \notin stale}) \in Seq(Good)
<1>1. ASSUME NEW list \in Seq(Good), NEW es, NEW E PROVE LRemAll(list, es, E) \in Seq(Good)
  <2>1. Stays(list, es, E) \in SUBSET (1 .. Len(list)) BY DEF Stays
  <2> QED BY <2>1, AtThins DEF LRemAll
<1>2. {i \in 1 .. Len(pending) : pending[i] \notin stale} \in SUBSET (1 .. Len(pending)) OBVIOUS
<1>3. pending \in Seq(Good) /\ inflight \in Seq(Good) BY DEF TypeInv
<1> QED BY <1>1, <1>2, <1>3, AtThins

\* A command that is queued again is good: it may be repeated, and is not yet at
\* its last attempt.
LEMMA RetryIsGood ==
  ASSUME Inv, \E i \in Retried : i > snap.sent
  PROVE  LET e == [snap.inflight[NextRetry] EXCEPT !.attempt = @ + 1] IN
         /\ e \in Good /\ e.id = Id(NextRetry) /\ e.attempt = snap.inflight[NextRetry].attempt + 1
         /\ ~ Calm /\ Id(NextRetry) \notin Once
<1> DEFINE q == snap.inflight[NextRetry]
           e == [q EXCEPT !.attempt = @ + 1]
<1>1. snap \in SnapType BY DEF Inv, TypeInv, SnapType
<1>2. /\ NextRetry \in Retried /\ NextRetry \in 1 .. Len(snap.inflight) /\ q \in Good
  BY <1>1, NextRetryIs
<1>3. q.id \notin Once /\ q.attempt + 1 < MaxAttempts /\ NextRetry \in Unanswered /\ NextRetry <= snap.old
  BY <1>2 DEF Retried, TimedOut
<1>4. ~ Calm
  <2>1. Calm => snap.old = 0 BY DEF Inv, CalmInv, InFlightInv
  <2>2. NextRetry \in Nat /\ NextRetry >= 1
    <3>1. Len(snap.inflight) \in Nat BY <1>1, SnapIs, LenProperties
    <3> QED BY <1>2, <3>1
  <2> QED BY <1>3, <2>1, <2>2
<1>5. PICK z : z = q OBVIOUS
<1>6. z \in Entry /\ z.stamped /\ z.attempt \in Nat /\ z.id \in Cmds BY <1>2, <1>5 DEF Good, Entry
<1>7. PICK y : y = [z EXCEPT !.attempt = @ + 1] OBVIOUS
<1>8. y \in Entry /\ y.stamped /\ y.id = z.id /\ y.attempt = z.attempt + 1 BY <1>6, <1>7 DEF Entry
<1>9. Most(z.id) = MaxAttempts BY <1>3, <1>4, <1>5 DEF Most
<1>10. y \in Good BY <1>3, <1>5, <1>8, <1>9 DEF Good
<1> HIDE DEF q
<1>11. e = y BY <1>5, <1>7
<1> HIDE DEF e
<1>12. e \in Good /\ e.id = q.id /\ e.attempt = q.attempt + 1 BY <1>5, <1>8, <1>10, <1>11
<1> QED BY <1>3, <1>4, <1>12 DEF e, q, Id

\* Every step keeps the types.
LEMMA TypeKeeps == ASSUME Inv, [Next]_vars PROVE TypeInv'
<1> USE DEF Inv
<1>1. Newest \in 0 .. NumCmds /\ Fresh = Newest + 1 BY NewestOK
<1>2. snap \in SnapType BY DEF TypeInv, SnapType
<1>3. /\ pending \in Seq(Good) /\ inflight \in Seq(Good) /\ resp \in Seq(Response)
      /\ over \in 0 .. NumCmds /\ hold \in Good \cup {None} /\ out \in Seq(Response)
      /\ todo \in Seq(Cmds) /\ stale \in SUBSET Entry
      /\ answer \in [Cmds -> Cmds \cup {0}] /\ runs \in [Cmds -> Nat] /\ value \in Cmds \cup {0}
  BY DEF TypeInv
<1>4. CASE Create \/ CreateVerify \/ Activate \/ Supersede \/ SRem \/ MarkSent \/ Reconnect
  <2>1. CASE Create BY <2>1 DEF TypeInv, Create, lists, ingest, device
  <2>2. CASE CreateVerify BY <2>2 DEF TypeInv, CreateVerify, lists, ingest, device
  <2>3. CASE Activate BY <2>3 DEF TypeInv, Activate, rows, ingest, device
  <2>4. CASE Supersede BY <2>4 DEF TypeInv, Supersede, lists, ingest, device
  <2>5. CASE SRem BY <2>5 DEF TypeInv, SRem, rows, api_, ingest, device
  <2>6. CASE MarkSent BY <2>6 DEF TypeInv, MarkSent, api_, lists, ingest, device
  <2>7. CASE Reconnect BY <2>7 DEF TypeInv, Reconnect, rows, api_, lists, device
  <2> QED BY <1>4, <2>1, <2>2, <2>3, <2>4, <2>5, <2>6, <2>7
<1>5. CASE Enqueue
  <2>1. Entered(Newest) \in Good BY <1>5, GoodFacts DEF Enqueue, ApiInv
  <2>2. pending' \in Seq(Good) BY <1>3, <1>5, <2>1 DEF Enqueue
  <2> QED BY <1>5, <2>2 DEF TypeInv, Enqueue, rows, ingest, device
<1>6. CASE ReadStale
  <2>1. stale' \in SUBSET Entry
    <3>1. stale' \in SUBSET ToSet(pending) BY <1>6 DEF ReadStale
    <3>2. \A i \in 1 .. Len(pending) : pending[i] \in Good BY <1>3, ElementOfSeq
    <3>3. ToSet(pending) \in SUBSET Good BY <1>3, <3>2, LenProperties DEF ToSet
    <3>4. Good \in SUBSET Entry BY DEF Good
    <3> QED BY <3>1, <3>3, <3>4
  <2> QED BY <1>6, <2>1 DEF TypeInv, ReadStale, rows, lists, ingest, device
<1>7. CASE EnqueueWrite
  <2>1. Newest - 1 \in Cmds /\ Newest \in Cmds BY <1>7 DEF EnqueueWrite, ApiInv
  <2>2. Entered(Newest - 1) \in Good /\ Entered(Newest) \in Good BY <2>1, GoodFacts
  <2>3. At(pending, {i \in 1 .. Len(pending) : pending[i] \notin stale}) \in Seq(Good) BY CutLists
  <2>4. <<Entered(Newest - 1), Entered(Newest)>> \in Seq(Good) BY <2>2
  <2>5. pending' \in Seq(Good) BY <1>7, <2>3, <2>4, ConcatProperties DEF EnqueueWrite
  <2> QED BY <1>7, <2>5 DEF TypeInv, EnqueueWrite, rows, ingest, device
<1>8. CASE EnqueueFails
  <2>1. spent' \in [Faults -> Nat] /\ \A j \in Faults : spent'[j] <= Limit(j)
    BY <1>8, SpendKeeps DEF EnqueueFails, Faults
  <2> QED BY <1>8, <2>1 DEF TypeInv, EnqueueFails, rows, lists, ingest, device
<1>9. CASE Overdue
  <2>1. over' \in 0 .. NumCmds BY <1>1, <1>3, <1>9 DEF Overdue
  <2> QED BY <1>9, <2>1 DEF TypeInv, Overdue, api_, lists, ingest, device
<1>10. CASE Pop
  <2>1. Head(pending) \in Good /\ Tail(pending) \in Seq(Good) BY <1>3, <1>10, HeadTailProperties DEF Pop
  <2>2. hold' \in Good \cup {None} /\ pending' \in Seq(Good) BY <1>10, <2>1 DEF Pop
  <2> QED BY <1>10, <2>2 DEF TypeInv, Pop, rows, api_, device
<1>11. CASE Note
  <2>1. inflight' \in Seq(Good) BY <1>3, <1>11 DEF Note
  <2> QED BY <1>11, <2>1 DEF TypeInv, Note, rows, api_, device
<1>12. CASE Write
  <2>1. hold.id \in Cmds BY <1>3, <1>12, GoodFacts DEF Write
  <2>2. todo' \in Seq(Cmds) BY <1>3, <1>12, <2>1 DEF Write
  <2> QED BY <1>12, <2>2 DEF TypeInv, Write, rows, api_, lists
<1>13. CASE Crash
  <2>1. spent' \in [Faults -> Nat] /\ \A j \in Faults : spent'[j] <= Limit(j)
    BY <1>13, SpendKeeps DEF Crash, Faults
  <2>2. todo' \in Seq(Cmds) /\ out' \in Seq(Response) BY <1>13 DEF Crash
  <2> QED BY <1>13, <2>1, <2>2 DEF TypeInv, Crash, rows, api_, lists
<1>14. CASE Deliver
  <2>1. Head(out) \in Response /\ Tail(out) \in Seq(Response) BY <1>3, <1>14, HeadTailProperties DEF Deliver
  <2>2. resp' \in Seq(Response) /\ out' \in Seq(Response) BY <1>3, <1>14, <2>1 DEF Deliver
  <2> QED BY <1>14, <2>2 DEF TypeInv, Deliver, rows, api_, ingest
<1>15. CASE Execute
  <2>1. Head(todo) \in Cmds /\ Tail(todo) \in Seq(Cmds) BY <1>3, <1>15, HeadTailProperties DEF Execute
  <2>2. [id |-> Head(todo), nack |-> TRUE] \in Response /\ [id |-> Head(todo), nack |-> FALSE] \in Response
    BY <2>1 DEF Response
  <2>3. out' \in Seq(Response)
    <3>1. PICK r \in Response : out' = Append(out, r) BY <1>15, <2>2, Zenon DEF Execute
    <3> QED BY <1>3, <3>1
  <2>4. runs' \in [Cmds -> Nat] BY <1>3, <1>15, <2>1 DEF Execute
  <2>5. value' \in Cmds \cup {0} BY <1>3, <1>15, <2>1 DEF Execute
  <2>6. todo' \in Seq(Cmds) BY <1>15, <2>1 DEF Execute
  <2>7. UNCHANGED <<answer, over, api, stale, pending, inflight, resp, active, link, hold, noted, disp, snap, spent>>
    BY <1>15 DEF Execute, rows, api_, lists, ingest
  <2>8. TypeInv OBVIOUS
  <2> HIDE DEF Inv
  <2> QED BY <2>3, <2>4, <2>5, <2>6, <2>7, <2>8, SMTT(60) DEF TypeInv
<1>16. CASE Drop
  <2>1. spent' \in [Faults -> Nat] /\ \A j \in Faults : spent'[j] <= Limit(j)
    BY <1>16, SpendKeeps DEF Drop, Faults
  <2>2. todo' \in Seq(Cmds) /\ out' \in Seq(Response) BY <1>16 DEF Drop
  <2>3. UNCHANGED <<answer, over, api, stale, pending, inflight, resp, active, hold, noted, runs, value, disp, snap>>
    BY <1>16 DEF Drop, rows, api_, lists
  <2>4. link' \in BOOLEAN BY <1>16 DEF Drop
  <2>5. TypeInv OBVIOUS
  <2> HIDE DEF Inv
  <2> QED BY <2>1, <2>2, <2>3, <2>4, <2>5, SMTT(60) DEF TypeInv
<1>17. CASE Sweep
  <2>1. snap' \in SnapType BY <1>2, <1>3, <1>17, SnapSteps
  <2> QED BY <1>17, <2>1 DEF TypeInv, SnapType, Sweep, api_, lists, ingest, device
<1>18. CASE Snapshot
  <2>1. snap' \in SnapType BY <1>2, <1>3, <1>18, SnapSteps
  <2>2. spent' \in [Faults -> Nat] /\ \A j \in Faults : spent'[j] <= Limit(j)
    <3>1. UNCHANGED spent \/ Spend("late") BY <1>18 DEF Snapshot
    <3> QED BY <3>1, SpendKeeps DEF Faults, TypeInv
  <2> QED BY <1>18, <2>1, <2>2 DEF TypeInv, SnapType, Snapshot, rows, api_, lists, ingest, device
<1>19. CASE Purge
  <2>1. snap' \in SnapType BY <1>2, <1>3, <1>19, SnapSteps
  <2>2. pending' \in Seq(Good) BY <1>19, CutLists DEF Purge
  <2> QED BY <1>19, <2>1, <2>2 DEF TypeInv, SnapType, Purge, api_, ingest, device
<1>20. CASE Settle
  <2>1. answer' \in [Cmds -> Cmds \cup {0}]
    <3> DEFINE acked == {i \in Paired : ~snap.resp[i].nack}
               hit == {i \in acked : db[Id(i)] \in Open}
    <3>1. answer' = [c \in Cmds |-> IF \E i \in hit : Id(i) = c
                                    THEN snap.resp[CHOOSE i \in hit : Id(i) = c].id ELSE answer[c]]
      BY <1>20, Zenon DEF Settle
    <3>2. \A i \in Paired : snap.resp[i].id \in Cmds
      <4>1. /\ Len(snap.resp) \in Nat /\ Len(snap.inflight) \in Nat
            /\ \A i \in 1 .. Len(snap.resp) : snap.resp[i] \in Response
        BY <1>2, SnapIs, LenProperties, ElementOfSeq
      <4>2. Paired \in SUBSET (1 .. Len(snap.resp)) BY <4>1 DEF Paired
      <4> QED BY <4>1, <4>2 DEF Response
    <3>3. \A c \in Cmds : (\E i \in hit : Id(i) = c) => (CHOOSE i \in hit : Id(i) = c) \in Paired
      <4>1. ASSUME NEW c \in Cmds, \E i \in hit : Id(i) = c PROVE (CHOOSE i \in hit : Id(i) = c) \in hit
        BY <4>1
      <4> QED BY <4>1
    <3> HIDE DEF hit
    <3> QED BY <1>3, <3>1, <3>2, <3>3
  <2> QED BY <1>20, <2>1 DEF TypeInv, Settle, api_, lists, ingest, device
<1>21. CASE Resend
  <2>1. snap' \in SnapType BY <1>2, <1>3, <1>21, SnapSteps
  <2>2. pending' \in Seq(Good)
    <3>1. \E i \in Retried : i > snap.sent BY <1>21 DEF Resend, Requeue
    <3>2. PICK e \in Good : pending' = Append(pending, e)
      BY <1>21, <3>1, RetryIsGood, Zenon DEF Resend, Requeue
    <3> QED BY <1>3, <3>2
  <2> QED BY <1>21, <2>1, <2>2 DEF TypeInv, SnapType, Resend, Requeue, api_, ingest, device
<1>22. CASE Clean
  <2>1. inflight' \in Seq(Good) BY <1>22, CutLists DEF Clean
  <2> QED BY <1>22, <2>1 DEF TypeInv, Clean, rows, api_, ingest, device
<1>23. CASE Trim
  <2>1. resp' \in Seq(Response)
    <3>1. PICK n : resp' = SubSeq(resp, n + 1, Len(resp)) /\ (n = Len(snap.resp) \/ n = Cardinality(Paired))
      BY <1>23, Zenon DEF Trim
    <3>2. Len(snap.resp) \in Nat /\ Len(snap.inflight) \in Nat BY <1>2, SnapIs, LenProperties
    <3>3. Cardinality(Paired) \in Nat
      <4>0. \A m \in Nat : IsFiniteSet(1 .. m) BY FS_Interval
      <4>1. IsFiniteSet(1 .. Len(snap.resp)) /\ IsFiniteSet(1 .. Len(snap.inflight)) BY <3>2, <4>0
      <4>2. IsFiniteSet(Paired) BY <4>1 DEF Paired
      <4> QED BY <4>2, FS_CardinalityType
    <3>4. n \in Nat /\ Len(resp) \in Nat BY <1>3, <3>1, <3>2, <3>3, LenProperties
    <3>5. \A i \in n + 1 .. Len(resp) : resp[i] \in Response BY <1>3, <3>4, ElementOfSeq
    <3> QED BY <3>1, <3>4, <3>5, SubSeqProperties
  <2> QED BY <1>23, <2>1 DEF TypeInv, Trim, rows, api_, ingest, device
<1>24. CASE Count
  <2>1. snap' \in SnapType BY <1>2, <1>3, <1>24, SnapSteps DEF Count
  <2> QED BY <1>24, <2>1 DEF TypeInv, SnapType, Count, rows, api_, lists, ingest, device
<1>25. CASE Abort
  <2>1. snap' \in SnapType BY <1>2, <1>3, <1>25, SnapSteps DEF Abort
  <2>2. spent' \in [Faults -> Nat] /\ \A j \in Faults : spent'[j] <= Limit(j)
    BY <1>25, SpendKeeps DEF Abort, Faults
  <2> QED BY <1>25, <2>1, <2>2 DEF TypeInv, SnapType, Abort, rows, api_, lists, ingest, device
<1>26. CASE UNCHANGED vars
  BY <1>26 DEF TypeInv, vars, rows, api_, lists, ingest, device
<1> QED
  BY <1>4, <1>5, <1>6, <1>7, <1>8, <1>9, <1>10, <1>11, <1>12, <1>13, <1>14, <1>15, <1>16, <1>17,
     <1>18, <1>19, <1>20, <1>21, <1>22, <1>23, <1>24, <1>25, <1>26 DEF Next, Api, Ingest, Dispatcher

-----------------------------------------------------------------------------
(* What is under way, and what a tick has read.                            *)

\* A list of elements of T.
LEMMA SeqOver ==
  ASSUME NEW S, NEW s \in Seq(S), NEW T, \A i \in 1 .. Len(s) : s[i] \in T
  PROVE  s \in Seq(T)
<1>1. Len(s) \in Nat /\ s \in [1 .. Len(s) -> S] BY LenProperties
<1>2. s \in [1 .. Len(s) -> T] BY <1>1
<1> QED BY <1>1, <1>2, SeqDef

\* The LREMs leave elements of the list.
LEMMA LRemType ==
  ASSUME NEW S, NEW list \in Seq(S), NEW es, NEW E
  PROVE  LRemAll(list, es, E) \in Seq(S)
<1>1. Stays(list, es, E) \in SUBSET (1 .. Len(list)) BY DEF Stays
<1> QED BY <1>1, AtThins DEF LRemAll

\* The state as its types allow it, for the steps below.
LEMMA Typed ==
  ASSUME Inv
  PROVE  /\ pending \in Seq(Good) /\ inflight \in Seq(Good) /\ resp \in Seq(Response)
         /\ todo \in Seq(Cmds) /\ out \in Seq(Response)
         /\ Len(pending) \in Nat /\ Len(inflight) \in Nat /\ Len(resp) \in Nat
         /\ Len(todo) \in Nat /\ Len(out) \in Nat
         /\ hold \in Good \cup {None} /\ None \notin Good
         /\ over \in 0 .. NumCmds /\ noted \in BOOLEAN /\ link \in BOOLEAN
         /\ runs \in [Cmds -> Nat] /\ value \in Nat /\ value \in Cmds \cup {0}
         /\ spent \in [Faults -> Nat]
         /\ snap \in SnapType /\ snap.inflight \in Seq(Good) /\ snap.resp \in Seq(Response)
         /\ snap.pending \in Seq(Good)
         /\ Len(snap.inflight) \in Nat /\ Len(snap.resp) \in Nat
         /\ snap.sent \in Nat /\ snap.old \in Nat
         /\ Cmds \in SUBSET Nat
         /\ \A e \in Good : e.id \in Cmds /\ e.attempt \in Nat /\ e.stamped
<1>1. snap \in SnapType BY DEF Inv, TypeInv, SnapType
<1>2. Cmds \in SUBSET Nat BY DEF Cmds
<1>3. value \in Nat BY <1>2 DEF Inv, TypeInv
<1> QED BY <1>1, <1>2, <1>3, SnapIs, LenProperties, GoodFacts DEF Inv, TypeInv

\* Nothing is under way before it was queued.
LEMMA PassedKeeps == ASSUME Inv, [Next]_vars PROVE PassedInv'
<1>1. PassedInv BY DEF Inv
<1>2. /\ Passed' >= Passed /\ Passed \in Int /\ Passed' \in Int
      /\ Enqueue \/ EnqueueWrite => Passed' = Newest
      /\ Newest \in 0 .. NumCmds
  BY ApiKeeps, NewestOK DEF Inv
<1> DEFINE G == {e \in Good : e.id <= Passed'}
           C == {c \in Cmds : c <= Passed'}
<1>3. \A x \in Nat : x <= Passed => x <= Passed' BY <1>2
<1>4. \A e \in Good : e.id \in Nat /\ e.id \in Cmds BY Typed
<1>5. pending \in Seq(G)
  <2>1. pending \in Seq(Good) BY Typed
  <2>2. \A i \in 1 .. Len(pending) : pending[i] \in Good BY <2>1, ElementOfSeq
  <2>3. \A i \in 1 .. Len(pending) : pending[i] \in G BY <1>1, <1>3, <1>4, <2>2 DEF PassedInv
  <2> QED BY <2>1, <2>3, SeqOver
<1>6. inflight \in Seq(G)
  <2>1. inflight \in Seq(Good) BY Typed
  <2>2. \A i \in 1 .. Len(inflight) : inflight[i] \in Good BY <2>1, ElementOfSeq
  <2>3. \A i \in 1 .. Len(inflight) : inflight[i] \in G BY <1>1, <1>3, <1>4, <2>2 DEF PassedInv
  <2> QED BY <2>1, <2>3, SeqOver
<1>7. todo \in Seq(C)
  <2>1. todo \in Seq(Cmds) /\ Cmds \in SUBSET Nat BY Typed
  <2>2. \A i \in 1 .. Len(todo) : todo[i] \in Cmds BY <2>1, ElementOfSeq
  <2>3. \A i \in 1 .. Len(todo) : todo[i] \in C BY <1>1, <1>3, <2>1, <2>2 DEF PassedInv
  <2> QED BY <2>1, <2>3, SeqOver
<1>8. hold \in G \cup {None} /\ None \notin G BY <1>1, <1>3, <1>4, Typed DEF PassedInv
<1>9. runs \in [Cmds -> Nat] /\ \A c \in Cmds : runs[c] > 0 => c \in C
  <2>1. runs \in [Cmds -> Nat] /\ Cmds \in SUBSET Nat BY Typed
  <2> QED BY <1>1, <1>3, <2>1 DEF PassedInv
<1>10. value <= Passed'
  <2>1. value \in Nat BY Typed
  <2> QED BY <1>1, <1>3, <2>1 DEF PassedInv
<1>11. ASSUME pending' \in Seq(G), inflight' \in Seq(G), todo' \in Seq(C), hold' \in G \cup {None},
              \A c \in Cmds : runs'[c] > 0 => c \in C, value' <= Passed'
       PROVE  PassedInv'
  <2>1. /\ \A i \in 1 .. Len(pending') : pending'[i] \in G
        /\ \A i \in 1 .. Len(inflight') : inflight'[i] \in G
        /\ \A i \in 1 .. Len(todo') : todo'[i] \in C
    BY <1>11, ElementOfSeq
  <2> QED BY <1>11, <2>1 DEF PassedInv
<1>12. \A e \in G : e.id \in C BY <1>4
<1> HIDE DEF G
<1>13. CASE UNCHANGED <<pending, inflight, todo, hold, runs, value>>
  BY <1>5, <1>6, <1>7, <1>8, <1>9, <1>10, <1>11, <1>13
<1>14. ASSUME NEW c \in Cmds, c <= Newest, Enqueue \/ EnqueueWrite PROVE Entered(c) \in G
  <2>1. Entered(c) \in Good /\ Entered(c).id = c BY GoodFacts
  <2>2. c <= Passed' BY <1>2, <1>14
  <2> QED BY <2>1, <2>2 DEF G
<1>15. CASE Enqueue
  <2>1. Newest \in Cmds BY <1>15 DEF Enqueue, Inv, ApiInv
  <2>2. Entered(Newest) \in G BY <1>2, <1>14, <1>15, <2>1
  <2>3. pending' \in Seq(G) BY <1>5, <1>15, <2>2 DEF Enqueue
  <2> QED BY <1>6, <1>7, <1>8, <1>9, <1>10, <1>11, <1>15, <2>3 DEF Enqueue, ingest, device
<1>16. CASE EnqueueWrite
  <2>1. Newest - 1 \in Cmds /\ Newest \in Cmds BY <1>16 DEF EnqueueWrite, Inv, ApiInv
  <2>2. Entered(Newest - 1) \in G /\ Entered(Newest) \in G BY <1>2, <1>14, <1>16, <2>1
  <2>3. {i \in 1 .. Len(pending) : pending[i] \notin stale} \in SUBSET (1 .. Len(pending)) OBVIOUS
  <2>4. At(pending, {i \in 1 .. Len(pending) : pending[i] \notin stale}) \in Seq(G) BY <1>5, <2>3, AtThins
  <2>5. <<Entered(Newest - 1), Entered(Newest)>> \in Seq(G) BY <2>2
  <2>6. pending' \in Seq(G) BY <1>16, <2>4, <2>5, ConcatProperties DEF EnqueueWrite
  <2> QED BY <1>6, <1>7, <1>8, <1>9, <1>10, <1>11, <1>16, <2>6 DEF EnqueueWrite, ingest, device
<1>17. CASE Pop
  <2>1. Head(pending) \in G /\ Tail(pending) \in Seq(G) BY <1>5, <1>17, HeadTailProperties DEF Pop
  <2>2. hold' \in G \cup {None} BY <1>17, <2>1 DEF Pop
  <2>3. pending' \in Seq(G) BY <1>17, <2>1 DEF Pop
  <2> QED BY <1>6, <1>7, <1>9, <1>10, <1>11, <1>17, <2>2, <2>3 DEF Pop, device
<1>18. CASE Note
  <2>1. inflight' \in Seq(G) BY <1>6, <1>8, <1>18 DEF Note
  <2> QED BY <1>5, <1>7, <1>8, <1>9, <1>10, <1>11, <1>18, <2>1 DEF Note, device
<1>19. CASE Write
  <2>1. hold.id \in C BY <1>8, <1>12, <1>19 DEF Write
  <2> HIDE DEF C
  <2>2. todo' \in Seq(C) BY <1>7, <1>19, <2>1 DEF Write
  <2> QED BY <1>5, <1>6, <1>8, <1>9, <1>10, <1>11, <1>19, <2>2 DEF Write, lists
<1>20. CASE Crash
  <2>1. todo' \in Seq(C) BY <1>20 DEF Crash
  <2> QED BY <1>5, <1>6, <1>8, <1>9, <1>10, <1>11, <1>20, <2>1 DEF Crash, lists
<1>21. CASE Drop
  <2>1. todo' \in Seq(C) BY <1>21 DEF Drop
  <2> QED BY <1>5, <1>6, <1>8, <1>9, <1>10, <1>11, <1>21, <2>1 DEF Drop, lists
<1>22. CASE Execute
  <2>1. Head(todo) \in C /\ Tail(todo) \in Seq(C) BY <1>7, <1>22, HeadTailProperties DEF Execute
  <2>2. \A c \in Cmds : runs'[c] > 0 => c \in C
    <3>1. \/ UNCHANGED runs
          \/ runs' = [runs EXCEPT ![Head(todo)] = @ + 1]
      BY <1>22 DEF Execute
    <3> HIDE DEF C
    <3> QED BY <1>9, <2>1, <3>1
  <2>3. value' <= Passed' BY <1>10, <1>22, <2>1 DEF Execute
  <2> QED BY <1>5, <1>6, <1>8, <1>11, <1>22, <2>1, <2>2, <2>3 DEF Execute, lists, ingest
<1>23. CASE Purge
  <2>1. PICK es, E : pending' = LRemAll(pending, es, E) BY <1>23, Zenon DEF Purge
  <2>2. pending' \in Seq(G) BY <1>5, <2>1, LRemType
  <2> QED BY <1>6, <1>7, <1>8, <1>9, <1>10, <1>11, <1>23, <2>2 DEF Purge, ingest, device
<1>24. CASE Clean
  <2>1. PICK es, E : inflight' = LRemAll(inflight, es, E) BY <1>24, Zenon DEF Clean
  <2>2. inflight' \in Seq(G) BY <1>6, <2>1, LRemType
  <2> QED BY <1>5, <1>7, <1>8, <1>9, <1>10, <1>11, <1>24, <2>2 DEF Clean, ingest, device
<1>25. CASE Resend
  <2>1. \E i \in Retried : i > snap.sent BY <1>25 DEF Resend, Requeue
  <2>2. PICK e \in Good : pending' = Append(pending, e) /\ e.id = Id(NextRetry)
    BY <1>25, <2>1, RetryIsGood, Zenon DEF Resend, Requeue
  <2>3. disp \in Reading BY <1>25 DEF Resend, Requeue, Reading
  <2>4. NextRetry \in 1 .. Len(snap.inflight) BY <2>1, NextRetryIs, Typed
  <2>5. inflight[NextRetry] \in G /\ snap.inflight[NextRetry] = inflight[NextRetry]
    <3>1. Len(snap.inflight) \in Nat /\ Len(inflight) \in Nat BY Typed
    <3>2. NextRetry \in 1 .. Len(inflight) /\ snap.inflight[NextRetry] = inflight[NextRetry]
      BY <2>3, <2>4, <3>1 DEF Inv, SnapInv, Begins
    <3> QED BY <1>6, <3>2, ElementOfSeq
  <2>6. e.id = inflight[NextRetry].id BY <2>2, <2>5 DEF Id
  <2>7. e \in G BY <2>2, <2>5, <2>6 DEF G
  <2>8. pending' \in Seq(G) BY <1>5, <2>2, <2>7
  <2> QED BY <1>6, <1>7, <1>8, <1>9, <1>10, <1>11, <1>25, <2>8 DEF Resend, Requeue, ingest, device
<1>26. \/ UNCHANGED <<pending, inflight, todo, hold, runs, value>>
       \/ Enqueue \/ EnqueueWrite \/ Pop \/ Note \/ Write \/ Crash \/ Drop \/ Execute \/ Purge \/ Clean \/ Resend
  BY DEF Next, Api, Create, CreateVerify, Activate, ReadStale, Supersede, EnqueueFails, Overdue, Ingest, Deliver, Reconnect, Dispatcher, Sweep, Snapshot, MarkSent, Settle, Trim, Count, SRem, Abort, vars, lists, ingest, device
<1> QED
  BY <1>13, <1>15, <1>16, <1>17, <1>18, <1>19, <1>20, <1>21, <1>22, <1>23, <1>24, <1>25, <1>26

\* The head of a list stays its head when something is appended.
LEMMA BeginsAppend ==
  ASSUME NEW S, NEW s \in Seq(S), NEW t \in Seq(S), NEW e \in S, Begins(s, t)
  PROVE  Begins(s, Append(t, e))
<1>1. Len(s) \in Nat /\ Len(t) \in Nat BY LenProperties
<1>2. Len(Append(t, e)) = Len(t) + 1 /\ \A i \in 1 .. Len(t) : Append(t, e)[i] = t[i] BY AppendProperties
<1> QED BY <1>1, <1>2 DEF Begins

\* The head of the lists that the dispatcher read is its own to take off.
LEMMA SnapKeeps == ASSUME Inv, [Next]_vars PROVE SnapInv'
<1>1. SnapInv BY DEF Inv
<1>2. /\ snap \in SnapType /\ pending \in Seq(Good) /\ inflight \in Seq(Good)
      /\ resp \in Seq(Response) /\ over \in 0 .. NumCmds
      /\ snap.inflight \in Seq(Good) /\ snap.resp \in Seq(Response)
      /\ Len(inflight) \in Nat /\ Len(resp) \in Nat
  BY Typed
<1>3. CASE UNCHANGED <<disp, snap, inflight, resp>>
  BY <1>1, <1>3 DEF SnapInv, Begins
<1>4. CASE Note
  <2>1. hold \in Good BY <1>4, Typed DEF Note
  <2>2. disp \in Reading => Begins(snap.inflight, inflight')
    BY <1>1, <1>2, <1>4, <2>1, BeginsAppend DEF SnapInv, Note
  <2> QED BY <1>1, <1>4, <2>2 DEF SnapInv, Note, Begins
<1>5. CASE Deliver
  <2>1. Head(out) \in Response BY <1>5, Typed, HeadTailProperties DEF Deliver
  <2>2. disp \in Reading \cup {"trim"} => Begins(snap.resp, resp')
    BY <1>1, <1>2, <1>5, <2>1, BeginsAppend DEF SnapInv, Deliver
  <2> QED BY <1>1, <1>5, <2>2 DEF SnapInv, Deliver, Begins
<1>6. CASE Sweep
  <2>1. snap'.sent = 0 /\ disp' \in {"snap", "idle"} BY <1>2, <1>6, SnapSteps DEF Sweep
  <2> QED BY <2>1 DEF SnapInv, Reading
<1>7. CASE Snapshot
  <2>1. PICK k \in 0 .. Len(inflight) : snap' = SnapOf(inflight, resp, pending, k, snap.sent, snap.now)
    BY <1>2, <1>7, SnapSteps
  <2>2. snap'.inflight = inflight /\ snap'.resp = resp /\ snap'.sent = snap.sent BY <2>1 DEF SnapOf
  <2>3. disp = "snap" /\ disp' = "purge" /\ inflight' = inflight /\ resp' = resp BY <1>7 DEF Snapshot, lists
  <2>4. snap.sent = 0 BY <1>1, <2>3 DEF SnapInv
  <2>5. Begins(inflight, inflight) /\ Begins(resp, resp) BY <1>2 DEF Begins
  <2> QED BY <2>2, <2>3, <2>4, <2>5 DEF SnapInv, Begins
<1>8. CASE Purge
  <2>1. snap' = SnapOf(snap.inflight, snap.resp, <<>>, snap.old, snap.sent, 0) BY <1>2, <1>8, SnapSteps
  <2>2. snap'.inflight = snap.inflight /\ snap'.resp = snap.resp /\ snap'.sent = snap.sent BY <2>1 DEF SnapOf
  <2>3. disp = "purge" /\ disp' = "mark" /\ inflight' = inflight /\ resp' = resp BY <1>8 DEF Purge
  <2> QED BY <1>1, <2>2, <2>3 DEF SnapInv, Begins, Reading
<1>9. CASE MarkSent \/ Settle
  BY <1>1, <1>9 DEF MarkSent, Settle, lists, SnapInv, Begins, Reading
<1>10. CASE Resend
  <2>1. snap' = SnapOf(snap.inflight, snap.resp, snap.pending, snap.old, NextRetry, snap.now)
    BY <1>2, <1>10, SnapSteps
  <2>2. snap'.inflight = snap.inflight /\ snap'.resp = snap.resp BY <2>1 DEF SnapOf
  <2>3. disp = "resend" /\ disp' = "resend" /\ inflight' = inflight /\ resp' = resp
    BY <1>10 DEF Resend, Requeue
  <2> QED BY <1>1, <2>2, <2>3 DEF SnapInv, Begins, Reading
<1>11. CASE Clean
  <2>1. disp = "resend" /\ disp' = "trim" /\ resp' = resp /\ snap' = snap BY <1>11 DEF Clean
  <2> QED BY <1>1, <2>1 DEF SnapInv, Begins, Reading
<1>12. CASE Trim \/ Count \/ SRem \/ Abort
  <2>1. disp' \in {"count", "srem", "idle"} BY <1>12 DEF Trim, Count, SRem, Abort
  <2> QED BY <2>1 DEF SnapInv, Reading
<1>13. \/ UNCHANGED <<disp, snap, inflight, resp>>
       \/ Note \/ Deliver \/ Dispatcher \/ Abort
  BY DEF Next, Api, Create, Enqueue, EnqueueWrite, CreateVerify, Activate, ReadStale, Supersede, EnqueueFails, Overdue, Ingest, Pop, Write, Crash, Execute, Drop, Reconnect, vars, lists
<1> QED
  BY <1>3, <1>4, <1>5, <1>6, <1>7, <1>8, <1>9, <1>10, <1>11, <1>12, <1>13 DEF Dispatcher

-----------------------------------------------------------------------------
(* One entry at a time.                                                    *)

\* How often c is in a list.
Times(s, c) == Cardinality({i \in 1 .. Len(s) : s[i] = c})
\* It is counted.
LEMMA CountNat ==
  ASSUME NEW S, NEW s \in Seq(S), NEW c
  PROVE  /\ IsFiniteSet({i \in 1 .. Len(s) : s[i] = c})
         /\ Times(s, c) \in Nat
         /\ (\A i \in 1 .. Len(s) : s[i] # c) => Times(s, c) = 0
<1> DEFINE I == {i \in 1 .. Len(s) : s[i] = c}
<1>1. Len(s) \in Nat BY LenProperties
<1>2. IsFiniteSet(1 .. Len(s)) BY <1>1, FS_Interval
<1>3. I \in SUBSET (1 .. Len(s)) OBVIOUS
<1>4. IsFiniteSet(I) BY <1>2, <1>3, FS_Subset
<1>5. Cardinality(I) \in Nat BY <1>4, FS_CardinalityType
<1>6. ASSUME \A i \in 1 .. Len(s) : s[i] # c PROVE Cardinality(I) = 0
  <2>1. I = {} BY <1>6
  <2> QED BY <2>1, FS_EmptySet
<1> QED BY <1>4, <1>5, <1>6 DEF Times

\* Once more, if it is c that is appended.
LEMMA CountAppend ==
  ASSUME NEW S, NEW s \in Seq(S), NEW e \in S, NEW c
  PROVE  Times(Append(s, e), c) = Times(s, c) + (IF e = c THEN 1 ELSE 0)
<1> DEFINE n == Len(s)
           I == {i \in 1 .. n : s[i] = c}
           t == Append(s, e)
           J == {i \in 1 .. Len(t) : t[i] = c}
<1>1. n \in Nat BY LenProperties
<1>2. Len(t) = n + 1 /\ t[n + 1] = e /\ \A i \in 1 .. n : t[i] = s[i] BY AppendProperties
<1>3. IsFiniteSet(I) /\ Cardinality(I) \in Nat BY CountNat DEF Times
<1> HIDE DEF t, n
<1>4. CASE e = c
  <2>1. J = I \cup {n + 1} BY <1>1, <1>2, <1>4
  <2>2. n + 1 \notin I BY <1>1
  <2>3. Cardinality(J) = Cardinality(I) + 1 BY <1>3, <2>1, <2>2, FS_AddElement
  <2> QED BY <1>4, <2>3 DEF Times, t, n
<1>5. CASE e # c
  <2>1. J = I BY <1>1, <1>2, <1>5
  <2> HIDE DEF I, J
  <2>2. Cardinality(J) = Cardinality(I) + 0 BY <1>3, <2>1
  <2> QED BY <1>5, <2>2 DEF Times, t, n, I, J
<1> QED BY <1>4, <1>5

\* Once less, if it is c that is taken off.
LEMMA CountTail ==
  ASSUME NEW S, NEW s \in Seq(S), s # <<>>, NEW c
  PROVE  Times(Tail(s), c) = Times(s, c) - (IF Head(s) = c THEN 1 ELSE 0)
<1> DEFINE n == Len(s)
           I == {i \in 1 .. n : s[i] = c}
           t == Tail(s)
           J == {i \in 1 .. Len(t) : t[i] = c}
           f == [i \in J |-> i + 1]
<1>1. n \in Nat /\ n >= 1 /\ Head(s) = s[1] BY LenProperties, EmptySeq
<1>2. Len(t) = n - 1 /\ \A i \in 1 .. n - 1 : t[i] = s[i + 1] BY HeadTailProperties
<1>3. IsFiniteSet(I) /\ Cardinality(I) \in Nat BY CountNat DEF Times
<1>4. IsFiniteSet(J) /\ Cardinality(J) \in Nat
  <2>1. t \in Seq(S) BY HeadTailProperties
  <2> QED BY <2>1, CountNat DEF Times
<1> HIDE DEF t, n
<1>5. f \in [J -> I \ {1}] BY <1>1, <1>2
<1>6. \A i, j \in J : f[i] = f[j] => i = j BY <1>1, <1>2
<1>7. \A k \in I \ {1} : \E i \in J : f[i] = k
  <2>1. ASSUME NEW k \in I \ {1} PROVE k - 1 \in J /\ f[k - 1] = k BY <1>1, <1>2
  <2> QED BY <2>1
<1>8. f \in Bijection(J, I \ {1})
  BY <1>5, <1>6, <1>7 DEF Bijection, Injection, Surjection, IsInjective
<1>9. Cardinality(I \ {1}) = Cardinality(J) BY <1>4, <1>8, FS_Bijection DEF ExistsBijection
<1>10. Cardinality(I \ {1}) = IF 1 \in I THEN Cardinality(I) - 1 ELSE Cardinality(I)
  BY <1>3, FS_RemoveElement
<1>11. 1 \in I <=> Head(s) = c BY <1>1
<1> HIDE DEF I, J
<1>12. Cardinality(J) = Cardinality(I) - (IF Head(s) = c THEN 1 ELSE 0) BY <1>3, <1>4, <1>9, <1>10, <1>11
<1> QED BY <1>12 DEF Times, I, J, t, n

\* What is sent is counted, and only a command that is noted counts once more.
LEMMA SentStep ==
  ASSUME Inv, [Next]_vars, NEW c \in Cmds
  PROVE  /\ Sent(c) \in Nat /\ Sent(c)' \in Nat
         /\ Sent(c)' <= Sent(c) \/ (Note /\ hold.id = c /\ Sent(c)' = Sent(c) + 1)
<1>1. /\ todo \in Seq(Cmds) /\ hold \in Good \cup {None} /\ runs \in [Cmds -> Nat]
      /\ None \notin Good /\ noted \in BOOLEAN /\ \A e \in Good : e.id \in Cmds
  BY Typed
<1>2. TypeInv' BY TypeKeeps
<1>3. todo' \in Seq(Cmds) /\ runs' \in [Cmds -> Nat] /\ runs'[c] \in Nat /\ runs[c] \in Nat
  BY <1>1, <1>2 DEF TypeInv
<1>4. InTodo(c) \in Nat /\ InTodo(c)' \in Nat
  <2>1. Times(todo, c) \in Nat /\ Times(todo', c) \in Nat BY <1>1, <1>3, CountNat
  <2> QED BY <2>1 DEF InTodo, Times
<1>5. InHand(c) \in {0, 1} /\ InHand(c)' \in {0, 1} BY DEF InHand
<1>6. Sent(c) \in Nat /\ Sent(c)' \in Nat BY <1>3, <1>4, <1>5 DEF Sent
<1>7. CASE UNCHANGED <<todo, runs, hold, noted>>
  <2>1. Sent(c)' = Sent(c) BY <1>7 DEF Sent, InTodo, InHand
  <2> QED BY <1>6, <2>1
<1>8. CASE Pop
  <2>1. UNCHANGED <<todo, runs>> /\ hold = None /\ noted' = FALSE BY <1>8 DEF Pop, device
  <2>2. InTodo(c)' = InTodo(c) /\ InHand(c)' = 0 /\ InHand(c) = 0 BY <2>1 DEF InTodo, InHand
  <2> QED BY <1>3, <1>4, <1>6, <2>1, <2>2 DEF Sent
<1>9. CASE Note
  <2>1. UNCHANGED <<todo, runs, hold>> /\ hold # None /\ noted = FALSE /\ noted' = TRUE
    BY <1>1, <1>9 DEF Note, device
  <2>2. InTodo(c)' = InTodo(c) /\ InHand(c)' = (IF hold.id = c THEN 1 ELSE 0) /\ InHand(c) = 0
    BY <2>1 DEF InTodo, InHand
  <2> QED BY <1>3, <1>4, <1>6, <1>9, <2>1, <2>2 DEF Sent
<1>10. CASE Write
  <2>1. UNCHANGED runs /\ hold # None /\ noted /\ hold' = None BY <1>10 DEF Write
  <2>2. InHand(c)' = 0 /\ InHand(c) = (IF hold.id = c THEN 1 ELSE 0) BY <2>1 DEF InHand
  <2>3. InTodo(c)' <= InTodo(c) + (IF hold.id = c THEN 1 ELSE 0)
    <3>1. CASE UNCHANGED todo BY <1>4, <3>1 DEF InTodo
    <3>2. CASE todo' = Append(todo, hold.id)
      <4>1. hold.id \in Cmds BY <1>1, <2>1
      <4>2. Times(todo', c) = Times(todo, c) + (IF hold.id = c THEN 1 ELSE 0)
        BY <1>1, <3>2, <4>1, CountAppend
      <4> QED BY <1>4, <4>2 DEF InTodo, Times
    <3> QED BY <1>10, <3>1, <3>2 DEF Write
  <2> QED BY <1>3, <1>4, <1>6, <2>1, <2>2, <2>3 DEF Sent
<1>11. CASE Crash \/ Drop
  <2>1. UNCHANGED runs /\ todo' = <<>> BY <1>11 DEF Crash, Drop
  <2>2. InHand(c)' <= InHand(c) BY <1>5, <1>11 DEF Crash, Drop, InHand
  <2>3. InTodo(c)' = 0
    <3>1. \A i \in 1 .. Len(todo') : todo'[i] # c BY <2>1
    <3>2. Times(todo', c) = 0 BY <1>3, <3>1, CountNat
    <3> QED BY <3>2 DEF InTodo, Times
  <2> QED BY <1>3, <1>4, <1>5, <1>6, <2>1, <2>2, <2>3 DEF Sent
<1>12. CASE Execute
  <2>1. UNCHANGED <<hold, noted>> /\ todo # <<>> /\ todo' = Tail(todo) BY <1>12 DEF Execute, ingest
  <2>2. InHand(c)' = InHand(c) BY <2>1 DEF InHand
  <2>3. InTodo(c)' = InTodo(c) - (IF Head(todo) = c THEN 1 ELSE 0)
    <3>1. Times(todo', c) = Times(todo, c) - (IF Head(todo) = c THEN 1 ELSE 0) BY <1>1, <2>1, CountTail
    <3> QED BY <3>1 DEF InTodo, Times
  <2>4. runs'[c] <= runs[c] + (IF Head(todo) = c THEN 1 ELSE 0)
    <3>1. \/ UNCHANGED runs
          \/ runs' = [runs EXCEPT ![Head(todo)] = @ + 1]
      BY <1>12 DEF Execute
    <3> QED BY <1>1, <1>3, <3>1
  <2> QED BY <1>3, <1>4, <1>5, <1>6, <2>2, <2>3, <2>4, SMTT(30) DEF Sent
<1>13. UNCHANGED <<todo, runs, hold, noted>> \/ Pop \/ Note \/ Write \/ Crash \/ Drop \/ Execute
  BY DEF Next, Api, Create, Enqueue, EnqueueWrite, CreateVerify, Activate, ReadStale, Supersede, EnqueueFails, Overdue, Ingest, Deliver, Reconnect, Dispatcher, Sweep, Snapshot, Purge, MarkSent, Settle, Resend, Requeue, Clean, Trim, Count, SRem, Abort, vars, ingest, device
<1> QED BY <1>6, <1>7, <1>8, <1>9, <1>10, <1>11, <1>12, <1>13

\* The entries of a command in a list: at most one, which was sent n times before.
Of(s, c) == {i \in 1 .. Len(s) : s[i].id = c}
QueueOK(s, c, n) == /\ \A i, j \in Of(s, c) : i = j
                    /\ \A i \in Of(s, c) : n <= s[i].attempt

\* The list t is the list s with e after it.
Longer(s, e, t) == /\ Len(s) \in Nat /\ Len(t) = Len(s) + 1 /\ t[Len(s) + 1] = e
                   /\ \A i \in 1 .. Len(s) : t[i] = s[i]

\* Something is queued for a command that is not in the list, or for another one.
LEMMA QueueAppend ==
  ASSUME NEW s, NEW e, NEW t, Longer(s, e, t), NEW c, NEW n, QueueOK(s, c, n),
         e.id = c => Of(s, c) = {} /\ n <= e.attempt
  PROVE  QueueOK(t, c, n) /\ (e.id # c => Of(t, c) = Of(s, c))
<1> DEFINE m == Len(s)
<1>1. m \in Nat BY DEF Longer
<1>2. Len(t) = m + 1 /\ t[m + 1] = e /\ \A i \in 1 .. m : t[i] = s[i] BY DEF Longer
<1> HIDE DEF m
<1>3. 1 .. m + 1 = (1 .. m) \cup {m + 1} BY <1>1
<1>4. CASE e.id # c
  <2>1. Of(t, c) = Of(s, c) BY <1>2, <1>3, <1>4 DEF Of, m
  <2>2. \A i \in Of(s, c) : t[i] = s[i] BY <1>2 DEF Of, m
  <2> QED BY <1>4, <2>1, <2>2 DEF QueueOK
<1>5. CASE e.id = c
  <2>1. \A i \in 1 .. m : s[i].id # c BY <1>5 DEF Of, m
  <2>2. Of(t, c) \in SUBSET {m + 1} BY <1>2, <1>3, <2>1 DEF Of
  <2> QED BY <1>2, <1>5, <2>2 DEF QueueOK
<1> QED BY <1>4, <1>5

\* The first entry is taken off.
LEMMA QueueTail ==
  ASSUME NEW S, NEW s \in Seq(S), s # <<>>, NEW c, NEW n, QueueOK(s, c, n)
  PROVE  /\ QueueOK(Tail(s), c, n)
         /\ Of(s, c) = {} => Of(Tail(s), c) = {}
         /\ Head(s).id = c => /\ Of(s, c) # {} /\ n <= Head(s).attempt
                              /\ Of(Tail(s), c) = {}
<1>1. Len(s) \in Nat /\ Len(s) >= 1 /\ Head(s) = s[1] BY LenProperties, EmptySeq
<1>2. Len(Tail(s)) = Len(s) - 1 /\ \A i \in 1 .. Len(s) - 1 : Tail(s)[i] = s[i + 1] BY HeadTailProperties
<1>3. \A i \in Of(Tail(s), c) : i \in Nat /\ i >= 1 /\ i + 1 \in Of(s, c) /\ Tail(s)[i] = s[i + 1]
  BY <1>1, <1>2 DEF Of
<1>4. 1 \in Of(s, c) <=> Head(s).id = c BY <1>1 DEF Of
<1>5. QueueOK(Tail(s), c, n)
  <2>1. ASSUME NEW i \in Of(Tail(s), c), NEW j \in Of(Tail(s), c) PROVE i = j
    <3>1. i + 1 = j + 1 BY <1>3 DEF QueueOK
    <3> QED BY <1>3, <3>1
  <2>2. \A i \in Of(Tail(s), c) : n <= Tail(s)[i].attempt BY <1>3 DEF QueueOK
  <2> QED BY <2>1, <2>2 DEF QueueOK
<1>6. Of(s, c) = {} => Of(Tail(s), c) = {} BY <1>3
<1>7. ASSUME Head(s).id = c PROVE Of(s, c) # {} /\ n <= Head(s).attempt /\ Of(Tail(s), c) = {}
  <2>1. 1 \in Of(s, c) BY <1>4, <1>7
  <2>2. ASSUME NEW i \in Of(Tail(s), c) PROVE FALSE
    <3>1. i + 1 = 1 /\ i \in Nat /\ i >= 1 BY <1>3, <2>1 DEF QueueOK
    <3> QED BY <3>1
  <2> QED BY <1>1, <2>1, <2>2 DEF QueueOK
<1> QED BY <1>5, <1>6, <1>7

\* Entries are taken out.
LEMMA OfCut ==
  ASSUME NEW S, NEW s \in Seq(S), NEW I \in SUBSET (1 .. Len(s)), NEW c
  PROVE  \E g : /\ \A i \in Of(At(s, I), c) : g[i] \in Of(s, c) \cap I /\ At(s, I)[i] = s[g[i]]
                /\ \A i, j \in Of(At(s, I), c) : g[i] = g[j] => i = j
<1> DEFINE t == At(s, I)
<1>1. PICK g \in [1 .. Len(t) -> I] :
        /\ \A k \in 1 .. Len(t) : t[k] = s[g[k]]
        /\ \A k, l \in 1 .. Len(t) : k < l => g[k] < g[l]
  BY AtThins
<1>2. Len(s) \in Nat /\ t \in Seq(S) BY LenProperties, AtThins
<1>3. Len(t) \in Nat BY <1>2, LenProperties
<1> HIDE DEF t
<1>4. \A i \in Of(t, c) : i \in 1 .. Len(t) /\ g[i] \in I /\ t[i] = s[g[i]] BY <1>1 DEF Of
<1>5. \A i \in Of(t, c) : g[i] \in Of(s, c) BY <1>4 DEF Of
<1>6. ASSUME NEW i \in Of(t, c), NEW j \in Of(t, c), g[i] = g[j] PROVE i = j
  <2>1. i \in 1 .. Len(t) /\ j \in 1 .. Len(t) /\ g[i] \in 1 .. Len(s) /\ g[j] \in 1 .. Len(s) BY <1>4
  <2>2. ~ (i < j) /\ ~ (j < i) BY <1>1, <1>2, <1>6, <2>1
  <2> QED BY <1>3, <2>1, <2>2
<1>7. /\ \A i \in Of(t, c) : g[i] \in Of(s, c) \cap I /\ t[i] = s[g[i]]
      /\ \A i, j \in Of(t, c) : g[i] = g[j] => i = j
  BY <1>4, <1>5, <1>6
<1> QED BY <1>7 DEF t

\* That makes no second entry.
LEMMA QueueCut ==
  ASSUME NEW S, NEW s \in Seq(S), NEW I \in SUBSET (1 .. Len(s)), NEW c, NEW n, QueueOK(s, c, n)
  PROVE  QueueOK(At(s, I), c, n) /\ (Of(s, c) = {} => Of(At(s, I), c) = {})
<1>1. PICK g : /\ \A i \in Of(At(s, I), c) : g[i] \in Of(s, c) \cap I /\ At(s, I)[i] = s[g[i]]
               /\ \A i, j \in Of(At(s, I), c) : g[i] = g[j] => i = j
  BY OfCut
<1> QED BY <1>1 DEF QueueOK

\* Two entries are queued one after the other.
LEMMA ConcatTwo ==
  ASSUME NEW S, NEW s \in Seq(S), NEW a \in S, NEW b \in S
  PROVE  s \o <<a, b>> = Append(Append(s, a), b)
<1> DEFINE t == Append(s, a)  u == Append(t, b)  v == s \o <<a, b>>
<1>1. Len(s) \in Nat BY LenProperties
<1>2. t \in Seq(S) /\ Len(t) = Len(s) + 1 /\ t[Len(s) + 1] = a /\ \A i \in 1 .. Len(s) : t[i] = s[i]
  BY AppendProperties
<1>3. u \in Seq(S) /\ Len(u) = Len(s) + 2 /\ u[Len(s) + 2] = b /\ \A i \in 1 .. Len(s) + 1 : u[i] = t[i]
  <2> HIDE DEF t
  <2> QED BY <1>1, <1>2, AppendProperties
<1>4. <<a, b>> \in Seq(S) /\ Len(<<a, b>>) = 2 OBVIOUS
<1>5. /\ v \in Seq(S) /\ Len(v) = Len(s) + 2
      /\ \A i \in 1 .. Len(s) + 2 : v[i] = IF i <= Len(s) THEN s[i] ELSE <<a, b>>[i - Len(s)]
  BY <1>1, <1>4, ConcatProperties
<1> HIDE DEF t, u, v
<1>6. \A i \in 1 .. Len(s) + 2 : v[i] = u[i]
  <2>1. TAKE i \in 1 .. Len(s) + 2
  <2>2. CASE i <= Len(s) BY <1>1, <1>2, <1>3, <1>5, <2>2
  <2>3. CASE i = Len(s) + 1 BY <1>1, <1>2, <1>3, <1>5, <2>3
  <2>4. CASE i = Len(s) + 2 BY <1>1, <1>2, <1>3, <1>5, <2>4
  <2> QED BY <1>1, <2>2, <2>3, <2>4
<1>7. v = u BY <1>3, <1>5, <1>6, SeqEqual
<1> QED BY <1>7 DEF t, u, v

\* A command that is not queued yet has no entry and was never sent.
LEMMA NothingYet ==
  ASSUME Inv, NEW c \in Cmds, c > Passed
  PROVE  Queued(c) = {} /\ Flying(c) = {} /\ ~ Popped(c) /\ Sent(c) = 0
<1>1. /\ todo \in Seq(Cmds) /\ runs \in [Cmds -> Nat] /\ Cmds \in SUBSET Nat BY Typed
<1>2. PassedInv BY DEF Inv
<1>3. Passed \in Int BY NewestOK DEF Passed, Owed, Inv
<1>4. \A x \in Int : x <= Passed => x # c BY <1>1, <1>3
<1>5. /\ \A i \in 1 .. Len(pending) : pending[i].id \in Cmds
      /\ \A i \in 1 .. Len(inflight) : inflight[i].id \in Cmds
      /\ \A i \in 1 .. Len(todo) : todo[i] \in Cmds
      /\ hold # None => hold.id \in Cmds
  BY Typed, ElementOfSeq
<1>6. Queued(c) = {} /\ Flying(c) = {} /\ ~ Popped(c)
  BY <1>1, <1>2, <1>4, <1>5 DEF PassedInv, Queued, Flying, Popped
<1>7. runs[c] = 0 BY <1>1, <1>2, <1>3 DEF PassedInv
<1>8. InHand(c) = 0 BY <1>1, <1>2, <1>4, <1>5 DEF PassedInv, InHand
<1>9. InTodo(c) = 0
  <2>1. \A i \in 1 .. Len(todo) : todo[i] # c BY <1>1, <1>2, <1>4, <1>5 DEF PassedInv
  <2>2. Times(todo, c) = 0 BY <1>1, <2>1, CountNat
  <2> QED BY <2>2 DEF Times, InTodo
<1> QED BY <1>6, <1>7, <1>8, <1>9 DEF Sent

\* A command that is tracked after a step was tracked before it.
LEMMA TrackedBefore ==
  ASSUME Inv, [Next]_vars, NEW c \in Cmds, Tracked(c)'
  PROVE  Tracked(c) /\ (Abort => c \in Once)
<1>1. spent \in [Faults -> Nat] /\ "abort" \in Faults BY Typed DEF Faults
<1>2. spent["abort"] \in Nat BY <1>1
<1>3. ASSUME NEW k \in Faults, Spend(k)
      PROVE  /\ spent'["abort"] = 0 => spent["abort"] = 0
             /\ k = "abort" => spent'["abort"] # 0
  BY <1>1, <1>2, <1>3 DEF Spend
<1>4. CASE Abort
  <2>1. Spend("abort") BY <1>4 DEF Abort
  <2> QED BY <1>1, <1>3, <2>1 DEF Tracked
<1>5. CASE EnqueueFails \/ Crash \/ Drop \/ Snapshot
  <2>1. UNCHANGED spent \/ Spend("refusal") \/ Spend("crash") \/ Spend("drop") \/ Spend("late")
    BY <1>5 DEF EnqueueFails, Crash, Drop, Snapshot
  <2>2. spent'["abort"] = 0 => spent["abort"] = 0 BY <1>3, <2>1 DEF Faults
  <2>3. ~ Abort
    BY <1>5 DEF Abort, EnqueueFails, Crash, Drop, Snapshot
  <2> QED BY <2>2, <2>3 DEF Tracked
<1>6. CASE UNCHANGED spent
  <2>1. ~ Abort
    <3>1. Spend("abort") => spent' # spent BY <1>1, <1>2 DEF Spend
    <3> QED BY <1>6, <3>1 DEF Abort
  <2> QED BY <1>6, <2>1 DEF Tracked
<1>7. Abort \/ EnqueueFails \/ Crash \/ Drop \/ Snapshot \/ UNCHANGED spent
  BY DEF Next, Api, Create, Enqueue, EnqueueWrite, CreateVerify, Activate, ReadStale, Supersede, Overdue, Ingest, Pop, Note, Write, Deliver, Reconnect, Execute, Dispatcher, Sweep, Purge, MarkSent, Settle, Resend, Requeue, Clean, Trim, Count, SRem, vars
<1> QED BY <1>4, <1>5, <1>6, <1>7

\* What the invariant says of a command, list by list.
LEMMA EntryFacts ==
  ASSUME Inv, NEW c \in Cmds, Tracked(c)
  PROVE  /\ Sent(c) \in Nat /\ Sent(c) <= Most(c)
         /\ Queued(c) = Of(pending, c) /\ QueueOK(pending, c, Sent(c))
         /\ Flying(c) = Of(inflight, c) \ Doomed
         /\ \A i, j \in Flying(c) : i = j
         /\ \A i \in Flying(c) : Sent(c) <= inflight[i].attempt + 1 /\ inflight[i].attempt \in Nat
         /\ Queued(c) = {} \/ Flying(c) = {}
         /\ Popped(c) => Queued(c) = {} /\ Flying(c) = {} /\ Sent(c) <= hold.attempt
         /\ disp \in Reading => \A i, j \in Of(snap.inflight, c) : i = j
<1>1. OneEntry(c) BY DEF Inv, EntryInv
<1>2. Queued(c) = Of(pending, c) /\ Flying(c) = Of(inflight, c) \ Doomed BY DEF Queued, Flying, Of
<1>3. Sent(c) \in Nat
  <2>1. todo \in Seq(Cmds) /\ runs[c] \in Nat BY Typed
  <2>2. Times(todo, c) \in Nat BY <2>1, CountNat
  <2>3. InHand(c) \in Nat BY DEF InHand
  <2> QED BY <2>1, <2>2, <2>3 DEF Sent, InTodo, Times
<1>4. QueueOK(pending, c, Sent(c)) BY <1>1, <1>2 DEF OneEntry, QueueOK
<1>5. \A i \in Flying(c) : inflight[i].attempt \in Nat
  <2>1. inflight \in Seq(Good) /\ \A e \in Good : e.attempt \in Nat BY Typed
  <2>2. \A i \in Flying(c) : i \in 1 .. Len(inflight) BY DEF Flying
  <2> QED BY <2>1, <2>2, ElementOfSeq
<1>6. disp \in Reading => \A i, j \in Of(snap.inflight, c) : i = j BY <1>1 DEF OneEntry, Of
<1> QED BY <1>1, <1>2, <1>3, <1>4, <1>5, <1>6 DEF OneEntry

\* The steps that leave a command no more entries in flight than it had: all but the
\* one that notes it.
Thinner(c) == \E g : /\ \A i \in Flying(c)' : g[i] \in Flying(c) /\ inflight'[i] = inflight[g[i]]
                     /\ \A i, j \in Flying(c)' : g[i] = g[j] => i = j

\* The LREMs of what was read take off the copies that were read.
LEMMA LRemTakes ==
  ASSUME NEW S, NEW s \in Seq(S), NEW t \in Seq(S), Begins(s, t), NEW d \in 1 .. Len(s),
         NEW E, t[d] \in E
  PROVE  d \notin Stays(t, s, E)
<1> DEFINE v == t[d]
           A == {j \in 1 .. d : t[j] = v}
           B == {j \in 1 .. Len(s) : s[j] = v}
<1>1. Len(s) \in Nat /\ Len(t) \in Nat BY LenProperties
<1>2. A \in SUBSET B BY <1>1 DEF Begins
<1>3. IsFiniteSet(B)
  <2>1. IsFiniteSet(1 .. Len(s)) BY <1>1, FS_Interval
  <2> QED BY <2>1, FS_Subset
<1>4. d \in Stays(t, s, E) => Cardinality(A) > Cardinality(B) BY DEF Stays, Copies
<1> HIDE DEF A, B
<1>5. Cardinality(A) <= Cardinality(B) /\ IsFiniteSet(A) BY <1>2, <1>3, FS_Subset
<1>6. Cardinality(A) \in Nat /\ Cardinality(B) \in Nat BY <1>3, <1>5, FS_CardinalityType
<1> QED BY <1>4, <1>5, <1>6

\* The clean-up takes off what was queued again.
LEMMA CleanTakes ==
  ASSUME Inv, NEW c \in Cmds, Tracked(c), Clean
  PROVE  Thinner(c)
<1> DEFINE gone == {e \in ToSet(snap.inflight) : \A i \in Remaining : Id(i) # e.id}
           I == Stays(inflight, snap.inflight, gone)
<1>1. inflight' = At(inflight, I) /\ disp = "resend" /\ disp' = "trim" /\ \A i \in Retried : i <= snap.sent
  BY Zenon DEF Clean, LRemAll
<1>2. /\ inflight \in Seq(Good) /\ Len(inflight) \in Nat /\ snap.inflight \in Seq(Good)
      /\ Len(snap.inflight) \in Nat
  BY Typed
<1>3. I \in SUBSET (1 .. Len(inflight)) BY DEF Stays
<1>4. Begins(snap.inflight, inflight) BY <1>1 DEF Inv, SnapInv, Reading
<1>5. Doomed = Retried /\ Doomed' = {} BY <1>1 DEF Doomed
<1>6. Flying(c)' = Of(inflight', c) BY <1>5 DEF Flying, Of
<1>7. PICK g : /\ \A i \in Of(inflight', c) : g[i] \in Of(inflight, c) \cap I /\ inflight'[i] = inflight[g[i]]
               /\ \A i, j \in Of(inflight', c) : g[i] = g[j] => i = j
  <2> HIDE DEF I
  <2> QED BY <1>1, <1>2, <1>3, OfCut
<1>8. ASSUME NEW d \in Of(inflight, c) \cap I PROVE d \notin Retried
  <2>0. SUFFICES ASSUME d \in Retried PROVE FALSE OBVIOUS
  <2> DEFINE v == inflight[d]
             n == Len(snap.inflight)
  <2>1. d \in 1 .. n /\ d \in TimedOut BY <2>0 DEF Retried, TimedOut, Unanswered
  <2>2. snap.inflight[d] = v /\ v.id = c BY <1>4, <2>1 DEF Begins, Of
  <2>3. ASSUME NEW i \in Remaining, Id(i) = c PROVE FALSE
    <3>1. i \in 1 .. n /\ i \notin TimedOut BY <2>3 DEF Remaining, Unanswered
    <3>2. i \in Of(snap.inflight, c) /\ d \in Of(snap.inflight, c) BY <2>1, <2>2, <2>3, <3>1 DEF Of, Id
    <3>3. i = d BY <1>1, <3>2, EntryFacts DEF Reading
    <3> QED BY <2>1, <3>1, <3>3
  <2>4. v \in ToSet(snap.inflight) BY <2>1, <2>2 DEF ToSet
  <2>5. v \in gone BY <2>2, <2>3, <2>4
  <2> HIDE DEF gone
  <2> QED BY <1>2, <1>4, <2>1, <2>5, LRemTakes
<1>9. \A i \in Flying(c)' : g[i] \in Flying(c) /\ inflight'[i] = inflight[g[i]]
  BY <1>5, <1>6, <1>7, <1>8 DEF Flying, Of
<1> QED BY <1>6, <1>7, <1>9 DEF Thinner

\* And so with every step but the one that notes the command in flight.
LEMMA FlySteps ==
  ASSUME Inv, [Next]_vars, NEW c \in Cmds, Tracked(c)'
  PROVE  /\ ~ (Note /\ hold.id = c) => Thinner(c)
         /\ Note /\ hold.id = c => /\ Flying(c)' \in SUBSET (Flying(c) \cup {Len(inflight) + 1})
                                   /\ inflight'[Len(inflight) + 1] = hold
<1>1. Tracked(c) /\ (Abort => c \in Once) BY TrackedBefore
<1>2. inflight \in Seq(Good) /\ Len(inflight) \in Nat /\ snap \in SnapType BY Typed
<1>3. ASSUME UNCHANGED inflight, Flying(c)' \in SUBSET Flying(c) PROVE Thinner(c)
  <2> DEFINE g == [i \in Flying(c)' |-> i]
  <2>1. \A i \in Flying(c)' : g[i] \in Flying(c) /\ inflight'[i] = inflight[g[i]] BY <1>3
  <2>2. \A i, j \in Flying(c)' : g[i] = g[j] => i = j OBVIOUS
  <2> QED BY <2>1, <2>2 DEF Thinner
<1>4. ASSUME UNCHANGED inflight, Doomed \in SUBSET Doomed' PROVE Thinner(c)
  BY <1>3, <1>4 DEF Flying
<1>5. CASE UNCHANGED <<inflight, disp, snap>>
  <2>1. Doomed' = Doomed BY <1>5 DEF Doomed, Retried, TimedOut, Unanswered, Paired
  <2>2. ~ Note
    <3>1. ASSUME Note PROVE FALSE
      <4>1. hold \in Good BY <3>1, Typed DEF Note
      <4>2. Len(inflight') = Len(inflight) + 1 BY <1>2, <3>1, <4>1, AppendProperties DEF Note
      <4> QED BY <1>2, <1>5, <4>2
    <3> QED BY <3>1
  <2> QED BY <1>4, <1>5, <2>1, <2>2
<1>6. CASE Note
  <2>1. hold \in Good /\ inflight' = Append(inflight, hold) BY <1>6, Typed DEF Note
  <2>2. Doomed' = Doomed BY <1>6 DEF Note, Doomed, Retried, TimedOut, Unanswered, Paired
  <2>3. Flying(c)' = Of(inflight', c) \ Doomed /\ Flying(c) = Of(inflight, c) \ Doomed
    BY <2>2 DEF Flying, Of
  <2> DEFINE m == Len(inflight)
  <2>4. Len(inflight') = m + 1 /\ inflight'[m + 1] = hold /\ \A i \in 1 .. m : inflight'[i] = inflight[i]
    BY <1>2, <2>1, AppendProperties
  <2> HIDE DEF m
  <2>5. 1 .. m + 1 = (1 .. m) \cup {m + 1} BY <1>2 DEF m
  <2>6. Flying(c)' \in SUBSET (Flying(c) \cup {m + 1}) BY <2>3, <2>4, <2>5 DEF Of, m
  <2>7. CASE hold.id # c
    <3>1. Flying(c)' \in SUBSET Flying(c) /\ \A i \in Flying(c)' : inflight'[i] = inflight[i]
      BY <2>3, <2>4, <2>5, <2>7 DEF Of, m
    <3> DEFINE g == [i \in Flying(c)' |-> i]
    <3>2. \A i \in Flying(c)' : g[i] \in Flying(c) /\ inflight'[i] = inflight[g[i]] BY <3>1
    <3>3. \A i, j \in Flying(c)' : g[i] = g[j] => i = j OBVIOUS
    <3>4. Thinner(c) BY <3>2, <3>3 DEF Thinner
    <3> QED BY <2>7, <3>4
  <2>8. CASE hold.id = c BY <1>6, <2>4, <2>6, <2>8, Zenon DEF m
  <2> QED BY <2>7, <2>8
<1>7. CASE Clean
  <2>1. ~ Note BY <1>7 DEF Clean, Note, ingest
  <2> QED BY <1>1, <1>7, <2>1, CleanTakes
<1>8. CASE Abort
  <2>1. c \in Once /\ UNCHANGED inflight /\ disp' = "idle" /\ ~ Note BY <1>1, <1>8 DEF Abort, lists, Note, ingest
  <2>2. Doomed' = {} BY <2>1 DEF Doomed
  <2>3. ASSUME NEW d \in Doomed PROVE inflight[d].id # c
    <3>1. disp = "resend" /\ d \in Retried BY <2>3 DEF Doomed
    <3>2. snap.inflight[d].id \notin Once /\ d \in 1 .. Len(snap.inflight)
      BY <3>1 DEF Retried, TimedOut, Unanswered
    <3>3. snap.inflight[d] = inflight[d] BY <3>1, <3>2 DEF Inv, SnapInv, Begins, Reading
    <3> QED BY <2>1, <3>2, <3>3
  <2>4. Flying(c)' \in SUBSET Flying(c) BY <2>1, <2>2, <2>3 DEF Flying
  <2> QED BY <1>3, <2>1, <2>4
<1>9. CASE Resend
  <2>1. /\ disp = "resend" /\ disp' = "resend" /\ UNCHANGED inflight /\ ~ Note
        /\ \E i \in Retried : i > snap.sent
    BY <1>9 DEF Resend, Requeue, Note, ingest
  <2>2. snap' = SnapOf(snap.inflight, snap.resp, snap.pending, snap.old, NextRetry, snap.now)
    BY <1>9, Typed, SnapSteps
  <2>3. /\ snap'.inflight = snap.inflight /\ snap'.resp = snap.resp /\ snap'.old = snap.old
        /\ snap'.sent = NextRetry
    BY <2>2 DEF SnapOf
  <2>4. Retried' = Retried BY <2>3 DEF Retried, TimedOut, Unanswered, Paired
  <2>5. NextRetry > snap.sent /\ NextRetry \in 1 .. Len(snap.inflight) BY <1>2, <2>1, NextRetryIs
  <2>6. Retried \in SUBSET Nat /\ snap.sent \in Nat /\ NextRetry \in Nat
    BY <2>5, Typed DEF Retried, TimedOut, Unanswered
  <2>7. \A i \in Retried : i <= snap.sent => i <= NextRetry BY <2>5, <2>6
  <2>8. Doomed = {i \in Retried : i <= snap.sent} /\ Doomed' = {i \in Retried : i <= NextRetry}
    BY <2>1, <2>3, <2>4 DEF Doomed
  <2>9. Doomed \in SUBSET Doomed' BY <2>7, <2>8
  <2> QED BY <1>4, <2>1, <2>9
<1>10. CASE Sweep \/ Snapshot \/ Purge \/ MarkSent \/ Settle \/ Trim \/ Count \/ SRem
  <2>1. UNCHANGED inflight /\ disp # "resend"
    BY <1>10 DEF Sweep, Snapshot, Purge, MarkSent, Settle, Trim, Count, SRem, lists
  <2>2. Doomed = {} BY <2>1 DEF Doomed
  <2>3. ~ Note BY <1>10 DEF Sweep, Snapshot, Purge, MarkSent, Settle, Trim, Count, SRem, Note, ingest
  <2> QED BY <1>4, <2>1, <2>2, <2>3
<1>11. UNCHANGED <<inflight, disp, snap>> \/ Note \/ Dispatcher \/ Abort
  BY DEF Next, Api, Create, Enqueue, EnqueueWrite, CreateVerify, Activate, ReadStale, Supersede, EnqueueFails, Overdue, Ingest, Pop, Write, Deliver, Crash, Execute, Drop, Reconnect, vars, lists
<1> QED BY <1>5, <1>6, <1>7, <1>8, <1>9, <1>10, <1>11 DEF Dispatcher

\* What a step does to the queue: only the request and the dispatcher add to it, and
\* only for a command that has no entry there or that is taken off elsewhere.
LEMMA QueueSteps ==
  ASSUME Inv, [Next]_vars, NEW c \in Cmds, Tracked(c)'
  PROVE  /\ QueueOK(pending', c, Sent(c)')
         /\ \/ Of(pending', c) = {} \/ Of(pending, c) # {} \/ c > Passed
            \/ Resend /\ NextRetry \in Flying(c)
         /\ Pop /\ hold' # None /\ hold'.id = c =>
              /\ Of(pending', c) = {} /\ Of(pending, c) # {} /\ Sent(c)' <= hold'.attempt
<1> DEFINE n == Sent(c)'
<1>1. Tracked(c) BY TrackedBefore
<1>2. /\ Sent(c) \in Nat /\ Queued(c) = Of(pending, c) /\ QueueOK(pending, c, Sent(c))
      /\ Queued(c) = {} \/ Flying(c) = {}
      /\ Popped(c) => Queued(c) = {} /\ Flying(c) = {} /\ Sent(c) <= hold.attempt
      /\ \A i \in Flying(c) : Sent(c) <= inflight[i].attempt + 1 /\ inflight[i].attempt \in Nat
  BY <1>1, EntryFacts
<1>3. n \in Nat /\ (n <= Sent(c) \/ (Note /\ hold.id = c /\ n = Sent(c) + 1)) BY SentStep
<1>4. pending \in Seq(Good) /\ hold \in Good \cup {None} /\ None \notin Good BY Typed
<1>5. \A i \in Of(pending, c) : pending[i] \in Good /\ pending[i].attempt \in Nat
  <2>1. \A e \in Good : e.attempt \in Nat BY Typed
  <2> QED BY <1>4, <2>1, ElementOfSeq DEF Of
<1> HIDE DEF n
<1>6. QueueOK(pending, c, n)
  <2>1. CASE n <= Sent(c) BY <1>2, <1>3, <1>5, <2>1 DEF QueueOK
  <2>2. CASE Note /\ hold.id = c
    <3>1. Of(pending, c) = {} BY <1>2, <2>2 DEF Popped, Note
    <3> QED BY <3>1 DEF QueueOK
  <2> QED BY <1>3, <2>1, <2>2
<1>7. CASE UNCHANGED pending
  <2>1. ~ Pop
    <3>1. ASSUME Pop PROVE FALSE
      <4>1. Len(pending') = Len(pending) - 1 /\ Len(pending) \in Nat
        BY <1>4, <3>1, HeadTailProperties, LenProperties DEF Pop
      <4> QED BY <1>7, <4>1
    <3> QED BY <3>1
  <2> QED BY <1>6, <1>7, <2>1 DEF n
<1>8. ASSUME c > Passed, ~ Note PROVE Of(pending, c) = {} /\ n = 0
  BY <1>2, <1>3, <1>8, NothingYet
<1>9. Newest \in 0 .. NumCmds BY NewestOK DEF Inv
<1>10. CASE Enqueue
  <2>1. Newest \in Cmds /\ Passed = Newest - 1 /\ ~ Note /\ ~ Pop
    BY <1>10, ApiKeeps DEF Enqueue, Inv, ApiInv, Note, Pop, ingest, lists, api_
  <2>2. PICK e : e = Entered(Newest) OBVIOUS
  <2>3. e \in Good /\ e.id = Newest /\ e.attempt = 0 /\ pending' = Append(pending, e)
    BY <1>10, <2>1, <2>2, GoodFacts DEF Enqueue
  <2>4. e.id = c => c > Passed BY <1>9, <2>1, <2>3
  <2>5. e.id = c => Of(pending, c) = {} /\ n <= e.attempt BY <1>8, <2>1, <2>3, <2>4
  <2>6. QueueOK(pending', c, n) /\ (e.id # c => Of(pending', c) = Of(pending, c))
    <3>1. Longer(pending, e, pending') BY <1>4, <2>3, AppendProperties, LenProperties DEF Longer
    <3> QED BY <1>6, <2>5, <3>1, QueueAppend
  <2> QED BY <2>1, <2>4, <2>6 DEF n
<1>11. CASE EnqueueWrite
  <2>1. Newest - 1 \in Cmds /\ Newest \in Cmds /\ Passed = Newest - 2 /\ ~ Note /\ ~ Pop
    BY <1>11, ApiKeeps DEF EnqueueWrite, Inv, ApiInv, Note, Pop, ingest, lists, api_
  <2>2. PICK a, b : a = Entered(Newest - 1) /\ b = Entered(Newest) OBVIOUS
  <2>3. /\ a \in Good /\ a.id = Newest - 1 /\ a.attempt = 0
        /\ b \in Good /\ b.id = Newest /\ b.attempt = 0
    BY <2>1, <2>2, GoodFacts
  <2> DEFINE I == {i \in 1 .. Len(pending) : pending[i] \notin stale}
  <2>4. PICK s : s = At(pending, I) OBVIOUS
  <2>5. s \in Seq(Good) /\ QueueOK(s, c, n) /\ (Of(pending, c) = {} => Of(s, c) = {})
    <3>1. I \in SUBSET (1 .. Len(pending)) OBVIOUS
    <3> HIDE DEF I
    <3> QED BY <1>4, <1>6, <2>4, <3>1, AtThins, QueueCut
  <2>6. pending' = s \o <<a, b>> BY <1>11, <2>2, <2>4 DEF EnqueueWrite
  <2>7. PICK t : t = Append(s, a) OBVIOUS
  <2>8. t \in Seq(Good) /\ pending' = Append(t, b) BY <2>3, <2>5, <2>6, <2>7, ConcatTwo, AppendProperties
  <2>9. (a.id = c => c > Passed) /\ (b.id = c => c > Passed) /\ ~ (a.id = c /\ b.id = c) BY <1>9, <2>1, <2>3
  <2>10. c > Passed => Of(s, c) = {} /\ n = 0 BY <1>8, <2>1, <2>5
  <2>11. QueueOK(t, c, n) /\ (a.id # c => Of(t, c) = Of(s, c))
    <3>1. a.id = c => Of(s, c) = {} /\ n <= a.attempt BY <2>3, <2>9, <2>10
    <3>2. Longer(s, a, t) BY <2>3, <2>5, <2>7, AppendProperties, LenProperties DEF Longer
    <3> QED BY <2>5, <3>1, <3>2, QueueAppend
  <2>12. QueueOK(pending', c, n) /\ (b.id # c => Of(pending', c) = Of(t, c))
    <3>1. b.id = c => Of(t, c) = {} /\ n <= b.attempt BY <2>3, <2>9, <2>10, <2>11
    <3>2. Longer(t, b, pending') BY <2>3, <2>8, AppendProperties, LenProperties DEF Longer
    <3> QED BY <2>11, <3>1, <3>2, QueueAppend
  <2>13. Of(pending', c) = {} \/ Of(pending, c) # {} \/ c > Passed BY <2>5, <2>9, <2>11, <2>12
  <2> QED BY <2>1, <2>12, <2>13 DEF n
<1>12. CASE Pop
  <2>1. pending # <<>> /\ pending' = Tail(pending) /\ hold' \in {None, Head(pending)}
    BY <1>12 DEF Pop
  <2>2. /\ QueueOK(Tail(pending), c, n)
        /\ Of(pending, c) = {} => Of(Tail(pending), c) = {}
        /\ Head(pending).id = c => /\ Of(pending, c) # {} /\ n <= Head(pending).attempt
                                   /\ Of(Tail(pending), c) = {}
    BY <1>4, <1>6, <2>1, QueueTail
  <2> QED BY <2>1, <2>2 DEF n
<1>13. CASE Purge
  <2>1. PICK es, E : pending' = LRemAll(pending, es, E) BY <1>13, Zenon DEF Purge
  <2>2. Stays(pending, es, E) \in SUBSET (1 .. Len(pending)) BY DEF Stays
  <2>3. QueueOK(pending', c, n) /\ (Of(pending, c) = {} => Of(pending', c) = {})
    BY <1>4, <1>6, <2>1, <2>2, QueueCut DEF LRemAll
  <2>4. ~ Pop BY <1>13 DEF Purge, Pop
  <2> QED BY <2>3, <2>4 DEF n
<1>14. CASE Resend
  <2>1. /\ disp = "resend" /\ ~ Note /\ ~ Pop /\ \E i \in Retried : i > snap.sent
    BY <1>14 DEF Resend, Requeue, Note, Pop, ingest
  <2>2. PICK e \in Good : /\ pending' = Append(pending, e) /\ e.id = Id(NextRetry)
                          /\ e.attempt = snap.inflight[NextRetry].attempt + 1
    BY <1>14, <2>1, RetryIsGood, Zenon DEF Resend, Requeue
  <2>3. NextRetry \in 1 .. Len(snap.inflight) /\ NextRetry > snap.sent BY <2>1, NextRetryIs, Typed
  <2>4. Len(snap.inflight) \in Nat /\ Len(inflight) \in Nat /\ snap.sent \in Nat BY Typed
  <2>5. NextRetry \in 1 .. Len(inflight) /\ snap.inflight[NextRetry] = inflight[NextRetry]
    BY <2>1, <2>3, <2>4 DEF Inv, SnapInv, Begins, Reading
  <2>6. NextRetry \notin Doomed BY <2>1, <2>3, <2>4 DEF Doomed
  <2>7. e.id = c => NextRetry \in Flying(c) BY <2>2, <2>5, <2>6 DEF Flying, Id
  <2>8. e.id = c => Of(pending, c) = {} /\ n <= e.attempt
    <3>1. ASSUME e.id = c PROVE n <= e.attempt
      <4>1. Sent(c) <= inflight[NextRetry].attempt + 1 /\ inflight[NextRetry].attempt \in Nat BY <1>2, <2>7, <3>1
      <4> QED BY <1>2, <1>3, <2>1, <2>2, <2>5, <4>1
    <3> QED BY <1>2, <2>7, <3>1
  <2>9. QueueOK(pending', c, n) /\ (e.id # c => Of(pending', c) = Of(pending, c))
    <3>1. Longer(pending, e, pending') BY <1>4, <2>2, AppendProperties, LenProperties DEF Longer
    <3> QED BY <1>6, <2>8, <3>1, QueueAppend
  <2> QED BY <1>14, <2>1, <2>7, <2>9 DEF n
<1>15. UNCHANGED pending \/ Enqueue \/ EnqueueWrite \/ Pop \/ Purge \/ Resend
  BY DEF Next, Api, Create, CreateVerify, Activate, ReadStale, Supersede, EnqueueFails, Overdue, Ingest, Note, Write, Deliver, Crash, Execute, Drop, Reconnect, Dispatcher, Sweep, Snapshot, MarkSent, Settle, Clean, Trim, Count, SRem, Abort, vars, lists
<1> QED BY <1>7, <1>10, <1>11, <1>12, <1>13, <1>14, <1>15

\* A tick that reads the list finds one entry of each command.
LEMMA ReadsOne ==
  ASSUME Inv, [Next]_vars, NEW c \in Cmds, Tracked(c), disp' \in Reading
  PROVE  \A i, j \in Of(snap'.inflight, c) : i = j
<1>1. /\ disp \in Reading => \A i, j \in Of(snap.inflight, c) : i = j
      /\ Flying(c) = Of(inflight, c) \ Doomed /\ \A i, j \in Flying(c) : i = j
  BY EntryFacts
<1>2. /\ snap \in SnapType /\ pending \in Seq(Good) /\ inflight \in Seq(Good)
      /\ resp \in Seq(Response) /\ over \in 0 .. NumCmds
  BY Typed
<1>3. CASE UNCHANGED <<disp, snap>> BY <1>1, <1>3
<1>4. CASE Snapshot
  <2>1. PICK k \in 0 .. Len(inflight) : snap' = SnapOf(inflight, resp, pending, k, snap.sent, snap.now)
    BY <1>2, <1>4, SnapSteps
  <2>2. snap'.inflight = inflight BY <2>1 DEF SnapOf
  <2>3. Doomed = {} BY <1>4 DEF Snapshot, Doomed
  <2>4. Flying(c) = Of(inflight, c) BY <1>1, <2>3
  <2> QED BY <1>1, <2>2, <2>4
<1>5. CASE Purge
  <2>1. snap' = SnapOf(snap.inflight, snap.resp, <<>>, snap.old, snap.sent, 0) BY <1>2, <1>5, SnapSteps
  <2>2. snap'.inflight = snap.inflight BY <2>1 DEF SnapOf
  <2> QED BY <1>1, <1>5, <2>2 DEF Purge, Reading
<1>6. CASE MarkSent \/ Settle BY <1>1, <1>6 DEF MarkSent, Settle, Reading
<1>7. CASE Resend
  <2>1. snap' = SnapOf(snap.inflight, snap.resp, snap.pending, snap.old, NextRetry, snap.now)
    BY <1>2, <1>7, SnapSteps
  <2>2. snap'.inflight = snap.inflight BY <2>1 DEF SnapOf
  <2> QED BY <1>1, <1>7, <2>2 DEF Resend, Requeue, Reading
<1>8. CASE Sweep \/ Clean \/ Trim \/ Count \/ SRem \/ Abort
  BY <1>8 DEF Sweep, Clean, Trim, Count, SRem, Abort, Reading
<1>9. UNCHANGED <<disp, snap>> \/ Dispatcher \/ Abort
  BY DEF Next, Api, Create, Enqueue, EnqueueWrite, CreateVerify, Activate, ReadStale, Supersede, EnqueueFails, Overdue, Ingest, Pop, Note, Write, Deliver, Crash, Execute, Drop, Reconnect, vars
<1> QED BY <1>3, <1>4, <1>5, <1>6, <1>7, <1>8, <1>9 DEF Dispatcher

\* Every step leaves a command one entry, which says how often it was sent before.
LEMMA EntryKeeps == ASSUME Inv, [Next]_vars PROVE EntryInv'
<1>1. SUFFICES ASSUME NEW c \in Cmds, Tracked(c)' PROVE OneEntry(c)' BY DEF EntryInv, Tracked
<1>2. Tracked(c) BY <1>1, TrackedBefore
<1>3. /\ Sent(c) \in Nat /\ Sent(c) <= Most(c)
      /\ Queued(c) = Of(pending, c) /\ QueueOK(pending, c, Sent(c))
      /\ \A i, j \in Flying(c) : i = j
      /\ \A i \in Flying(c) : Sent(c) <= inflight[i].attempt + 1 /\ inflight[i].attempt \in Nat
      /\ Queued(c) = {} \/ Flying(c) = {}
      /\ Popped(c) => Queued(c) = {} /\ Flying(c) = {} /\ Sent(c) <= hold.attempt
  BY <1>2, EntryFacts
<1>4. /\ Sent(c)' \in Nat
      /\ Sent(c)' <= Sent(c) \/ (Note /\ hold.id = c /\ Sent(c)' = Sent(c) + 1)
  BY SentStep
<1>5. /\ ~ (Note /\ hold.id = c) => Thinner(c)
      /\ Note /\ hold.id = c => /\ Flying(c)' \in SUBSET (Flying(c) \cup {Len(inflight) + 1})
                                /\ inflight'[Len(inflight) + 1] = hold
  BY <1>1, FlySteps
<1>6. /\ QueueOK(pending', c, Sent(c)')
      /\ \/ Of(pending', c) = {} \/ Of(pending, c) # {} \/ c > Passed
         \/ Resend /\ NextRetry \in Flying(c)
      /\ Pop /\ hold' # None /\ hold'.id = c =>
           /\ Of(pending', c) = {} /\ Of(pending, c) # {} /\ Sent(c)' <= hold'.attempt
  BY <1>1, QueueSteps
<1>7. Queued(c)' = Of(pending', c) BY DEF Queued, Of
<1>8. disp' \in Reading => \A i, j \in Of(snap'.inflight, c) : i = j BY <1>2, ReadsOne
<1>9. Most(c)' = Most(c) /\ Most(c) \in Nat BY GoodFacts DEF Most, Calm
<1>10. hold \in Good \cup {None} /\ None \notin Good /\ \A e \in Good : e.id \in Cmds /\ e.attempt \in Nat BY Typed
<1>11. /\ \A i, j \in Queued(c)' : i = j
       /\ \A i \in Queued(c)' : Sent(c)' <= pending'[i].attempt
  BY <1>6, <1>7 DEF QueueOK
<1>12. c > Passed => Of(pending, c) = {} /\ Flying(c) = {} /\ ~ Popped(c)
  BY <1>3, NothingYet
<1>13. CASE Note /\ hold.id = c
  <2>1. hold # None /\ ~ noted /\ pending' = pending /\ noted' = TRUE BY <1>13 DEF Note
  <2>2. Popped(c) /\ hold \in Good BY <1>10, <1>13, <2>1 DEF Popped
  <2>3. Of(pending', c) = {} /\ Flying(c) = {} /\ Sent(c) <= hold.attempt BY <1>3, <2>1, <2>2
  <2>4. Flying(c)' \in SUBSET {Len(inflight) + 1} BY <1>5, <1>13, <2>3
  <2>5. \A i, j \in Flying(c)' : i = j BY <2>4
  <2>6. hold.attempt < Most(c) /\ hold.attempt \in Nat BY <1>10, <1>13, <2>2, GoodFacts
  <2>7. Sent(c)' <= Most(c)' /\ Sent(c)' <= hold.attempt + 1 BY <1>3, <1>4, <1>9, <2>3, <2>6
  <2>8. \A i \in Flying(c)' : Sent(c)' <= inflight'[i].attempt + 1 BY <1>5, <1>13, <2>4, <2>7
  <2>9. ~ Popped(c)' BY <2>1 DEF Popped
  <2> QED BY <1>7, <1>8, <1>11, <2>3, <2>5, <2>7, <2>8, <2>9 DEF OneEntry, Of
<1>14. CASE ~ (Note /\ hold.id = c)
  <2>1. Sent(c)' <= Sent(c) BY <1>4, <1>14
  <2>2. PICK g : /\ \A i \in Flying(c)' : g[i] \in Flying(c) /\ inflight'[i] = inflight[g[i]]
                 /\ \A i, j \in Flying(c)' : g[i] = g[j] => i = j
    BY <1>5, <1>14 DEF Thinner
  <2>3. \A i, j \in Flying(c)' : i = j BY <1>3, <2>2
  <2>4. \A i \in Flying(c)' : Sent(c)' <= inflight'[i].attempt + 1
    <3>1. TAKE i \in Flying(c)'
    <3>2. Sent(c) <= inflight'[i].attempt + 1 /\ inflight'[i].attempt \in Nat BY <1>3, <2>2
    <3> QED BY <1>3, <1>4, <2>1, <3>2
  <2>5. Sent(c)' <= Most(c)' BY <1>3, <1>4, <1>9, <2>1
  <2>6. Flying(c) = {} => Flying(c)' = {} BY <2>2
  <2>7. CASE Resend /\ NextRetry \in Flying(c)
    <3>1. Flying(c)' = {}
      <4>1. SUFFICES ASSUME NEW i \in Flying(c)' PROVE FALSE OBVIOUS
      <4>2. UNCHANGED inflight /\ disp' = "resend" /\ disp = "resend" /\ \E d \in Retried : d > snap.sent
        BY <2>7 DEF Resend, Requeue
      <4>3. snap' = SnapOf(snap.inflight, snap.resp, snap.pending, snap.old, NextRetry, snap.now)
        BY <2>7, Typed, SnapSteps
      <4>4. /\ snap'.inflight = snap.inflight /\ snap'.resp = snap.resp /\ snap'.old = snap.old
            /\ snap'.sent = NextRetry
        BY <4>3 DEF SnapOf
      <4>5. Retried' = Retried BY <4>4 DEF Retried, TimedOut, Unanswered, Paired
      <4>6. NextRetry \in Retried /\ NextRetry \in 1 .. Len(snap.inflight) BY <4>2, NextRetryIs, Typed
      <4>7. NextRetry \in Nat BY <4>6, Typed
      <4>8. NextRetry \in Doomed' BY <4>2, <4>4, <4>5, <4>6, <4>7 DEF Doomed
      <4>9. i \notin Doomed' /\ i \in Of(inflight, c) BY <4>2 DEF Flying, Of
      <4>10. NextRetry \in Of(inflight, c) BY <2>7 DEF Flying, Of
      <4>11. i \notin Doomed
        <5>1. Retried \in SUBSET Nat /\ snap.sent \in Nat /\ NextRetry > snap.sent
          <6>1. NextRetry > snap.sent BY <4>2, NextRetryIs, Typed
          <6>2. snap.sent \in Nat /\ Len(snap.inflight) \in Nat BY Typed
          <6>3. Retried \in SUBSET Nat BY <6>2 DEF Retried, TimedOut, Unanswered
          <6> QED BY <6>1, <6>2, <6>3
        <5>2. \A d \in Retried : d <= snap.sent => d <= NextRetry BY <4>7, <5>1
        <5>3. Doomed = {d \in Retried : d <= snap.sent} /\ Doomed' = {d \in Retried : d <= NextRetry}
          BY <4>2, <4>4, <4>5 DEF Doomed
        <5> QED BY <4>9, <5>2, <5>3
      <4>12. i \in Flying(c) BY <4>9, <4>11 DEF Flying, Of
      <4>13. i = NextRetry BY <1>3, <2>7, <4>12
      <4> QED BY <4>8, <4>9, <4>13
    <3>2. ~ Popped(c)'
      <4>1. UNCHANGED <<hold, noted>> BY <2>7 DEF Resend, Requeue, ingest
      <4> QED BY <1>3, <2>7, <4>1 DEF Popped
    <3> QED BY <1>7, <1>8, <1>11, <2>3, <2>4, <2>5, <3>1, <3>2 DEF OneEntry, Of
  <2>8. CASE ~ (Resend /\ NextRetry \in Flying(c))
    <3>1. Queued(c)' = {} \/ Flying(c)' = {} BY <1>3, <1>6, <1>7, <1>12, <2>6, <2>8
    <3>2. ASSUME Popped(c)' PROVE Queued(c)' = {} /\ Flying(c)' = {} /\ Sent(c)' <= hold'.attempt
      <4>1. CASE Pop
        <5>1. hold' # None /\ hold'.id = c BY <3>2 DEF Popped
        <5> QED BY <1>3, <1>6, <1>7, <2>6, <4>1, <5>1
      <4>2. CASE UNCHANGED <<hold, noted>>
        <5>1. Popped(c) BY <3>2, <4>2 DEF Popped
        <5>2. Queued(c) = {} /\ Flying(c) = {} /\ Sent(c) <= hold.attempt BY <1>3, <5>1
        <5>3. Of(pending', c) = {} BY <1>3, <1>6, <1>12, <2>8, <5>1, <5>2
        <5>4. hold.attempt \in Nat BY <1>10, <5>1 DEF Popped
        <5> QED BY <1>3, <1>4, <1>7, <2>1, <2>6, <4>2, <5>2, <5>3, <5>4
      <4>3. CASE Note \/ Write \/ Crash BY <3>2, <4>3 DEF Note, Write, Crash, Popped
      <4>4. Pop \/ UNCHANGED <<hold, noted>> \/ Note \/ Write \/ Crash
        BY DEF Next, Api, Create, Enqueue, EnqueueWrite, CreateVerify, Activate, ReadStale, Supersede, EnqueueFails, Overdue, Ingest, Deliver, Execute, Drop, Reconnect, Dispatcher, Sweep, Snapshot, Purge, MarkSent, Settle, Resend, Requeue, Clean, Trim, Count, SRem, Abort, vars, ingest
      <4> QED BY <4>1, <4>2, <4>3, <4>4
    <3> QED BY <1>7, <1>8, <1>11, <2>3, <2>4, <2>5, <3>1, <3>2 DEF OneEntry, Of
  <2> QED BY <2>7, <2>8
<1> QED BY <1>13, <1>14

-----------------------------------------------------------------------------
(* When nothing is late or lost.                                           *)

\* Nothing times out, nothing is lost, and every command is followed.
LEMMA CalmFacts ==
  ASSUME Inv, Calm
  PROVE  /\ ~ Spend("late") /\ ~ Spend("drop") /\ ~ Spend("abort") /\ ~ Spend("crash")
         /\ link /\ snap.old = 0 /\ TimedOut = {} /\ Retried = {} /\ Remaining = Unanswered
         /\ Paths /\ PairsInv /\ AckedIsAnswered /\ InOrder(pending)
         /\ Cut \in 0 .. Len(resp) /\ Doomed = {}
         /\ \A c \in Cmds : \A i, j \in Of(inflight, c) : i = j
<1>1. Limit("late") = 0 /\ Limit("drop") = 0 /\ Limit("abort") = 0 /\ Limit("crash") = 0
  BY DEF Limit, Calm
<1>2. spent \in [Faults -> Nat] /\ \A k \in Faults : spent[k] <= Limit(k) BY DEF Inv, TypeInv
<1>3. {"late", "drop", "abort", "crash"} \in SUBSET Faults BY DEF Faults
<1>4. \A k \in {"late", "drop", "abort", "crash"} : ~ Spend(k)
  BY <1>1, <1>2, <1>3 DEF Spend
<1>5. link /\ snap.old = 0 /\ Paths /\ PairsInv /\ AckedIsAnswered /\ InOrder(pending)
  BY DEF Inv, CalmInv, InFlightInv, OrderInv
<1>6. TimedOut = {}
  <2>1. Len(snap.inflight) \in Nat BY Typed
  <2> QED BY <1>5, <2>1 DEF TimedOut, Unanswered
<1>7. Retried = {} /\ Remaining = Unanswered BY <1>6 DEF Retried, Remaining
<1>8. Cut \in 0 .. Len(resp)
  <2>1. Len(resp) \in Nat /\ Len(snap.resp) \in Nat BY Typed
  <2>2. disp = "trim" => Len(snap.resp) <= Len(resp) BY DEF Inv, SnapInv, Begins
  <2> QED BY <2>1, <2>2 DEF Cut
<1>9. Doomed = {} BY <1>7 DEF Doomed
<1>10. spent["abort"] = 0 BY <1>1, <1>2, <1>3
<1>11. ASSUME NEW c \in Cmds PROVE \A i, j \in Of(inflight, c) : i = j
  <2>1. Tracked(c) BY <1>10 DEF Tracked
  <2>2. Flying(c) = Of(inflight, c) BY <1>9, <2>1, EntryFacts
  <2> QED BY <2>1, <2>2, EntryFacts
<1> QED BY <1>4, <1>5, <1>6, <1>7, <1>8, <1>9, <1>11

\* An acknowledged row has the answer of its own command.
LEMMA AckedKeeps == ASSUME Inv, Calm, [Next]_vars PROVE AckedIsAnswered'
<1>1. AckedIsAnswered /\ PairsInv BY CalmFacts
<1>2. ASSUME NEW C, NEW s, s # "acked", db' = Updated(C, s), UNCHANGED answer PROVE AckedIsAnswered'
  BY <1>1, <1>2 DEF AckedIsAnswered, Updated
<1>3. db \in [Cmds -> {"none"} \cup Open \cup Terminal] BY DEF Inv, RowInv
<1>4. CASE UNCHANGED <<db, answer>> BY <1>1, <1>4 DEF AckedIsAnswered
<1>5. CASE Create \/ CreateVerify
  <2>1. db' = [db EXCEPT ![Fresh] = "queued"] /\ UNCHANGED answer BY <1>5 DEF Create, CreateVerify
  <2> QED BY <1>1, <1>3, <2>1 DEF AckedIsAnswered
<1>6. CASE Supersede BY <1>1, <1>6 DEF Supersede, AckedIsAnswered
<1>7. CASE Sweep BY <1>2, <1>7 DEF Sweep
<1>8. CASE Purge
  <2>1. PICK C : db' = Updated(C, "expired") BY <1>8, Zenon DEF Purge
  <2>2. UNCHANGED answer BY <1>8 DEF Purge
  <2> QED BY <1>2, <2>1, <2>2
<1>9. CASE MarkSent BY <1>1, <1>9 DEF MarkSent, AckedIsAnswered
<1>10. CASE Resend
  <2>1. db' = Updated({Id(NextRetry)}, "queued") /\ UNCHANGED answer BY <1>10 DEF Resend, Requeue
  <2> QED BY <1>2, <2>1
<1>11. CASE Settle
  <2> DEFINE acked == {i \in Paired : ~ snap.resp[i].nack}
             failed == (Paired \ acked) \cup (TimedOut \ Retried)
             hit == {i \in acked : db[Id(i)] \in Open}
  <2>1. /\ disp = "settle"
        /\ db' = [c \in Cmds |-> IF db[c] \notin Open THEN db[c]
                                 ELSE IF \E i \in acked : Id(i) = c THEN "acked"
                                 ELSE IF \E i \in failed : Id(i) = c THEN "failed" ELSE db[c]]
        /\ answer' = [c \in Cmds |-> IF \E i \in hit : Id(i) = c
                                     THEN snap.resp[CHOOSE i \in hit : Id(i) = c].id
                                     ELSE answer[c]]
    BY <1>11, Zenon DEF Settle
  <2>2. \A i \in Paired : snap.resp[i].id = Id(i)
    <3>1. Len(snap.resp) \in Nat /\ Len(snap.inflight) \in Nat BY Typed
    <3>2. \A i \in Paired : i \in 1 .. Len(snap.resp) BY <3>1 DEF Paired
    <3> QED BY <1>1, <2>1, <3>2 DEF PairsInv, Reading, Id
  <2>3. SUFFICES ASSUME NEW c \in Cmds, db'[c] = "acked" PROVE answer'[c] = c BY DEF AckedIsAnswered
  <2> HIDE DEF failed
  <2>4. CASE db[c] \notin Open
    <3>1. db[c] = "acked" BY <2>1, <2>3, <2>4
    <3>2. ~ \E i \in hit : Id(i) = c BY <2>4
    <3> QED BY <1>1, <2>1, <3>1, <3>2 DEF AckedIsAnswered
  <2>5. CASE db[c] \in Open
    <3>1. \E i \in acked : Id(i) = c
      <4>1. db[c] # "acked" BY <2>5 DEF Open
      <4> QED BY <2>1, <2>3, <2>5, <4>1
    <3>2. \E i \in hit : Id(i) = c BY <2>5, <3>1
    <3>3. PICK k : k = CHOOSE i \in hit : Id(i) = c OBVIOUS
    <3>4. k \in hit /\ Id(k) = c BY <3>2, <3>3
    <3>5. answer'[c] = snap.resp[k].id BY <2>1, <3>2, <3>3
    <3> QED BY <2>2, <3>4, <3>5
  <2> QED BY <2>4, <2>5
<1>12. \/ UNCHANGED <<db, answer>> \/ Create \/ CreateVerify \/ Supersede \/ Sweep \/ Purge \/ MarkSent
       \/ Resend \/ Settle
  BY DEF Next, Api, Enqueue, EnqueueWrite, Activate, ReadStale, EnqueueFails, Overdue, Ingest, Pop, Note, Write, Deliver, Crash, Execute, Drop, Reconnect, Dispatcher, Snapshot, Clean, Trim, Count, SRem, Abort, vars, rows
<1> QED BY <1>4, <1>5, <1>6, <1>7, <1>8, <1>9, <1>10, <1>11, <1>12

\* A tick finds nothing that was in flight for too long, and the answers it reads are
\* those of the commands at the head of what it reads.
LEMMA PairsKeep == ASSUME Inv, Calm, [Next]_vars PROVE PairsInv' /\ snap'.old = 0
<1>1. /\ PairsInv /\ Paths /\ snap.old = 0 /\ Retried = {} /\ ~ Spend("late") /\ ~ Spend("abort")
      /\ Cut \in 0 .. Len(resp)
  BY CalmFacts
<1>2. /\ snap \in SnapType /\ pending \in Seq(Good) /\ inflight \in Seq(Good)
      /\ resp \in Seq(Response) /\ over \in 0 .. NumCmds
      /\ Len(inflight) \in Nat /\ Len(resp) \in Nat /\ Len(out) \in Nat /\ Len(todo) \in Nat
  BY Typed
<1>3. CASE UNCHANGED <<disp, snap>> BY <1>1, <1>3 DEF PairsInv
<1>4. CASE Sweep
  <2>1. snap'.old = 0 /\ disp' \in {"snap", "idle"} BY <1>2, <1>4, SnapSteps DEF Sweep
  <2> QED BY <2>1 DEF PairsInv, Reading
<1>5. CASE Snapshot
  <2>1. PICK k \in 0 .. Len(inflight) :
          /\ snap' = SnapOf(inflight, resp, pending, k, snap.sent, snap.now)
          /\ TooEarly(k) => Spend("late")
    BY <1>2, <1>5, SnapSteps
  <2>2. snap'.inflight = inflight /\ snap'.resp = resp /\ snap'.old = k BY <2>1 DEF SnapOf
  <2>3. disp = "snap" /\ disp' = "purge" BY <1>5 DEF Snapshot
  <2>4. Cut = 0 BY <2>3 DEF Cut
  <2>5. Len(inflight) = Len(resp) + Len(out) + Len(todo) + (IF hold # None /\ noted THEN 1 ELSE 0)
    BY <1>1, <1>2, <2>4 DEF Paths
  <2>6. Len(resp) <= Len(inflight) BY <1>2, <2>5
  <2>7. \A i \in 1 .. Len(resp) : resp[i].id = inflight[i].id BY <1>1, <1>2, <2>4 DEF Paths
  <2>8. Len(inflight) # 0 => Awaited(inflight[1].id)
    <3>1. CASE Len(resp) # 0
      <4>1. 1 \in 1 .. Len(resp) BY <1>2, <3>1
      <4>2. resp[1] \in ToSet(resp) BY <4>1 DEF ToSet
      <4> QED BY <2>7, <4>1, <4>2 DEF Awaited
    <3>2. CASE Len(resp) = 0 /\ Len(out) # 0
      <4>1. 1 \in 1 .. Len(out) BY <1>2, <3>2
      <4>2. out[1] \in ToSet(out) BY <4>1 DEF ToSet
      <4>3. inflight[Len(resp) - Cut + 1].id = out[1].id BY <1>1, <4>1 DEF Paths
      <4>4. Len(resp) - Cut + 1 = 1 BY <2>4, <3>2
      <4> QED BY <4>2, <4>3, <4>4 DEF Awaited
    <3>3. CASE Len(resp) = 0 /\ Len(out) = 0 /\ Len(todo) # 0
      <4>1. 1 \in 1 .. Len(todo) BY <1>2, <3>3
      <4>2. todo[1] \in ToSet(todo) BY <4>1 DEF ToSet
      <4>3. inflight[Len(resp) - Cut + Len(out) + 1].id = todo[1] BY <1>1, <4>1 DEF Paths
      <4>4. Len(resp) - Cut + Len(out) + 1 = 1 BY <2>4, <3>3
      <4> QED BY <4>2, <4>3, <4>4 DEF Awaited
    <3>4. CASE Len(resp) = 0 /\ Len(out) = 0 /\ Len(todo) = 0
      <4>1. SUFFICES ASSUME Len(inflight) # 0 PROVE Awaited(inflight[1].id) OBVIOUS
      <4>2. hold # None /\ noted /\ Len(inflight) = 1 BY <2>5, <3>4, <4>1
      <4>3. inflight[1].id = hold.id BY <1>1, <4>2 DEF Paths
      <4> QED BY <4>2, <4>3 DEF Awaited
    <3> QED BY <3>1, <3>2, <3>3, <3>4
  <2>9. k = 0
    <3>1. SUFFICES ASSUME k # 0 PROVE FALSE OBVIOUS
    <3>2. Len(inflight) # 0 /\ 1 \in 1 .. k BY <1>2, <3>1
    <3>3. TooEarly(k) BY <2>8, <3>2 DEF TooEarly
    <3> QED BY <1>1, <2>1, <3>3
  <2> QED BY <2>2, <2>6, <2>7, <2>9 DEF PairsInv
<1>6. CASE Purge
  <2>1. snap' = SnapOf(snap.inflight, snap.resp, <<>>, snap.old, snap.sent, 0) BY <1>2, <1>6, SnapSteps
  <2>2. snap'.inflight = snap.inflight /\ snap'.resp = snap.resp /\ snap'.old = snap.old BY <2>1 DEF SnapOf
  <2> QED BY <1>1, <1>6, <2>2 DEF Purge, PairsInv, Reading
<1>7. CASE MarkSent \/ Settle \/ Clean BY <1>1, <1>7 DEF MarkSent, Settle, Clean, PairsInv, Reading
<1>8. ~ Resend BY <1>1 DEF Resend, Requeue
<1>9. CASE Trim \/ SRem BY <1>1, <1>9 DEF Trim, SRem, PairsInv, Reading
<1>10. CASE Count
  <2>1. snap' = EmptySnap /\ disp' \in {"srem", "idle"} BY <1>10 DEF Count
  <2> QED BY <1>2, <2>1, SnapSteps DEF PairsInv, Reading
<1>11. ~ Abort BY <1>1 DEF Abort
<1>12. UNCHANGED <<disp, snap>> \/ Dispatcher
  BY <1>11 DEF Next, Api, Create, Enqueue, EnqueueWrite, CreateVerify, Activate, ReadStale, Supersede, EnqueueFails, Overdue, Ingest, Pop, Note, Write, Deliver, Crash, Execute, Drop, Reconnect, vars
<1> QED BY <1>3, <1>4, <1>5, <1>6, <1>7, <1>8, <1>9, <1>10, <1>12 DEF Dispatcher

\* With every command at most once in flight, the clean-up takes off the head of the
\* list that was answered, and nothing else.
LEMMA CleanTakesAnswered ==
  ASSUME Inv, Calm, Clean
  PROVE  /\ Len(snap.resp) <= Len(inflight) /\ Len(inflight') = Len(inflight) - Len(snap.resp)
         /\ \A k \in 1 .. Len(inflight) - Len(snap.resp) : inflight'[k] = inflight[Len(snap.resp) + k]
<1> DEFINE gone == {e \in ToSet(snap.inflight) : \A i \in Remaining : Id(i) # e.id}
           I == Stays(inflight, snap.inflight, gone)
           m == Len(snap.resp)
           n == Len(snap.inflight)
<1>1. inflight' = At(inflight, I) /\ disp = "resend" BY Zenon DEF Clean, LRemAll
<1>2. /\ inflight \in Seq(Good) /\ Len(inflight) \in Nat /\ snap.inflight \in Seq(Good)
      /\ n \in Nat /\ m \in Nat /\ \A e \in Good : e.id \in Cmds
  BY Typed
<1>3. Begins(snap.inflight, inflight) BY <1>1 DEF Inv, SnapInv, Reading
<1>4. m <= n BY <1>1, CalmFacts DEF PairsInv, Reading
<1>5. n <= Len(inflight) /\ \A i \in 1 .. n : snap.inflight[i] = inflight[i] BY <1>3 DEF Begins
<1>6. Remaining = m + 1 .. n
  <2>1. Paired = 1 .. m BY <1>2, <1>4 DEF Paired
  <2>2. Remaining = (1 .. n) \ (1 .. m) BY <2>1, CalmFacts DEF Unanswered
  <2> QED BY <1>2, <1>4, <2>2
<1>7. ASSUME NEW i \in 1 .. Len(inflight), NEW j \in 1 .. Len(inflight), inflight[i].id = inflight[j].id
      PROVE  i = j
  <2>1. inflight[i] \in Good BY <1>2, ElementOfSeq
  <2>2. inflight[i].id \in Cmds BY <1>2, <2>1
  <2> QED BY <1>7, <2>2, CalmFacts DEF Of
<1>8. ASSUME NEW i \in 1 .. m PROVE i \notin I
  <2>1. i \in 1 .. n /\ i \in 1 .. Len(inflight) BY <1>2, <1>4, <1>5
  <2>2. ASSUME NEW j \in Remaining, Id(j) = inflight[i].id PROVE FALSE
    <3>1. j \in 1 .. n /\ j \in 1 .. Len(inflight) /\ j # i BY <1>2, <1>5, <1>6
    <3>2. inflight[j].id = inflight[i].id BY <1>5, <2>2, <3>1 DEF Id
    <3> QED BY <1>7, <2>1, <3>1, <3>2
  <2>3. inflight[i] \in ToSet(snap.inflight) BY <1>5, <2>1 DEF ToSet
  <2>4. inflight[i] \in gone BY <2>2, <2>3
  <2> HIDE DEF gone
  <2> QED BY <1>2, <1>3, <2>1, <2>4, LRemTakes
<1>9. ASSUME NEW i \in m + 1 .. Len(inflight) PROVE i \in I
  <2>1. i \in 1 .. Len(inflight) BY <1>2
  <2>2. inflight[i] \notin gone
    <3>1. SUFFICES ASSUME inflight[i] \in gone PROVE FALSE OBVIOUS
    <3>5. inflight[i] \in ToSet(snap.inflight) BY <3>1
    <3>6. DOMAIN snap.inflight = 1 .. n BY <1>2, LenProperties
    <3>2. PICK j \in 1 .. n : snap.inflight[j] = inflight[i] BY <3>5, <3>6, Zenon DEF ToSet
    <3>3. j = i BY <1>2, <1>5, <1>7, <2>1, <3>2
    <3>4. i \in Remaining /\ Id(i) = inflight[i].id BY <1>2, <1>6, <3>2, <3>3 DEF Id
    <3> QED BY <3>1, <3>4
  <2> HIDE DEF gone
  <2> QED BY <2>1, <2>2 DEF Stays
<1>10. I \in SUBSET (1 .. Len(inflight)) BY DEF Stays
<1> HIDE DEF I
<1>11. I = m + 1 .. Len(inflight)
  <2>1. \A i \in 1 .. Len(inflight) : i \in 1 .. m \/ i \in m + 1 .. Len(inflight) BY <1>2
  <2> HIDE DEF m
  <2> QED BY <1>8, <1>9, <1>10, <2>1, Zenon
<1>12. m \in 0 .. Len(inflight) BY <1>2, <1>4, <1>5
<1> HIDE DEF m
<1>13. /\ Len(At(inflight, m + 1 .. Len(inflight))) = Len(inflight) - m
       /\ \A k \in 1 .. Len(inflight) - m : At(inflight, m + 1 .. Len(inflight))[k] = inflight[m + k]
  BY <1>2, <1>12, AtTail
<1>14. inflight' = At(inflight, m + 1 .. Len(inflight)) BY <1>1, <1>11
<1>15. m <= Len(inflight) BY <1>2, <1>12
<1> QED BY <1>13, <1>14, <1>15 DEF m

\* And the answers that were used leave the other list.
LEMMA TrimTakesAnswers ==
  ASSUME Inv, Calm, Trim
  PROVE  /\ Len(resp') = Len(resp) - Len(snap.resp)
         /\ \A k \in 1 .. Len(resp) - Len(snap.resp) : resp'[k] = resp[Len(snap.resp) + k]
<1> DEFINE m == Len(snap.resp)
<1>1. resp \in Seq(Response) /\ Len(resp) \in Nat /\ m \in Nat /\ Len(snap.inflight) \in Nat BY Typed
<1>2. m <= Len(snap.inflight) /\ m <= Len(resp)
  BY CalmFacts DEF Trim, PairsInv, Inv, SnapInv, Begins
<1>3. Paired = 1 .. m BY <1>1, <1>2 DEF Paired
<1>4. Cardinality(1 .. m) = m
  <2>1. 1 \in Int /\ m \in Int BY <1>1
  <2>2. Cardinality(1 .. m) = IF 1 > m THEN 0 ELSE m - 1 + 1 BY <2>1, FS_Interval
  <2> QED BY <1>1, <2>2
<1>5. resp' = SubSeq(resp, m + 1, Len(resp)) BY <1>3, <1>4 DEF Trim
<1> HIDE DEF m
<1>6. m + 1 \in 1 .. Len(resp) + 1 /\ Len(resp) \in m .. Len(resp) BY <1>1, <1>2 DEF m
<1>7. /\ Len(SubSeq(resp, m + 1, Len(resp))) = Len(resp) - m
      /\ \A k \in 1 .. Len(resp) - m : SubSeq(resp, m + 1, Len(resp))[k] = resp[m + k]
  BY <1>1, <1>6, SubSeqProperties
<1> QED BY <1>5, <1>7 DEF m

\* What is in flight stays what was answered, carried out, sent and noted.
LEMMA PathsKeep == ASSUME Inv, Calm, [Next]_vars PROVE Paths' /\ link'
<1>1. /\ Paths /\ link /\ Retried = {} /\ Cut \in 0 .. Len(resp)
      /\ ~ Spend("late") /\ ~ Spend("drop") /\ ~ Spend("abort") /\ ~ Spend("crash")
  BY CalmFacts
<1>2. /\ inflight \in Seq(Good) /\ resp \in Seq(Response) /\ out \in Seq(Response) /\ todo \in Seq(Cmds)
      /\ Len(inflight) \in Nat /\ Len(resp) \in Nat /\ Len(out) \in Nat /\ Len(todo) \in Nat
      /\ Len(snap.resp) \in Nat /\ hold \in Good \cup {None} /\ None \notin Good /\ noted \in BOOLEAN
      /\ \A e \in Good : e.id \in Cmds
  BY Typed
<1> DEFINE h == hold # None /\ noted
           nf == Len(inflight)  nr == Len(resp)  no == Len(out)  nt == Len(todo)
<1>3. /\ nf + Cut = nr + no + nt + (IF h THEN 1 ELSE 0)
      /\ \A i \in 1 .. nr : i > Cut => inflight[i - Cut].id = resp[i].id
      /\ \A i \in 1 .. no : inflight[nr - Cut + i].id = out[i].id
      /\ \A i \in 1 .. nt : inflight[nr - Cut + no + i].id = todo[i]
      /\ h => inflight[nf].id = hold.id
  BY <1>1 DEF Paths
<1>4. CASE UNCHANGED <<inflight, resp, out, todo, hold, noted, link>> /\ Cut' = Cut
  BY <1>1, <1>4 DEF Paths
<1>5. CASE Pop
  <2>1. UNCHANGED <<inflight, resp, out, todo, link, disp, snap>> /\ hold = None /\ noted' = FALSE
    BY <1>5 DEF Pop, device
  <2>2. Cut' = Cut BY <2>1 DEF Cut
  <2> QED BY <1>1, <2>1, <2>2 DEF Paths
<1>6. CASE Note
  <2>1. /\ UNCHANGED <<resp, out, todo, link, disp, snap, hold>> /\ hold # None /\ ~ noted /\ noted' = TRUE
        /\ inflight' = Append(inflight, hold)
    BY <1>6 DEF Note, device
  <2>2. Cut' = Cut BY <2>1 DEF Cut
  <2>3. Len(inflight') = nf + 1 /\ inflight'[nf + 1] = hold /\ \A i \in 1 .. nf : inflight'[i] = inflight[i]
    BY <1>2, <2>1, AppendProperties
  <2>4. nf + Cut = nr + no + nt BY <1>2, <1>3, <2>1
  <2>5. /\ \A i \in 1 .. nr : i > Cut => inflight'[i - Cut].id = resp[i].id
        /\ \A i \in 1 .. no : inflight'[nr - Cut + i].id = out[i].id
        /\ \A i \in 1 .. nt : inflight'[nr - Cut + no + i].id = todo[i]
    <3>1. Cut \in Nat /\ Cut <= nr BY <1>1, <1>2
    <3>2. \A i \in 1 .. nr : i > Cut => i - Cut \in 1 .. nf BY <1>2, <2>4, <3>1
    <3>3. \A i \in 1 .. no : nr - Cut + i \in 1 .. nf BY <1>2, <2>4, <3>1
    <3>4. \A i \in 1 .. nt : nr - Cut + no + i \in 1 .. nf BY <1>2, <2>4, <3>1
    <3> HIDE DEF nf, nr, no, nt
    <3> QED BY <1>3, <2>3, <3>2, <3>3, <3>4
  <2>6. (nf + 1) + Cut = nr + no + nt + 1
    <3>1. Cut \in Nat BY <1>1, <1>2
    <3>2. PICK f \in Nat, r \in Nat, o \in Nat, t \in Nat, k \in Nat :
            f = nf /\ r = nr /\ o = no /\ t = nt /\ k = Cut
      BY <1>2, <3>1
    <3>3. f + k = r + o + t BY <2>4, <3>2
    <3>4. (f + 1) + k = r + o + t + 1 BY <3>3
    <3> QED BY <3>2, <3>4
  <2> QED BY <1>1, <2>1, <2>2, <2>3, <2>5, <2>6 DEF Paths
<1>7. CASE Write
  <2>1. /\ UNCHANGED <<inflight, resp, out, link, disp, snap>> /\ h /\ hold' = None
        /\ todo' = Append(todo, hold.id)
    BY <1>1, <1>7 DEF Write, lists
  <2>2. Cut' = Cut BY <2>1 DEF Cut
  <2>3. hold.id \in Cmds BY <1>2, <2>1
  <2>4. Len(todo') = nt + 1 /\ todo'[nt + 1] = hold.id /\ \A i \in 1 .. nt : todo'[i] = todo[i]
    BY <1>2, <2>1, <2>3, AppendProperties
  <2>5. nf = nr - Cut + no + (nt + 1) BY <1>1, <1>2, <1>3, <2>1
  <2>6. \A i \in 1 .. nt + 1 : inflight[nr - Cut + no + i].id = todo'[i]
    <3>1. TAKE i \in 1 .. nt + 1
    <3>2. CASE i = nt + 1 BY <1>3, <2>1, <2>4, <2>5, <3>2
    <3>3. CASE i \in 1 .. nt BY <1>3, <2>4, <3>3
    <3> QED BY <1>2, <3>2, <3>3, SMTT(30)
  <2>7. nf + Cut = nr + no + (nt + 1) BY <1>1, <1>2, <2>5
  <2> QED BY <1>1, <1>2, <1>3, <2>1, <2>2, <2>4, <2>6, <2>7 DEF Paths
<1>8. CASE Execute
  <2>1. UNCHANGED <<inflight, resp, link, disp, snap, hold, noted>> /\ todo # <<>> /\ todo' = Tail(todo)
    BY <1>8 DEF Execute, lists, ingest
  <2>2. Head(todo) \in Cmds /\ Head(todo) = todo[1] /\ nt >= 1 BY <1>2, <2>1, HeadTailProperties, EmptySeq
  <2>3. PICK a \in Response : out' = Append(out, a) /\ a.id = todo[1]
    <3>1. \E b \in BOOLEAN : out' = Append(out, [id |-> Head(todo), nack |-> b]) BY <1>8 DEF Execute
    <3> QED BY <2>2, <3>1 DEF Response
  <2>4. Cut' = Cut BY <2>1 DEF Cut
  <2>5. Len(todo') = nt - 1 /\ \A i \in 1 .. nt - 1 : todo'[i] = todo[i + 1] BY <1>2, <2>1, HeadTailProperties
  <2>6. Len(out') = no + 1 /\ out'[no + 1] = a /\ \A i \in 1 .. no : out'[i] = out[i]
    BY <1>2, <2>3, AppendProperties
  <2>7. \A i \in 1 .. no + 1 : inflight[nr - Cut + i].id = out'[i].id
    <3>1. TAKE i \in 1 .. no + 1
    <3>2. CASE i = no + 1
      <4>1. 1 \in 1 .. nt /\ nr - Cut + no + 1 = nr - Cut + i BY <1>1, <1>2, <2>2, <3>2
      <4> QED BY <1>3, <2>3, <2>6, <3>2, <4>1
    <3>3. CASE i \in 1 .. no BY <1>3, <2>6, <3>3
    <3> QED BY <1>2, <3>2, <3>3
  <2>8. \A i \in 1 .. nt - 1 : inflight[nr - Cut + (no + 1) + i].id = todo'[i]
    <3>1. TAKE i \in 1 .. nt - 1
    <3>2. i + 1 \in 1 .. nt /\ nr - Cut + no + (i + 1) = nr - Cut + (no + 1) + i BY <1>1, <1>2
    <3> QED BY <1>3, <2>5, <3>2
  <2>9. nf + Cut = nr + (no + 1) + (nt - 1) + (IF h THEN 1 ELSE 0)
    <3>1. Cut \in Nat BY <1>1, <1>2
    <3>2. PICK x \in Nat : x = IF h THEN 1 ELSE 0 OBVIOUS
    <3>3. PICK f \in Nat, r \in Nat, o \in Nat, t \in Nat, k \in Nat :
            f = nf /\ r = nr /\ o = no /\ t = nt /\ k = Cut
      BY <1>2, <3>1
    <3>4. f + k = r + o + t + x BY <1>3, <3>2, <3>3
    <3>5. f + k = (r + (o + 1)) + (t - 1) + x BY <3>4
    <3> QED BY <3>2, <3>3, <3>5
  <2> QED BY <1>1, <1>3, <2>1, <2>4, <2>5, <2>6, <2>7, <2>8, <2>9 DEF Paths
<1>9. CASE Deliver
  <2>1. /\ UNCHANGED <<inflight, todo, link, disp, snap, hold, noted>> /\ out # <<>> /\ out' = Tail(out)
        /\ resp' = Append(resp, Head(out))
    BY <1>9 DEF Deliver, ingest
  <2>2. Head(out) \in Response /\ Head(out) = out[1] /\ no >= 1 BY <1>2, <2>1, HeadTailProperties, EmptySeq
  <2>4. Cut' = Cut BY <2>1 DEF Cut
  <2>5. Len(out') = no - 1 /\ \A i \in 1 .. no - 1 : out'[i] = out[i + 1] BY <1>2, <2>1, HeadTailProperties
  <2>6. Len(resp') = nr + 1 /\ resp'[nr + 1] = out[1] /\ \A i \in 1 .. nr : resp'[i] = resp[i]
    BY <1>2, <2>1, <2>2, AppendProperties
  <2>7. \A i \in 1 .. nr + 1 : i > Cut => inflight[i - Cut].id = resp'[i].id
    <3>1. TAKE i \in 1 .. nr + 1
    <3>2. CASE i = nr + 1
      <4>1. 1 \in 1 .. no /\ nr - Cut + 1 = i - Cut BY <1>1, <1>2, <2>2, <3>2
      <4> QED BY <1>3, <2>6, <3>2, <4>1
    <3>3. CASE i \in 1 .. nr BY <1>3, <2>6, <3>3
    <3> QED BY <1>2, <3>2, <3>3
  <2>8. \A i \in 1 .. no - 1 : inflight[(nr + 1) - Cut + i].id = out'[i].id
    <3>1. TAKE i \in 1 .. no - 1
    <3>2. i + 1 \in 1 .. no /\ nr - Cut + (i + 1) = (nr + 1) - Cut + i BY <1>1, <1>2
    <3> QED BY <1>3, <2>5, <3>2
  <2>9. \A i \in 1 .. nt : inflight[(nr + 1) - Cut + (no - 1) + i].id = todo[i]
    <3>1. TAKE i \in 1 .. nt
    <3>2. nr - Cut + no + i = (nr + 1) - Cut + (no - 1) + i BY <1>1, <1>2
    <3> QED BY <1>3, <3>2
  <2>10. nf + Cut = (nr + 1) + (no - 1) + nt + (IF h THEN 1 ELSE 0)
    <3>1. Cut \in Nat BY <1>1, <1>2
    <3>2. PICK x \in Nat : x = IF h THEN 1 ELSE 0 OBVIOUS
    <3>3. PICK f \in Nat, r \in Nat, o \in Nat, t \in Nat, k \in Nat :
            f = nf /\ r = nr /\ o = no /\ t = nt /\ k = Cut
      BY <1>2, <3>1
    <3>4. f + k = r + o + t + x BY <1>3, <3>2, <3>3
    <3>5. f + k = ((r + 1) + (o - 1)) + t + x BY <3>4
    <3> QED BY <3>2, <3>3, <3>5
  <2> QED BY <1>1, <1>3, <2>1, <2>4, <2>5, <2>6, <2>7, <2>8, <2>9, <2>10 DEF Paths
<1>10. CASE Clean
  <2> DEFINE m == Len(snap.resp)
  <2>1. /\ UNCHANGED <<resp, out, todo, link, snap, hold, noted>> /\ disp = "resend" /\ disp' = "trim"
    BY <1>10 DEF Clean, ingest, device
  <2>2. Cut = 0 /\ Cut' = m BY <2>1 DEF Cut
  <2>3. m <= nf /\ Len(inflight') = nf - m /\ \A k \in 1 .. nf - m : inflight'[k] = inflight[m + k]
    BY <1>10, CleanTakesAnswered
  <2>4. m <= nr BY <2>1 DEF Inv, SnapInv, Begins, Reading
  <2> HIDE DEF m
  <2>5. m \in Nat BY <1>2 DEF m
  <2>6. nf = nr + no + nt + (IF h THEN 1 ELSE 0) BY <1>2, <1>3, <2>2
  <2>7. \A p \in m + 1 .. nf : inflight'[p - m] = inflight[p]
    <3>1. TAKE p \in m + 1 .. nf
    <3>2. p - m \in 1 .. nf - m /\ m + (p - m) = p BY <1>2, <2>5
    <3> QED BY <2>3, <3>2
  <2>8. \A i \in 1 .. nr : i > m => inflight'[i - m].id = resp[i].id
    <3>1. TAKE i \in 1 .. nr
    <3>2. i > m => i \in m + 1 .. nf BY <1>2, <2>5, <2>6
    <3>3. inflight[i].id = resp[i].id BY <1>2, <1>3, <2>2
    <3> QED BY <2>7, <3>2, <3>3
  <2>9. \A i \in 1 .. no : inflight'[nr - m + i].id = out[i].id
    <3>1. TAKE i \in 1 .. no
    <3>2. nr + i \in m + 1 .. nf /\ (nr + i) - m = nr - m + i BY <1>2, <2>4, <2>5, <2>6
    <3>3. inflight[nr + i].id = out[i].id
      <4>1. nr - Cut + i = nr + i BY <1>2, <2>2
      <4> QED BY <1>3, <4>1
    <3> QED BY <2>7, <3>2, <3>3
  <2>10. \A i \in 1 .. nt : inflight'[nr - m + no + i].id = todo[i]
    <3>1. TAKE i \in 1 .. nt
    <3>2. nr + no + i \in m + 1 .. nf /\ (nr + no + i) - m = nr - m + no + i BY <1>2, <2>4, <2>5, <2>6
    <3>3. inflight[nr + no + i].id = todo[i]
      <4>1. nr - Cut + no + i = nr + no + i BY <1>2, <2>2
      <4> QED BY <1>3, <4>1
    <3> QED BY <2>7, <3>2, <3>3
  <2>11. h => inflight'[nf - m].id = hold.id
    <3>1. h => nf \in m + 1 .. nf BY <1>2, <2>4, <2>5, <2>6
    <3> QED BY <1>3, <2>7, <3>1
  <2>12. (nf - m) + m = nr + no + nt + (IF h THEN 1 ELSE 0) BY <1>2, <2>5, <2>6
  <2> QED BY <1>1, <2>1, <2>2, <2>3, <2>8, <2>9, <2>10, <2>11, <2>12 DEF Paths
<1>11. CASE Trim
  <2> DEFINE m == Len(snap.resp)
  <2>1. /\ UNCHANGED <<inflight, out, todo, link, snap, hold, noted>> /\ disp = "trim" /\ disp' = "count"
    BY <1>11 DEF Trim, ingest, device
  <2>2. Cut = m /\ Cut' = 0 BY <2>1 DEF Cut
  <2>3. Len(resp') = nr - m /\ \A k \in 1 .. nr - m : resp'[k] = resp[m + k]
    BY <1>11, TrimTakesAnswers
  <2> HIDE DEF m
  <2>4. m \in Nat /\ m <= nr BY <1>1, <1>2, <2>2
  <2>5. \A i \in 1 .. nr - m : i > 0 => inflight[i - 0].id = resp'[i].id
    <3>1. TAKE i \in 1 .. nr - m
    <3>2. m + i \in 1 .. nr /\ m + i > Cut /\ (m + i) - Cut = i /\ i - 0 = i BY <1>2, <2>2, <2>4
    <3> QED BY <1>3, <2>3, <3>2
  <2>6. (nr - m) - 0 = nr - Cut BY <1>2, <2>2, <2>4
  <2>7. nf + 0 = (nr - m) + no + nt + (IF h THEN 1 ELSE 0) BY <1>2, <1>3, <2>2, <2>4
  <2> QED BY <1>1, <1>3, <2>1, <2>2, <2>3, <2>5, <2>6, <2>7 DEF Paths
<1>12. CASE Sweep \/ Snapshot \/ Purge \/ MarkSent \/ Settle \/ Count \/ SRem
  <2>1. UNCHANGED <<inflight, resp, out, todo, hold, noted, link>> /\ disp # "trim" /\ disp' # "trim"
    BY <1>12 DEF Sweep, Snapshot, Purge, MarkSent, Settle, Count, SRem, lists, ingest, device
  <2>2. Cut' = Cut BY <2>1 DEF Cut
  <2> QED BY <1>4, <2>1, <2>2
<1>13. CASE UNCHANGED <<inflight, resp, out, todo, hold, noted, link, disp, snap>>
  <2>1. Cut' = Cut BY <1>13 DEF Cut
  <2> QED BY <1>4, <1>13, <2>1
<1>14. ~ Resend /\ ~ Crash /\ ~ Drop /\ ~ Abort /\ ~ Reconnect
  BY <1>1 DEF Resend, Requeue, Crash, Drop, Abort, Reconnect
<1>15. \/ UNCHANGED <<inflight, resp, out, todo, hold, noted, link, disp, snap>>
       \/ Pop \/ Note \/ Write \/ Execute \/ Deliver \/ Dispatcher
  BY <1>14 DEF Next, Api, Create, Enqueue, EnqueueWrite, CreateVerify, Activate, ReadStale, Supersede, EnqueueFails, Overdue, Ingest, vars, lists, ingest, device
<1> QED BY <1>5, <1>6, <1>7, <1>8, <1>9, <1>10, <1>11, <1>12, <1>13, <1>14, <1>15 DEF Dispatcher

\* A command that was not queued before comes after everything that is under way.
LEMMA OrderAppend ==
  ASSUME Inv, NEW s, NEW e, NEW t, Longer(s, e, t), InOrder(s), e.id \in Nat, e.id > Passed,
         \A i \in 1 .. Len(s) : s[i].id < e.id
  PROVE  InOrder(t)
<1>1. /\ \A i \in 1 .. Len(todo) : todo[i] <= Passed
      /\ hold # None => hold.id <= Passed
      /\ value <= Passed
  BY DEF Inv, PassedInv
<1>2. Passed \in Int BY NewestOK DEF Passed, Owed, Inv
<1>3. /\ todo \in Seq(Cmds) /\ Cmds \in SUBSET Nat /\ value \in Nat
      /\ hold # None => hold.id \in Nat
  BY Typed
<1>4. \A i \in 1 .. Len(todo) : todo[i] \in Nat BY <1>3, ElementOfSeq
<1>5. /\ \A i \in 1 .. Len(todo) : todo[i] < e.id
      /\ hold # None => hold.id < e.id
      /\ value <= e.id
  BY <1>1, <1>2, <1>3, <1>4
<1> DEFINE m == Len(s)
<1>6. m \in Nat /\ Len(t) = m + 1 /\ t[m + 1] = e /\ \A i \in 1 .. m : t[i] = s[i] BY DEF Longer
<1>7. /\ \A i, j \in 1 .. m : i < j => s[i].id < s[j].id
      /\ \A i \in 1 .. m : value <= s[i].id
      /\ \A i \in 1 .. Len(todo), j \in 1 .. m : todo[i] < s[j].id
      /\ hold # None => \A i \in 1 .. m : hold.id < s[i].id
  BY DEF InOrder
<1> HIDE DEF m
<1>8. 1 .. m + 1 = (1 .. m) \cup {m + 1} BY <1>6
<1>9. \A i, j \in 1 .. m + 1 : i < j => t[i].id < t[j].id
  <2>1. TAKE i, j \in 1 .. m + 1
  <2>2. SUFFICES ASSUME i < j PROVE t[i].id < t[j].id OBVIOUS
  <2>3. i \in 1 .. m BY <1>6, <2>2
  <2>4. CASE j = m + 1 BY <1>6, <2>3, <2>4 DEF m
  <2>5. CASE j \in 1 .. m BY <1>6, <1>7, <2>2, <2>3, <2>5
  <2> QED BY <1>8, <2>4, <2>5
<1>10. /\ \A i \in 1 .. m + 1 : value <= t[i].id
       /\ \A i \in 1 .. Len(todo), j \in 1 .. m + 1 : todo[i] < t[j].id
       /\ hold # None => \A i \in 1 .. m + 1 : hold.id < t[i].id
  BY <1>5, <1>6, <1>7, <1>8
<1> QED BY <1>6, <1>9, <1>10 DEF InOrder

\* What is taken out of the queue leaves the rest in order.
LEMMA OrderCut ==
  ASSUME Inv, InOrder(pending), NEW I \in SUBSET (1 .. Len(pending))
  PROVE  /\ InOrder(At(pending, I)) /\ At(pending, I) \in Seq(Good)
         /\ \A k \in 1 .. Len(At(pending, I)) : \E i \in 1 .. Len(pending) : At(pending, I)[k] = pending[i]
<1> DEFINE s == At(pending, I)
<1>1. pending \in Seq(Good) BY Typed
<1>2. PICK g \in [1 .. Len(s) -> I] :
        /\ \A k \in 1 .. Len(s) : s[k] = pending[g[k]]
        /\ \A k, l \in 1 .. Len(s) : k < l => g[k] < g[l]
  BY <1>1, AtThins
<1>3. s \in Seq(Good) BY <1>1, AtThins
<1> HIDE DEF s
<1>4. \A k \in 1 .. Len(s) : g[k] \in 1 .. Len(pending) /\ s[k] = pending[g[k]] BY <1>2
<1>5. InOrder(s) BY <1>2, <1>4, SMTT(30) DEF InOrder
<1> QED BY <1>3, <1>4, <1>5 DEF s

\* The commands are on their way in the order in which they were issued.
LEMMA OrderKeeps == ASSUME Inv, Calm, [Next]_vars PROVE OrderInv'
<1>1. /\ InOrder(pending) /\ Retried = {} /\ link
      /\ ~ Spend("late") /\ ~ Spend("drop") /\ ~ Spend("abort") /\ ~ Spend("crash")
  BY CalmFacts
<1>2. /\ pending \in Seq(Good) /\ Len(pending) \in Nat /\ todo \in Seq(Cmds) /\ Len(todo) \in Nat
      /\ hold \in Good \cup {None} /\ None \notin Good /\ Cmds \in SUBSET Nat /\ value \in Nat
      /\ \A e \in Good : e.id \in Cmds
  BY Typed
<1>3. ASSUME UNCHANGED <<todo, hold, value>>, InOrder(pending') PROVE OrderInv'
  BY <1>3 DEF OrderInv, InOrder
<1>4. CASE UNCHANGED <<todo, hold, value, pending>> BY <1>1, <1>3, <1>4
<1>5. \A i \in 1 .. Len(pending) : pending[i].id <= Passed /\ pending[i].id \in Nat
  <2>1. \A i \in 1 .. Len(pending) : pending[i].id <= Passed BY DEF Inv, PassedInv
  <2>2. \A i \in 1 .. Len(pending) : pending[i] \in Good BY <1>2, ElementOfSeq
  <2> QED BY <1>2, <2>1, <2>2
<1>6. Newest \in 0 .. NumCmds /\ Passed \in Int BY NewestOK DEF Passed, Owed, Inv
<1>7. CASE Enqueue
  <2>1. Newest \in Cmds /\ Passed = Newest - 1 /\ UNCHANGED <<todo, hold, value>>
    BY <1>7, ApiKeeps DEF Enqueue, Inv, ApiInv, ingest, device
  <2>2. PICK e : e = Entered(Newest) OBVIOUS
  <2>3. e \in Good /\ e.id = Newest /\ pending' = Append(pending, e)
    BY <1>7, <2>1, <2>2, GoodFacts DEF Enqueue
  <2>4. Longer(pending, e, pending') BY <1>2, <2>3, AppendProperties DEF Longer
  <2>5. e.id \in Nat /\ e.id > Passed BY <1>6, <2>1, <2>3
  <2>6. \A i \in 1 .. Len(pending) : pending[i].id < e.id BY <1>5, <1>6, <2>5
  <2>7. InOrder(pending') BY <1>1, <2>4, <2>5, <2>6, OrderAppend
  <2> QED BY <1>3, <2>1, <2>7
<1>8. CASE EnqueueWrite
  <2>1. Newest - 1 \in Cmds /\ Newest \in Cmds /\ Passed = Newest - 2 /\ UNCHANGED <<todo, hold, value>>
    BY <1>8, ApiKeeps DEF EnqueueWrite, Inv, ApiInv, ingest, device
  <2>2. PICK a, b : a = Entered(Newest - 1) /\ b = Entered(Newest) OBVIOUS
  <2>3. a \in Good /\ a.id = Newest - 1 /\ b \in Good /\ b.id = Newest BY <2>1, <2>2, GoodFacts
  <2> DEFINE I == {i \in 1 .. Len(pending) : pending[i] \notin stale}
  <2>4. PICK s : s = At(pending, I) OBVIOUS
  <2>5. /\ InOrder(s) /\ s \in Seq(Good)
        /\ \A k \in 1 .. Len(s) : \E i \in 1 .. Len(pending) : s[k] = pending[i]
    <3>1. I \in SUBSET (1 .. Len(pending)) OBVIOUS
    <3> HIDE DEF I
    <3> QED BY <1>1, <2>4, <3>1, OrderCut
  <2>6. pending' = s \o <<a, b>> BY <1>8, <2>2, <2>4 DEF EnqueueWrite
  <2>7. PICK t : t = Append(s, a) OBVIOUS
  <2>8. t \in Seq(Good) /\ pending' = Append(t, b) BY <2>3, <2>5, <2>6, <2>7, ConcatTwo, AppendProperties
  <2>9. Longer(s, a, t) BY <2>3, <2>5, <2>7, AppendProperties, LenProperties DEF Longer
  <2>10. Longer(t, b, pending') BY <2>3, <2>8, AppendProperties, LenProperties DEF Longer
  <2>11. a.id \in Nat /\ b.id \in Nat /\ a.id > Passed /\ b.id > Passed /\ a.id < b.id
    <3>1. PICK n \in Nat, p \in Int : n = Newest /\ p = Passed BY <1>6
    <3>2. n - 1 \in Nat /\ p = n - 2 BY <1>2, <2>1, <3>1
    <3>3. n - 1 > p /\ n > p /\ n - 1 < n BY <3>2
    <3> QED BY <2>3, <3>1, <3>2, <3>3
  <2>12. \A k \in 1 .. Len(s) : s[k].id < a.id /\ s[k].id < b.id
    <3>1. \A i \in 1 .. Len(pending) : pending[i].id < a.id /\ pending[i].id < b.id BY <1>5, <1>6, <2>11
    <3> QED BY <2>5, <3>1
  <2>13. InOrder(t) BY <2>5, <2>9, <2>11, <2>12, OrderAppend
  <2>14. \A k \in 1 .. Len(t) : t[k].id < b.id
    <3>1. Len(s) \in Nat /\ Len(t) = Len(s) + 1 /\ t[Len(s) + 1] = a /\ \A i \in 1 .. Len(s) : t[i] = s[i]
      BY <2>9 DEF Longer
    <3>2. \A k \in 1 .. Len(t) : k = Len(s) + 1 \/ k \in 1 .. Len(s) BY <3>1
    <3> QED BY <2>11, <2>12, <3>1, <3>2
  <2>15. InOrder(pending') BY <2>10, <2>11, <2>13, <2>14, OrderAppend
  <2> QED BY <1>3, <2>1, <2>15
<1>9. CASE Pop
  <2>1. /\ pending # <<>> /\ pending' = Tail(pending) /\ hold' \in {None, Head(pending)} /\ hold = None
        /\ UNCHANGED <<todo, value>>
    BY <1>9 DEF Pop, device
  <2>2. Head(pending) = pending[1] /\ Len(pending) >= 1 BY <1>2, <2>1, EmptySeq
  <2>3. Len(pending') = Len(pending) - 1 /\ \A i \in 1 .. Len(pending) - 1 : pending'[i] = pending[i + 1]
    BY <1>2, <2>1, HeadTailProperties
  <2>4. \A i \in 1 .. Len(pending) - 1 : i + 1 \in 1 .. Len(pending) /\ 1 < i + 1 BY <1>2
  <2>5. 1 \in 1 .. Len(pending) BY <1>2, <2>2
  <2>6. \A i, j \in 1 .. Len(pending') : i < j => pending'[i].id < pending'[j].id
    <3>1. TAKE i, j \in 1 .. Len(pending')
    <3>2. i < j => i + 1 < j + 1 BY <1>2, <2>3
    <3>3. i + 1 \in 1 .. Len(pending) /\ j + 1 \in 1 .. Len(pending) BY <2>3, <2>4
    <3> QED BY <1>1, <2>3, <3>2, <3>3 DEF InOrder
  <2>7. /\ \A i \in 1 .. Len(pending') : value <= pending'[i].id /\ pending[1].id < pending'[i].id
        /\ \A i \in 1 .. Len(todo), j \in 1 .. Len(pending') : todo[i] < pending'[j].id
    BY <1>1, <2>3, <2>4, <2>5 DEF InOrder
  <2>8. value <= pending[1].id /\ \A i \in 1 .. Len(todo) : todo[i] < pending[1].id
    BY <1>1, <2>5 DEF InOrder
  <2>9. /\ \A i, j \in 1 .. Len(todo) : i < j => todo[i] < todo[j]
        /\ \A i \in 1 .. Len(todo) : value <= todo[i]
    BY <1>1 DEF InOrder
  <2> QED BY <2>1, <2>2, <2>6, <2>7, <2>8, <2>9 DEF OrderInv, InOrder
<1>10. CASE Write
  <2>1. /\ UNCHANGED <<pending, value>> /\ hold # None /\ hold' = None
        /\ todo' = Append(todo, hold.id)
    BY <1>1, <1>10 DEF Write, lists
  <2>2. hold.id \in Cmds BY <1>2, <2>1
  <2> DEFINE nt == Len(todo)
  <2>3. Len(todo') = nt + 1 /\ todo'[nt + 1] = hold.id /\ \A i \in 1 .. nt : todo'[i] = todo[i]
    BY <1>2, <2>1, <2>2, AppendProperties
  <2>4. 1 .. nt + 1 = (1 .. nt) \cup {nt + 1} BY <1>2
  <2>5. \A i, j \in 1 .. nt + 1 : i < j => todo'[i] < todo'[j]
    <3>1. TAKE i, j \in 1 .. nt + 1
    <3>2. SUFFICES ASSUME i < j PROVE todo'[i] < todo'[j] OBVIOUS
    <3>3. i \in 1 .. nt BY <1>2, <3>2
    <3>4. CASE j = nt + 1 BY <1>1, <2>1, <2>3, <3>3, <3>4 DEF InOrder
    <3>5. CASE j \in 1 .. nt BY <1>1, <2>3, <3>2, <3>3, <3>5 DEF InOrder
    <3> QED BY <2>4, <3>4, <3>5
  <2>6. /\ \A i \in 1 .. nt + 1 : value <= todo'[i]
        /\ \A i \in 1 .. nt + 1, j \in 1 .. Len(pending) : todo'[i] < pending[j].id
    BY <1>1, <2>1, <2>3, <2>4 DEF InOrder
  <2> QED BY <1>1, <2>1, <2>3, <2>5, <2>6 DEF OrderInv, InOrder
<1>11. CASE Execute
  <2>1. UNCHANGED <<pending, hold>> /\ todo # <<>> /\ todo' = Tail(todo) /\ value' \in {value, Head(todo)}
    BY <1>11 DEF Execute, lists, ingest
  <2>2. Head(todo) = todo[1] /\ Len(todo) >= 1 BY <1>2, <2>1, EmptySeq
  <2>3. Len(todo') = Len(todo) - 1 /\ \A i \in 1 .. Len(todo) - 1 : todo'[i] = todo[i + 1]
    BY <1>2, <2>1, HeadTailProperties
  <2>4. \A i \in 1 .. Len(todo) - 1 : i + 1 \in 1 .. Len(todo) /\ 1 < i + 1 BY <1>2
  <2>5. 1 \in 1 .. Len(todo) BY <1>2, <2>2
  <2>6. \A i, j \in 1 .. Len(todo') : i < j => todo'[i] < todo'[j]
    <3>1. TAKE i, j \in 1 .. Len(todo')
    <3>2. i < j => i + 1 < j + 1 BY <1>2, <2>3
    <3>3. i + 1 \in 1 .. Len(todo) /\ j + 1 \in 1 .. Len(todo) BY <2>3, <2>4
    <3> QED BY <1>1, <2>3, <3>2, <3>3 DEF InOrder
  <2>7. \A i \in 1 .. Len(todo) : todo[i] \in Nat BY <1>2, ElementOfSeq
  <2>8. \A x \in Nat : todo[1] < x => todo[1] <= x BY <2>5, <2>7
  <2>9. \A i \in 1 .. Len(todo') : value' <= todo'[i]
    <3>1. TAKE i \in 1 .. Len(todo')
    <3>2. i + 1 \in 1 .. Len(todo) /\ 1 < i + 1 /\ todo'[i] = todo[i + 1] BY <2>3, <2>4
    <3>3. value <= todo[i + 1] /\ todo[1] < todo[i + 1] BY <1>1, <2>5, <3>2 DEF InOrder
    <3> QED BY <2>1, <2>2, <2>7, <2>8, <3>2, <3>3
  <2>10. \A j \in 1 .. Len(pending) : value' <= pending[j].id
    <3>1. TAKE j \in 1 .. Len(pending)
    <3>2. value <= pending[j].id /\ todo[1] < pending[j].id BY <1>1, <2>5 DEF InOrder
    <3> QED BY <1>5, <2>1, <2>2, <2>8, <3>2
  <2>11. \A i \in 1 .. Len(todo'), j \in 1 .. Len(pending) : todo'[i] < pending[j].id
    BY <1>1, <2>3, <2>4 DEF InOrder
  <2>12. hold # None => /\ value' <= hold.id
                        /\ \A i \in 1 .. Len(todo') : todo'[i] < hold.id
    <3>1. SUFFICES ASSUME hold # None
                   PROVE  value' <= hold.id /\ \A i \in 1 .. Len(todo') : todo'[i] < hold.id
      OBVIOUS
    <3>2. value <= hold.id /\ \A i \in 1 .. Len(todo) : todo[i] < hold.id BY <1>1, <3>1 DEF InOrder
    <3>3. hold.id \in Nat BY <1>2, <3>1
    <3>4. value' <= hold.id BY <2>1, <2>2, <2>5, <2>8, <3>2, <3>3
    <3>5. \A i \in 1 .. Len(todo') : todo'[i] < hold.id BY <2>3, <2>4, <3>2
    <3> QED BY <3>4, <3>5
  <2> QED BY <1>1, <2>1, <2>6, <2>9, <2>10, <2>11, <2>12 DEF OrderInv, InOrder
<1>12. CASE Purge
  <2>1. PICK es, E : pending' = LRemAll(pending, es, E) BY <1>12, Zenon DEF Purge
  <2>2. Stays(pending, es, E) \in SUBSET (1 .. Len(pending)) BY DEF Stays
  <2>3. InOrder(pending') BY <1>1, <2>1, <2>2, OrderCut DEF LRemAll
  <2>4. UNCHANGED <<todo, hold, value>> BY <1>12 DEF Purge, ingest, device
  <2> QED BY <1>3, <2>3, <2>4
<1>13. ~ Resend /\ ~ Crash /\ ~ Drop BY <1>1 DEF Resend, Requeue, Crash, Drop
<1>14. UNCHANGED <<todo, hold, value, pending>> \/ Enqueue \/ EnqueueWrite \/ Pop \/ Write \/ Execute \/ Purge
  BY <1>13 DEF Next, Api, Create, CreateVerify, Activate, ReadStale, Supersede, EnqueueFails, Overdue, Ingest, Note, Deliver, Reconnect, Dispatcher, Sweep, Snapshot, MarkSent, Settle, Clean, Trim, Count, SRem, Abort, vars, lists, ingest, device
<1> QED BY <1>4, <1>7, <1>8, <1>9, <1>10, <1>11, <1>12, <1>14

\* Every step keeps what holds when nothing is late or lost.
LEMMA CalmKeeps == ASSUME Inv, [Next]_vars PROVE CalmInv'
<1>1. SUFFICES ASSUME Calm PROVE InFlightInv' /\ OrderInv' BY DEF CalmInv, Calm
<1>2. AckedIsAnswered' BY <1>1, AckedKeeps
<1>3. PairsInv' /\ snap'.old = 0 BY <1>1, PairsKeep
<1>4. Paths' /\ link' BY <1>1, PathsKeep
<1>5. OrderInv' BY <1>1, OrderKeeps
<1> QED BY <1>2, <1>3, <1>4, <1>5 DEF InFlightInv

-----------------------------------------------------------------------------
(* The theorems.                                                           *)

\* The first state.
LEMMA InitInv == ASSUME Init PROVE Inv
<1> USE DEF Init
<1>1. RowInv
  <2>1. \A c \in Cmds : db[c] = "none" OBVIOUS
  <2> QED BY <2>1 DEF RowInv, Made
<1>2. <<>> \in Seq(Good) /\ <<>> \in Seq(Response) /\ <<>> \in Seq(Cmds) OBVIOUS
<1>3. EmptySnap \in SnapType /\ EmptySnap.sent = 0 /\ EmptySnap.old = 0
  <2>1. EmptySnap = SnapOf(<<>>, <<>>, <<>>, 0, 0, 0) BY DEF EmptySnap, SnapOf
  <2>2. 0 \in 0 .. NumCmds /\ 0 \in Nat BY CommandAssumption
  <2>3. SnapOf(<<>>, <<>>, <<>>, 0, 0, 0) \in SnapType BY <1>2, <2>2, SnapHas
  <2>4. EmptySnap.sent = 0 /\ EmptySnap.old = 0 BY DEF EmptySnap
  <2> QED BY <2>1, <2>3, <2>4
<1>4. TypeInv
  <2>1. \A k \in Faults : spent[k] = 0 /\ Limit(k) \in Nat BY CommandAssumption DEF Faults, Limit
  <2>2. spent \in [Faults -> Nat] /\ \A k \in Faults : spent[k] <= Limit(k) BY <2>1
  <2>3. over \in 0 .. NumCmds BY CommandAssumption
  <2>4. snap \in SnapType BY <1>3
  <2> QED BY <1>2, <2>2, <2>3, <2>4 DEF TypeInv, SnapType
<1>5. Newest = 0
  <2>1. {c \in Cmds : db[c] # "none"} = {} OBVIOUS
  <2> QED BY <2>1, FS_EmptySet DEF Newest
<1>6. Passed = 0 BY <1>5 DEF Passed, Owed
<1>7. ApiInv BY DEF ApiInv
<1>8. PassedInv BY <1>6 DEF PassedInv
<1>9. SnapInv BY <1>3 DEF SnapInv, Reading
<1>10. ASSUME NEW c \in Cmds PROVE OneEntry(c)
  <2>1. runs[c] = 0 /\ InHand(c) = 0 BY DEF InHand
  <2>2. InTodo(c) = 0
    <3>1. {i \in 1 .. Len(todo) : todo[i] = c} = {} OBVIOUS
    <3> QED BY <3>1, FS_EmptySet DEF InTodo
  <2>3. Sent(c) = 0 BY <2>1, <2>2 DEF Sent
  <2>4. Most(c) \in Nat BY GoodFacts
  <2>5. Queued(c) = {} /\ Flying(c) = {} /\ ~ Popped(c) /\ disp \notin Reading
    BY DEF Queued, Flying, Popped, Reading
  <2> QED BY <2>3, <2>4, <2>5 DEF OneEntry
<1>11. InFlightInv
  <2>1. Cut = 0 BY DEF Cut
  <2>2. Paths BY <2>1 DEF Paths
  <2>3. PairsInv BY DEF PairsInv, Reading
  <2>4. AckedIsAnswered BY DEF AckedIsAnswered
  <2> QED BY <1>3, <2>2, <2>3, <2>4 DEF InFlightInv
<1>12. OrderInv BY DEF OrderInv, InOrder
<1> QED BY <1>1, <1>4, <1>7, <1>8, <1>9, <1>10, <1>11, <1>12 DEF Inv, EntryInv, CalmInv

\* The inductive invariant of the three parties: the rows of the API are made in
\* order, what the dispatcher read stays the head of the lists, every command has one
\* entry at a time, and without losses the answers line up with what is in flight.
THEOREM Invariant == Spec => []Inv
<1>1. Init => Inv BY InitInv
<1>2. Inv /\ [Next]_vars => Inv'
  <2>1. SUFFICES ASSUME Inv, [Next]_vars PROVE Inv' OBVIOUS
  <2>2. RowInv' BY <2>1, StepKeepsRows DEF Inv
  <2>3. TypeInv' BY <2>1, TypeKeeps
  <2>4. ApiInv' BY <2>1, ApiKeeps
  <2>5. PassedInv' BY <2>1, PassedKeeps
  <2>6. SnapInv' BY <2>1, SnapKeeps
  <2>7. EntryInv' BY <2>1, EntryKeeps
  <2>8. CalmInv' BY <2>1, CalmKeeps
  <2> QED BY <2>2, <2>3, <2>4, <2>5, <2>6, <2>7, <2>8 DEF Inv
<1> QED BY <1>1, <1>2, PTL DEF Spec

\* The variables have the types that TypeOK states, and no entry of drainPending's
\* lists is beyond MAX_ATTEMPTS.
THEOREM TypeCorrect == Spec => []TypeOK
<1>1. Inv => TypeOK
  <2>1. SUFFICES ASSUME Inv PROVE TypeOK OBVIOUS
  <2>2. TypeInv BY <2>1 DEF Inv
  <2>3. Good \in SUBSET Entry BY DEF Good
  <2>4. /\ pending \in Seq(Good) /\ inflight \in Seq(Good)
        /\ \A i \in 1 .. Len(pending) : pending[i] \in Good
        /\ \A i \in 1 .. Len(inflight) : inflight[i] \in Good
    BY <2>1, Typed, ElementOfSeq
  <2>5. \A e \in Good : e.attempt < MaxAttempts
    <3>1. TAKE e \in Good
    <3>2. e.id \in Cmds /\ e.attempt \in Nat /\ e.attempt < Most(e.id) BY GoodFacts
    <3>3. Most(e.id) \in Nat /\ Most(e.id) <= MaxAttempts BY <3>2, GoodFacts
    <3> QED BY <3>2, <3>3, CommandAssumption
  <2>6. \A s \in Seq(Good) : s \in Seq(Entry)
    <3>1. TAKE s \in Seq(Good)
    <3>2. \A i \in 1 .. Len(s) : s[i] \in Entry BY <2>3, ElementOfSeq
    <3> QED BY <3>2, SeqOver
  <2>7. snap \in [inflight : Seq(Entry), resp : Seq(Response), pending : Seq(Entry),
                  old : Nat, sent : Nat, now : 0 .. NumCmds]
    <3>1. snap \in [inflight : Seq(Good), resp : Seq(Response), pending : Seq(Good),
                    old : Nat, sent : Nat, now : 0 .. NumCmds]
      BY <2>2 DEF TypeInv
    <3> HIDE DEF Good, Entry, Response
    <3> QED BY <2>6, <3>1
  <2>8. db \in [Cmds -> {"none"} \cup Open \cup Terminal] BY <2>1 DEF Inv, RowInv
  <2>9. hold \in Entry \cup {None} BY <2>2, <2>3 DEF TypeInv
  <2> HIDE DEF Good, Entry, Response
  <2> QED BY <2>2, <2>4, <2>5, <2>6, <2>7, <2>8, <2>9 DEF TypeInv, TypeOK
<1> QED BY <1>1, Invariant, PTL

\* A command that must not be repeated is carried out at most once whatever is lost,
\* late or dies, and no command more than MAX_ATTEMPTS times unless a tick of the
\* dispatcher was cut short.
THEOREM Attempts == Spec => []AttemptsBounded
<1>1. Inv => AttemptsBounded
  <2>1. SUFFICES ASSUME Inv PROVE AttemptsBounded OBVIOUS
  <2>2. ASSUME NEW c \in Cmds, Tracked(c) PROVE runs[c] <= Most(c)
    <3>1. Sent(c) <= Most(c) BY <2>1, <2>2 DEF Inv, EntryInv, OneEntry
    <3>2. todo \in Seq(Cmds) /\ runs[c] \in Nat BY <2>1, <2>2, Typed
    <3>3. Times(todo, c) \in Nat BY <3>2, CountNat
    <3>4. InTodo(c) \in Nat BY <3>3 DEF InTodo, Times
    <3>5. InHand(c) \in Nat BY DEF InHand
    <3>6. Most(c) \in Nat BY <2>2, GoodFacts
    <3> QED BY <3>1, <3>2, <3>4, <3>5, <3>6 DEF Sent
  <2>3. \A c \in Once : runs[c] <= 1
    <3>1. TAKE c \in Once
    <3>2. c \in Cmds /\ Tracked(c) /\ Most(c) = 1 BY CommandAssumption DEF Tracked, Most
    <3> QED BY <2>2, <3>2
  <2>4. ASSUME spent["abort"] = 0, NEW c \in Cmds PROVE runs[c] <= MaxAttempts
    <3>1. runs[c] <= Most(c) /\ runs[c] \in Nat BY <2>1, <2>2, <2>4, Typed DEF Tracked
    <3>2. Most(c) \in Nat /\ Most(c) <= MaxAttempts BY GoodFacts
    <3> QED BY <3>1, <3>2, CommandAssumption
  <2> QED BY <2>3, <2>4 DEF AttemptsBounded
<1> QED BY <1>1, Invariant, PTL

\* drainPending never sends a command past its 24 h, neither from the queue nor after
\* a timeout queued it again: every entry carries its expiry along.
THEOREM NotOverdue == Spec => NeverSendsOverdue
<1>1. Inv /\ [Next]_vars => [hold' # None /\ hold' # hold => hold'.id > over]_vars
  <2>1. SUFFICES ASSUME Inv, [Next]_vars, hold' # None, hold' # hold PROVE hold'.id > over OBVIOUS
  <2>2. Pop
    <3>1. ~ Api /\ ~ EnqueueFails /\ ~ Overdue
      BY <2>1 DEF Api, Create, Enqueue, EnqueueWrite, CreateVerify, Activate, ReadStale, Supersede, EnqueueFails, Overdue, ingest
    <3>2. ~ Note /\ ~ Write /\ ~ Deliver /\ ~ Crash /\ ~ Execute /\ ~ Drop /\ ~ Reconnect
      BY <2>1 DEF Note, Write, Deliver, Crash, Execute, Drop, Reconnect, ingest
    <3>3. ~ Dispatcher /\ ~ Abort
      BY <2>1 DEF Dispatcher, Sweep, Snapshot, Purge, MarkSent, Settle, Resend, Requeue, Clean, Trim, Count, SRem, Abort, ingest
    <3>4. ~ UNCHANGED vars BY <2>1 DEF vars, ingest
    <3> QED BY <2>1, <3>1, <3>2, <3>3, <3>4 DEF Next, Ingest
  <2>3. pending \in Seq(Good) /\ pending # <<>> BY <2>1, <2>2, Typed DEF Pop
  <2>4. Head(pending) \in Good BY <2>3, HeadTailProperties
  <2>5. Head(pending).stamped /\ Head(pending).id \in Nat /\ over \in Nat
    <3>1. over \in 0 .. NumCmds /\ Cmds \in SUBSET Nat BY <2>1, Typed
    <3>2. \A e \in Good : e.stamped /\ e.id \in Cmds BY DEF Good, Entry
    <3>3. over \in Nat BY <3>1
    <3> QED BY <2>4, <3>1, <3>2, <3>3
  <2>6. hold' = IF Head(pending).stamped /\ Head(pending).id <= over THEN None ELSE Head(pending)
    BY <2>2 DEF Pop
  <2> QED BY <2>1, <2>5, <2>6
<1> QED BY <1>1, Invariant, PTL DEF Spec, NeverSendsOverdue

\* Without losses, late answers and ticks cut short, every command is carried out at
\* most once: the dispatcher's clean-up overlooks no answer.
THEOREM CalmRunsOnce == ASSUME Calm PROVE Spec => []RunsOnce
<1>1. Inv => RunsOnce
  <2>1. SUFFICES ASSUME Inv, NEW c \in Cmds PROVE runs[c] <= 1 BY DEF RunsOnce
  <2>2. spent["abort"] = 0
    <3>1. spent \in [Faults -> Nat] /\ \A k \in Faults : spent[k] <= Limit(k) BY <2>1 DEF Inv, TypeInv
    <3>2. "abort" \in Faults /\ Limit("abort") = 0 BY DEF Faults, Limit, Calm
    <3> QED BY <3>1, <3>2
  <2>3. Tracked(c) /\ Most(c) = 1 BY <2>2 DEF Tracked, Most
  <2>4. Sent(c) <= 1 BY <2>1, <2>3 DEF Inv, EntryInv, OneEntry
  <2>5. todo \in Seq(Cmds) /\ runs[c] \in Nat BY <2>1, Typed
  <2>6. Times(todo, c) \in Nat BY <2>5, CountNat
  <2>7. InTodo(c) \in Nat BY <2>6 DEF InTodo, Times
  <2>8. InHand(c) \in Nat BY DEF InHand
  <2> QED BY <2>4, <2>5, <2>7, <2>8 DEF Sent
<1> QED BY <1>1, Invariant, PTL

\* And the row of an acknowledged command holds the device's answer to that command.
THEOREM CalmAnswers == ASSUME Calm PROVE Spec => []AckedIsAnswered
<1>1. Inv => AckedIsAnswered BY DEF Inv, CalmInv, InFlightInv
<1> QED BY <1>1, Invariant, PTL

\* And the device never carries out an older write after a newer one: the last
\* instruction wins.
THEOREM CalmLastWins == ASSUME Calm PROVE Spec => LastInstructionWins
<1>1. Inv /\ [Next]_vars => [value' >= value]_vars
  <2>1. SUFFICES ASSUME Inv, [Next]_vars PROVE value' >= value OBVIOUS
  <2>2. value \in Nat /\ todo \in Seq(Cmds) /\ Len(todo) \in Nat /\ Cmds \in SUBSET Nat BY <2>1, Typed
  <2>3. CASE UNCHANGED value BY <2>2, <2>3
  <2>4. CASE Execute
    <3>1. todo # <<>> /\ value' \in {value, Head(todo)} BY <2>4 DEF Execute
    <3>2. Head(todo) = todo[1] /\ Head(todo) \in Nat /\ 1 \in 1 .. Len(todo)
      <4>1. Len(todo) >= 1 /\ Head(todo) = todo[1] BY <2>2, <3>1, EmptySeq
      <4>2. Head(todo) \in Cmds BY <2>2, <3>1, HeadTailProperties
      <4>3. Head(todo) \in Nat BY <2>2, <4>2
      <4>4. 1 \in 1 .. Len(todo) BY <2>2, <4>1
      <4> QED BY <4>1, <4>3, <4>4
    <3>3. value <= todo[1] BY <2>1, <3>2, CalmFacts DEF InOrder
    <3> QED BY <2>2, <3>1, <3>2, <3>3
  <2>5. UNCHANGED value \/ Execute
    BY <2>1 DEF Next, Api, Create, Enqueue, EnqueueWrite, CreateVerify, Activate, ReadStale, Supersede, EnqueueFails, Overdue, Ingest, Pop, Note, Write, Deliver, Crash, Drop, Reconnect, Dispatcher, Sweep, Snapshot, Purge, MarkSent, Settle, Resend, Requeue, Clean, Trim, Count, SRem, Abort, vars, device
  <2> QED BY <2>3, <2>4, <2>5
<1> QED BY <1>1, Invariant, PTL DEF Spec, LastInstructionWins
=============================================================================
