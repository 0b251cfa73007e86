-------------------------- MODULE IngestSessionProofs --------------------------
(***************************************************************************)
(* Machine-checked proofs about IngestSession, for every number of         *)
(* connections, packets and faults.                                        *)
(***************************************************************************)
EXTENDS IngestSession, FiniteSetTheorems, SequenceTheorems, TLAPS

USE IngestAssumption

\* What the newest-wins argument needs: an open socket that streams is the one
\* in liveByImei.
LiveTypes ==
  /\ sock \in [Socks -> {"new", "open", "ended", "destroyed", "closed"}]
  /\ state \in [Socks -> {"AWAIT_IMEI", "STREAMING"}]
  /\ live \in Socks \cup {None}
Streams(s) == sock[s] = "open" /\ state[s] = "STREAMING"
StreamsIsLive == \A s \in Socks : Streams(s) => live = s

\* A socket is never opened again by anything but Connect, and state and
\* liveByImei are only touched by the handshake and the close.
Quiet(s) == /\ UNCHANGED <<state, live>>
            /\ \/ UNCHANGED sock
               \/ sock' = [sock EXCEPT ![s] = "destroyed"]
               \/ sock' = [sock EXCEPT ![s] = "ended"]

\* The actions of a socket that open nothing and take no place in liveByImei.
LEMMA QuietActions ==
  ASSUME LiveTypes, NEW s \in Socks,
         \/ Data(s) \/ Hangup(s) \/ Timeout(s) \/ Skip(s) \/ Parse(s) \/ ParseFails(s)
         \/ LookedUpNone(s) \/ Quarantined(s) \/ Rechecked(s) \/ Persist(s) \/ Park(s)
         \/ Acknowledge(s) \/ Depth(s) \/ Drained(s) \/ Throws(s) \/ PollTimer(s) \/ PollAnswer(s)
  PROVE  Quiet(s)
<1> USE DEF LiveTypes, Quiet, session, Gone, SockDestroy, Destroy
<1>1. CASE Data(s) \/ Skip(s) \/ Parse(s) \/ LookedUpNone(s)
  BY <1>1 DEF Data, Skip, Parse, LookedUpNone
<1>2. CASE Hangup(s) \/ Timeout(s) \/ ParseFails(s) \/ Throws(s) \/ Quarantined(s)
  BY <1>2 DEF Hangup, Timeout, ParseFails, Throws, Quarantined
<1>3. CASE Rechecked(s) BY <1>3 DEF Rechecked
<1>4. CASE Persist(s) \/ Park(s) \/ Acknowledge(s)
  BY <1>4 DEF Persist, Park, Acknowledge
<1>5. CASE Depth(s) \/ Drained(s) \/ PollTimer(s) \/ PollAnswer(s)
  BY <1>5 DEF Depth, Drained, PollTimer, PollAnswer
<1> QED BY <1>1, <1>2, <1>3, <1>4, <1>5

\* Newest wins, for any number of connections whose handshakes, closes and
\* hang-ups come in any order: two open sockets never stream for one IMEI.
THEOREM NewestWins == Spec => []OneLiveSession
<1> DEFINE Inv == LiveTypes /\ StreamsIsLive
<1> USE DEF LiveTypes, StreamsIsLive, Streams
<1>1. Init => Inv
  BY DEF Init
<1>2. Inv /\ [Next]_vars => Inv'
  <2> SUFFICES ASSUME Inv, [Next]_vars PROVE Inv'
    OBVIOUS
  <2>1. ASSUME UNCHANGED <<sock, state, live>> PROVE Inv'
    BY <2>1
  <2>2. CASE UNCHANGED vars BY <2>1, <2>2 DEF vars, session
  <2>3. CASE Device \/ Respond \/ Retire \/ Surge \/ Subside
    BY <2>1, <2>3 DEF Device, Lose, Receive, Send, Respond, Retire, Surge, Subside, session
  <2>4. CASE Crash
    <3>1. \A s \in Socks : sock'[s] \in {"new", "closed"}
      BY <2>4 DEF Crash
    <3>2. sock' \in [Socks -> {"new", "open", "ended", "destroyed", "closed"}]
      BY <2>4 DEF Crash
    <3> QED BY <2>4, <3>1, <3>2 DEF Crash
  <2>5. ASSUME NEW s \in Socks, Connect(s) PROVE Inv'
    BY <2>5 DEF Connect, Put
  <2>6. ASSUME NEW s \in Socks, Close(s) PROVE Inv'
    BY <2>6 DEF Close, Put, session
  <2>7. ASSUME NEW s \in Socks, LookedUp(s) PROVE Inv'
    <3>1. /\ live' = s /\ state' = [state EXCEPT ![s] = "STREAMING"]
          /\ \/ live \in {None, s} /\ sock' = sock
             \/ /\ live \in Socks \ {s}
                /\ sock' = [sock EXCEPT ![live] = IF Gone(live) THEN @ ELSE "destroyed"]
      BY <2>7 DEF LookedUp, Destroy, SockDestroy, Put
    <3>2. sock' \in [Socks -> {"new", "open", "ended", "destroyed", "closed"}]
      BY <3>1
    <3>3. ASSUME NEW t \in Socks, t # s, Streams(t)' PROVE FALSE
      BY <3>1, <3>3 DEF Gone
    <3> QED BY <3>1, <3>2, <3>3
  <2>8. ASSUME NEW s \in Socks, Quiet(s) PROVE Inv'
    BY <2>8 DEF Quiet
  <2> QED
    BY <2>2, <2>3, <2>4, <2>5, <2>6, <2>7, <2>8, QuietActions DEF Next, Handler, Poll
<1>3. Inv => OneLiveSession
  BY DEF OneLiveSession
<1> QED BY <1>1, <1>2, <1>3, PTL DEF Spec

-----------------------------------------------------------------------------
(* The gauge.                                                              *)

Counted == {s \in Socks : paused[s]}
GaugeInv == /\ live \in Socks \cup {None} /\ paused \in [Socks -> BOOLEAN]
            /\ gauge = Cardinality(Counted)

\* The paused sessions can be counted.
LEMMA CountedIsFinite == IsFiniteSet(Counted) /\ Cardinality(Counted) \in Nat
<1>1. IsFiniteSet(Counted)
  BY FS_Subset DEF Counted
<1> QED BY <1>1, FS_CardinalityType

\* releasePaused gives back what was counted, and only that.
LEMMA ReleaseKeepsCount ==
  ASSUME GaugeInv, NEW s \in Socks, Release(s), live' \in Socks \cup {None}
  PROVE  GaugeInv'
<1> USE DEF GaugeInv, Put
<1>1. paused' = [paused EXCEPT ![s] = FALSE] BY DEF Release
<1>2. Counted' = Counted \ {s} BY <1>1 DEF Counted
<1>3. CASE paused[s]
  <2>1. s \in Counted BY <1>3 DEF Counted
  <2>2. Cardinality(Counted') = Cardinality(Counted) - 1
    BY <1>2, <2>1, CountedIsFinite, FS_RemoveElement
  <2>3. gauge' = gauge - 1 BY <1>3 DEF Release
  <2> QED BY <1>1, <2>2, <2>3
<1>4. CASE ~paused[s]
  <2>1. Counted' = Counted BY <1>2, <1>4 DEF Counted
  <2>2. gauge' = gauge BY <1>4 DEF Release
  <2> QED BY <1>1, <2>1, <2>2
<1> QED BY <1>3, <1>4

\* maybeBackpressure counts a session that was not counted.
LEMMA DepthKeepsCount ==
  ASSUME GaugeInv, NEW s \in Socks, ~paused[s],
         paused' = [paused EXCEPT ![s] = TRUE], gauge' = gauge + 1, live' = live
  PROVE  GaugeInv'
<1> USE DEF GaugeInv
<1>1. Counted' = Counted \cup {s} /\ s \notin Counted BY DEF Counted
<1>2. Cardinality(Counted') = Cardinality(Counted) + 1
  BY <1>1, CountedIsFinite, FS_AddElement
<1> QED BY <1>2

\* pausedSockets is the number of paused sessions in every reachable state, for
\* any number of sessions, closes, destroys and late answers of the poll.
THEOREM GaugeExact == Spec => []GaugeCountsPaused
<1>1. Init => GaugeInv
  <2> SUFFICES ASSUME Init PROVE GaugeInv
    OBVIOUS
  <2>1. Counted = {} BY DEF Init, Counted
  <2> QED BY <2>1, FS_EmptySet DEF Init, GaugeInv
<1>2. GaugeInv /\ [Next]_vars => GaugeInv'
  <2> SUFFICES ASSUME GaugeInv, [Next]_vars PROVE GaugeInv'
    OBVIOUS
  <2>1. ASSUME UNCHANGED <<paused, gauge>>, live' \in Socks \cup {None} PROVE GaugeInv'
    BY <2>1 DEF GaugeInv, Counted
  <2>1a. live \in Socks \cup {None} BY DEF GaugeInv
  <2>2. CASE UNCHANGED vars BY <2>1, <2>1a, <2>2 DEF vars, pausing
  <2>3. CASE Device \/ Respond \/ Retire \/ Surge \/ Subside
    BY <2>1, <2>1a, <2>3 DEF Device, Lose, Receive, Send, Respond, Retire, Surge, Subside, pausing
  <2>4. CASE Crash
    <3>1. Counted' = {} /\ gauge' = 0 /\ live' = None /\ paused' \in [Socks -> BOOLEAN]
      BY <2>4 DEF Crash, Counted
    <3> QED BY <3>1, FS_EmptySet DEF GaugeInv
  <2>5. ASSUME NEW s \in Socks, Release(s), live' \in Socks \cup {None} PROVE GaugeInv'
    BY <2>5, ReleaseKeepsCount
  <2>6. ASSUME NEW s \in Socks,
               Connect(s) \/ Data(s) \/ Hangup(s) \/ Skip(s) \/ Parse(s) \/ LookedUpNone(s)
        PROVE  GaugeInv'
    BY <2>1, <2>1a, <2>6 DEF Connect, Data, Hangup, Skip, Parse, LookedUpNone, pausing
  <2>7. ASSUME NEW s \in Socks, Timeout(s) \/ Close(s) \/ Throws(s) PROVE GaugeInv'
    BY <2>1a, <2>5, <2>7 DEF Timeout, Close, Throws, Destroy
  <2>8. ASSUME NEW s \in Socks, ParseFails(s) \/ Quarantined(s) PROVE GaugeInv'
    BY <2>1, <2>1a, <2>5, <2>8 DEF ParseFails, Quarantined, Destroy
  <2>9. ASSUME NEW s \in Socks, LookedUp(s) PROVE GaugeInv'
    <3>0. live' = s BY <2>9 DEF LookedUp
    <3>1. CASE UNCHANGED <<paused, gauge>> BY <3>0, <2>1, <2>1a, <3>1
    <3>2. CASE live \in Socks /\ Release(live) BY <3>0, <2>1a, <2>5, <3>2
    <3> QED BY <2>9, <3>1, <3>2 DEF LookedUp, Destroy, GaugeInv
  <2>10. ASSUME NEW s \in Socks, Rechecked(s) \/ Persist(s) \/ Park(s) \/ Acknowledge(s)
         PROVE  GaugeInv'
    BY <2>1, <2>1a, <2>10 DEF Rechecked, Persist, Park, Acknowledge, pausing
  <2>11. ASSUME NEW s \in Socks, Depth(s) PROVE GaugeInv'
    BY <2>1, <2>1a, <2>11, DepthKeepsCount DEF Depth, pausing, Put
  <2>12. ASSUME NEW s \in Socks, Drained(s) \/ PollTimer(s) PROVE GaugeInv'
    BY <2>1, <2>1a, <2>12 DEF Drained, PollTimer
  <2>13. ASSUME NEW s \in Socks, PollAnswer(s) PROVE GaugeInv'
    BY <2>1, <2>1a, <2>5, <2>13 DEF PollAnswer
  <2> QED
    BY <2>2, <2>3, <2>4, <2>6, <2>7, <2>8, <2>9, <2>10, <2>11, <2>12, <2>13
    DEF Next, Handler, Poll
<1>3. GaugeInv => GaugeCountsPaused
  BY DEF GaugeInv, GaugeCountsPaused, Counted
<1> QED BY <1>1, <1>2, <1>3, PTL DEF Spec

-----------------------------------------------------------------------------
(* Types, and what every later argument needs of a session's chain.        *)

Types ==
  /\ sock \in [Socks -> {"new", "open", "ended", "destroyed", "closed"}]
  /\ flow \in [Socks -> BOOLEAN]
  /\ chunks \in [Socks -> Seq(Frames)] /\ wire \in [Socks -> Seq(Frames)]
  /\ reply \in [Socks -> Seq(Answers)]
  /\ pc \in [Socks -> {"idle"} \cup Awaits]
  /\ deviceId \in [Socks -> Ids \cup {None}] /\ registry \in Ids \cup {None}
  /\ got \in [Socks -> 0 .. 2] /\ late \in [Socks -> Nat]
  /\ paused \in [Socks -> BOOLEAN] /\ live \in Socks \cup {None}
  /\ conn \in Socks \cup {None} /\ next \in Nat /\ next >= 1 /\ ready \in BOOLEAN
  /\ spent \in [Kinds -> Nat]
\* A socket that was never opened has no session behind it.
NewIsBlank == \A s \in Socks : sock[s] = "new" => /\ chunks[s] = <<>> /\ ~paused[s]
                                                  /\ ~flow[s]
\* A handler that awaits something has its chunk at the head of the chain.
BusyHasChunk == \A s \in Socks : pc[s] # "idle" => chunks[s] # <<>>
Base == Types /\ NewIsBlank /\ BusyHasChunk

\* Faults and retirements are only ever counted upwards.
LEMMA SpendGrows ==
  ASSUME spent \in [Kinds -> Nat], UNCHANGED spent \/ \E k \in Kinds : Spend(k)
  PROVE  /\ spent' \in [Kinds -> Nat]
         /\ spent["retire"] \in Nat /\ spent'["retire"] \in Nat
         /\ spent'["retire"] >= spent["retire"]
<1>0. "retire" \in Kinds BY DEF Kinds
<1>1. CASE UNCHANGED spent BY <1>0, <1>1
<1>2. ASSUME NEW k \in Kinds, Spend(k)
      PROVE  spent' \in [Kinds -> Nat] /\ spent'["retire"] >= spent["retire"]
  BY <1>0, <1>2 DEF Spend
<1> QED BY <1>0, <1>1, <1>2

\* The head of one sequence moved to the end of another.
LEMMA MoveHead ==
  ASSUME NEW S, NEW c \in Seq(S), NEW w \in Seq(S), w # <<>>
  PROVE  /\ Append(c, Head(w)) \in Seq(S) /\ Append(c, Head(w)) # <<>>
         /\ Tail(w) \in Seq(S)
<1>1. Head(w) \in S OBVIOUS
<1> QED BY <1>1, AppendProperties

\* A packet has two records.
LEMMA RecordsCount == IsFiniteSet(Records) /\ Cardinality(Records) = 2
<1>1. IsFiniteSet({"sane"}) /\ Cardinality({"sane"}) = 1 BY FS_Singleton
<1>2. Records = {"sane"} \cup {"insane"} /\ "insane" \notin {"sane"} BY DEF Records
<1>3. /\ IsFiniteSet({"sane"} \cup {"insane"})
      /\ Cardinality({"sane"} \cup {"insane"}) = Cardinality({"sane"}) + 1
  BY <1>1, <1>2, FS_AddElement
<1> QED BY <1>1, <1>2, <1>3

\* What a packet has left to store is at most its two records.
LEMMA RecordsLeft == \A R \in SUBSET Records : Cardinality(Records \ R) \in 0 .. 2
<1> SUFFICES ASSUME NEW R \in SUBSET Records PROVE Cardinality(Records \ R) \in 0 .. 2
  OBVIOUS
<1>1. /\ IsFiniteSet(Records \ R) /\ Cardinality(Records \ R) \in Nat
      /\ Cardinality(Records \ R) <= Cardinality(Records)
  BY RecordsCount, FS_Subset, FS_CardinalityType
<1>2. \A n \in Nat : n <= 2 => n \in 0 .. 2 OBVIOUS
<1> QED BY <1>1, <1>2, RecordsCount

\* The two ways a handler's step ends: its chunk is done, or it awaits again.
LEMMA FinishTypes ==
  ASSUME Base, NEW s \in Socks, Finish(s), chunks[s] # <<>>
  PROVE  /\ chunks' = [chunks EXCEPT ![s] = Tail(chunks[s])]
         /\ chunks' \in [Socks -> Seq(Frames)] /\ flow' \in [Socks -> BOOLEAN]
         /\ pc' = [pc EXCEPT ![s] = "idle"] /\ pc' \in [Socks -> {"idle"} \cup Awaits]
         /\ \A t \in Socks : pc'[t] # "idle" => chunks'[t] # <<>>
         /\ \A t \in Socks : sock[t] = "new" => chunks'[t] = <<>> /\ ~flow'[t]
<1> USE DEF Base, Types, NewIsBlank, BusyHasChunk
<1>1. Tail(chunks[s]) \in Seq(Frames) OBVIOUS
<1>2. chunks' = [chunks EXCEPT ![s] = Tail(chunks[s])] BY DEF Finish
<1>3. chunks' \in [Socks -> Seq(Frames)] BY <1>1, <1>2
<1>4. flow' \in [Socks -> BOOLEAN] BY DEF Finish
<1>5. pc' = [pc EXCEPT ![s] = "idle"] BY DEF Finish, Put
<1>6. \A t \in Socks \ {s} : flow'[t] = flow[t] /\ chunks'[t] = chunks[t] BY DEF Finish
<1> QED BY <1>2, <1>3, <1>4, <1>5, <1>6

\* The message chain moves on to another await.
LEMMA GotoTypes ==
  ASSUME Base, NEW s \in Socks, NEW a \in Awaits, Goto(s, a), chunks[s] # <<>>
  PROVE  /\ UNCHANGED <<chunks, flow>>
         /\ pc' = [pc EXCEPT ![s] = a] /\ pc' \in [Socks -> {"idle"} \cup Awaits]
         /\ \A t \in Socks : pc'[t] # "idle" => chunks[t] # <<>>
BY DEF Base, Types, BusyHasChunk, Goto, Put

\* An answer is written to an open socket only.
LEMMA ReplyTypes ==
  ASSUME Base, NEW s \in Socks, NEW r \in Answers, Reply(s, r)
  PROVE  /\ reply' \in [Socks -> Seq(Answers)]
         /\ UNCHANGED reply \/ reply' = [reply EXCEPT ![s] = Append(reply[s], r)]
BY DEF Base, Types, Reply

\* destroy() never brings a socket back to life, nor pauses one.
LEMMA DestroyTypes ==
  ASSUME Base, NEW s \in Socks,
         \/ SockDestroy(s) /\ UNCHANGED paused
         \/ SockDestroy(s) /\ Release(s)
         \/ UNCHANGED <<sock, paused>>
         \/ /\ sock' = [sock EXCEPT ![s] = IF Gone(s) THEN @ ELSE "ended"]
            /\ UNCHANGED paused
  PROVE  /\ sock' \in [Socks -> {"new", "open", "ended", "destroyed", "closed"}]
         /\ paused' \in [Socks -> BOOLEAN]
         /\ \A t \in Socks : sock'[t] = "new" => sock[t] = "new"
         /\ \A t \in Socks : paused'[t] => paused[t]
         /\ \A t \in Socks : sock'[t] \in {"new", "open"} => sock[t] = sock'[t]
BY DEF Base, Types, SockDestroy, Release, Put, Gone

\* The message handler keeps types and the order of its awaits.
LEMMA HandlerKeepsBase ==
  ASSUME Base, NEW s \in Socks, Handler(s) \/ Throws(s)
  PROVE  Base'
<1> USE DEF Base, Types, NewIsBlank, BusyHasChunk
<1>0. chunks[s] # <<>>
  BY DEF Handler, Throws, Skip, Parse, ParseFails, LookedUp, LookedUpNone, Quarantined,
         Rechecked, Persist, Park, Acknowledge, Depth, Drained, Begins, Awaits
<1>a. <<"yes", 0>> \in Answers /\ <<"no", 0>> \in Answers
      /\ \A n \in 0 .. 2 : <<"ack", n>> \in Answers
  BY DEF Answers
<1>1. CASE Skip(s) \/ Drained(s)
  BY <1>0, <1>1, FinishTypes DEF Skip, Drained, session, streams, device
<1>2. CASE Throws(s)
  <2>1. spent' \in [Kinds -> Nat] BY <1>2, SpendGrows DEF Throws, Kinds
  <2> QED BY <1>0, <1>2, <2>1, FinishTypes, DestroyTypes
          DEF Throws, Destroy, session, streams, device
<1>3. CASE Parse(s)
  <2>1. PICK a \in Awaits : Goto(s, a)
    BY <1>3 DEF Parse, Awaits
  <2> QED BY <1>0, <1>3, <2>1, GotoTypes DEF Parse, session, pausing, streams, device
<1>4. CASE ParseFails(s)
  <2>0. Reply(s, <<"ack", 0>>) \/ UNCHANGED reply BY <1>4 DEF ParseFails
  <2>1. reply' \in [Socks -> Seq(Answers)] BY <1>a, <2>0, ReplyTypes
  <2> QED BY <1>0, <1>4, <2>1, FinishTypes, DestroyTypes
          DEF ParseFails, Destroy, session, streams, device
<1>5. CASE LookedUp(s)
  <2>1. reply' \in [Socks -> Seq(Answers)] BY <1>a, <1>5, ReplyTypes DEF LookedUp
  <2>2. deviceId' \in [Socks -> Ids \cup {None}] BY <1>5 DEF LookedUp, Put
  <2>3. /\ sock' \in [Socks -> {"new", "open", "ended", "destroyed", "closed"}]
        /\ paused' \in [Socks -> BOOLEAN]
        /\ \A t \in Socks : sock'[t] = "new" => sock[t] = "new"
        /\ \A t \in Socks : paused'[t] => paused[t]
    BY <1>5, DestroyTypes DEF LookedUp, Destroy
  <2>4. Goto(s, "drain") /\ "drain" \in Awaits BY <1>5 DEF LookedUp, Awaits
  <2>5. UNCHANGED <<got, late, registry, conn, next, ready, wire, spent>> /\ live' = s
    BY <1>5 DEF LookedUp, device
  <2> QED BY <1>0, <2>1, <2>2, <2>3, <2>4, <2>5, GotoTypes, SMTT(30)
<1>6. CASE LookedUpNone(s)
  <2>1. Goto(s, "quarantine") /\ "quarantine" \in Awaits BY <1>6 DEF LookedUpNone, Awaits
  <2> QED BY <1>0, <1>6, <2>1, GotoTypes DEF LookedUpNone, session, pausing, streams, device
<1>7. CASE Quarantined(s)
  <2>1. reply' \in [Socks -> Seq(Answers)] BY <1>a, <1>7, ReplyTypes DEF Quarantined
  <2>2. /\ sock' \in [Socks -> {"new", "open", "ended", "destroyed", "closed"}]
        /\ paused' \in [Socks -> BOOLEAN]
        /\ \A t \in Socks : sock'[t] = "new" => sock[t] = "new"
        /\ \A t \in Socks : paused'[t] => paused[t]
    BY <1>7, DestroyTypes DEF Quarantined, Destroy
  <2> QED BY <1>0, <1>7, <2>1, <2>2, FinishTypes DEF Quarantined, session, streams, device
<1>8. CASE Rechecked(s)
  <2>1. CASE registry = deviceId[s]
    <3>1. Goto(s, "persist") /\ "persist" \in Awaits BY <1>8, <2>1 DEF Rechecked, Awaits
    <3> QED BY <1>0, <1>8, <2>1, <3>1, GotoTypes DEF Rechecked, session, streams, device
  <2>2. CASE registry # deviceId[s]
    BY <1>0, <1>8, <2>2, FinishTypes, DestroyTypes DEF Rechecked, session, streams, device
  <2> QED BY <2>1, <2>2
<1>9. CASE Persist(s)
  <2>1. spent' \in [Kinds -> Nat]
    <3>1. UNCHANGED spent \/ Spend("refusal") BY <1>9 DEF Persist
    <3>2. "refusal" \in Kinds BY DEF Kinds
    <3> QED BY <3>1, <3>2, SpendGrows
  <2>2. \A R \in SUBSET Records : Cardinality(Records \ R) \in 0 .. 2
    BY RecordsLeft
  <2>3. got' \in [Socks -> 0 .. 2]
    <3>1. PICK R \in SUBSET Records : got' = Put(got, s, Cardinality(Records \ R))
      BY <1>9 DEF Persist
    <3> QED BY <2>2, <3>1 DEF Put
  <2>4. late' \in [Socks -> Nat] BY <1>9, SMTT(30) DEF Persist
  <2>5. Goto(s, "ack") /\ "ack" \in Awaits BY <1>9 DEF Persist, Awaits
  <2>6. UNCHANGED <<sock, paused, deviceId, live, registry, conn, next, ready, wire, reply>>
    BY <1>9 DEF Persist, device, pausing
  <2> QED BY <1>0, <2>1, <2>3, <2>4, <2>5, <2>6, GotoTypes
<1>10. CASE Park(s)
  <2>1. got' \in [Socks -> 0 .. 2] BY <1>10, RecordsCount DEF Park, Put
  <2>2. Goto(s, "ack") /\ "ack" \in Awaits BY <1>10 DEF Park, Awaits
  <2> QED BY <1>0, <1>10, <2>1, <2>2, GotoTypes DEF Park, pausing, device
<1>11. CASE Acknowledge(s)
  <2>1. reply' \in [Socks -> Seq(Answers)] BY <1>a, <1>11, ReplyTypes DEF Acknowledge
  <2>2. Goto(s, "depth") /\ "depth" \in Awaits BY <1>11 DEF Acknowledge, Awaits
  <2>3. got' \in [Socks -> 0 .. 2] BY <1>11 DEF Acknowledge, Put
  <2> QED BY <1>0, <1>11, <2>1, <2>2, <2>3, GotoTypes DEF Acknowledge, pausing, device, streams
<1>12. CASE Depth(s)
  BY <1>0, <1>12 DEF Depth, Put, pausing, session, streams, device, Awaits
<1> QED
  BY <1>1, <1>2, <1>3, <1>4, <1>5, <1>6, <1>7, <1>8, <1>9, <1>10, <1>11, <1>12 DEF Handler

\* The types, and the two facts above, hold in every reachable state.
LEMMA BaseHolds == Spec => []Base
<1> USE DEF Base, Types, NewIsBlank, BusyHasChunk
<1>1. Init => Base
  <2> SUFFICES ASSUME Init PROVE Base
    OBVIOUS
  <2>1. chunks \in [Socks -> Seq(Frames)] /\ wire \in [Socks -> Seq(Frames)]
        /\ reply \in [Socks -> Seq(Answers)]
    BY DEF Init
  <2>2. Types
    <3>1. /\ sock \in [Socks -> {"new", "open", "ended", "destroyed", "closed"}]
          /\ flow \in [Socks -> BOOLEAN] /\ paused \in [Socks -> BOOLEAN]
          /\ pc \in [Socks -> {"idle"} \cup Awaits]
      BY DEF Init
    <3>2. /\ deviceId \in [Socks -> Ids \cup {None}] /\ registry \in Ids \cup {None}
          /\ got \in [Socks -> 0 .. 2] /\ late \in [Socks -> Nat]
          /\ spent \in [Kinds -> Nat]
      BY DEF Init
    <3>3. conn \in Socks \cup {None} /\ live \in Socks \cup {None} /\ ready \in BOOLEAN
      BY Zenon DEF Init
    <3>4. next \in Nat /\ next >= 1 BY DEF Init
    <3> QED BY <2>1, <3>1, <3>2, <3>3, <3>4
  <2>3. NewIsBlank /\ BusyHasChunk BY DEF Init
  <2> QED BY <2>2, <2>3
<1>2. Base /\ [Next]_vars => Base'
  <2> SUFFICES ASSUME Base, [Next]_vars PROVE Base'
    OBVIOUS
  <2>0. \A s \in Socks : chunks[s] \in Seq(Frames) /\ wire[s] \in Seq(Frames)
                         /\ reply[s] \in Seq(Answers)
    OBVIOUS
  <2>1. CASE UNCHANGED vars
    BY <2>1 DEF vars, flowing, session, pausing, streams, device
  <2>2. CASE Lose \/ Retire \/ Surge \/ Subside
    <3>1. spent' \in [Kinds -> Nat]
      BY <2>2, SpendGrows DEF Lose, Retire, Surge, Subside, Kinds
    <3> QED BY <2>2, <3>1
            DEF Lose, Retire, Surge, Subside, flowing, session, pausing, streams, device
  <2>3. CASE Receive
    <3>1. conn \in Socks /\ Tail(reply[conn]) \in Seq(Answers) BY <2>3 DEF Receive
    <3>2. reply' \in [Socks -> Seq(Answers)] BY <2>3, <3>1 DEF Receive
    <3>3. next' \in Nat /\ next' >= 1 /\ conn' \in Socks \cup {None} /\ ready' \in BOOLEAN
      BY <2>3 DEF Receive
    <3> QED BY <2>3, <3>2, <3>3 DEF Receive, flowing, session, pausing, streams
  <2>4. CASE Send \/ Respond
    <3>1. <<"bad", 0>> \in Frames /\ <<"resp", 0>> \in Frames
          /\ (next \in Packets => <<"avl", next>> \in Frames)
      BY DEF Frames
    <3>2. spent' \in [Kinds -> Nat]
      BY <2>4, SpendGrows DEF Send, Respond, Kinds
    <3>3. \E f \in Frames : wire' = [wire EXCEPT ![conn] = Append(@, f)]
      BY <2>4, <3>1 DEF Send, Respond
    <3>4. wire' \in [Socks -> Seq(Frames)] BY <2>0, <2>4, <3>3 DEF Send, Respond
    <3> QED BY <2>4, <3>2, <3>4 DEF Send, Respond, flowing, session, pausing, streams, device
  <2>5. CASE Crash
    <3>1. spent' \in [Kinds -> Nat] BY <2>5, SpendGrows DEF Crash, Kinds
    <3> QED BY <2>5, <3>1 DEF Crash, streams, device
  <2>6. ASSUME NEW s \in Socks, Connect(s) PROVE Base'
    <3>1. <<"imei", 0>> \in Frames BY DEF Frames
    <3>2. << <<"imei", 0>> >> \in Seq(Frames) BY <3>1
    <3>3. wire' \in [Socks -> Seq(Frames)]
      BY <2>6, <3>2 DEF Connect, Put
    <3>3a. reply' \in [Socks -> Seq(Answers)]
      BY <2>6 DEF Connect, Put
    <3> QED BY <2>6, <3>3, <3>3a DEF Connect, Put, Forgotten, pausing, streams
  <2>7. ASSUME NEW s \in Socks, Data(s) PROVE Base'
    <3>0. wire[s] \in Seq(Frames) /\ wire[s] # <<>> /\ chunks[s] \in Seq(Frames)
      BY <2>0, <2>7 DEF Data
    <3>1a. Tail(wire[s]) \in Seq(Frames) /\ Head(wire[s]) \in Frames BY <3>0
    <3>1. /\ Append(chunks[s], Head(wire[s])) \in Seq(Frames)
          /\ Append(chunks[s], Head(wire[s])) # <<>>
      BY <3>0, MoveHead
    <3>2. chunks' \in [Socks -> Seq(Frames)] /\ wire' \in [Socks -> Seq(Frames)]
      BY <2>7, <3>1, <3>1a DEF Data
    <3>3. sock[s] # "new" BY <2>7 DEF Data
    <3> QED BY <2>7, <3>1, <3>2, <3>3 DEF Data, Put, session, pausing, streams, device
  <2>8. ASSUME NEW s \in Socks, Hangup(s) \/ Timeout(s) \/ Close(s) PROVE Base'
    <3>1. spent' \in [Kinds -> Nat]
      BY <2>8, SpendGrows DEF Hangup, Timeout, Close, Kinds
    <3> QED BY <2>8, <3>1, ZenonT(60) DEF Hangup, Timeout, Close, Destroy, SockDestroy, Release, Put, Gone,
                              flowing, session, pausing, streams, device
  <2>9. ASSUME NEW s \in Socks, PollTimer(s) \/ PollAnswer(s) PROVE Base'
    <3>1. spent' \in [Kinds -> Nat]
      BY <2>9, SpendGrows DEF PollTimer, PollAnswer, Kinds
    <3> QED BY <2>9, <3>1 DEF PollTimer, PollAnswer, Release, Put,
                              flowing, session, pausing, streams, device
  <2> QED BY <2>1, <2>2, <2>3, <2>4, <2>5, <2>6, <2>7, <2>8, <2>9, HandlerKeepsBase
          DEF Next, Device, Poll
<1> QED BY <1>1, <1>2, PTL DEF Spec

-----------------------------------------------------------------------------
(* A retired device.                                                       *)

\* A batch can only be appended for an id the registry has dropped when the
\* registry changed after the session's check, and each change lets one through.
Unchecked(s) == pc[s] = "persist" /\ registry # deviceId[s]
RetireInv ==
  \A s \in Socks : /\ late[s] <= spent["retire"]
                   /\ Unchecked(s) => late[s] < spent["retire"]

\* The steps that neither append a batch nor check one: the registry and what
\* the session knows of it stay, and no session comes to "persist".
Unconcerned(s) ==
  /\ UNCHANGED <<late, deviceId, registry>>
  /\ UNCHANGED pc \/ \E a \in ({"idle"} \cup Awaits) \ {"persist"} : pc' = [pc EXCEPT ![s] = a]
  /\ UNCHANGED spent \/ \E k \in Kinds : Spend(k)

\* Such a step keeps the silence of the retired.
LEMMA UnconcernedKeeps ==
  ASSUME Base, RetireInv, NEW s \in Socks, Unconcerned(s)
  PROVE  RetireInv'
<1> USE DEF Base, Types, RetireInv, Unconcerned, Unchecked
<1>1. \A t \in Socks : pc'[t] = "persist" => pc[t] = "persist" OBVIOUS
<1>2. /\ spent["retire"] \in Nat /\ spent'["retire"] \in Nat
      /\ spent'["retire"] >= spent["retire"]
  BY SpendGrows
<1> QED BY <1>1, <1>2

\* The actions that neither retire a device nor open, check or feed a session.
LEMMA UnconcernedActions ==
  ASSUME NEW s \in Socks,
         \/ Data(s) \/ Hangup(s) \/ Timeout(s) \/ Close(s) \/ Skip(s) \/ Parse(s)
         \/ ParseFails(s) \/ LookedUpNone(s) \/ Quarantined(s) \/ Park(s) \/ Acknowledge(s)
         \/ Depth(s) \/ Drained(s) \/ Throws(s) \/ PollTimer(s) \/ PollAnswer(s)
  PROVE  Unconcerned(s)
<1> USE DEF Unconcerned, session, flowing, Awaits, Kinds, Put, Goto, Finish
<1>1. CASE Data(s) \/ Hangup(s) \/ Timeout(s) \/ Close(s) \/ PollTimer(s) \/ PollAnswer(s)
  BY <1>1 DEF Data, Hangup, Timeout, Close, PollTimer, PollAnswer
<1>2. CASE Skip(s) \/ ParseFails(s) \/ Quarantined(s) \/ Drained(s) \/ Throws(s)
  BY <1>2 DEF Skip, ParseFails, Quarantined, Drained, Throws
<1>3. CASE Parse(s) BY <1>3 DEF Parse
<1>4. CASE LookedUpNone(s) \/ Park(s) \/ Acknowledge(s) \/ Depth(s)
  BY <1>4 DEF LookedUpNone, Park, Acknowledge, Depth
<1> QED BY <1>1, <1>2, <1>3, <1>4

\* After a device is retired or moved, a session that streams appends at most
\* the batch it had already checked: never more late batches than retirements.
THEOREM RetiredIsSilent == Spec => []RetiredGoesSilent
<1> USE DEF RetireInv, Unchecked
<1>1. Init => RetireInv
  BY DEF Init, Kinds
<1>2. RetireInv /\ Base /\ [Next]_vars => RetireInv'
  <2> SUFFICES ASSUME RetireInv, Base, [Next]_vars PROVE RetireInv'
    OBVIOUS
  <2>0. spent["retire"] \in Nat /\ late \in [Socks -> Nat] /\ spent \in [Kinds -> Nat]
    BY DEF Base, Types, Kinds
  <2>1. CASE UNCHANGED vars
    BY <2>1 DEF vars, flowing, session
  <2>2. CASE Device \/ Respond \/ Surge \/ Subside
    <3>1. /\ UNCHANGED <<pc, late, deviceId, registry>>
          /\ UNCHANGED spent \/ \E k \in {"hangup", "noise", "resp", "surge"} : Spend(k)
      BY <2>2 DEF Device, Lose, Receive, Send, Respond, Surge, Subside, flowing, session
    <3>2. spent'["retire"] = spent["retire"] BY <2>0, <3>1 DEF Spend, Kinds
    <3> QED BY <2>0, <3>1, <3>2
  <2>3. CASE Retire
    <3>1. UNCHANGED <<pc, late, deviceId>> BY <2>3 DEF Retire, flowing, session
    <3>2. spent'["retire"] = spent["retire"] + 1
      BY <2>0, <2>3 DEF Retire, Spend, Kinds
    <3> QED BY <2>0, <3>1, <3>2
  <2>4. CASE Crash
    <3>1. UNCHANGED late /\ pc' = [s \in Socks |-> "idle"] BY <2>4 DEF Crash
    <3>2. spent'["retire"] = spent["retire"] BY <2>0, <2>4 DEF Crash, Spend, Kinds
    <3> QED BY <2>0, <3>1, <3>2
  <2>5. ASSUME NEW s \in Socks, Connect(s) PROVE RetireInv'
    <3>1. pc[s] = "idle"
      BY <2>5 DEF Connect, Forgotten, Base, Types, NewIsBlank, BusyHasChunk
    <3>2. /\ UNCHANGED <<pc, registry, spent>> /\ late' = [late EXCEPT ![s] = 0]
          /\ \A t \in Socks \ {s} : deviceId'[t] = deviceId[t]
      BY <2>5 DEF Connect, Put, Base, Types
    <3> QED BY <2>0, <3>1, <3>2
  <2>6. ASSUME NEW s \in Socks, LookedUp(s) PROVE RetireInv'
    <3>1. /\ UNCHANGED <<late, registry, spent>>
          /\ pc' = [pc EXCEPT ![s] = "drain"]
          /\ \A t \in Socks \ {s} : deviceId'[t] = deviceId[t]
      BY <2>6 DEF LookedUp, Goto, Put, Base, Types
    <3> QED BY <2>0, <3>1 DEF Base, Types
  <2>7. ASSUME NEW s \in Socks, Rechecked(s) PROVE RetireInv'
    <3>1. UNCHANGED <<late, deviceId, registry, spent>> BY <2>7 DEF Rechecked, session
    <3>2. CASE registry = deviceId[s]
      <4>1. pc' = [pc EXCEPT ![s] = "persist"] BY <2>7, <3>2 DEF Rechecked, Goto, Put
      <4> QED BY <3>1, <3>2, <4>1 DEF Base, Types
    <3>3. CASE registry # deviceId[s]
      <4>1. pc' = [pc EXCEPT ![s] = "idle"] BY <2>7, <3>3 DEF Rechecked, Finish, Put
      <4> QED BY <3>1, <4>1 DEF Base, Types
    <3> QED BY <3>2, <3>3
  <2>8. ASSUME NEW s \in Socks, Persist(s) PROVE RetireInv'
    <3>1. /\ UNCHANGED <<deviceId, registry>> /\ pc' = [pc EXCEPT ![s] = "ack"]
          /\ late' = IF registry = deviceId[s] THEN late ELSE [late EXCEPT ![s] = @ + 1]
      BY <2>8 DEF Persist, Goto, Put
    <3>2. spent'["retire"] = spent["retire"] BY <2>0, <2>8 DEF Persist, Spend, Kinds
    <3>3. late'[s] <= spent["retire"] BY <2>0, <2>8, <3>1 DEF Persist
    <3>4. \A t \in Socks \ {s} : late'[t] = late[t] /\ pc'[t] = pc[t]
      BY <2>0, <3>1 DEF Base, Types
    <3>5. pc'[s] = "ack" BY <3>1 DEF Base, Types
    <3> QED BY <2>0, <3>1, <3>2, <3>3, <3>4, <3>5
  <2> QED
    BY <2>1, <2>2, <2>3, <2>4, <2>5, <2>6, <2>7, <2>8, UnconcernedActions, UnconcernedKeeps
    DEF Next, Handler, Poll
<1>3. RetireInv => RetiredGoesSilent
  BY DEF RetiredGoesSilent
<1> QED BY <1>1, <1>2, <1>3, BaseHolds, PTL DEF Spec

-----------------------------------------------------------------------------
(* Backpressure: how many chunks a session can hold.                       *)

\* A second chunk can only arrive while the handler of the first is in its last
\* await: that is the only place where pollForDrain may find the socket paused
\* with a chunk in hand, and a paused socket does not read.
ChunkInv ==
  \A s \in Socks :
    /\ Len(chunks[s]) <= 2
    /\ flow[s] => Len(chunks[s]) <= 1
    /\ paused[s] => ~flow[s] /\ Len(chunks[s]) <= 1
    /\ Len(chunks[s]) = 2 => pc[s] = "drain"
    /\ Len(chunks[s]) = 1 /\ (flow[s] \/ paused[s]) => pc[s] = "drain"

\* Arithmetic of a chain of at most two chunks.
LEMMA TwoOrLess ==
  \A n \in Nat : /\ n <= 2 => n \in {0, 1, 2}
                 /\ n <= 2 /\ n # 2 => n <= 1
                 /\ n <= 1 => n + 1 <= 2 /\ (n + 1 = 2 => n = 1)
                 /\ n \in {1, 2} => n - 1 \in {0, 1}
OBVIOUS

\* Steps that leave the chain of every session alone, or take a chunk in hand,
\* or go on to another await, keep it; a socket may be released meanwhile.
LEMMA ChainKept ==
  ASSUME Base, ChunkInv, NEW s \in Socks, UNCHANGED <<chunks, flow>>,
         UNCHANGED pc \/ (pc[s] # "drain" /\ \E a \in Awaits : pc' = [pc EXCEPT ![s] = a]),
         \A t \in Socks : paused'[t] => paused[t]
  PROVE  ChunkInv'
BY DEF Base, Types, ChunkInv

\* The end of a handler: the chunk leaves the chain, and the socket reads again
\* only when it was the last one and the session is not paused.
LEMMA ChainShrinks ==
  ASSUME Base, ChunkInv, NEW s \in Socks, chunks[s] # <<>>, Finish(s),
         \A t \in Socks : paused'[t] => paused[t]
  PROVE  ChunkInv'
<1> USE DEF Base, Types
<1>1. Len(chunks[s]) \in Nat /\ Len(Tail(chunks[s])) = Len(chunks[s]) - 1
  BY HeadTailProperties
<1>2. chunks'[s] = Tail(chunks[s]) /\ pc'[s] = "idle"
  BY DEF Finish, Put
<1>3. flow'[s] => flow[s] \/ (Len(chunks[s]) = 1 /\ ~paused'[s])
  BY DEF Finish
<1>4. \A t \in Socks \ {s} : chunks'[t] = chunks[t] /\ pc'[t] = pc[t] /\ flow'[t] = flow[t]
  BY DEF Finish, Put
<1>5. Len(chunks'[s]) = Len(chunks[s]) - 1 BY <1>1, <1>2
<1>6. /\ Len(chunks[s]) <= 2
      /\ flow[s] => Len(chunks[s]) <= 1
      /\ paused[s] => ~flow[s] /\ Len(chunks[s]) <= 1
  BY DEF ChunkInv
<1>7. /\ Len(chunks'[s]) <= 2
      /\ flow'[s] => Len(chunks'[s]) <= 1
      /\ paused'[s] => ~flow'[s] /\ Len(chunks'[s]) <= 1
      /\ Len(chunks'[s]) = 2 => pc'[s] = "drain"
      /\ Len(chunks'[s]) = 1 /\ (flow'[s] \/ paused'[s]) => pc'[s] = "drain"
  <2>1. Len(chunks[s]) \in {1, 2} /\ Len(chunks'[s]) \in {0, 1}
    <3>1. Len(chunks[s]) # 0 BY EmptySeq
    <3> QED BY <1>1, <1>5, <1>6, <3>1, TwoOrLess
  <2>2. CASE Len(chunks[s]) = 1
    <3>1. Len(chunks'[s]) = 0 BY <1>5, <2>2
    <3> QED BY <1>3, <1>6, <2>2, <3>1
  <2>3. CASE Len(chunks[s]) = 2
    <3>1. Len(chunks'[s]) = 1 BY <1>5, <2>3
    <3>2. ~flow[s] /\ ~paused[s] BY <1>6, <2>3
    <3> QED BY <1>3, <1>6, <2>3, <3>1, <3>2
  <2> QED BY <2>1, <2>2, <2>3
<1> QED BY <1>4, <1>7 DEF ChunkInv

\* A session never holds more than the chunk it handles and one that came when
\* pollForDrain resumed the socket meanwhile, however fast the device sends and
\* however the shard's depth moves.
THEOREM ChainIsBounded == Spec => []ChunksBounded
<1>1. Init => ChunkInv
  <2>1. \A s \in Socks : Init => chunks[s] = <<>> /\ Len(<<>>) = 0 /\ ~flow[s] /\ ~paused[s]
    BY DEF Init
  <2> QED BY <2>1 DEF ChunkInv
<1>2. ChunkInv /\ Base /\ [Next]_vars => ChunkInv'
  <2> SUFFICES ASSUME ChunkInv, Base, [Next]_vars PROVE ChunkInv'
    OBVIOUS
  <2>0. ASSUME UNCHANGED <<chunks, flow, pc>>, \A t \in Socks : paused'[t] => paused[t]
        PROVE ChunkInv'
    BY <2>0 DEF ChunkInv
  <2>1. CASE UNCHANGED vars BY <2>0, <2>1 DEF vars, flowing, pausing
  <2>2. CASE Device \/ Respond \/ Retire \/ Surge \/ Subside
    BY <2>0, <2>2
    DEF Device, Lose, Receive, Send, Respond, Retire, Surge, Subside, flowing, pausing
  <2>3. CASE Crash
    <3>1. \A s \in Socks : chunks'[s] = <<>> /\ Len(<<>>) = 0 /\ ~flow'[s] /\ ~paused'[s]
      BY <2>3 DEF Crash
    <3> QED BY <3>1 DEF ChunkInv
  <2>4. ASSUME NEW s \in Socks, Connect(s) PROVE ChunkInv'
    <3>1. chunks[s] = <<>> /\ Len(chunks[s]) = 0 /\ ~paused[s]
      BY <2>4 DEF Connect, Forgotten, Base, NewIsBlank
    <3>2. UNCHANGED <<chunks, pc, paused>> /\ \A t \in Socks \ {s} : flow'[t] = flow[t]
      BY <2>4 DEF Connect, Put, pausing, Base, Types
    <3> QED BY <3>1, <3>2 DEF ChunkInv
  <2>5. ASSUME NEW s \in Socks, Data(s) PROVE ChunkInv'
    <3>1. /\ chunks[s] \in Seq(Frames) /\ wire[s] \in Seq(Frames) /\ wire[s] # <<>>
          /\ flow[s] /\ Turn
      BY <2>5 DEF Data, Base, Types
    <3>2. Len(Append(chunks[s], Head(wire[s]))) = Len(chunks[s]) + 1
      BY <3>1, MoveHead
    <3>3. chunks'[s] = Append(chunks[s], Head(wire[s])) /\ flow'[s] = FALSE
      BY <2>5 DEF Data, Put, Base, Types
    <3>4. /\ UNCHANGED <<pc, paused>>
          /\ \A t \in Socks \ {s} : chunks'[t] = chunks[t] /\ flow'[t] = flow[t]
      BY <2>5 DEF Data, Put, pausing, Base, Types
    <3>5. /\ Len(chunks[s]) \in Nat /\ Len(chunks[s]) <= 1 /\ ~paused[s]
          /\ Len(chunks[s]) = 1 => pc[s] = "drain"
      BY <3>1 DEF ChunkInv
    <3>2a. Len(chunks'[s]) = Len(chunks[s]) + 1 BY <3>2, <3>3
    <3>6. /\ Len(chunks'[s]) <= 2
          /\ Len(chunks'[s]) = 2 => pc'[s] = "drain"
      BY <3>2a, <3>4, <3>5, TwoOrLess
    <3> QED BY <3>3, <3>4, <3>5, <3>6 DEF ChunkInv
  <2>6. ASSUME NEW s \in Socks, Hangup(s) \/ Timeout(s) \/ Close(s) \/ PollTimer(s)
        PROVE  ChunkInv'
    BY <2>0, <2>6 DEF Hangup, Timeout, Close, PollTimer, Destroy, Release, Put, flowing, pausing,
                      Base, Types
  <2>7. ASSUME NEW s \in Socks, PollAnswer(s) PROVE ChunkInv'
    <3>1. CASE UNCHANGED <<paused, flow>>
      BY <2>0, <2>7, <3>1 DEF PollAnswer
    <3>2. CASE /\ paused[s] /\ flow' = [flow EXCEPT ![s] = TRUE]
               /\ paused' = [paused EXCEPT ![s] = FALSE]
      <4>1. UNCHANGED <<chunks, pc>> BY <2>7 DEF PollAnswer
      <4>2. Len(chunks[s]) \in Nat BY DEF Base, Types
      <4> QED BY <3>2, <4>1, <4>2 DEF ChunkInv, Base, Types
    <3> QED BY <2>7, <3>1, <3>2 DEF PollAnswer, Release, Put
  <2>8. ASSUME NEW s \in Socks,
               \/ Skip(s) \/ ParseFails(s) \/ Quarantined(s) \/ Drained(s) \/ Throws(s)
        PROVE  ChunkInv'
    <3>1. chunks[s] # <<>>
      BY <2>8 DEF Skip, ParseFails, Quarantined, Drained, Throws, Begins, Awaits, Base,
                  BusyHasChunk
    <3>2. Finish(s) BY <2>8 DEF Skip, ParseFails, Quarantined, Drained, Throws
    <3>3. \A t \in Socks : paused'[t] => paused[t]
      BY <2>8 DEF Skip, ParseFails, Quarantined, Drained, Throws, Destroy, Release, Put, Base,
                  Types
    <3> QED BY <3>1, <3>2, <3>3, ChainShrinks
  <2>9. ASSUME NEW s \in Socks,
               Parse(s) \/ LookedUpNone(s) \/ Persist(s) \/ Park(s) \/ Acknowledge(s)
        PROVE  ChunkInv'
    <3>1. UNCHANGED <<chunks, flow, paused>> /\ pc[s] # "drain"
      BY <2>9 DEF Parse, LookedUpNone, Persist, Park, Acknowledge, Goto, Begins, pausing
    <3>2. \E a \in Awaits : pc' = [pc EXCEPT ![s] = a]
      BY <2>9 DEF Parse, LookedUpNone, Persist, Park, Acknowledge, Goto, Put, Awaits
    <3> QED BY <3>1, <3>2, ChainKept
  <2>10. ASSUME NEW s \in Socks, LookedUp(s) PROVE ChunkInv'
    <3>1. UNCHANGED <<chunks, flow>> /\ pc[s] # "drain"
      BY <2>10 DEF LookedUp, Goto
    <3>2. \E a \in Awaits : pc' = [pc EXCEPT ![s] = a]
      BY <2>10 DEF LookedUp, Goto, Put, Awaits
    <3>3. \A t \in Socks : paused'[t] => paused[t]
      BY <2>10 DEF LookedUp, Destroy, Release, Put, Base, Types
    <3> QED BY <3>1, <3>2, <3>3, ChainKept
  <2>11. ASSUME NEW s \in Socks, Rechecked(s) PROVE ChunkInv'
    <3>1. UNCHANGED paused /\ pc[s] = "recheck" BY <2>11 DEF Rechecked
    <3>2. chunks[s] # <<>> BY <3>1 DEF Base, BusyHasChunk
    <3>3. CASE Finish(s) BY <3>1, <3>2, <3>3, ChainShrinks
    <3>4. CASE Goto(s, "persist")
      <4>1. \E a \in Awaits : pc' = [pc EXCEPT ![s] = a] BY <3>4 DEF Goto, Put, Awaits
      <4> QED BY <3>1, <3>4, <4>1, ChainKept DEF Goto
    <3> QED BY <2>11, <3>3, <3>4 DEF Rechecked
  <2>12. ASSUME NEW s \in Socks, Depth(s) PROVE ChunkInv'
    <3>1. pc[s] = "depth" /\ UNCHANGED chunks /\ pc' = [pc EXCEPT ![s] = "drain"]
      BY <2>12 DEF Depth, Put
    <3>2. Len(chunks[s]) \in Nat /\ Len(chunks[s]) <= 1
      <4>1. Len(chunks[s]) \in Nat BY DEF Base, Types
      <4>2. Len(chunks[s]) <= 2 /\ Len(chunks[s]) # 2 BY <3>1 DEF ChunkInv
      <4> QED BY <4>1, <4>2, TwoOrLess
    <3>3. CASE UNCHANGED <<paused, flow>> BY <3>1, <3>2, <3>3 DEF ChunkInv, Base, Types
    <3>4. CASE paused' = [paused EXCEPT ![s] = TRUE] /\ flow' = [flow EXCEPT ![s] = FALSE]
      BY <3>1, <3>2, <3>4 DEF ChunkInv, Base, Types
    <3> QED BY <2>12, <3>3, <3>4 DEF Depth, Put, pausing
  <2> QED
    BY <2>1, <2>2, <2>3, <2>4, <2>5, <2>6, <2>7, <2>8, <2>9, <2>10, <2>11, <2>12
    DEF Next, Handler, Poll
<1>3. ChunkInv => ChunksBounded
  BY DEF ChunkInv, ChunksBounded
<1> QED BY <1>1, <1>2, <1>3, BaseHolds, PTL DEF Spec

-----------------------------------------------------------------------------
(* What the device discards.                                               *)

\* The device has one question out at a time (its IMEI, a packet, or one that
\* was damaged on the way); responses to commands travel beside it and are not
\* answered.  The question is on the wire, or in the session's chain, or it has
\* been answered: it is never in two places, so no ACK comes twice.
Silent(q) == \A i \in 1 .. Len(q) : q[i][1] = "resp"
Asking(q, n) == \E i \in 1 .. Len(q) : /\ q[i][1] = "avl" => q[i][2] = n
                                       /\ \A j \in 1 .. Len(q) : j # i => q[j][1] = "resp"
\* The chunks that are still to be answered.
Chain(s) == IF pc[s] \in {"depth", "drain"} THEN Tail(chunks[s]) ELSE chunks[s]

Durable(p) == IF p \in Poison THEN p \in parked
              ELSE <<p, "sane">> \in raw /\ <<p, "insane">> \in rejects

OnWire(s) == Asking(wire[s], next) /\ Silent(Chain(s)) /\ reply[s] = <<>> /\ ~ready
InChain(s) == Silent(wire[s]) /\ Asking(Chain(s), next) /\ reply[s] = <<>> /\ ~ready
Answered(s) ==
  /\ Silent(wire[s]) /\ Silent(Chain(s))
  /\ \/ reply[s] = <<>>
     \/ /\ ~ready
        /\ \E r \in Answers : reply[s] = <<r>> /\ (r = <<"ack", 2>> => Durable(next))
OneQuestion == conn # None => OnWire(conn) \/ InChain(conn) \/ Answered(conn)

\* What the handler's await says about the chunk in hand; before an ACK of both
\* records their packet is in the streams.
InHand(s) ==
  /\ pc[s] \in {"lookup", "quarantine"} => Kind(s) = "imei"
  /\ pc[s] \in {"recheck", "persist"} => Kind(s) = "avl" /\ Packet(s) \notin Poison
  /\ pc[s] = "park" => Kind(s) = "avl" /\ Packet(s) \in Poison
  /\ pc[s] = "ack" => Kind(s) = "avl" /\ (got[s] = 2 => Durable(Packet(s)))
DurableInv == OneQuestion /\ DiscardedIsDurable /\ \A s \in Socks : InHand(s)

\* The queue of frames: what a response, a question or the loss of the head does.
LEMMA QueueAppend ==
  ASSUME NEW q \in Seq(Frames), NEW f \in Frames, NEW n
  PROVE  /\ Silent(q) /\ f[1] = "resp" => Silent(Append(q, f))
         /\ Asking(q, n) /\ f[1] = "resp" => Asking(Append(q, f), n)
         /\ Silent(q) /\ (f[1] = "avl" => f[2] = n) => Asking(Append(q, f), n)
<1> DEFINE p == Append(q, f)
<1>1. Len(q) \in Nat /\ Len(p) = Len(q) + 1 /\ p[Len(q) + 1] = f
      /\ \A i \in 1 .. Len(q) : p[i] = q[i]
  BY AppendProperties
<1>2. \A i \in 1 .. Len(p) : i \in 1 .. Len(q) \/ i = Len(q) + 1 BY <1>1
<1>2a. \A i \in 1 .. Len(q) : i \in 1 .. Len(p) /\ i # Len(q) + 1 BY <1>1
<1>2b. Len(q) + 1 \in 1 .. Len(p) BY <1>1
<1> HIDE DEF p
<1>3. ASSUME Silent(q), f[1] = "resp" PROVE Silent(p)
  BY <1>1, <1>2, <1>3 DEF Silent
<1>4. ASSUME Asking(q, n), f[1] = "resp" PROVE Asking(p, n)
  <2>1. PICK i \in 1 .. Len(q) : /\ q[i][1] = "avl" => q[i][2] = n
                                 /\ \A j \in 1 .. Len(q) : j # i => q[j][1] = "resp"
    BY <1>4 DEF Asking
  <2>2. i \in 1 .. Len(p) /\ (p[i][1] = "avl" => p[i][2] = n) BY <1>1, <1>2a, <2>1
  <2>3. \A j \in 1 .. Len(p) : j # i => p[j][1] = "resp" BY <1>1, <1>2, <1>4, <2>1
  <2> QED BY <2>2, <2>3 DEF Asking
<1>5. ASSUME Silent(q), f[1] = "avl" => f[2] = n PROVE Asking(p, n)
  <2>1. \A j \in 1 .. Len(p) : j # Len(q) + 1 => p[j][1] = "resp" BY <1>1, <1>2, <1>5 DEF Silent
  <2> QED BY <1>1, <1>2b, <1>5, <2>1 DEF Asking
<1> QED BY <1>3, <1>4, <1>5 DEF p

\* Taking the first frame off a queue leaves one that is silent or asks the same.
LEMMA QueueTail ==
  ASSUME NEW q \in Seq(Frames), q # <<>>, NEW n
  PROVE  /\ Silent(q) => Head(q)[1] = "resp" /\ Silent(Tail(q))
         /\ Asking(q, n) /\ Head(q)[1] = "resp" => Asking(Tail(q), n) \/ Silent(Tail(q))
         /\ Asking(q, n) /\ Head(q)[1] # "resp" =>
              Silent(Tail(q)) /\ (Head(q)[1] = "avl" => Head(q)[2] = n)
<1> DEFINE p == Tail(q)
<1>1. Len(q) \in Nat /\ Len(q) # 0 /\ Len(p) = Len(q) - 1 /\ Head(q) = q[1]
      /\ \A i \in 1 .. Len(p) : p[i] = q[i + 1]
  BY HeadTailProperties, EmptySeq
<1>2. Len(p) \in Nat /\ \A i \in 1 .. Len(p) : i + 1 \in 1 .. Len(q) /\ i + 1 # 1 BY <1>1
<1>3. 1 \in 1 .. Len(q) BY <1>1
<1>4. \A i \in 1 .. Len(q) : i # 1 => i - 1 \in 1 .. Len(p) /\ p[i - 1] = q[i]
  BY <1>1
<1> HIDE DEF p
<1>5. ASSUME Silent(q) PROVE Head(q)[1] = "resp" /\ Silent(p)
  BY <1>1, <1>2, <1>3, <1>5 DEF Silent
<1>6. ASSUME Asking(q, n), Head(q)[1] = "resp" PROVE Asking(p, n) \/ Silent(p)
  <2>1. PICK i \in 1 .. Len(q) : /\ q[i][1] = "avl" => q[i][2] = n
                                 /\ \A j \in 1 .. Len(q) : j # i => q[j][1] = "resp"
    BY <1>6 DEF Asking
  <2>2. CASE i = 1
    BY <1>1, <1>2, <1>6, <2>1, <2>2 DEF Silent
  <2>3. CASE i # 1
    <3>1. i - 1 \in 1 .. Len(p) /\ (p[i - 1][1] = "avl" => p[i - 1][2] = n)
      BY <1>4, <2>1, <2>3
    <3>2. \A j \in 1 .. Len(p) : j # i - 1 => p[j][1] = "resp"
      BY <1>1, <1>2, <2>1
    <3> QED BY <3>1, <3>2 DEF Asking
  <2> QED BY <2>2, <2>3
<1>7. ASSUME Asking(q, n), Head(q)[1] # "resp"
      PROVE  Silent(p) /\ (Head(q)[1] = "avl" => Head(q)[2] = n)
  <2>1. PICK i \in 1 .. Len(q) : /\ q[i][1] = "avl" => q[i][2] = n
                                 /\ \A j \in 1 .. Len(q) : j # i => q[j][1] = "resp"
    BY <1>7 DEF Asking
  <2>2. i = 1 BY <1>1, <1>3, <1>7, <2>1
  <2> QED BY <1>1, <1>2, <2>1, <2>2 DEF Silent
<1> QED BY <1>5, <1>6, <1>7 DEF p

\* Nothing is taken out of the streams.
Grow == raw \subseteq raw' /\ rejects \subseteq rejects' /\ parked \subseteq parked'
\* What is durable stays durable.
LEMMA DurableStays == ASSUME Grow, NEW p, Durable(p) PROVE Durable(p)'
BY DEF Grow, Durable

\* A step of socket s leaves the others' frames and answers alone.
Elsewhere(s) == \A t \in Socks \ {s} : /\ wire'[t] = wire[t] /\ reply'[t] = reply[t]
                                       /\ Chain(t)' = Chain(t)

\* A chain is a sequence of frames.
LEMMA ChainType == ASSUME Base, NEW s \in Socks PROVE Chain(s) \in Seq(Frames)
<1>1. CASE pc[s] \in {"depth", "drain"}
  BY <1>1 DEF Base, Types, BusyHasChunk, Chain
<1>2. CASE pc[s] \notin {"depth", "drain"}
  BY <1>2 DEF Base, Types, Chain
<1> QED BY <1>1, <1>2

\* The question stays where it is.
LEMMA QuestionSpared ==
  ASSUME OneQuestion, Base, NEW s \in Socks, Elsewhere(s), Grow, UNCHANGED <<conn, next, ready>>,
         wire'[s] = wire[s], reply'[s] = reply[s], Chain(s)' = Chain(s)
  PROVE  OneQuestion'
<1> SUFFICES ASSUME conn # None PROVE OneQuestion'
  BY DEF OneQuestion
<1>1. PICK t \in Socks : t = conn BY DEF Base, Types
<1>2. wire'[t] = wire[t] /\ reply'[t] = reply[t] /\ Chain(t)' = Chain(t) BY DEF Elsewhere
<1>3. OnWire(t) \/ InChain(t) \/ Answered(t) BY <1>1 DEF OneQuestion
<1>4. CASE OnWire(t) BY <1>1, <1>2, <1>4 DEF OneQuestion, OnWire
<1>5. CASE InChain(t) BY <1>1, <1>2, <1>5 DEF OneQuestion, InChain
<1>6. CASE Answered(t)
  <2>1. Durable(next) => Durable(next)' BY DEF Grow, Durable
  <2>2. Answered(t)' BY <1>2, <1>6, <2>1 DEF Answered
  <2> QED BY <1>1, <2>2 DEF OneQuestion
<1> QED BY <1>3, <1>4, <1>5, <1>6

\* The chunk in hand goes without an answer, and with it, perhaps, the question.
LEMMA QuestionDropped ==
  ASSUME OneQuestion, Base, NEW s \in Socks, Elsewhere(s), Grow, UNCHANGED <<conn, next, ready>>,
         wire'[s] = wire[s], reply'[s] = reply[s],
         Chain(s) # <<>>, Chain(s)' = Tail(Chain(s))
  PROVE  OneQuestion'
<1> SUFFICES ASSUME conn = s PROVE OneQuestion'
  <2>1. CASE conn # s /\ conn # None
    <3>1. PICK t \in Socks : t = conn /\ t # s BY <2>1 DEF Base, Types
    <3>2. Durable(next) => Durable(next)' BY DEF Grow, Durable
    <3> QED BY <3>1, <3>2 DEF Elsewhere, OneQuestion, OnWire, InChain, Answered
  <2> QED BY <2>1 DEF OneQuestion
<1>1. Chain(s) \in Seq(Frames) BY ChainType
<1>2. s # None BY IngestAssumption
<1>3. CASE OnWire(s)
  BY <1>1, <1>3, QueueTail DEF OneQuestion, OnWire
<1>4. CASE InChain(s)
  <2>1. Asking(Tail(Chain(s)), next) \/ Silent(Tail(Chain(s)))
    BY <1>1, <1>4, QueueTail DEF InChain
  <2> QED BY <1>4, <2>1 DEF OneQuestion, InChain, Answered
<1>5. CASE Answered(s)
  <2>1. Silent(Tail(Chain(s))) BY <1>1, <1>5, QueueTail DEF Answered
  <2>2. Durable(next) => Durable(next)' BY DEF Grow, Durable
  <2>3. Answered(s)' BY <1>5, <2>1, <2>2 DEF Answered
  <2> QED BY <2>3 DEF OneQuestion
<1> QED BY <1>2, <1>3, <1>4, <1>5 DEF OneQuestion

\* The chunk in hand is a question, and it is answered, once.
LEMMA QuestionAnswered ==
  ASSUME OneQuestion, Base, NEW s \in Socks, Elsewhere(s), Grow, UNCHANGED <<conn, next, ready>>,
         wire'[s] = wire[s], NEW r \in Answers,
         reply' = reply \/ reply'[s] = Append(reply[s], r),
         Chain(s) # <<>>, Chain(s)' = Tail(Chain(s)), Head(Chain(s))[1] # "resp",
         r = <<"ack", 2>> => Head(Chain(s))[1] = "avl" /\ Durable(Head(Chain(s))[2])
  PROVE  OneQuestion'
<1>0. CASE reply' = reply BY <1>0, QuestionDropped
<1>1. CASE reply'[s] = Append(reply[s], r)
  <2> SUFFICES ASSUME conn = s PROVE OneQuestion'
    <3>1. CASE conn # s /\ conn # None
      <4>1. PICK t \in Socks : t = conn /\ t # s BY <3>1 DEF Base, Types
      <4>2. Durable(next) => Durable(next)' BY DEF Grow, Durable
      <4> QED BY <4>1, <4>2 DEF Elsewhere, OneQuestion, OnWire, InChain, Answered
    <3> QED BY <3>1 DEF OneQuestion
  <2>1. Chain(s) \in Seq(Frames) BY ChainType
  <2>2. s # None BY IngestAssumption
  <2>3. ~OnWire(s) /\ ~Answered(s) BY <2>1, QueueTail DEF OnWire, Answered
  <2>4. InChain(s) BY <2>2, <2>3 DEF OneQuestion
  <2>5. Silent(Tail(Chain(s))) /\ (Head(Chain(s))[1] = "avl" => Head(Chain(s))[2] = next)
    BY <2>1, <2>4, QueueTail DEF InChain
  <2>6. reply'[s] = <<r>> BY <1>1, <2>4 DEF InChain
  <2>7. r = <<"ack", 2>> => Durable(next)' BY <2>5, DurableStays
  <2>8. Answered(s)' BY <2>4, <2>5, <2>6, <2>7 DEF InChain, Answered
  <2> QED BY <2>8 DEF OneQuestion
<1> QED BY <1>0, <1>1

\* How the awaits of a handler move the chain.
LEMMA ChainOnFinish ==
  ASSUME Base, NEW s \in Socks, chunks[s] # <<>>, Finish(s), UNCHANGED wire,
         \A t \in Socks \ {s} : reply'[t] = reply[t]
  PROVE  /\ Elsewhere(s)
         /\ Chain(s)' = Tail(chunks[s])
         /\ Chain(s) = IF pc[s] \in {"depth", "drain"} THEN Tail(chunks[s]) ELSE chunks[s]
         /\ pc'[s] = "idle" /\ \A t \in Socks \ {s} : pc'[t] = pc[t] /\ chunks'[t] = chunks[t]
BY DEF Base, Types, Finish, Put, Elsewhere, Chain

\* Moving on to another await keeps the chain of every socket.
LEMMA ChainOnGoto ==
  ASSUME Base, NEW s \in Socks, NEW a \in Awaits, Goto(s, a), UNCHANGED wire,
         \A t \in Socks \ {s} : reply'[t] = reply[t], pc[s] \notin {"depth", "drain"}
  PROVE  /\ Elsewhere(s) /\ UNCHANGED chunks
         /\ pc'[s] = a /\ \A t \in Socks \ {s} : pc'[t] = pc[t]
         /\ Chain(s) = chunks[s]
         /\ Chain(s)' = IF a \in {"depth", "drain"} THEN Tail(chunks[s]) ELSE chunks[s]
BY DEF Base, Types, Goto, Put, Elsewhere, Chain

\* The other handlers keep what they have in hand.
LEMMA HandKept ==
  ASSUME NEW t \in Socks, InHand(t), Grow, pc'[t] = pc[t], chunks'[t] = chunks[t],
         got'[t] = got[t] \/ pc[t] # "ack"
  PROVE  InHand(t)'
<1>1. Kind(t)' = Kind(t) /\ Packet(t)' = Packet(t) BY DEF Kind, Packet
<1>2. Durable(Packet(t)) => Durable(Packet(t))' BY <1>1 DEF Grow, Durable
<1> QED BY <1>1, <1>2 DEF InHand

\* The steps of a handler.  A chunk dropped:
LEMMA DropsKeepDurable ==
  ASSUME Base, DurableInv, NEW s \in Socks,
         \/ Skip(s) \/ Drained(s) \/ Throws(s)
         \/ Rechecked(s) /\ registry # deviceId[s]
         \/ ParseFails(s) /\ UNCHANGED reply
  PROVE  DurableInv'
<1> USE DEF DurableInv
<1>1. chunks[s] # <<>>
  BY DEF Skip, ParseFails, Rechecked, Drained, Throws, Begins, Awaits, Base, BusyHasChunk
<1>2. Finish(s) BY DEF Skip, ParseFails, Rechecked, Drained, Throws
<1>3. UNCHANGED <<wire, reply, conn, next, ready, raw, rejects, parked, got>>
  BY DEF Skip, ParseFails, Rechecked, Drained, Throws, session, streams, device
<1>4. Grow BY <1>3 DEF Grow
<1>5. /\ Elsewhere(s) /\ Chain(s)' = Tail(chunks[s])
      /\ Chain(s) = IF pc[s] \in {"depth", "drain"} THEN Tail(chunks[s]) ELSE chunks[s]
      /\ pc'[s] = "idle" /\ \A t \in Socks \ {s} : pc'[t] = pc[t] /\ chunks'[t] = chunks[t]
  BY <1>1, <1>2, <1>3, ChainOnFinish
<1>6. OneQuestion'
  <2>1. CASE pc[s] \in {"depth", "drain"} BY <1>3, <1>4, <1>5, <2>1, QuestionSpared
  <2>2. CASE pc[s] \notin {"depth", "drain"} BY <1>1, <1>3, <1>4, <1>5, <2>2, QuestionDropped
  <2> QED BY <2>1, <2>2
<1>7. DiscardedIsDurable' BY <1>3 DEF DiscardedIsDurable
<1>8. InHand(s)' BY <1>5 DEF InHand
<1>9. \A t \in Socks \ {s} : InHand(t)' BY <1>3, <1>4, <1>5, HandKept
<1> QED BY <1>6, <1>7, <1>8, <1>9

\* A chunk answered, at its end or before the rest of its handler:
LEMMA AnswersKeepDurable ==
  ASSUME Base, DurableInv, NEW s \in Socks,
         \/ LookedUp(s) \/ Quarantined(s) \/ Acknowledge(s)
         \/ ParseFails(s) /\ Reply(s, <<"ack", 0>>)
  PROVE  DurableInv'
<1> USE DEF DurableInv
<1>1. chunks[s] # <<>> /\ pc[s] \notin {"depth", "drain"}
  BY DEF LookedUp, ParseFails, Quarantined, Acknowledge, Begins, Base, BusyHasChunk
<1>2. UNCHANGED <<wire, conn, next, ready, raw, rejects, parked>>
  BY DEF LookedUp, ParseFails, Quarantined, Acknowledge, streams, device
<1>3. Grow BY <1>2 DEF Grow
<1>4. PICK r \in Answers : /\ Reply(s, r)
                           /\ r = <<"ack", 2>> => pc[s] = "ack" /\ got[s] = 2
  <2>1. <<"yes", 0>> \in Answers /\ <<"no", 0>> \in Answers
        /\ \A n \in 0 .. 2 : <<"ack", n>> \in Answers
    BY DEF Answers
  <2>2. CASE LookedUp(s) BY <2>1, <2>2 DEF LookedUp
  <2>3. CASE Quarantined(s) BY <2>1, <2>3 DEF Quarantined
  <2>4. CASE ParseFails(s) /\ Reply(s, <<"ack", 0>>) BY <2>1, <2>4
  <2>5. CASE Acknowledge(s)
    <3>1. <<"ack", got[s]>> \in Answers BY <2>1 DEF Base, Types
    <3>2. Reply(s, <<"ack", got[s]>>) /\ pc[s] = "ack" BY <2>5 DEF Acknowledge
    <3>3. <<"ack", got[s]>> = <<"ack", 2>> => got[s] = 2 OBVIOUS
    <3> QED BY <3>1, <3>2, <3>3
  <2> QED BY <2>2, <2>3, <2>4, <2>5
<1>5. /\ \A t \in Socks \ {s} : reply'[t] = reply[t]
      /\ reply' = reply \/ reply'[s] = Append(reply[s], r)
  BY <1>4 DEF Reply, Base, Types
<1>6. /\ Elsewhere(s) /\ Chain(s) = chunks[s] /\ Chain(s)' = Tail(chunks[s])
      /\ pc'[s] \in {"idle", "depth", "drain"}
      /\ \A t \in Socks \ {s} : pc'[t] = pc[t] /\ chunks'[t] = chunks[t]
  <2>1. CASE Finish(s) BY <1>1, <1>2, <1>5, <2>1, ChainOnFinish
  <2>2. CASE Goto(s, "drain") BY <1>1, <1>2, <1>5, <2>2, ChainOnGoto DEF Awaits
  <2>3. CASE Goto(s, "depth") BY <1>1, <1>2, <1>5, <2>3, ChainOnGoto DEF Awaits
  <2> QED BY <2>1, <2>2, <2>3 DEF LookedUp, ParseFails, Quarantined, Acknowledge
<1>7. /\ Head(chunks[s])[1] # "resp"
      /\ r = <<"ack", 2>> => Head(chunks[s])[1] = "avl" /\ Durable(Head(chunks[s])[2])
  BY <1>4 DEF LookedUp, ParseFails, Quarantined, Acknowledge, InHand, Kind, Packet
<1>8. OneQuestion' BY <1>1, <1>2, <1>3, <1>5, <1>6, <1>7, QuestionAnswered
<1>9. DiscardedIsDurable' BY <1>2 DEF DiscardedIsDurable
<1>10. InHand(s)' BY <1>6 DEF InHand
<1>11. \A t \in Socks \ {s} : got'[t] = got[t]
  BY DEF LookedUp, ParseFails, Quarantined, Acknowledge, session, Put, Base, Types
<1>12. \A t \in Socks \ {s} : InHand(t)' BY <1>3, <1>6, <1>11, HandKept
<1> QED BY <1>8, <1>9, <1>10, <1>12

\* All records are stored when the pipeline counts two.
LEMMA AllCounted == \A R \in SUBSET Records : Cardinality(Records \ R) = 2 => R = {}
<1> SUFFICES ASSUME NEW R \in SUBSET Records, Cardinality(Records \ R) = 2 PROVE R = {}
  OBVIOUS
<1>1. Records = Records \ R BY RecordsCount, FS_Subset
<1> QED BY <1>1

\* A handler that goes on to its next call keeps the chunk in hand:
LEMMA CallsKeepDurable ==
  ASSUME Base, DurableInv, NEW s \in Socks,
         \/ Parse(s) \/ LookedUpNone(s)
         \/ Rechecked(s) /\ registry = deviceId[s]
         \/ Persist(s) \/ Park(s)
  PROVE  DurableInv'
<1> USE DEF DurableInv
<1>1. chunks[s] # <<>> /\ pc[s] \notin {"depth", "drain"}
  BY DEF Parse, LookedUpNone, Rechecked, Persist, Park, Begins, Base, BusyHasChunk
<1>2. UNCHANGED <<wire, reply, conn, next, ready>>
  BY DEF Parse, LookedUpNone, Rechecked, Persist, Park, device
<1>3. Grow BY DEF Grow, Parse, LookedUpNone, Rechecked, Persist, Park, streams
<1>4. PICK a \in Awaits \ {"depth", "drain"} : Goto(s, a)
  BY DEF Parse, LookedUpNone, Rechecked, Persist, Park, Awaits
<1>5. /\ Elsewhere(s) /\ UNCHANGED chunks /\ Chain(s) = chunks[s] /\ Chain(s)' = chunks[s]
      /\ pc'[s] = a /\ \A t \in Socks \ {s} : pc'[t] = pc[t]
  BY <1>1, <1>2, <1>4, ChainOnGoto
<1>6. OneQuestion' BY <1>2, <1>3, <1>5, QuestionSpared
<1>7. DiscardedIsDurable'
  <2>1. \A p \in 1 .. next - 1 : Durable(p)' BY <1>3 DEF DiscardedIsDurable, Durable, Grow
  <2> QED BY <1>2, <2>1 DEF DiscardedIsDurable, Durable
<1>8. \A t \in Socks \ {s} : got'[t] = got[t]
  BY DEF Parse, LookedUpNone, Rechecked, Persist, Park, session, Put, Base, Types
<1>9. \A t \in Socks \ {s} : InHand(t)' BY <1>3, <1>5, <1>8, HandKept
<1>10. Kind(s)' = Kind(s) /\ Packet(s)' = Packet(s) BY <1>5 DEF Kind, Packet
<1>11. InHand(s)'
  <2>1. CASE Parse(s)
    <3>1. pc' = [pc EXCEPT ![s] = CASE Kind(s) = "imei" -> "lookup" [] Kind(s) = "resp" -> "respond"
                                    [] Packet(s) \in Poison -> "park" [] OTHER -> "recheck"]
      BY <2>1 DEF Parse, Goto, Put
    <3>2. /\ Kind(s) \in {"imei", "resp", "avl"}
          /\ Kind(s) # "avl" => Packet(s) \notin Poison
      <4>1. Head(chunks[s]) \in Frames BY <1>1 DEF Base, Types
      <4>2. /\ Kind(s) \in {"imei", "resp", "avl"}
            /\ Kind(s) # "avl" => Packet(s) = 0
        BY <2>1, <4>1 DEF Parse, Kind, Packet, Frames
      <4> QED BY <4>2, IngestAssumption
    <3>3. CASE Kind(s) = "imei"
      <4>1. pc'[s] = "lookup" BY <3>1, <3>2, <3>3 DEF Base, Types
      <4> QED BY <1>10, <3>3, <4>1 DEF InHand
    <3>4. CASE Kind(s) = "resp"
      <4>1. pc'[s] = "respond" BY <3>1, <3>2, <3>4 DEF Base, Types
      <4> QED BY <4>1 DEF InHand
    <3>5. CASE Kind(s) = "avl" /\ Packet(s) \in Poison
      <4>1. pc'[s] = "park" BY <3>1, <3>5 DEF Base, Types
      <4> QED BY <1>10, <3>5, <4>1 DEF InHand
    <3>6. CASE Kind(s) = "avl" /\ Packet(s) \notin Poison
      <4>1. pc'[s] = "recheck" BY <3>1, <3>6 DEF Base, Types
      <4> QED BY <1>10, <3>6, <4>1 DEF InHand
    <3> QED BY <3>2, <3>3, <3>4, <3>5, <3>6
  <2>2. CASE LookedUpNone(s)
    BY <1>10, <2>2 DEF LookedUpNone, Goto, Put, InHand, Base, Types
  <2>3. CASE Rechecked(s) /\ registry = deviceId[s]
    BY <1>10, <2>3 DEF Rechecked, Goto, Put, InHand, Base, Types
  <2>4. CASE Persist(s)
    <3>1. PICK R \in SUBSET Records :
            /\ raw' = raw \cup ({Packet(s)} \X ({"sane"} \ R))
            /\ rejects' = rejects \cup ({Packet(s)} \X ({"insane"} \ R))
            /\ got' = Put(got, s, Cardinality(Records \ R))
      BY <2>4 DEF Persist
    <3>2. pc[s] = "persist" /\ pc'[s] = "ack" BY <2>4 DEF Persist, Goto, Put, Base, Types
    <3>3. got'[s] = Cardinality(Records \ R) BY <3>1 DEF Put, Base, Types
    <3>4. Kind(s) = "avl" /\ Packet(s) \notin Poison BY <3>2 DEF InHand
    <3>5. R = {} => <<Packet(s), "sane">> \in raw' /\ <<Packet(s), "insane">> \in rejects'
      BY <3>1
    <3>6. got'[s] = 2 => Durable(Packet(s))'
      BY <1>10, <3>3, <3>4, <3>5, AllCounted DEF Durable
    <3> QED BY <1>10, <3>2, <3>4, <3>6 DEF InHand
  <2>5. CASE Park(s)
    <3>1. pc[s] = "park" /\ pc'[s] = "ack" /\ parked' = parked \cup {Packet(s)}
      BY <2>5 DEF Park, Goto, Put, Base, Types
    <3>2. Kind(s) = "avl" /\ Packet(s) \in Poison BY <3>1 DEF InHand
    <3>3. Durable(Packet(s))' BY <1>10, <3>1, <3>2 DEF Durable
    <3> QED BY <1>10, <3>1, <3>2, <3>3 DEF InHand
  <2> QED BY <2>1, <2>2, <2>3, <2>4, <2>5
<1> QED BY <1>6, <1>7, <1>9, <1>11

\* maybeBackpressure comes after the ACK, and touches no frame.
LEMMA DepthKeepsDurable ==
  ASSUME Base, DurableInv, NEW s \in Socks, Depth(s) PROVE DurableInv'
<1> USE DEF DurableInv
<1>1. /\ UNCHANGED <<wire, reply, conn, next, ready, raw, rejects, parked, got, chunks>>
      /\ pc[s] = "depth" /\ pc' = [pc EXCEPT ![s] = "drain"]
  BY DEF Depth, Put, session, streams, device
<1>2. Grow BY <1>1 DEF Grow
<1>3. Elsewhere(s) /\ Chain(s)' = Chain(s) /\ pc'[s] = "drain"
      /\ \A t \in Socks \ {s} : pc'[t] = pc[t]
  BY <1>1 DEF Elsewhere, Chain, Base, Types
<1>4. OneQuestion' BY <1>1, <1>2, <1>3, QuestionSpared
<1>5. DiscardedIsDurable' BY <1>1 DEF DiscardedIsDurable
<1>6. InHand(s)' BY <1>3 DEF InHand
<1>7. \A t \in Socks \ {s} : InHand(t)' BY <1>1, <1>2, <1>3, HandKept
<1> QED BY <1>4, <1>5, <1>6, <1>7

\* A chunk that joins the chain does not change the one in hand.
LEMMA TailOfAppend ==
  ASSUME NEW S, NEW q \in Seq(S), q # <<>>, NEW x \in S
  PROVE  /\ Tail(Append(q, x)) = Append(Tail(q), x)
         /\ Head(Append(q, x)) = Head(q)
<1>1. Len(q) \in Nat /\ Len(q) # 0 BY EmptySeq
<1>2. /\ Append(q, x) \in Seq(S) /\ Append(q, x) # <<>> /\ Len(Append(q, x)) = Len(q) + 1
      /\ \A i \in 1 .. Len(q) : Append(q, x)[i] = q[i]
      /\ Append(q, x)[Len(q) + 1] = x
  BY AppendProperties
<1>3. Tail(q) \in Seq(S) /\ Len(Tail(q)) = Len(q) - 1
      /\ \A i \in 1 .. Len(q) - 1 : Tail(q)[i] = q[i + 1]
  BY HeadTailProperties
<1>4. Tail(Append(q, x)) \in Seq(S) /\ Len(Tail(Append(q, x))) = Len(q)
      /\ \A i \in 1 .. Len(q) : Tail(Append(q, x))[i] = Append(q, x)[i + 1]
  BY <1>1, <1>2, HeadTailProperties
<1>5. /\ Append(Tail(q), x) \in Seq(S) /\ Len(Append(Tail(q), x)) = Len(q)
      /\ \A i \in 1 .. Len(q) - 1 : Append(Tail(q), x)[i] = Tail(q)[i]
      /\ Append(Tail(q), x)[Len(q)] = x
  BY <1>1, <1>3, AppendProperties
<1>6. ASSUME NEW i \in 1 .. Len(q) PROVE Tail(Append(q, x))[i] = Append(Tail(q), x)[i]
  <2>1. CASE i = Len(q)
    <3>1. Append(q, x)[i + 1] = x BY <1>2, <2>1
    <3>2. Append(Tail(q), x)[i] = x BY <1>5, <2>1
    <3> QED BY <1>4, <3>1, <3>2
  <2>2. CASE i # Len(q)
    <3>1. i \in 1 .. Len(q) - 1 /\ i + 1 \in 1 .. Len(q) BY <1>1, <2>2
    <3>2. Append(q, x)[i + 1] = q[i + 1] BY <1>2, <3>1
    <3>3. Append(Tail(q), x)[i] = q[i + 1] BY <1>3, <1>5, <3>1
    <3> QED BY <1>4, <3>2, <3>3
  <2> QED BY <2>1, <2>2
<1>7. Tail(Append(q, x)) = Append(Tail(q), x) BY <1>4, <1>5, <1>6, SeqEqual
<1>8. Head(Append(q, x)) = Head(q) BY <1>1, <1>2
<1> QED BY <1>7, <1>8

\* A step that touches no chain, frame, answer or stream.
LEMMA IdleKeepsDurable ==
  ASSUME DurableInv, UNCHANGED <<wire, reply, conn, next, ready, raw, rejects, parked, got,
                                 chunks, pc>>
  PROVE  DurableInv'
BY DEF DurableInv, OneQuestion, OnWire, InChain, Answered, Chain, Durable, DiscardedIsDurable,
       InHand, Kind, Packet

\* A frame moves from the wire to the chain.
LEMMA DataKeepsDurable ==
  ASSUME Base, DurableInv, NEW s \in Socks, Data(s) PROVE DurableInv'
<1> USE DEF DurableInv
<1> DEFINE f == Head(wire[s])
<1>1. /\ UNCHANGED <<reply, conn, next, ready, raw, rejects, parked, got, pc>>
      /\ chunks' = [chunks EXCEPT ![s] = Append(chunks[s], f)]
      /\ wire' = [wire EXCEPT ![s] = Tail(wire[s])]
      /\ wire[s] # <<>> /\ wire[s] \in Seq(Frames) /\ chunks[s] \in Seq(Frames)
  BY DEF Data, Put, session, streams, device, Base, Types
<1>2. Grow BY <1>1 DEF Grow
<1>3. f \in Frames BY <1>1
<1>4. /\ chunks'[s] = Append(chunks[s], f) /\ wire'[s] = Tail(wire[s])
      /\ \A t \in Socks \ {s} : chunks'[t] = chunks[t] /\ wire'[t] = wire[t]
  BY <1>1 DEF Base, Types
<1>5. Elsewhere(s) BY <1>1, <1>4 DEF Elsewhere, Chain
<1> HIDE DEF f
<1>6. Chain(s)' = Append(Chain(s), f)
  <2>1. CASE pc[s] \in {"depth", "drain"}
    <3>1. chunks[s] # <<>> BY <2>1 DEF Base, BusyHasChunk
    <3>2. Tail(Append(chunks[s], f)) = Append(Tail(chunks[s]), f)
      BY <1>1, <1>3, <3>1, TailOfAppend
    <3> QED BY <1>1, <1>4, <2>1, <3>2 DEF Chain
  <2>2. CASE pc[s] \notin {"depth", "drain"} BY <1>1, <1>4, <2>2 DEF Chain
  <2> QED BY <2>1, <2>2
<1>7. OneQuestion'
  <2>1. CASE conn \notin {None, s}
    <3>1. PICK t \in Socks : t = conn /\ t # s BY <2>1 DEF Base, Types
    <3>2. Durable(next)' <=> Durable(next) BY <1>1 DEF Durable
    <3> QED BY <1>1, <1>5, <3>1, <3>2 DEF Elsewhere, OneQuestion, OnWire, InChain, Answered
  <2>2. CASE conn = s
    <3>0. Chain(s) \in Seq(Frames) /\ s # None BY ChainType, IngestAssumption
    <3>1. CASE OnWire(s)
      <4>1. CASE f[1] = "resp"
        <5>1. Silent(Append(Chain(s), f)) BY <1>3, <3>0, <3>1, <4>1, QueueAppend DEF OnWire
        <5>2. Asking(Tail(wire[s]), next) \/ Silent(Tail(wire[s]))
          BY <1>1, <3>1, <4>1, QueueTail DEF OnWire, f
        <5> QED BY <1>1, <1>4, <1>6, <2>2, <3>1, <5>1, <5>2 DEF OneQuestion, OnWire, Answered
      <4>2. CASE f[1] # "resp"
        <5>1. Silent(Tail(wire[s])) /\ (f[1] = "avl" => f[2] = next)
          BY <1>1, <3>1, <4>2, QueueTail DEF OnWire, f
        <5>2. Asking(Append(Chain(s), f), next)
          BY <1>3, <3>0, <3>1, <5>1, QueueAppend DEF OnWire
        <5> QED BY <1>1, <1>4, <1>6, <2>2, <3>1, <5>1, <5>2 DEF OneQuestion, OnWire, InChain
      <4> QED BY <4>1, <4>2
    <3>2. CASE InChain(s) \/ Answered(s)
      <4>1. f[1] = "resp" /\ Silent(Tail(wire[s]))
        BY <1>1, <3>2, QueueTail DEF InChain, Answered, f
      <4>2. CASE InChain(s)
        <5>1. Asking(Append(Chain(s), f), next) BY <1>3, <3>0, <4>1, <4>2, QueueAppend DEF InChain
        <5> QED BY <1>1, <1>4, <1>6, <2>2, <4>1, <4>2, <5>1 DEF OneQuestion, InChain
      <4>3. CASE Answered(s)
        <5>1. Silent(Append(Chain(s), f)) BY <1>3, <3>0, <4>1, <4>3, QueueAppend DEF Answered
        <5>2. Durable(next)' <=> Durable(next) BY <1>1 DEF Durable
        <5>3. Answered(s)' BY <1>1, <1>4, <1>6, <4>1, <4>3, <5>1, <5>2 DEF Answered
        <5> QED BY <1>1, <2>2, <5>3 DEF OneQuestion
      <4> QED BY <3>2, <4>2, <4>3
    <3> QED BY <2>2, <3>0, <3>1, <3>2 DEF OneQuestion
  <2>3. CASE conn = None BY <1>1, <2>3 DEF OneQuestion
  <2> QED BY <2>1, <2>2, <2>3
<1>8. DiscardedIsDurable' BY <1>1 DEF DiscardedIsDurable
<1>9. \A t \in Socks \ {s} : InHand(t)' BY <1>1, <1>2, <1>4, HandKept
<1>10. InHand(s)'
  <2>1. CASE chunks[s] # <<>>
    <3>1. Head(Append(chunks[s], f)) = Head(chunks[s]) BY <1>1, <1>3, <2>1, TailOfAppend
    <3>2. Kind(s)' = Kind(s) /\ Packet(s)' = Packet(s) BY <1>4, <3>1 DEF Kind, Packet
    <3>3. Durable(Packet(s))' <=> Durable(Packet(s)) BY <1>1, <3>2 DEF Durable
    <3> QED BY <1>1, <3>2, <3>3 DEF InHand
  <2>2. CASE chunks[s] = <<>>
    <3>1. pc[s] = "idle" BY <2>2 DEF Base, BusyHasChunk
    <3> QED BY <1>1, <3>1 DEF InHand
  <2> QED BY <2>1, <2>2
<1> QED BY <1>7, <1>8, <1>9, <1>10

\* The device's own steps: it leaves, connects, takes an answer, sends.
LEMMA DeviceKeepsDurable ==
  ASSUME Base, DurableInv,
         Lose \/ Receive \/ Send \/ Respond \/ Crash \/ \E s \in Socks : Connect(s)
  PROVE  DurableInv'
<1> USE DEF DurableInv
<1>0. UNCHANGED <<raw, rejects, parked>>
  BY DEF Lose, Receive, Send, Respond, Crash, Connect, streams
<1>g. Grow BY <1>0 DEF Grow
<1>d. \A p : Durable(p)' <=> Durable(p) BY <1>0 DEF Durable
<1>1. CASE Lose
  <2>1. conn' = None /\ UNCHANGED <<next, got, chunks, pc>>
    BY <1>1 DEF Lose, flowing, session
  <2>2. \A t \in Socks : InHand(t)' BY <1>g, <2>1, HandKept
  <2> QED BY <1>0, <2>1, <2>2 DEF OneQuestion, DiscardedIsDurable
<1>2. CASE Receive
  <2>1. PICK s \in Socks : s = conn /\ s # None /\ reply[s] # <<>>
    BY <1>2 DEF Receive, Base, Types
  <2>2. UNCHANGED <<wire, got, chunks, pc>> BY <1>2 DEF Receive, flowing, session
  <2>3. \A t \in Socks : InHand(t)' BY <1>g, <2>2, HandKept
  <2>4. Answered(s) BY <2>1 DEF OneQuestion, OnWire, InChain
  <2>5. PICK r \in Answers : reply[s] = <<r>> /\ (r = <<"ack", 2>> => Durable(next))
    BY <2>1, <2>4 DEF Answered
  <2>6. /\ reply' = [reply EXCEPT ![s] = Tail(reply[s])] /\ Head(reply[s]) = r
        /\ next' = IF r = <<"ack", 2>> THEN next + 1 ELSE next
        /\ conn' \in {None, s}
    BY <1>2, <2>1, <2>5 DEF Receive
  <2>7. reply'[s] = <<>> BY <2>5, <2>6 DEF Base, Types
  <2>8. Chain(s)' = Chain(s) BY <2>2 DEF Chain
  <2>9. Answered(s)' BY <2>2, <2>4, <2>7, <2>8 DEF Answered
  <2>10. OneQuestion' BY <2>6, <2>9 DEF OneQuestion
  <2>11. DiscardedIsDurable'
    <3>1. CASE r # <<"ack", 2>>
      BY <1>0, <2>6, <3>1 DEF DiscardedIsDurable
    <3>2. CASE r = <<"ack", 2>>
      <4>1. next' = next + 1 /\ Durable(next) /\ next \in Nat BY <2>5, <2>6, <3>2 DEF Base, Types
      <4>2. \A p \in 1 .. next' - 1 : p \in 1 .. next - 1 \/ p = next BY <4>1
      <4>3. \A p \in 1 .. next - 1 : Durable(p) BY DEF DiscardedIsDurable, Durable
      <4>4. \A p \in 1 .. next' - 1 : Durable(p)
        BY <4>1, <4>2, <4>3
      <4> QED BY <1>0, <4>4 DEF DiscardedIsDurable, Durable
    <3> QED BY <3>1, <3>2
  <2> QED BY <2>3, <2>10, <2>11
<1>3. CASE Send \/ Respond
  <2>1. PICK s \in Socks : s = conn /\ s # None
    BY <1>3 DEF Send, Respond, Base, Types
  <2>2. UNCHANGED <<conn, next, reply, got, chunks, pc>>
    BY <1>3 DEF Send, Respond, flowing, session, device
  <2>3. PICK f \in Frames : /\ wire' = [wire EXCEPT ![s] = Append(wire[s], f)]
                            /\ \/ f[1] = "resp" /\ UNCHANGED ready
                               \/ ready /\ ~ready' /\ (f[1] = "avl" => f[2] = next)
    <3>1. CASE Send
      <4>1. <<"bad", 0>> \in Frames /\ <<"avl", next>> \in Frames BY <3>1 DEF Send, Frames
      <4> QED BY <2>1, <3>1, <4>1 DEF Send
    <3>2. CASE Respond
      <4>1. <<"resp", 0>> \in Frames BY DEF Frames
      <4> QED BY <2>1, <3>2, <4>1 DEF Respond, device
    <3> QED BY <1>3, <3>1, <3>2
  <2>4. \A t \in Socks : InHand(t)' BY <1>g, <2>2, HandKept
  <2>5. wire'[s] = Append(wire[s], f) /\ wire[s] \in Seq(Frames) BY <2>3 DEF Base, Types
  <2>6. Chain(s)' = Chain(s) BY <2>2 DEF Chain
  <2>a. conn' = s /\ UNCHANGED <<next, reply>> BY <2>1, <2>2
  <2>7. CASE f[1] = "resp" /\ UNCHANGED ready
    <3>1. /\ Silent(wire[s]) => Silent(wire'[s])
          /\ Asking(wire[s], next) => Asking(wire'[s], next)
      BY <2>5, <2>7, QueueAppend
    <3>2. ASSUME OnWire(s) PROVE OneQuestion'
      <4>1. OnWire(s)' BY <2>a, <2>6, <2>7, <3>1, <3>2 DEF OnWire
      <4> QED BY <2>a, <4>1 DEF OneQuestion
    <3>3. ASSUME InChain(s) PROVE OneQuestion'
      <4>1. InChain(s)' BY <2>a, <2>6, <2>7, <3>1, <3>3 DEF InChain
      <4> QED BY <2>a, <4>1 DEF OneQuestion
    <3>4. ASSUME Answered(s) PROVE OneQuestion'
      <4>1. Answered(s)' BY <1>d, <2>a, <2>6, <2>7, <3>1, <3>4 DEF Answered
      <4> QED BY <2>a, <4>1 DEF OneQuestion
    <3>5. OneQuestion' BY <2>1, <3>2, <3>3, <3>4 DEF OneQuestion
    <3> QED BY <1>0, <2>2, <2>4, <3>5 DEF DiscardedIsDurable
  <2>8. CASE ready /\ ~ready' /\ (f[1] = "avl" => f[2] = next)
    <3>1. Answered(s) /\ reply[s] = <<>>
      BY <2>1, <2>8 DEF OneQuestion, OnWire, InChain, Answered
    <3>2. Asking(wire'[s], next) BY <2>5, <2>8, <3>1, QueueAppend DEF Answered
    <3>3. OnWire(s)' BY <2>2, <2>6, <2>8, <3>1, <3>2 DEF OnWire, Answered
    <3> QED BY <1>0, <2>1, <2>2, <2>4, <3>3 DEF OneQuestion, DiscardedIsDurable
  <2> QED BY <2>3, <2>7, <2>8
<1>4. CASE Crash
  <2>1. /\ pc' = [t \in Socks |-> "idle"] /\ chunks' = [t \in Socks |-> <<>>]
        /\ UNCHANGED <<conn, next, ready, wire, reply>>
    BY <1>4 DEF Crash, device
  <2>2. \A t \in Socks : InHand(t)' BY <2>1 DEF InHand
  <2>3. \A t \in Socks : Silent(Chain(t)') BY <2>1 DEF Chain, Silent
  <2>4. OneQuestion'
    <3> SUFFICES ASSUME conn # None PROVE OneQuestion'
      BY <2>1 DEF OneQuestion
    <3>1. PICK s \in Socks : s = conn BY DEF Base, Types
    <3>2. CASE OnWire(s) BY <2>1, <2>3, <3>1, <3>2 DEF OneQuestion, OnWire
    <3>3. CASE InChain(s) BY <2>1, <2>3, <3>1, <3>3 DEF OneQuestion, InChain, Answered
    <3>4. CASE Answered(s)
      <4>1. Answered(s)' BY <1>d, <2>1, <2>3, <3>4 DEF Answered
      <4> QED BY <2>1, <3>1, <4>1 DEF OneQuestion
    <3> QED BY <3>1, <3>2, <3>3, <3>4 DEF OneQuestion
  <2> QED BY <1>0, <2>1, <2>2, <2>4 DEF DiscardedIsDurable
<1>5. ASSUME NEW s \in Socks, Connect(s) PROVE DurableInv'
  <2>1. /\ conn' = s /\ ready' = FALSE /\ UNCHANGED <<chunks, pc, got, next>>
        /\ wire' = [wire EXCEPT ![s] = << <<"imei", 0>> >>]
        /\ reply' = [reply EXCEPT ![s] = <<>>]
    BY <1>5 DEF Connect, Put
  <2>2. chunks[s] = <<>> /\ pc[s] = "idle"
    BY <1>5 DEF Connect, Forgotten, Base, Types, NewIsBlank, BusyHasChunk
  <2>3. \A t \in Socks : InHand(t)' BY <1>g, <2>1, HandKept
  <2>4. wire'[s] = << <<"imei", 0>> >> /\ reply'[s] = <<>> BY <2>1 DEF Base, Types
  <2>5. Asking(<< <<"imei", 0>> >>, next') BY DEF Asking
  <2>6. Chain(s)' = <<>> /\ Silent(<<>>) BY <2>1, <2>2 DEF Chain, Silent
  <2>7. OnWire(s)' BY <2>1, <2>4, <2>5, <2>6 DEF OnWire
  <2> QED BY <1>0, <2>1, <2>3, <2>7 DEF OneQuestion, DiscardedIsDurable
<1> QED BY <1>1, <1>2, <1>3, <1>4, <1>5

\* Rule 4, persist-then-ACK, end to end: through refused appends, lost answers,
\* repeats, hang-ups, newer sessions and crashes, a packet the device discards
\* is in the streams its records belong to.
THEOREM AckMeansDurable == Spec => []DiscardedIsDurable
<1>1. Init => DurableInv
  BY DEF Init, DurableInv, OneQuestion, DiscardedIsDurable, InHand
<1>2. DurableInv /\ Base /\ [Next]_vars => DurableInv'
  <2> SUFFICES ASSUME DurableInv, Base, [Next]_vars PROVE DurableInv'
    OBVIOUS
  <2>1. CASE UNCHANGED vars \/ Retire \/ Surge \/ Subside
    BY <2>1, IdleKeepsDurable
    DEF vars, flowing, session, streams, device, Retire, Surge, Subside
  <2>2. ASSUME NEW s \in Socks,
               Hangup(s) \/ Timeout(s) \/ Close(s) \/ PollTimer(s) \/ PollAnswer(s)
        PROVE  DurableInv'
    BY <2>2, IdleKeepsDurable
    DEF flowing, session, streams, device, Hangup, Timeout, Close, PollTimer, PollAnswer
  <2>3. ASSUME NEW s \in Socks, ParseFails(s) PROVE DurableInv'
    BY <2>3, DropsKeepDurable, AnswersKeepDurable DEF ParseFails
  <2>4. ASSUME NEW s \in Socks, Rechecked(s) PROVE DurableInv'
    BY <2>4, DropsKeepDurable, CallsKeepDurable
  <2>5. ASSUME NEW s \in Socks, Handler(s) \/ Throws(s) PROVE DurableInv'
    <3>1. CASE Skip(s) \/ Drained(s) \/ Throws(s) BY <3>1, DropsKeepDurable
    <3>2. CASE LookedUp(s) \/ Quarantined(s) \/ Acknowledge(s) BY <3>2, AnswersKeepDurable
    <3>3. CASE Parse(s) \/ LookedUpNone(s) \/ Persist(s) \/ Park(s) BY <3>3, CallsKeepDurable
    <3>4. CASE Depth(s) BY <3>4, DepthKeepsDurable
    <3> QED BY <2>3, <2>4, <2>5, <3>1, <3>2, <3>3, <3>4 DEF Handler
  <2>6. CASE Device \/ Respond \/ Crash \/ \E s \in Socks : Connect(s)
    BY <2>6, DeviceKeepsDurable DEF Device
  <2>7. ASSUME NEW s \in Socks, Data(s) PROVE DurableInv'
    BY <2>7, DataKeepsDurable
  <2> QED BY <2>1, <2>2, <2>5, <2>6, <2>7 DEF Next, Poll
<1>3. DurableInv => DiscardedIsDurable
  BY DEF DurableInv
<1> QED BY <1>1, <1>2, <1>3, BaseHolds, PTL DEF Spec
=============================================================================
