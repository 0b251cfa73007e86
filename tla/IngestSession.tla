----------------------------- MODULE IngestSession -----------------------------
(***************************************************************************)
(* The TCP sessions of one device with the ingest process: handshake,      *)
(* registry lookup and re-check, persist-then-ACK, backpressure, and the   *)
(* newest-wins rule for a device that reconnects (apps/ingest/src:         *)
(* session.ts, persist.ts, registry.ts, server.ts).                        *)
(*                                                                         *)
(* A Session handles its chunks one after the other; each await in that    *)
(* chain is a value of pc, and the code after the await is one action, so  *)
(* sockets close, timers fire and other sessions run in between.  The      *)
(* device is external: it sends one packet at a time, repeats it until the *)
(* ACK names every record, and may leave a connection without a word.      *)
(***************************************************************************)
EXTENDS Integers, Sequences, FiniteSets

CONSTANTS
  Socks,         \* connections; one that is over and forgotten is used again
  None,
  Ids,           \* device ids the registry may map the IMEI to
  MaxPackets,    \* packets the device has to deliver
  Poison,        \* those whose records our decoder cannot read
  MaxSurges,     \* times the shard's backlog climbs over pauseAboveDepth
  MaxResponses,  \* command responses sent besides the packets
  MaxNoise,      \* frames damaged on the way
  MaxErrors,     \* Redis calls that throw
  MaxRefusals,   \* single XADDs refused inside a pipeline
  MaxHangups,    \* connections that die, time out or are left
  MaxRetires,    \* times the device is retired or moved to another id
  MaxCrashes,    \* deaths of the ingest process
  MaxKinds       \* kinds of these disturbances that come together in one behaviour

ASSUME IngestAssumption ==
  /\ None \notin Socks \cup Ids /\ Ids # {}
  /\ IsFiniteSet(Socks)
  /\ MaxPackets \in Nat /\ Poison \subseteq 1 .. MaxPackets
  /\ MaxSurges \in Nat /\ MaxResponses \in Nat /\ MaxNoise \in Nat /\ MaxErrors \in Nat
  /\ MaxRefusals \in Nat /\ MaxHangups \in Nat /\ MaxRetires \in Nat /\ MaxCrashes \in Nat
  /\ MaxKinds \in Nat

Packets == 1 .. MaxPackets
\* Every packet has one record that passes the sanity check and one that fails.
Records == {"sane", "insane"}
Frames == ({"imei", "resp", "bad"} \X {0}) \cup ({"avl"} \X Packets)
Answers == ({"yes", "no"} \X {0}) \cup ({"ack"} \X (0 .. 2))

VARIABLES
  sock,      \* socket -> new, open, ended (socket.end()), destroyed, closed
  flow,      \* socket -> reading, not paused by socket.pause()
  chunks,    \* socket -> chunks in the session's chain, the one handled first
  pc,        \* socket -> the await its handler is in
  state,     \* socket -> Session.state
  deviceId,  \* socket -> Session.deviceId
  got,       \* socket -> records this frame's ACK will name
  paused,    \* socket -> Session.paused
  poll,      \* socket -> where its pollForDrain chain is
  late,      \* socket -> batches appended for an id the registry had dropped
  gauge,     \* metrics.pausedSockets
  asked,     \* handshake lookups under way: one Redis connection answers in order
  live,      \* liveByImei: the session registered for the IMEI, or None
  deep,      \* what getCachedShardDepth answers is above pauseAboveDepth
  registry,  \* registry:imei: the id of the device, or None
  raw, rejects, parked,  \* the streams raw:{shard}, rejects and raw:unsupported
  conn, next, ready,     \* the device: its socket, its packet, free to send it
  wire, reply,           \* socket -> frames on their way in, answers on their way out
  spent      \* surges, faults and retirements so far

flowing == <<flow, chunks, pc, asked>>
session == <<state, deviceId, got, late>>
pausing == <<paused, poll, gauge>>
streams == <<raw, rejects, parked>>
device == <<conn, next, ready>>
vars == <<sock, flowing, session, pausing, live, deep, registry, streams, device, wire,
          reply, spent>>

Kinds == {"surge", "resp", "noise", "error", "refusal", "hangup", "retire", "crash"}
Limit(k) == CASE k = "surge" -> MaxSurges [] k = "resp" -> MaxResponses
              [] k = "noise" -> MaxNoise [] k = "error" -> MaxErrors
              [] k = "refusal" -> MaxRefusals [] k = "hangup" -> MaxHangups
              [] k = "retire" -> MaxRetires [] k = "crash" -> MaxCrashes
Spend(k) == /\ spent[k] < Limit(k)
            /\ Cardinality({j \in Kinds : j = k \/ spent[j] > 0}) <= MaxKinds
            /\ spent' = [spent EXCEPT ![k] = @ + 1]

Awaits == {"lookup", "quarantine", "recheck", "persist", "park", "ack", "depth", "respond",
           "drain"}

\* Every variable has its type, and a session that streams has its device id.
TypeOK ==
  /\ sock \in [Socks -> {"new", "open", "ended", "destroyed", "closed"}]
  /\ flow \in [Socks -> BOOLEAN]
  /\ chunks \in [Socks -> Seq(Frames)]
  /\ pc \in [Socks -> {"idle"} \cup Awaits]
  /\ state \in [Socks -> {"AWAIT_IMEI", "STREAMING"}]
  /\ deviceId \in [Socks -> Ids \cup {None}]
  /\ got \in [Socks -> 0 .. 2]
  /\ paused \in [Socks -> BOOLEAN]
  /\ poll \in [Socks -> {"none", "timer", "probe"}]
  /\ late \in [Socks -> Nat]
  /\ gauge \in Int
  /\ asked \in Seq(Socks)
  /\ live \in Socks \cup {None}
  /\ deep \in BOOLEAN
  /\ registry \in Ids \cup {None}
  /\ raw \subseteq Packets \X Records /\ rejects \subseteq Packets \X Records
  /\ parked \subseteq Packets
  /\ conn \in Socks \cup {None} /\ next \in 1 .. MaxPackets + 1 /\ ready \in BOOLEAN
  /\ wire \in [Socks -> Seq(Frames)]
  /\ reply \in [Socks -> Seq(Answers)]
  /\ spent \in [Kinds -> Nat]
  /\ \A s \in Socks : state[s] = "STREAMING" => deviceId[s] # None

Init ==
  /\ sock = [s \in Socks |-> "new"]
  /\ flow = [s \in Socks |-> FALSE]
  /\ chunks = [s \in Socks |-> <<>>]
  /\ pc = [s \in Socks |-> "idle"]
  /\ state = [s \in Socks |-> "AWAIT_IMEI"]
  /\ deviceId = [s \in Socks |-> None]
  /\ got = [s \in Socks |-> 0]
  /\ paused = [s \in Socks |-> FALSE]
  /\ poll = [s \in Socks |-> "none"]
  /\ late = [s \in Socks |-> 0]
  /\ gauge = 0 /\ live = None /\ deep = FALSE
  /\ asked = <<>>
  /\ registry \in Ids
  /\ raw = {} /\ rejects = {} /\ parked = {}
  /\ conn = None /\ next = 1 /\ ready = FALSE
  /\ wire = [s \in Socks |-> <<>>]
  /\ reply = [s \in Socks |-> <<>>]
  /\ spent = [k \in Kinds |-> 0]

-----------------------------------------------------------------------------
(* The device (external).                                                  *)

Put(f, s, x) == [f EXCEPT ![s] = x]

\* A connection of which nothing is left but, perhaps, an entry of liveByImei
\* whose destroy() would do nothing any more.
Forgotten(s) == sock[s] = "closed" /\ pc[s] = "idle" /\ chunks[s] = <<>>
                /\ poll[s] = "none" /\ ~paused[s]

\* It connects and names itself; the server makes a Session.
Connect(s) ==
  /\ conn = None /\ (sock[s] = "new" \/ Forgotten(s))
  /\ conn' = s /\ ready' = FALSE
  /\ sock' = Put(sock, s, "open") /\ flow' = Put(flow, s, TRUE)
  /\ state' = Put(state, s, "AWAIT_IMEI") /\ deviceId' = Put(deviceId, s, None)
  /\ late' = Put(late, s, 0) /\ live' = IF live = s THEN None ELSE live
  /\ wire' = Put(wire, s, << <<"imei", 0>> >>) /\ reply' = Put(reply, s, <<>>)
  /\ UNCHANGED <<chunks, pc, asked, got, pausing, deep, registry, streams, next, spent>>

\* Its connection is dead, or it gives it up though the server holds it open.
Lose ==
  /\ conn # None
  /\ IF sock[conn] = "open" THEN Spend("hangup") ELSE UNCHANGED spent
  /\ conn' = None /\ ready' = FALSE
  /\ UNCHANGED <<sock, flowing, session, pausing, live, deep, registry, streams, next,
                 wire, reply>>

\* An answer arrives; an ACK of both records lets it discard the packet.
Receive ==
  /\ conn # None /\ reply[conn] # <<>>
  /\ reply' = [reply EXCEPT ![conn] = Tail(@)]
  /\ LET r == Head(reply[conn]) IN
       /\ next' = IF r = <<"ack", 2>> THEN next + 1 ELSE next
       /\ conn' = IF r[1] = "no" THEN None ELSE conn
       /\ ready' = (r[1] # "no")
  /\ UNCHANGED <<sock, flowing, session, pausing, live, deep, registry, streams, wire, spent>>

\* It sends its packet, which may be damaged on the way...
Send ==
  /\ conn # None /\ ready /\ next \in Packets
  /\ ready' = FALSE
  /\ \/ wire' = [wire EXCEPT ![conn] = Append(@, <<"avl", next>>)] /\ UNCHANGED spent
     \/ wire' = [wire EXCEPT ![conn] = Append(@, <<"bad", 0>>)] /\ Spend("noise")
  /\ UNCHANGED <<sock, flowing, session, pausing, live, deep, registry, streams, conn, next,
                 reply>>

\* ... and answers a command while it waits for an ACK.
Respond ==
  /\ conn # None /\ state[conn] = "STREAMING" /\ Spend("resp")
  /\ wire' = [wire EXCEPT ![conn] = Append(@, <<"resp", 0>>)]
  /\ UNCHANGED <<sock, flowing, session, pausing, live, deep, registry, streams, device,
                 reply>>

\* The API retires the device, moves the IMEI to another id, or restores it.
Retire ==
  /\ Spend("retire")
  /\ registry' \in (Ids \cup {None}) \ {registry}
  /\ UNCHANGED <<sock, flowing, session, pausing, live, deep, streams, device, wire, reply>>

\* The shard's backlog grows, and the worker brings it down again.
Surge == /\ ~deep /\ Spend("surge") /\ deep' = TRUE
         /\ UNCHANGED <<sock, flowing, session, pausing, live, registry, streams, device,
                        wire, reply>>
Subside == /\ deep /\ deep' = FALSE
           /\ UNCHANGED <<sock, flowing, session, pausing, live, registry, streams, device,
                          wire, reply, spent>>

-----------------------------------------------------------------------------
(* A session's socket.                                                     *)

Gone(s) == sock[s] \in {"destroyed", "closed"}          \* socket.destroyed
Begins(s) == pc[s] = "idle" /\ chunks[s] # <<>>
\* A chunk on an idle chain is taken up in the microtasks after its event,
\* before the event loop comes to anything else.
Turn == \A s \in Socks : ~Begins(s)
Reply(s, r) == reply' = IF sock[s] = "open" THEN [reply EXCEPT ![s] = Append(@, r)] ELSE reply

\* releasePaused, which may be called more than once.
Release(s) == /\ paused' = Put(paused, s, FALSE)
              /\ gauge' = IF paused[s] THEN gauge - 1 ELSE gauge

SockDestroy(s) == sock' = [sock EXCEPT ![s] = IF Gone(s) THEN @ ELSE "destroyed"]
Destroy(s) == SockDestroy(s) /\ Release(s)

\* Mutant of Data: the socket is not paused while the chunk is handled.
DataReadsOn(s) ==
  /\ Turn /\ ~Gone(s) /\ flow[s] /\ wire[s] # <<>>
  /\ chunks' = [chunks EXCEPT ![s] = Append(@, Head(wire[s]))]
  /\ wire' = [wire EXCEPT ![s] = Tail(@)]
  /\ UNCHANGED <<sock, flow, pc, asked, session, pausing, live, deep, registry, streams, device,
                 reply, spent>>

\* A chunk arrives: it is queued and the socket paused until it is handled.
Data(s) ==
  /\ Turn /\ ~Gone(s) /\ flow[s] /\ wire[s] # <<>>
  /\ chunks' = [chunks EXCEPT ![s] = Append(@, Head(wire[s]))]
  /\ wire' = [wire EXCEPT ![s] = Tail(@)]
  /\ flow' = Put(flow, s, FALSE)
  /\ UNCHANGED <<sock, pc, asked, session, pausing, live, deep, registry, streams, device, reply,
                 spent>>

\* The peer hangs up or resets: the socket goes without a call of destroy().
Hangup(s) ==
  /\ Turn /\ ~Gone(s) /\ sock[s] # "new"
  /\ IF sock[s] = "open" /\ conn = s THEN Spend("hangup") ELSE UNCHANGED spent
  /\ SockDestroy(s)
  /\ UNCHANGED <<flowing, session, pausing, live, deep, registry, streams, device, wire, reply>>

\* A handshake or idle timer fires, or 'error' is emitted: destroy().
Timeout(s) ==
  /\ Turn /\ sock[s] = "open" /\ Spend("hangup")
  /\ Destroy(s)
  /\ UNCHANGED <<flowing, session, poll, live, deep, registry, streams, device, wire, reply>>

\* Mutant of Close: the entry is removed whoever holds it.
CloseDeletes(s) ==
  /\ Turn /\ sock[s] = "destroyed"
  /\ sock' = Put(sock, s, "closed")
  /\ Release(s)
  /\ live' = IF state[s] = "STREAMING" THEN None ELSE live
  /\ UNCHANGED <<flowing, session, poll, deep, registry, streams, device, wire, reply, spent>>

\* 'close' is emitted: the session's and the server's handlers run.
Close(s) ==
  /\ Turn /\ sock[s] = "destroyed"
  /\ sock' = Put(sock, s, "closed")
  /\ Release(s)
  /\ live' = IF live = s THEN None ELSE live
  /\ UNCHANGED <<flowing, session, poll, deep, registry, streams, device, wire, reply, spent>>

-----------------------------------------------------------------------------
(* The handler of one chunk, from await to await (Session.onData).         *)

Kind(s) == Head(chunks[s])[1]
Packet(s) == Head(chunks[s])[2]

\* The chain's finally: read on, unless paused for the shard.
Finish(s) ==
  /\ chunks' = [chunks EXCEPT ![s] = Tail(@)]
  /\ pc' = Put(pc, s, "idle")
  /\ asked' = SelectSeq(asked, LAMBDA t : t # s)
  /\ flow' = [flow EXCEPT ![s] = IF Len(chunks[s]) = 1 /\ ~paused'[s]
                                    /\ sock'[s] \in {"open", "ended"} THEN TRUE ELSE @]

Goto(s, a) == /\ pc' = Put(pc, s, a)
              /\ asked' = IF a = "lookup" THEN Append(asked, s)
                          ELSE SelectSeq(asked, LAMBDA t : t # s)
              /\ UNCHANGED <<flow, chunks>>

\* Nothing is done for a socket that is gone by now.
Skip(s) ==
  /\ Begins(s) /\ Gone(s)
  /\ UNCHANGED <<sock, paused>>
  /\ Finish(s)
  /\ UNCHANGED <<session, poll, gauge, live, deep, registry, streams, device, wire, reply,
                 spent>>

\* The frame is read, and the first call it needs is made.
Parse(s) ==
  /\ Begins(s) /\ ~Gone(s) /\ Kind(s) # "bad"
  /\ Goto(s, CASE Kind(s) = "imei" -> "lookup" [] Kind(s) = "resp" -> "respond"
               [] Packet(s) \in Poison -> "park" [] OTHER -> "recheck")
  /\ UNCHANGED <<sock, session, pausing, live, deep, registry, streams, device, wire, reply,
                 spent>>

\* A damaged frame: the CRC fails and 0 is acknowledged, or the framing does
\* and the session is closed.
ParseFails(s) ==
  /\ Begins(s) /\ ~Gone(s) /\ Kind(s) = "bad"
  /\ \/ Reply(s, <<"ack", 0>>) /\ UNCHANGED <<sock, paused, gauge>>
     \/ Destroy(s) /\ UNCHANGED reply
  /\ Finish(s)
  /\ UNCHANGED <<session, poll, live, deep, registry, streams, device, wire, spent>>

\* handleImei: a known device streams, and its newest session wins.
LookedUp(s) ==
  /\ Turn /\ pc[s] = "lookup" /\ s = Head(asked) /\ registry # None
  /\ state' = Put(state, s, "STREAMING") /\ deviceId' = Put(deviceId, s, registry)
  /\ IF live \notin {None, s} THEN Destroy(live) ELSE UNCHANGED <<sock, paused, gauge>>
  /\ live' = s
  /\ Reply(s, <<"yes", 0>>)
  /\ Goto(s, "drain")
  /\ UNCHANGED <<got, late, poll, deep, registry, streams, device, wire, spent>>

\* An unknown one is counted...
LookedUpNone(s) ==
  /\ Turn /\ pc[s] = "lookup" /\ s = Head(asked) /\ registry = None
  /\ Goto(s, "quarantine")
  /\ UNCHANGED <<sock, session, pausing, live, deep, registry, streams, device, wire, reply,
                 spent>>

\* ... and turned away, at the third attempt without ceremony.
Quarantined(s) ==
  /\ Turn /\ pc[s] = "quarantine"
  /\ Reply(s, <<"no", 0>>)
  /\ \/ Destroy(s)
     \/ sock' = [sock EXCEPT ![s] = IF Gone(s) THEN @ ELSE "ended"] /\ UNCHANGED <<paused, gauge>>
  /\ Finish(s)
  /\ UNCHANGED <<session, poll, live, deep, registry, streams, device, wire, spent>>

\* Mutant of Rechecked: the registry is only asked in the handshake.
RecheckedNever(s) ==
  /\ Turn /\ pc[s] = "recheck"
  /\ Goto(s, "persist")
  /\ UNCHANGED <<sock, session, pausing, live, deep, registry, streams, device, wire, reply,
                 spent>>

\* The registry still maps the IMEI to this device, or the session dies.
Rechecked(s) ==
  /\ Turn /\ pc[s] = "recheck"
  /\ \/ registry = deviceId[s] /\ Goto(s, "persist") /\ UNCHANGED <<sock, paused>>
     \/ /\ registry # deviceId[s]
        /\ SockDestroy(s) /\ UNCHANGED paused
        /\ Finish(s)
  /\ UNCHANGED <<session, poll, gauge, live, deep, registry, streams, device, wire, reply,
                 spent>>

\* Mutant of Persist: the ACK names the records parsed, not those stored.
PersistCountsAll(s) ==
  /\ Turn /\ pc[s] = "persist"
  /\ \E R \in SUBSET Records :
       /\ IF R = {} THEN UNCHANGED spent ELSE Spend("refusal")
       /\ raw' = raw \cup ({Packet(s)} \X ({"sane"} \ R))
       /\ rejects' = rejects \cup ({Packet(s)} \X ({"insane"} \ R))
       /\ got' = Put(got, s, Cardinality(Records))
  /\ late' = IF registry = deviceId[s] THEN late ELSE [late EXCEPT ![s] = @ + 1]
  /\ Goto(s, "ack")
  /\ UNCHANGED <<sock, state, deviceId, pausing, live, deep, registry, parked, device, wire,
                 reply>>

\* persistAvlBatch at Redis: each XADD stands alone, R are refused, and the
\* ones that succeeded are counted.
Persist(s) ==
  /\ Turn /\ pc[s] = "persist"
  /\ \E R \in SUBSET Records :
       /\ IF R = {} THEN UNCHANGED spent ELSE Spend("refusal")
       /\ raw' = raw \cup ({Packet(s)} \X ({"sane"} \ R))
       /\ rejects' = rejects \cup ({Packet(s)} \X ({"insane"} \ R))
       /\ got' = Put(got, s, Cardinality(Records \ R))
  /\ late' = IF registry = deviceId[s] THEN late ELSE [late EXCEPT ![s] = @ + 1]
  /\ Goto(s, "ack")
  /\ UNCHANGED <<sock, state, deviceId, pausing, live, deep, registry, parked, device, wire,
                 reply>>

\* Mutant of Park: 0 is acknowledged, as for a frame damaged on the way.
ParkAcksNone(s) ==
  /\ Turn /\ pc[s] = "park"
  /\ parked' = parked \cup {Packet(s)}
  /\ Goto(s, "ack")
  /\ UNCHANGED <<sock, session, pausing, live, deep, registry, raw, rejects, device, wire,
                 reply, spent>>

\* parkUndecodableFrame at Redis; the ACK names what the packet declared.
Park(s) ==
  /\ Turn /\ pc[s] = "park"
  /\ parked' = parked \cup {Packet(s)}
  /\ got' = Put(got, s, Cardinality(Records))
  /\ Goto(s, "ack")
  /\ UNCHANGED <<sock, state, deviceId, late, pausing, live, deep, registry, raw, rejects,
                 device, wire, reply, spent>>

\* The streams have answered: ACK, and ask for the shard's depth.
Acknowledge(s) ==
  /\ Turn /\ pc[s] = "ack"
  /\ Reply(s, <<"ack", got[s]>>)
  /\ got' = Put(got, s, 0)
  /\ Goto(s, "depth")
  /\ UNCHANGED <<sock, state, deviceId, late, pausing, live, deep, registry, streams, device,
                 wire, spent>>

\* maybeBackpressure.
Depth(s) ==
  /\ Turn /\ pc[s] = "depth"
  /\ \/ /\ deep /\ ~paused[s]
        /\ paused' = Put(paused, s, TRUE) /\ gauge' = gauge + 1
        /\ poll' = Put(poll, s, "timer")
        /\ flow' = Put(flow, s, FALSE)
     \/ (~deep \/ paused[s]) /\ UNCHANGED <<pausing, flow>>
  /\ pc' = Put(pc, s, "drain")
  /\ UNCHANGED <<sock, chunks, asked, session, live, deep, registry, streams, device, wire, reply,
                 spent>>

\* drainPending (see CommandQueue), or the MULTI that keeps a response, is over.
Drained(s) ==
  /\ Turn /\ pc[s] \in {"drain", "respond"}
  /\ UNCHANGED <<sock, paused>>
  /\ Finish(s)
  /\ UNCHANGED <<session, poll, gauge, live, deep, registry, streams, device, wire, reply,
                 spent>>

\* The awaited call throws: the session is destroyed, without an ACK.
Throws(s) ==
  /\ Turn /\ pc[s] \in Awaits /\ Spend("error")
  /\ Destroy(s)
  /\ Finish(s)
  /\ UNCHANGED <<session, poll, live, deep, registry, streams, device, wire, reply>>

-----------------------------------------------------------------------------
(* pollForDrain, and the end of the process.                               *)

PollTimer(s) ==
  /\ Turn /\ poll[s] = "timer"
  /\ poll' = Put(poll, s, IF Gone(s) THEN "none" ELSE "probe")
  /\ UNCHANGED <<sock, flowing, session, paused, gauge, live, deep, registry, streams, device,
                 wire, reply, spent>>

\* Mutant of PollAnswer: the state is not looked at again after the await.
PollAnswerBlindly(s) ==
  /\ Turn /\ poll[s] = "probe"
  /\ \/ /\ ~deep
        /\ poll' = Put(poll, s, "none")
        /\ paused' = Put(paused, s, FALSE) /\ gauge' = gauge - 1
        /\ flow' = Put(flow, s, TRUE)
        /\ UNCHANGED spent
     \/ /\ IF deep THEN UNCHANGED spent ELSE Spend("error")
        /\ poll' = Put(poll, s, "timer")
        /\ UNCHANGED <<paused, gauge, flow>>
  /\ UNCHANGED <<sock, chunks, pc, asked, session, live, deep, registry, streams, device, wire,
                 reply>>

\* The depth arrives: resume, or ask again; a failed probe counts as deep.
PollAnswer(s) ==
  /\ Turn /\ poll[s] = "probe"
  /\ \/ /\ Gone(s) \/ ~paused[s]
        /\ poll' = Put(poll, s, "none")
        /\ UNCHANGED <<paused, gauge, flow, spent>>
     \/ /\ ~Gone(s) /\ paused[s] /\ ~deep
        /\ poll' = Put(poll, s, "none")
        /\ Release(s)
        /\ flow' = Put(flow, s, TRUE)
        /\ UNCHANGED spent
     \/ /\ ~Gone(s) /\ paused[s]
        /\ IF deep THEN UNCHANGED spent ELSE Spend("error")
        /\ poll' = Put(poll, s, "timer")
        /\ UNCHANGED <<paused, gauge, flow>>
  /\ UNCHANGED <<sock, chunks, pc, asked, session, live, deep, registry, streams, device, wire,
                 reply>>

\* The process dies with all its sockets; its successor starts afresh.
Crash ==
  /\ \E s \in Socks : sock[s] \notin {"new", "closed"}
  /\ Spend("crash")
  /\ sock' = [s \in Socks |-> IF sock[s] = "new" THEN "new" ELSE "closed"]
  /\ flow' = [s \in Socks |-> FALSE] /\ chunks' = [s \in Socks |-> <<>>]
  /\ pc' = [s \in Socks |-> "idle"] /\ got' = [s \in Socks |-> 0]
  /\ paused' = [s \in Socks |-> FALSE] /\ poll' = [s \in Socks |-> "none"]
  /\ gauge' = 0 /\ live' = None /\ asked' = <<>>
  /\ UNCHANGED <<state, deviceId, late, deep, registry, streams, device, wire, reply>>

-----------------------------------------------------------------------------
Device == Lose \/ Receive \/ Send
Handler(s) ==
  \/ Skip(s) \/ Parse(s) \/ ParseFails(s) \/ LookedUp(s) \/ LookedUpNone(s) \/ Quarantined(s)
  \/ Rechecked(s) \/ Persist(s) \/ Park(s) \/ Acknowledge(s) \/ Depth(s) \/ Drained(s)
Poll(s) == PollTimer(s) \/ PollAnswer(s)

Next ==
  \/ Device \/ Respond \/ Retire \/ Surge \/ Subside \/ Crash
  \/ \E s \in Socks : \/ Connect(s) \/ Data(s) \/ Hangup(s) \/ Timeout(s) \/ Close(s)
                      \/ Handler(s) \/ Throws(s) \/ Poll(s)

Spec == Init /\ [][Next]_vars

\* The event loop runs what is due, Redis answers, the device goes on trying,
\* the worker catches up; a socket that was left or ended is noticed to be dead.
Fairness ==
  /\ WF_vars(Lose /\ spent' = spent) /\ WF_vars(Receive) /\ WF_vars(Send /\ spent' = spent)
  /\ WF_vars(Subside)
  /\ WF_vars(\E s \in Socks : Connect(s))
  /\ \A s \in Socks : /\ WF_vars(Data(s)) /\ WF_vars(Close(s))
                      /\ WF_vars(Hangup(s) /\ spent' = spent)
                      /\ WF_vars(Handler(s) /\ spent' = spent)
                      /\ WF_vars(Poll(s) /\ spent' = spent)

FairSpec == Spec /\ Fairness

-----------------------------------------------------------------------------
(* Properties.                                                             *)

\* I1, rule 4: what the device discards is in Redis, each record in the
\* stream it belongs to; through refused XADDs, lost ACKs, repeats and deaths.
DiscardedIsDurable ==
  \A p \in 1 .. next - 1 :
    IF p \in Poison THEN p \in parked
    ELSE <<p, "sane">> \in raw /\ <<p, "insane">> \in rejects

\* pausedSockets is the number of sessions that are paused, however destroy(),
\* 'close' and the poll's late answer come together.
GaugeCountsPaused == gauge = Cardinality({s \in Socks : paused[s]})

\* Newest wins: two open sockets never stream for one IMEI.
OneLiveSession ==
  \A s, t \in {s \in Socks : sock[s] = "open" /\ state[s] = "STREAMING"} : s = t

\* A fast sender never has more than two chunks in memory: the one that is
\* handled and one that came when pollForDrain resumed the socket meanwhile.
ChunksBounded == \A s \in Socks : Len(chunks[s]) <= 2

\* After the device is retired or moved, a session that streams stores at most
\* the batch it had already checked.
RetiredGoesSilent == \A s \in Socks : late[s] <= spent["retire"]

\* Every packet is delivered in the end, through a backlog that pauses the
\* session, a packet nobody can decode, refused appends, lost connections and
\* the death of the process, unless the device is retired.
AllDelivered == <>(next = MaxPackets + 1 \/ spent["retire"] > 0)
=============================================================================
