----------------------------- MODULE RecordLedger -----------------------------
(***************************************************************************)
(* What the pipeline owes a tracker for the records ingest accepted from   *)
(* it, with no worker, lease, group or crash in sight.  The device forgets *)
(* a record as soon as ingest has acknowledged it, so from then on it has  *)
(* one of two fates, and keeps it: it is closed, and then it is durable,   *)
(* or MAXLEN destroyed it first.                                           *)
(***************************************************************************)
EXTENDS Naturals

CONSTANT Record       \* the records devices may send

VARIABLES
  accepted,   \* records ingest has appended and acknowledged to the device
  durable,    \* of those, the ones in positions or in the dead-letter stream
  closed,     \* of those, the ones the pipeline is finished with
  destroyed   \* of those, the ones trimmed away unprocessed

ledger == <<accepted, durable, closed, destroyed>>

Init == accepted = {} /\ durable = {} /\ closed = {} /\ destroyed = {}

\* Some open records are lost to a trim.
Destroy == /\ destroyed \subseteq destroyed'
           /\ destroyed' \ destroyed \subseteq accepted \ closed

\* A record comes in; a retransmission of a stored one is durable at once.
Accept == /\ \E r \in Record \ accepted :
               /\ accepted' = accepted \cup {r}
               /\ durable' \in {durable, durable \cup {r}}
          /\ Destroy
          /\ UNCHANGED closed

Trim == Destroy /\ UNCHANGED <<accepted, durable, closed>>

\* Record become durable together when their dedupe key gets its row.
Store == /\ durable \subseteq durable' /\ durable' \subseteq accepted
         /\ UNCHANGED <<accepted, closed, destroyed>>

\* Only what is durable, and not already lost, is closed.
Close == /\ \E r \in durable \ destroyed : closed' = closed \cup {r}
         /\ UNCHANGED <<accepted, durable, destroyed>>

Next == Accept \/ Trim \/ Store \/ Close

Spec == Init /\ [][Next]_ledger
=============================================================================
