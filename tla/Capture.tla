------------------------------- MODULE Capture -------------------------------
(***************************************************************************)
(* What the collector promises to its user: it reads DNS packets and       *)
(* writes records, each a request, a request with its response or a        *)
(* response; every packet read comes into one record, and the program ends *)
(* well only when all have.  A record counts when it is handed to stdio:   *)
(* what becomes of it then is the matter of Output.  There are no threads, *)
(* queues, frames or files here; Collector implements this specification.  *)
(***************************************************************************)
EXTENDS Naturals, Sequences

VARIABLES read,    \* the packets are 1..read
          records, \* sequence of [packet, response], response 0 if there is none
          outcome  \* "running", "ended" well, or "dead"

captureVars == <<read, records, outcome>>

Recorded == {records[i].packet : i \in 1..Len(records)}
            \cup ({records[i].response : i \in 1..Len(records)} \ {0})

CaptureInit == read = 0 /\ records = << >> /\ outcome = "running"

Read == /\ outcome = "running"
        /\ read' = read + 1
        /\ UNCHANGED <<records, outcome>>

\* A packet that was not recorded, with a later one or none.
Record(p, r) == /\ outcome = "running"
                /\ p \in (1..read) \ Recorded
                /\ r = 0 \/ r \in (p + 1 .. read) \ Recorded
                /\ records' = Append(records, [packet |-> p, response |-> r])
                /\ UNCHANGED <<read, outcome>>

End == /\ outcome = "running"
       /\ Recorded = 1..read
       /\ outcome' = "ended"
       /\ UNCHANGED <<read, records>>

Die == /\ outcome = "running"
       /\ outcome' = "dead"
       /\ UNCHANGED read
       /\ records' = records \/ Len(records') = Len(records) + 1

CaptureNext == \/ Read \/ End \/ Die
               \/ \E p \in 1..read, r \in 0..read : Record(p, r)

CaptureSpec == CaptureInit /\ [][CaptureNext]_captureVars
=============================================================================
