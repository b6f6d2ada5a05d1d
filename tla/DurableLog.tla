----------------------------- MODULE DurableLog -----------------------------
(***************************************************************************)
(* What a session journal promises its callers, with no file, lock, handle *)
(* or process in sight: one totally ordered log.  A record is in the log   *)
(* from the moment its line is complete; from the moment its append is     *)
(* acknowledged nothing can take it out again.  Records that nobody was    *)
(* promised may be lost with the machine's power, newest first.            *)
(***************************************************************************)
EXTENDS Naturals, Sequences

CONSTANT Payload        \* what a record may carry

VARIABLES log,          \* the records, in order
          promised      \* the records whose append was acknowledged

vars == <<log, promised>>

Entry(n, p) == [seq |-> n, entry |-> p]

Init == log = <<>> /\ promised = {}

\* A record takes the next sequence number, never another one.
Commit == /\ \E p \in Payload : log' = Append(log, Entry(Len(log) + 1, p))
          /\ UNCHANGED promised

\* Only what is in the log can be acknowledged.
Promise == /\ \E i \in DOMAIN log : promised' = promised \cup {log[i]}
           /\ UNCHANGED log

\* Losing power cuts the log to a prefix that holds every promise.
Lose == /\ \E k \in 0 .. Len(log) :
              /\ \A r \in promised : r.seq <= k
              /\ log' = SubSeq(log, 1, k)
        /\ UNCHANGED promised

Next == Commit \/ Promise \/ Lose

Spec == Init /\ [][Next]_vars
=============================================================================
