---------------------------- MODULE EventStream ----------------------------
(* What exec-server promises about the events of one process, whoever follows   *)
(* them (exec-server/src/process.rs): there is one sequence of events, it has   *)
(* one Exited, it ends with Closed, and a subscriber sees it from the start,    *)
(* in order, without gaps and without repetitions, possibly not to its end.     *)
EXTENDS Naturals, Sequences

CONSTANTS Streams     \* kinds of Output

VARIABLES
    produced,         \* the events of the process
    seen              \* those a subscriber has been given

Has(s, k) == \E i \in DOMAIN s : s[i].kind = k

Init ==
    /\ produced = <<>>
    /\ seen = <<>>

\* The process produces its next event.
Produce(k) ==
    /\ ~Has(produced, "Closed")
    /\ k = "Exited" => ~Has(produced, "Exited")
    /\ k = "Closed" => Has(produced, "Exited")
    /\ produced' = Append(produced, [seq |-> Len(produced) + 1, kind |-> k])
    /\ UNCHANGED seen

\* The subscriber is given the next one.
Deliver ==
    /\ Len(seen) < Len(produced)
    /\ seen' = Append(seen, produced[Len(seen) + 1])
    /\ UNCHANGED produced

Next == (\E k \in Streams \union {"Exited", "Closed"} : Produce(k)) \/ Deliver

Spec == Init /\ [][Next]_<<produced, seen>>
=============================================================================
