------------------------------ MODULE SendOnce ------------------------------
(* What codex-pro-dispatch promises about one request, whatever carries it:  *)
(* nothing is sent until the request is committed, a committed request is    *)
(* sent at most once, and a request dropped before that is never sent.  A    *)
(* request withdrawn after the commit may still be sent late, once.          *)
EXTENDS Naturals

CONSTANT Requests

VARIABLES ledger, sends
vars == <<ledger, sends>>

Entries == {"open", "committed", "complete", "dropped", "withdrawn"}

Init == /\ ledger = [r \in Requests |-> "open"]
        /\ sends = [r \in Requests |-> 0]

Commit(r) == /\ ledger[r] = "open"
             /\ ledger' = [ledger EXCEPT ![r] = "committed"]
             /\ UNCHANGED sends

Emit(r) == /\ ledger[r] \in {"committed", "withdrawn"}
           /\ sends[r] = 0
           /\ sends' = [sends EXCEPT ![r] = 1]
           /\ UNCHANGED ledger

Complete(r) == /\ ledger[r] = "committed"
               /\ sends[r] = 1
               /\ ledger' = [ledger EXCEPT ![r] = "complete"]
               /\ UNCHANGED sends

GiveUp(r) == /\ ledger[r] \in {"open", "committed"}
             /\ ledger' = [ledger EXCEPT ![r] = IF ledger[r] = "open"
                                                THEN "dropped" ELSE "withdrawn"]
             /\ UNCHANGED sends

Next == \E r \in Requests : Commit(r) \/ Emit(r) \/ Complete(r) \/ GiveUp(r)

Spec == Init /\ [][Next]_vars
=============================================================================
