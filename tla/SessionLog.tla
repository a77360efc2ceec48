----------------------------- MODULE SessionLog -----------------------------
(***************************************************************************)
(* What a SessionStorage promises its callers (harness/session/types.ts):  *)
(* a log of numbered mutations.  Writes "resolve on durable acceptance":   *)
(* a mutation gets the next number, at most one may be stored without its  *)
(* caller having been told, and what is stored goes only when the session  *)
(* is deleted.                                                             *)
(***************************************************************************)
EXTENDS Naturals, FiniteSets

VARIABLES
    log,      \* the mutations that a reader of the store would find
    acked,    \* those that callers were told of or have read
    intact    \* FALSE once something outside this contract has happened

vars == <<log, acked, intact>>

Init == log = {} /\ acked = {} /\ intact = TRUE

(* The next mutation has been added. *)
Extended == \E m \in log' : log' = log \cup {m} /\ m.seq = Cardinality(log) + 1

(* The mutation reaches the store; its caller is told, or a reader finds   *)
(* it after a crash; or both at once.                                      *)
Store == acked = log /\ Extended /\ UNCHANGED acked
Accept == acked' = log /\ UNCHANGED log
Commit == acked = log /\ Extended /\ acked' = log'

Delete == log' = {} /\ acked' = {}

(* Nothing is promised of a step that breaks the contract, nor until the   *)
(* session is loaded again: then its readers know all that is left.        *)
Break == intact' = FALSE
Reload == intact = FALSE /\ intact' = TRUE /\ acked' = log'

Next ==
    \/ UNCHANGED intact /\ (Store \/ Accept \/ Commit \/ Delete)
    \/ Break \/ Reload

Spec == Init /\ [][Next]_vars
=============================================================================
