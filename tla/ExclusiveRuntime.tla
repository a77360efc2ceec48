-------------------------- MODULE ExclusiveRuntime --------------------------
(***************************************************************************)
(* What PiServerService asks of its user, for one session ("durable        *)
(* sessions and exclusively acquired runtimes", server/src/types.ts): the  *)
(* session is acquired by one runtime at a time, operations run on an      *)
(* acquired runtime only, and it is not given up under an operation unless *)
(* the server shuts down.                                                  *)
(***************************************************************************)
EXTENDS Naturals

VARIABLES
    phase,    \* of the session: free, acquiring, held or releasing
    work,     \* operations running on the runtime that holds it
    shut      \* the server is shutting down

vars == <<phase, work, shut>>

Init == phase = "free" /\ work = 0 /\ shut = FALSE

Acquire ==
    /\ phase = "free" /\ phase' = "acquiring"
    /\ UNCHANGED <<work, shut>>

(* The service refuses, the runtime is not the one asked for, or it is.    *)
Acquired ==
    /\ phase = "acquiring" /\ phase' \in {"free", "releasing", "held"}
    /\ UNCHANGED <<work, shut>>

Begin ==
    /\ phase = "held"
    /\ work' = work + 1
    /\ UNCHANGED <<phase, shut>>

(* The end of an operation may let the runtime go. *)
End ==
    /\ phase = "held" /\ work > 0
    /\ work' = work - 1
    /\ phase' \in {"held"} \cup (IF work' = 0 THEN {"releasing"} ELSE {})
    /\ UNCHANGED shut

Release ==
    /\ phase = "held" /\ (work = 0 \/ shut)
    /\ phase' = "releasing" /\ work' = 0
    /\ UNCHANGED shut

Released ==
    /\ phase = "releasing" /\ phase' = "free"
    /\ UNCHANGED <<work, shut>>

Shut == ~ shut /\ shut' = TRUE /\ UNCHANGED <<phase, work>>

Next == Acquire \/ Acquired \/ Begin \/ End \/ Release \/ Released \/ Shut

(* The safety part; and a session that is given up does not stay half given *)
(* up.                                                                      *)
Safe == Init /\ [][Next]_vars
Spec == Safe /\ WF_vars(Released)
=============================================================================
