--------------------------- MODULE RoundArgument ---------------------------
(***************************************************************************)
(* What the chain of rounds promises, without transcripts, items or        *)
(* contexts: a session proves and then verifies round by round.  A proof   *)
(* is accepted exactly at the round the caller asked for, after every      *)
(* round above it, and an intact session is never turned away.             *)
(***************************************************************************)
EXTENDS Naturals

VARIABLES
    phase,      \* where the session is
    verified,   \* rounds verified so far
    target,     \* the round whose verification ends the session
    intact      \* the session delivers what was sent, to a verifier that can take it

argumentVars == <<phase, verified, target, intact>>

Phases == {"idle", "proving", "verifying", "accepted", "rejected", "abandoned"}

Init ==
    /\ phase = "idle"
    /\ verified = 0
    /\ target = 0
    /\ intact = FALSE

Prove ==
    /\ phase \notin {"proving", "verifying"}
    /\ phase' = "proving"
    /\ verified' = 0
    /\ target' = 0
    /\ intact' = FALSE

Abandon ==
    /\ phase = "proving"
    /\ phase' = "abandoned"
    /\ UNCHANGED <<verified, target, intact>>

Deliver ==
    /\ phase = "proving"
    /\ phase' = "verifying"
    /\ target' \in Nat \ {0}
    /\ intact' \in BOOLEAN
    /\ UNCHANGED verified

VerifyRound ==
    /\ phase = "verifying"
    /\ verified + 1 < target
    /\ verified' = verified + 1
    /\ UNCHANGED <<phase, target, intact>>

Accept ==
    /\ phase = "verifying"
    /\ verified + 1 = target
    /\ verified' = target
    /\ phase' = "accepted"
    /\ UNCHANGED <<target, intact>>

Reject ==
    /\ phase = "verifying"
    /\ ~intact
    /\ phase' = "rejected"
    /\ UNCHANGED <<verified, target, intact>>

Next == Prove \/ Abandon \/ Deliver \/ VerifyRound \/ Accept \/ Reject

Spec == Init /\ [][Next]_argumentVars
=============================================================================
