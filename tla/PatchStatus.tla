----------------------------- MODULE PatchStatus -----------------------------
(***************************************************************************)
(* What the DLL promises to whoever loads it, one game process at a time   *)
(* (src/launcher_api.rs, T7PatchStatus in src/lib.rs): the game is patched *)
(* once, in one attempt that ends in ACTIVE or FAILED, an active patch can *)
(* be deactivated, and neither FAILED nor DEACTIVATED is ever left.        *)
(***************************************************************************)
VARIABLES
    status,    \* the word that the loader polls
    patched    \* some hook or patch of this DLL is in the game's code

vars == <<status, patched>>

Statuses == {"waiting", "active", "failed", "deactivated"}

Init == status = "waiting" /\ patched = FALSE

\* The attempt writes into the game, or takes its writes back.
Work == status = "waiting" /\ patched' \in BOOLEAN /\ UNCHANGED status

Activate == /\ status = "waiting" /\ patched
            /\ status' = "active"
            /\ UNCHANGED patched

Fail == /\ status = "waiting"
        /\ status' = "failed"
        /\ UNCHANGED patched

\* Deactivation only ever removes.
Remove == /\ status = "active" /\ patched
          /\ patched' = FALSE
          /\ UNCHANGED status

Deactivate == /\ status = "active"
              /\ status' = "deactivated"
              /\ UNCHANGED patched

Next == Work \/ Activate \/ Fail \/ Remove \/ Deactivate

Spec == Init /\ [][Next]_vars
=============================================================================
