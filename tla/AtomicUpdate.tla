---------------------------- MODULE AtomicUpdate ----------------------------
(***************************************************************************)
(* What the self-updater promises to whoever starts the launcher: the      *)
(* EXE/DLL pair is one version that changes in a single step, never while  *)
(* a launcher runs, and every launcher that gets past its startup checks   *)
(* runs exactly that version.                                              *)
(***************************************************************************)
CONSTANTS Launchers, Versions, None

VARIABLES current,  \* the version the installation directory stands for
          running   \* the version each launcher runs, or None

vars == <<current, running>>

NothingRuns == \A l \in Launchers : running[l] = None

Init == /\ current \in Versions
        /\ running = [l \in Launchers |-> None]

Start(l) == /\ NothingRuns
            /\ running' = [running EXCEPT ![l] = current]
            /\ UNCHANGED current

Stop(l) == /\ running[l] # None
           /\ running' = [running EXCEPT ![l] = None]
           /\ UNCHANGED current

Install(v) == /\ NothingRuns
              /\ current' = v
              /\ UNCHANGED running

Next == \/ \E l \in Launchers : Start(l) \/ Stop(l)
        \/ \E v \in Versions : Install(v)

Spec == Init /\ [][Next]_vars
=============================================================================
