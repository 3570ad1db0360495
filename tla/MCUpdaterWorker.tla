-------------------------- MODULE MCUpdaterWorker ---------------------------
(* The builds TLC gives to UpdaterWorker: the installed version, and two      *)
(* builds of the next whose archives have one size, the second packed with a  *)
(* file of the first.                                                         *)
EXTENDS UpdaterWorker

Packed(exe, dll) == <<[name |-> "exe", of |-> exe], [name |-> "dll", of |-> dll]>>

MCBuilds ==
    { [id |-> "z", version |-> 0, size |-> 1, packed |-> Packed("z", "z")],
      [id |-> "a", version |-> 1, size |-> 1, packed |-> Packed("a", "a")],
      [id |-> "b", version |-> 1, size |-> 1, packed |-> Packed("b", "a")] }
=============================================================================
