--------------------------- MODULE MCConfigWatch ----------------------------
(* The files TLC gives to ConfigWatch: the default, two complete ones that    *)
(* differ in a setting other than the password, and one that an editor has    *)
(* written half of.                                                           *)
EXTENDS ConfigWatch

MCDefault == [name |-> "n", only |-> TRUE, password |-> "none"]

MCFiles ==
    { MCDefault,
      [name |-> "m", only |-> TRUE, password |-> "p"],
      [name |-> "m", only |-> FALSE, password |-> "p"],
      [name |-> "n", only |-> Nil, password |-> Nil] }
=============================================================================
