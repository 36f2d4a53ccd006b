-------------------------- MODULE MCUpdateTransaction --------------------------
(***************************************************************************)
(* Model-checking instances of UpdateTransaction: the values its runs give *)
(* to the switches of the environment.                                     *)
(***************************************************************************)
EXTENDS UpdateTransaction

Either == {TRUE, FALSE}
Always == {TRUE}
Never  == {FALSE}
=============================================================================
