---------------------------- MODULE MCRateLimit ----------------------------
(***************************************************************************)
(* One client and small budgets: a burst of two validations, three entries *)
(* in the list or one sign-in; a token, of six parts, is regained in two,  *)
(* three and six seconds.                                                  *)
(***************************************************************************)
EXTENDS RateLimit

MCCapacity == [validation |-> 2, inscription |-> 3, signin |-> 1]

MCRefill == [validation |-> 3, inscription |-> 2, signin |-> 1]
=============================================================================
