-------------------------- MODULE MCProfileService --------------------------
(* TLC instances of ProfileService.  The two names differ only in
   case; one is a seed name. *)
EXTENDS ProfileService, TLC

CONSTANTS ada, Ada

MCNames == {ada, Ada}
MCFold == [n \in MCNames |-> ada]
MCSeed == {ada}
MCSymmetry == Permutations(Reqs)
=============================================================================
