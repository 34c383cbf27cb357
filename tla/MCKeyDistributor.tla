-------------------------- MODULE MCKeyDistributor --------------------------
(* Constant values for checking KeyDistributor.                             *)
EXTENDS KeyDistributor

CONSTANTS room, alice, bob, null

OneConference == {<<room>>}
TwoEndpoints == {<<alice>>, <<bob>>}
TheNullId == <<null>>

(* The ids of these instances are apart, as the theorems on messages ask.    *)
ASSUME TheIdsAreApart == IdsApart

(* Sockets are interchangeable, and so are alice and bob.                   *)
Symmetry == Permutations(Sockets) \cup Permutations({alice, bob})
=============================================================================
