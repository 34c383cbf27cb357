--------------------------- MODULE MCKeyDelivery ---------------------------
(* Constant values for checking KeyDelivery: two clients.                    *)
EXTENDS KeyDelivery

CONSTANTS room, alice, bob, null

TheRoom == <<room>>
TwoEndpoints == {<<alice>>, <<bob>>}
TheNullId == <<null>>

(* The ids of this instance are apart, as the theorems on messages ask.      *)
ASSUME TheIdsAreApart == KD!IdsApart
=============================================================================
