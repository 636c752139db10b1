--------------------------- MODULE MCConversation ---------------------------
(***************************************************************************)
(* Two players and one villager, which remembers two exchanges.            *)
(***************************************************************************)
EXTENDS Conversation

CONSTANTS ann, bob, smith, first, second, third

TwoPlayers    == {ann, bob}
OneVillager   == {smith}
ThreeRequests == {first, second, third}
=============================================================================
