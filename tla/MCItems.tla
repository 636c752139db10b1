------------------------------ MODULE MCItems ------------------------------
(***************************************************************************)
(* Two players, of whom one is where mobs and drops are, with two slots     *)
(* each: buckets that turn into milk and back, dirt to be placed or traded  *)
(* for a pickaxe.  One use empties the villager's stock.                   *)
(***************************************************************************)
EXTENDS Items

CONSTANTS ann, bob, hotbar, main, bucket, milk, dirt, pick

TwoPlayers   == {ann, bob}
OneExposed   == {ann}
HotbarFirst  == <<hotbar, main>>
MainFirst    == <<main, hotbar>>
FourItems    == {bucket, milk, dirt, pick}
Pairs        == [i \in FourItems |-> IF i \in {bucket, dirt} THEN 2 ELSE 1]
Picks        == {pick}
Buckets      == {bucket, milk}
MilkAndEmpty == [i \in FourItems |-> CASE i = bucket -> milk [] i = milk -> bucket [] OTHER -> None]
BobHasDirt   == [p \in TwoPlayers |-> [s \in {hotbar, main} |->
                  IF p = bob /\ s = main THEN [id |-> dirt, count |-> 1] ELSE Empty]]
DirtForPick  == [pay |-> dirt, price |-> 1, get |-> pick, amount |-> 1]
=============================================================================
