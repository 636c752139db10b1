----------------------------- MODULE MCWindows -----------------------------
(***************************************************************************)
(* Two players, each in a dimension of its own, and two positions.  The      *)
(* scenes: a chest in each dimension at one position, which share what is   *)
(* in them; a furnace with ore and fuel; a furnace beside a chest; a         *)
(* brewing stand; a crafting table with logs at hand; an anvil with two     *)
(* worn picks; and a player who throws things out of its windows.          *)
(***************************************************************************)
EXTENDS Windows

CONSTANTS ann, bob, over, nether, east, west, log, plank, ore, ingot, water, potion, wart, pick

TwoPlayers == {ann, bob}
AllItems   == {log, plank, ore, ingot, water, potion, wart, pick}
Stacks     == [i \in AllItems |-> IF i \in {water, potion, pick} THEN 1 ELSE 2]
Smelting   == [i \in AllItems |-> IF i = ore THEN ingot ELSE None]
Fuels      == [i \in AllItems |-> IF i = log THEN 2 ELSE 0]
Brews      == [i \in AllItems |-> IF i \in {water, potion} THEN potion ELSE None]
Wart       == {wart}
Picks      == {pick}
Need(i, n) == [j \in AllItems |-> IF j = i THEN n ELSE 0]
Planks     == {[need |-> Need(log, 1), id |-> plank, count |-> 2]}
AtHome     == [p \in TwoPlayers |-> IF p = ann THEN over ELSE nether]

Blocks(e, w) == [b \in {over, nether} \X {east, west} |->
                  IF b[2] = east THEN e ELSE IF b[1] = over THEN w ELSE "air"]
Has(kind, s, part, i, n) == <<kind, s, part>> :> [id |-> i, count |-> n]
Deeds(a, b, x, t) == ann :> a @@ bob :> b @@ None :> x @@ Throwing :> t

Chest   == [block |-> Blocks("chest", "air"), entry |-> {<<"chest", east>>},
            slots |-> Has("chest", east, "a", log, 2), deeds |-> Deeds(3, 2, 0, 0)]
Furnace == [block |-> Blocks("furnace", "air"), entry |-> {<<"furnace", east>>},
            slots |-> Has("furnace", east, "in", ore, 1) @@ Has("furnace", east, "fuel", log, 1),
            deeds |-> Deeds(3, 0, 1, 0)]
Double  == [block |-> Blocks("furnace", "chest"), entry |-> {<<"chest", west>>},
            slots |-> Has("chest", west, "a", log, 1), deeds |-> Deeds(4, 0, 0, 0)]
Stand   == [block |-> Blocks("stand", "air"), entry |-> {<<"stand", east>>},
            slots |-> Has("stand", east, "bottle", water, 1) @@ Has("stand", east, "ingredient", wart, 1),
            deeds |-> Deeds(4, 0, 0, 0)]
Table   == [block |-> Blocks("table", "air"), entry |-> {},
            slots |-> Has("pack", ann, "x", log, 2) @@ Has("pack", ann, "y", log, 2),
            deeds |-> Deeds(5, 0, 0, 0)]
Anvil   == [block |-> Blocks("anvil", "air"), entry |-> {},
            slots |-> Has("pack", ann, "x", pick, 1) @@ Has("pack", ann, "y", pick, 1),
            deeds |-> Deeds(6, 0, 0, 0)]
Messy   == [block |-> Blocks("furnace", "air"), entry |-> {<<"furnace", east>>},
            slots |-> Has("pack", ann, "x", log, 2), deeds |-> Deeds(3, 0, 0, 2)]
AllScenes == {Chest, Furnace, Double, Stand, Table, Anvil, Messy}
=============================================================================
