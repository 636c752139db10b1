---------------------------- MODULE MCOverworld ----------------------------
(***************************************************************************)
(* Two players, one of whom builds, and small closed rooms, five cells wide *)
(* and two high: circuits with the box of two cells each way around what is *)
(* used in them and beyond it, one in which a full power of four dies out   *)
(* within the box, and a pool, a heap of sand, a garden and some TNT.       *)
(***************************************************************************)
EXTENDS Overworld

CONSTANTS ann, bob

TwoPlayers == {ann, bob}
OnlyBob    == {bob}
Sites == {<<1, 0, 0>>, <<3, 0, 0>>}
Room  == [i \in 1..11 |-> IF i <= 5 THEN <<i, 0, 0>>
                         ELSE IF i <= 10 THEN <<i - 5, 1, 0>> ELSE <<1, 2, 0>>]

Facing(kind, d) == [Plain(kind) EXCEPT !.facing = d]
Wire  == Plain("redstone_wire")
Lamp  == Plain("lamp")
Stone == Plain("stone")
Sand  == Plain("sand")
Water == Plain("water")
Solid == <<Stone, Stone, Stone, Stone, Stone>>

Filled(floor, top) == [c \in Range(Room) |->
  IF c[2] = 0 THEN floor[c[1]] ELSE IF c[2] = 1 THEN top[c[1]] ELSE Stone]

\* Circuits within two cells of what is used in them, and two that no box joins.
Torch == Plain("torch")
Rooms == {
  Filled(<<Lamp, Facing("repeater", "west"), Plain("lever"), Wire, Lamp>>, Solid),
  Filled(<<Plain("button"), Facing("sticky_piston", "east"), Plain("button"), Air, Lamp>>, Solid),
  Filled(<<Lamp, Wire, Plain("plate"), Wire, Wire>>, Solid),
  Filled(<<Plain("lever"), Facing("comparator", "east"), Facing("door", "up"), Stone, Stone>>,
         <<Stone, Stone, Facing("door", "down"), Stone, Stone>>),
  Filled(<<Plain("button"), Lamp, Stone, Stone, Torch>>,
         <<Stone, Stone, Stone, Stone, Leveled("redstone_wire", 3)>>),
  Filled(<<Plain("lever"), Stone, Wire, Stone, Stone>>, <<Wire, Wire, Wire, Stone, Stone>>) }

\* Circuits longer than a box of two cells each way.
LongRooms == {
  Filled(<<Plain("lever"), Wire, Facing("repeater", "east"), Wire, Lamp>>, Solid),
  Filled(<<Plain("plate"), Wire, Wire, Wire, Lamp>>, Solid),
  Filled(<<Wire, Wire, Plain("lever"), Wire, Lamp>>, Solid),
  Filled(<<Plain("lever"), Facing("comparator", "east"), Wire, Facing("observer", "west"),
           Facing("door", "up")>>,
         <<Stone, Stone, Stone, Stone, Facing("door", "down")>>) }

Grounds == {
  Filled(<<Stone, Air, Stone, Plain("lava"), Stone>>, <<Water, Stone, Stone, Stone, Stone>>),
  [Filled(<<Stone, Stone, Plain("crop"), Stone, Stone>>, <<Sand, Water, Sand, Air, Stone>>) EXCEPT ![<<1, 2, 0>>] = Sand],
  Filled(<<Plain("grass"), Plain("dirt"), Plain("sapling"), Stone, Stone>>,
         <<Air, Air, Stone, Stone, Stone>>),
  Filled(<<Plain("tnt"), Sand, Plain("log"), Wire, Lamp>>, <<Sand, Stone, Air, Plain("lever"), Air>>) }

Everything == Rooms \cup LongRooms \cup Grounds

Ranges  == [water |-> 2, lava |-> 1]
Handful == {Plain("stone"), Plain("redstone_block")}
=============================================================================
