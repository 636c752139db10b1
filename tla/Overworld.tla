----------------------------- MODULE Overworld -----------------------------
(***************************************************************************)
(* What the blocks of the overworld do: sim.rs (growth, fluids, gravity,   *)
(* fire, TNT, redstone), the handlers of connection.rs that change blocks, *)
(* and the tables of state.rs that remember what is to happen later.       *)
(*                                                                         *)
(* A handler takes the lock of the world several times: to look, to write, *)
(* to recompute the power around what it wrote, to look for observers.     *)
(* What a task has still to do is a sequence of such lock sections, and a  *)
(* step of the task is the first of them.  Looks that follow each other    *)
(* are one.                                                                *)
(***************************************************************************)
EXTENDS Integers, SequencesExt, FiniteSetsExt

CONSTANTS Player, Loop,  \* the tasks: one for each player, and the game loop
          Scan,          \* the cells, <<x, y, z>>, in redstone_update's order
          Layout,        \* what to start from
          Builder,       \* bound: the players who break and place
          Site,          \* bound: where they do
          Placeable,     \* bound: the blocks they place
          Full,          \* 15: the power of a source
          R,             \* 12: how far redstone_update looks
          PushLimit,     \* 12: blocks a piston can shove
          ButtonTicks,   \* how long a button stays down
          DelayTicks,    \* of repeaters, comparators and observers
          FluidRange,    \* 7 for water, 3 for lava
          QueueCap,      \* 100000
          Drain,         \* 2048
          Ripe,          \* the last age of a crop
          TreeHeight,    \* 4
          Fuse,          \* 80
          Blast,         \* 4: the power of an explosion
          MaxClicks,     \* bound: what players do, and restarts
          None

Cell  == Range(Scan)
Actor == Player \cup {Loop}

Offset == [down  |-> <<0, -1, 0>>, up    |-> <<0, 1, 0>>, north |-> <<0, 0, -1>>,
           south |-> <<0, 0, 1>>,  west  |-> <<-1, 0, 0>>, east  |-> <<1, 0, 0>>]
Dir == DOMAIN Offset

\* The cell k steps from c in direction d.
Ahead(c, d, k) == LET o == Offset[d] IN <<c[1] + k * o[1], c[2] + k * o[2], c[3] + k * o[3]>>
Next6(c) == {Ahead(c, d, 1) : d \in Dir}

\* Blocks.  "on" is powered, lit, open or extended, whichever the block has;
\* "level" the power of a wire, the level of a fluid, the age of a crop.
Actuator == {"lamp", "door"}
Logic    == {"repeater", "comparator"}
Pushing  == {"piston", "sticky_piston"}
Timed    == {"button", "plate", "observer"}   \* what something must switch off again
Switch   == {"redstone_block", "torch", "lever", "button", "plate"}
Redstone == {"redstone_wire", "observer"} \cup Switch \cup Actuator \cup Logic \cup Pushing
Unmoved  == {"air", "bedrock", "obsidian", "chest", "piston_head"} \cup Pushing
Fluid    == {"water", "lava"}
Burning  == {"log", "leaves"}                 \* what fire spreads to
Kind     == Redstone \cup Unmoved \cup Fluid \cup Burning \cup
            {"stone", "cobblestone", "sand", "tnt", "fire", "crop", "sapling", "dirt", "grass", "plant"}
Block    == [kind : Kind, on : BOOLEAN, facing : Dir \cup {None}, level : Nat]

Plain(kind) == [kind |-> kind, on |-> FALSE, facing |-> None, level |-> 0]
Air == Plain("air")
Turned(block, on) == [block EXCEPT !.on = on]
Leveled(kind, n) == [Plain(kind) EXCEPT !.level = n]

ASSUME OverworldAssumption == Full \in Nat \ {0} /\ Loop \notin Player

VARIABLES
  world,    \* the cells of the overworld
  todo,     \* what each task has still to do
  timers,   \* Shared.active_buttons: ticks left, 0 for none
  sched,    \* Shared.scheduled: the block to come and the ticks left
  plates,   \* Shared.pressed_plates
  queue,    \* Shared.fluid_queue
  tnt,      \* Shared.primed_tnt: where, and the ticks left
  feet,     \* where each player stands
  clicks,   \* how often players did something
  shaken,   \* history: cells whose circuit changed and was not recomputed whole
  stuck,    \* history: timed blocks that were on when their countdown was lost
  parched,  \* history: cells that were opened, or filled, and no fluid was told
  floating, \* history: cells that were opened and the sand above was not told
  sand      \* history: how many blocks of sand there should be

tables  == <<timers, sched, plates>>
fluids  == <<queue, tnt>>
history == <<shaken, stuck, parched, floating, sand>>
vars    == <<world, todo, tables, fluids, feet, clicks, history>>

\* A lock section to come: where, with which block, and what the task saw there.
Op == [op : {"write", "change", "update", "notify", "fire", "arm", "press", "raise", "lower", "apply",
             "wet", "flow", "spread", "settle", "fall", "leaf", "fuse", "boom", "tnt tick",
             "fluid tick", "button tick", "scheduled tick", "random tick", "fire tick"},
       at : Cell \cup {Ahead(c, "up", 1) : c \in Cell} \cup {None}, block : Block \cup {None}, seen : Block \cup {None}]
Do(op, c, block) == [op |-> op, at |-> c, block |-> block, seen |-> None]
Set(c, block)    == Do("write", c, block)

\* set_block after a look: one that schedule_fluid follows, and one that it does not.
Rewrite(c, block) == [Do("write", c, block) EXCEPT !.seen = world[c]]
Change(c, block)  == [Rewrite(c, block) EXCEPT !.op = "change"]

-----------------------------------------------------------------------------
(* Power: the first part of redstone_update, as functions of the world w. *)

At(w, c) == IF c \in Cell THEN w[c] ELSE Plain("bedrock")

IsSource(block) == block.kind \in Switch /\ (block.kind \in {"redstone_block", "torch"} \/ block.on)

Box(o) == {c \in Cell : \A i \in 1..3 : c[i] - o[i] \in -R..R}

\* The cells repeaters and comparators put power into, and pulsing observers.
Injected(w, box) ==
  {Ahead(c, w[c].facing, 1) : c \in {b \in box : w[b].kind \in Logic /\ w[b].on}} \cup
  {Ahead(c, w[c].facing, -1) : c \in {b \in box : w[b].kind = "observer" /\ w[b].on}}

\* The power flooded into the wires, and injected into any cell: the pairs <<c, n>>
\* where c comes to have power n or more.
Flood(w, box) ==
  LET wires  == {c \in box : w[c].kind = "redstone_wire"}
      full   == Injected(w, box)
      spring == full \cup {c \in box : IsSource(w[c])}
      flooded[n \in 1..Full] ==
        IF n = Full THEN full \X (1..Full)
        ELSE LET more == flooded[n + 1]
                 near == {c \in wires : \E m \in Next6(c) : m \in spring \/ <<m, n + 1>> \in more}
             IN  more \cup (near \X (1..n))
  IN  flooded[1]

Has(power, c) == <<c, 1>> \in power
Level(power, c) == Cardinality({n \in 1..Full : <<c, n>> \in power})

PoweredAt(w, power, c) ==
  \E n \in Next6(c) : Has(power, n) \/ IsSource(At(w, n))

\* An actuator is powered through its own cell or a neighbour, a door through its
\* other half's neighbours too ("facing" of a door tells which half it is).
Driven(w, power, c) ==
  \/ Has(power, c)
  \/ PoweredAt(w, power, c)
  \/ w[c].kind = "door" /\ PoweredAt(w, power, Ahead(c, w[c].facing, 1))

Sides == [north |-> {"west", "east"}, south |-> {"west", "east"},
          west |-> {"north", "south"}, east |-> {"north", "south"}]

\* What a repeater or comparator should put out.
Desired(w, power, c) ==
  LET back  == Ahead(c, w[c].facing, -1)
      behind == At(w, back)
      feeds == behind.kind \in Logic /\ behind.on /\ Ahead(back, behind.facing, 1) = c
      sides == {Ahead(c, d, 1) : d \in Sides[w[c].facing]}
  IN  /\ Has(power, back) \/ IsSource(behind) \/ feeds
      /\ w[c].kind = "comparator" => \A s \in sides : ~Has(power, s) /\ ~IsSource(At(w, s))

\* History: the circuits that a box cuts.  Parts of a circuit are next to each other
\* or to a block between them; what lies beyond the box counts as without power, and
\* what was lit from within is left as it is.
Cut(w, box) ==
  LET parts == {c \in Cell : w[c].kind \in Redstone}
      near(c, d) == \E n \in {c} \cup Next6(c) : d \in Next6(n)
      joined[k \in 0..Cardinality(Cell)] ==
        IF k = 0 THEN {c \in parts \cap box : \E d \in parts \ box : near(c, d)}
        ELSE LET more == joined[k - 1] IN more \cup {d \in parts : \E c \in more : near(c, d)}
  IN  IF joined[0] = {} THEN {} ELSE joined[Cardinality(Cell)]

\* Mutant: the wires beyond the box are written too.
LitBeyond(w, power, box) ==
  [c \in Cell |->
    IF w[c].kind = "redstone_wire" THEN [w[c] EXCEPT !.level = Level(power, c)]
    ELSE IF w[c].kind \in Actuator THEN Turned(w[c], Driven(w, power, c))
    ELSE w[c]]

\* Wires and actuators as the power has them.
Lit(w, power, box) ==
  [c \in Cell |->
    IF c \notin box THEN w[c]
    ELSE IF w[c].kind = "redstone_wire" THEN [w[c] EXCEPT !.level = Level(power, c)]
    ELSE IF w[c].kind \in Actuator THEN Turned(w[c], Driven(w, power, c))
    ELSE w[c]]

-----------------------------------------------------------------------------
(* Pistons.  A move is the world after it and the cells blocks moved into. *)

Stay(w) == [world |-> w, moved |-> {}]

Pushable(block) == block.kind \notin Unmoved

Extend(w, c) ==
  LET d == w[c].facing
      room == {k \in 1..(PushLimit + 1) :
                 /\ At(w, Ahead(c, d, k)).kind = "air"
                 /\ \A j \in 1..(k - 1) : Pushable(At(w, Ahead(c, d, j)))}
  IN  IF room = {} THEN Stay(w)
      ELSE LET k == Min(room)
               into == {Ahead(c, d, j) : j \in 2..k}
           IN  [moved |-> into,
                world |-> [e \in Cell |->
                  IF e = c THEN Turned(w[e], TRUE)
                  ELSE IF e = Ahead(c, d, 1) THEN [Plain("piston_head") EXCEPT !.facing = d]
                  ELSE IF e \in into THEN w[Ahead(e, d, -1)]
                  ELSE w[e]]]

Retract(w, c) ==
  LET d == w[c].facing
      head  == Ahead(c, d, 1)
      pull  == Ahead(c, d, 2)
      pulls == w[c].kind = "sticky_piston" /\ Pushable(At(w, pull))
  IN  [moved |-> IF pulls THEN {head} \cap Cell ELSE {},
       world |-> [e \in Cell |->
         IF e = c THEN Turned(w[e], FALSE)
         ELSE IF e = head /\ pulls THEN At(w, pull)
         ELSE IF e = head /\ w[e].kind = "piston_head" THEN Air
         ELSE IF e = pull /\ pulls THEN Air
         ELSE w[e]]]

\* Every piston of the box, one after the other.
Shove(w, power, box) ==
  LET Piston(m, c) ==
        LET powered == PoweredAt(m.world, power, c) \/ Has(power, c)
            move == IF powered /\ ~w[c].on THEN Extend(m.world, c)
                    ELSE IF ~powered /\ w[c].on THEN Retract(m.world, c)
                    ELSE Stay(m.world)
        IN  [world |-> move.world, moved |-> m.moved \cup move.moved]
      pistons == SelectSeq(Scan, LAMBDA c : c \in box /\ w[c].kind \in Pushing)
      after[i \in 0..Len(pistons)] == IF i = 0 THEN Stay(w) ELSE Piston(after[i - 1], pistons[i])
  IN  after[Len(pistons)]

-----------------------------------------------------------------------------
(* The lock sections of the handlers. *)

Below(c) == Ahead(c, "down", 1)
Above(c) == Ahead(c, "up", 1)

TimedOn(w) == {c \in Cell : w[c].kind \in Timed /\ w[c].on}
IsSand(block) == IF block # None /\ block.kind = "sand" THEN 1 ELSE 0

\* Task a has done the first thing and does more next.
Then(a, more) == todo' = [todo EXCEPT ![a] = more \o Tail(@)]
First(a, op)  == todo[a] # <<>> /\ Head(todo[a]).op = op

\* set_block, with what the task goes on to tell: the redstone, the fluids, the sand.
Put(c, block, told) ==
  /\ world' = [world EXCEPT ![c] = block]
  /\ stuck' = stuck \ {c}
  /\ shaken' = IF "power" \notin told /\ world[c].kind # block.kind
                   /\ {world[c].kind, block.kind} \cap Redstone # {} THEN Cell ELSE shaken
  /\ parched' = IF "fluid" \notin told /\ block.kind \in Fluid \cup {"air"}
                THEN parched \cup {c} ELSE parched \ {c}
  /\ floating' = IF "sand" \notin told /\ block = Air THEN floating \cup {c}
                 ELSE IF block.kind = "sand" /\ "sand" \notin told /\ At(world, Below(c)) = Air
                 THEN floating \cup {c}
                 ELSE floating \ {c}

\* set_block of a block decided on before.  If what is there is not what was seen,
\* sand may be doubled or lost, and the ledger takes that up.
Write(a) ==
  /\ First(a, "write") \/ First(a, "change")
  /\ LET op == Head(todo[a])
         seen == IF op.seen = None THEN op.block ELSE op.seen
         told == [power |-> op.block.kind \in Redstone \ {"door"},
                  fluid |-> op.op = "write",
                  sand  |-> IsSand(seen) = 1]
     IN  /\ Put(op.at, op.block, {t \in DOMAIN told : told[t]})
         /\ sand' = sand + IsSand(seen) - IsSand(world[op.at])
  /\ Then(a, <<>>)
  /\ UNCHANGED <<tables, fluids, feet, clicks>>

\* redstone_update around a cell.
Update(a) ==
  /\ First(a, "update")
  /\ LET box   == Box(Head(todo[a]).at)
         power == Flood(world, box)
         lit   == Lit(world, power, box)
         late  == {c \in box : lit[c].kind \in Logic /\ sched[c] = None
                                /\ Desired(lit, power, c) # lit[c].on}
         move  == Shove(lit, power, box)
     IN  /\ world' = move.world
         /\ sched' = [c \in late |-> [block |-> Turned(lit[c], ~lit[c].on), left |-> DelayTicks]] @@ sched
         /\ shaken' = IF move.moved # {} THEN Cell ELSE (shaken \ box) \cup Cut(lit, box)
         /\ stuck' = TimedOn(world') \cap (stuck \cup move.moved)
         /\ LET opened == {c \in Cell : world'[c] = Air /\ lit[c] # Air}
                untold(cells, kinds) == {c \in cells \cup opened \cup move.moved :
                                           world'[c].kind \in kinds \cup {"air"}}
            IN  /\ parched' = untold(parched, Fluid)
                /\ floating' = untold(floating, {"sand"})
  /\ Then(a, <<>>)
  /\ UNCHANGED <<timers, plates, fluids, feet, clicks, sand>>

\* notify_observers looks for the observers that see the cell, first of all,
Notify(a) ==
  /\ First(a, "notify")
  /\ LET c == Head(todo[a]).at
         seeing == SelectSeq(Scan, LAMBDA n : /\ n \in Next6(c) /\ world[n].kind = "observer"
                                             /\ ~world[n].on /\ Ahead(n, world[n].facing, 1) = c)
     IN  Then(a, [i \in DOMAIN seeing |-> Do("fire", seeing[i], world[seeing[i]])])
  /\ UNCHANGED <<world, tables, fluids, feet, clicks, history>>

\* then makes each pulse, as it was when seen.
Fire(a) ==
  /\ First(a, "fire")
  /\ LET c == Head(todo[a]).at
         seen == Head(todo[a]).block
     IN  Then(a, IF sched[c] # None THEN <<>>
                 ELSE <<Set(c, Turned(seen, TRUE)), Do("arm", c, Turned(seen, FALSE)),
                        Do("update", c, None)>>)
  /\ UNCHANGED <<world, tables, fluids, feet, clicks, history>>

\* schedule_block replaces what is pending.
Arm(a) ==
  /\ First(a, "arm")
  /\ sched' = [sched EXCEPT ![Head(todo[a]).at] = [block |-> Head(todo[a]).block, left |-> DelayTicks]]
  /\ Then(a, <<>>)
  /\ UNCHANGED <<world, timers, plates, fluids, feet, clicks, history>>

\* press_button starts the countdown anew.
PressButton(a) ==
  /\ First(a, "press")
  /\ timers' = [timers EXCEPT ![Head(todo[a]).at] = ButtonTicks]
  /\ Then(a, <<>>)
  /\ UNCHANGED <<world, sched, plates, fluids, feet, clicks, history>>

\* Mutant: it is written for plates only.
SetPlateOnly(a) ==
  /\ First(a, "raise") \/ First(a, "lower")
  /\ LET c == Head(todo[a]).at
         on == Head(todo[a]).op = "raise"
     IN  IF world[c].kind = "plate" /\ world[c].on # on
         THEN /\ Put(c, Turned(world[c], on), {"power"})
              /\ Then(a, <<Do("update", c, None)>>)
         ELSE Then(a, <<>>) /\ UNCHANGED <<world, shaken, stuck, parched, floating>>
  /\ UNCHANGED <<tables, fluids, feet, clicks, sand>>

\* set_plate_powered.
SetPlatePowered(a) ==
  /\ First(a, "raise") \/ First(a, "lower")
  /\ LET c == Head(todo[a]).at
         on == Head(todo[a]).op = "raise"
     IN  IF world[c].kind \in {"plate", "button"} /\ world[c].on # on
         THEN /\ Put(c, Turned(world[c], on), {"power"})
              /\ Then(a, <<Do("update", c, None)>>)
         ELSE Then(a, <<>>) /\ UNCHANGED <<world, shaken, stuck, parched, floating>>
  /\ UNCHANGED <<tables, fluids, feet, clicks, sand>>

\* A due change is made if the same kind of component is still there.
Apply(a) ==
  /\ First(a, "apply")
  /\ LET c == Head(todo[a]).at
         target == Head(todo[a]).block
     IN  IF world[c].kind = target.kind
         THEN /\ Put(c, target, {"power"})
              /\ Then(a, <<Do("update", c, None)>>)
         ELSE Then(a, <<>>) /\ UNCHANGED <<world, shaken, stuck, parched, floating>>
  /\ UNCHANGED <<tables, fluids, feet, clicks, sand>>

-----------------------------------------------------------------------------
(* Fluids, gravity, growth and TNT *)

Sideways(c) == <<Ahead(c, "east", 1), Ahead(c, "west", 1), Ahead(c, "south", 1), Ahead(c, "north", 1)>>
Around(c)   == <<c, Ahead(c, "east", 1), Ahead(c, "west", 1), Ahead(c, "up", 1),
                 Ahead(c, "down", 1), Ahead(c, "south", 1), Ahead(c, "north", 1)>>
InCell(seq) == SelectSeq(seq, LAMBDA c : c \in Cell)

\* schedule_fluid queues the cell and its neighbours, or nothing when there are
\* too many already.
Wet(a) ==
  /\ First(a, "wet")
  /\ LET cells == InCell(Around(Head(todo[a]).at))
     IN  IF Len(queue) > QueueCap
         THEN queue' = queue /\ parched' = parched \cup Range(cells)
         ELSE queue' = queue \o cells /\ parched' = parched
  /\ Then(a, <<>>)
  /\ UNCHANGED <<world, tables, tnt, feet, clicks, shaken, stuck, floating, sand>>

\* place_fluid: what comes to be at c, which may be next to the other fluid.
Poured(c, fluid) ==
  LET others == {At(world, n) : n \in Next6(c)} \cap
                {b \in Block : b.kind \in Fluid \ {fluid.kind}}
  IN  IF others = {} THEN fluid
      ELSE IF fluid.kind = "lava" THEN Plain("stone")
      ELSE IF \E b \in others : b.level = 0 THEN Plain("obsidian")
      ELSE Plain("cobblestone")

\* Mutant: it does not go on from there.
PourOnce(c, fluid) == <<Rewrite(c, Poured(c, fluid))>>

Pour(c, fluid) ==
  <<Rewrite(c, Poured(c, fluid))>> \o
  (IF Poured(c, fluid) = fluid THEN <<Do("wet", c, None)>> ELSE <<>>)

\* One cell of fluid_tick: become a source, fall, or spread.
Flow(a) ==
  /\ First(a, "flow")
  /\ LET c == Head(todo[a]).at
         b == world[c]
         springs == {i \in 1..4 : At(world, Sideways(c)[i]) = Plain("water")}
         next == [b EXCEPT !.level = @ + 1]
     IN  Then(a,
           IF b.kind \notin Fluid THEN <<>>
           ELSE IF b.kind = "water" /\ b.level > 0 /\ Cardinality(springs) >= 2
             THEN <<Change(c, Plain("water"))>>
           ELSE IF b.level >= FluidRange[b.kind] THEN <<>>
           ELSE IF At(world, Below(c)) = Air THEN Pour(Below(c), Plain(b.kind))
           ELSE LET to == InCell(Sideways(c)) IN [i \in DOMAIN to |-> Do("spread", to[i], next)])
  /\ UNCHANGED <<world, tables, fluids, feet, clicks, history>>

Spread(a) ==
  /\ First(a, "spread")
  /\ LET c == Head(todo[a]).at
     IN  Then(a, IF world[c] = Air THEN Pour(c, Head(todo[a]).block) ELSE <<>>)
  /\ UNCHANGED <<world, tables, fluids, feet, clicks, history>>

\* gravity_check: is it sand?
Settle(a) ==
  /\ First(a, "settle")
  /\ LET c == Head(todo[a]).at
     IN  Then(a, IF At(world, c).kind = "sand" THEN <<Do("fall", c, world[c])>> ELSE <<>>)
  /\ UNCHANGED <<world, tables, fluids, feet, clicks, history>>

\* The cell that sand at c falls to.
Landing(c) ==
  LET fallen == {k \in 0..Cardinality(Cell) : \A j \in 1..k : At(world, Ahead(c, "down", j)) = Air}
  IN  Ahead(c, "down", Max(fallen))

\* Mutant: it is not cleared where it was.
FallTwice(a) ==
  /\ First(a, "fall")
  /\ LET c == Head(todo[a]).at
         b == Head(todo[a]).block
         to == Landing(c)
     IN  Then(a, IF to = c THEN <<>> ELSE <<Change(to, b), Do("settle", Above(c), None)>>)
  /\ UNCHANGED <<world, tables, fluids, feet, clicks, history>>

\* Then it goes to the lowest air, and what was above it is checked.
Fall(a) ==
  /\ First(a, "fall")
  /\ LET c == Head(todo[a]).at
         b == Head(todo[a]).block
         to == Landing(c)
     IN  Then(a, IF to = c THEN <<>>
                 ELSE <<[Change(c, Air) EXCEPT !.seen = b], Change(to, b), Do("settle", Above(c), None)>>)
  /\ UNCHANGED <<world, tables, fluids, feet, clicks, history>>

\* grow_tree: a trunk over whatever is there, and leaves where there is air.
Tree(c) ==
  LET trunk == {Ahead(c, "up", i) : i \in 0..(TreeHeight - 1)} \cap Cell
      width(dy) == IF dy >= TreeHeight THEN 1 ELSE 2
      crown == {n \in Cell \ trunk :
                  /\ n[2] - c[2] \in (TreeHeight - 2)..(TreeHeight + 1)
                  /\ n[1] - c[1] \in -width(n[2] - c[2])..width(n[2] - c[2])
                  /\ n[3] - c[3] \in -width(n[2] - c[2])..width(n[2] - c[2])}
      in(cells) == SelectSeq(Scan, LAMBDA n : n \in cells)
  IN  [i \in DOMAIN in(trunk) |-> Change(in(trunk)[i], Plain("log"))] \o
      [i \in DOMAIN in(crown) |-> Do("leaf", in(crown)[i], Plain("leaves"))]

Leaf(a) ==
  /\ First(a, "leaf")
  /\ LET op == Head(todo[a])
     IN  Then(a, IF world[op.at] = Air THEN <<Change(op.at, op.block)>> ELSE <<>>)
  /\ UNCHANGED <<world, tables, fluids, feet, clicks, history>>

Flat(c, r) == {n \in Cell : n[2] = c[2] /\ n[1] - c[1] \in -r..r /\ n[3] - c[3] \in -r..r}

\* What tick_block may do at c.
Growth(c) ==
  LET b == world[c]
      dirt == {n \in Flat(c, 1) : world[n].kind = "dirt" /\ At(world, Above(n)) = Air}
  IN  {<<>>} \cup
      (IF b.kind = "crop" /\ b.level < Ripe THEN {<<Change(c, Leveled("crop", b.level + 1))>>}
       ELSE IF b.kind = "sapling" THEN {Tree(c)}
       ELSE IF b.kind = "grass" THEN {<<Change(n, Plain("grass"))>> : n \in dirt}
       ELSE {})

\* What apply_bonemeal may do, where it does something (of the sprouts, one).
Fertilized(c) ==
  LET b == world[c]
      bare == {n \in Flat(c, 3) : world[n].kind = "grass" /\ At(world, Above(n)) = Air}
  IN  IF b.kind = "crop" /\ b.level < Ripe
        THEN {<<Change(c, Leveled("crop", Min({b.level + n, Ripe})))>> : n \in 2..5}
      ELSE IF b.kind = "sapling" THEN {Tree(c)}
      ELSE IF b.kind = "grass" THEN {<<Change(Above(n), Plain("plant"))>> : n \in {m \in bare : Above(m) \in Cell}}
      ELSE {}

\* What fire_tick may do to a fire: spread it, put it out, or both.
Burned(c) ==
  LET fuel == {n \in Cell : world[n].kind \in Burning /\ \A i \in 1..3 : n[i] - c[i] \in -1..1}
      lit  == {<<>>} \cup {<<Change(n, Plain("fire"))>> : n \in fuel}
  IN  lit \cup {l \o <<Change(c, Air)>> : l \in lit}

\* ignite_tnt, after the block is cleared.
LightFuse(a) ==
  /\ First(a, "fuse")
  /\ tnt' = Append(tnt, <<Head(todo[a]).at, Fuse>>)
  /\ Then(a, <<>>)
  /\ UNCHANGED <<world, tables, queue, feet, clicks, history>>

\* explode: every block within reach but bedrock, in one lock section.
Explode(a) ==
  /\ First(a, "boom")
  /\ LET c == Head(todo[a]).at
         square(i, n) == (n[i] - c[i]) * (n[i] - c[i])
         gone == {n \in Cell : /\ square(1, n) + square(2, n) + square(3, n) <= Blast * Blast
                               /\ world[n].kind \notin {"air", "bedrock"}}
     IN  /\ world' = [n \in Cell |-> IF n \in gone THEN Air ELSE world[n]]
         /\ shaken' = IF \E n \in gone : world[n].kind \in Redstone THEN Cell ELSE shaken
         /\ stuck' = stuck \ gone
         /\ parched' = parched \cup gone
         /\ floating' = floating \cup gone
         /\ sand' = sand - Cardinality({n \in gone : world[n].kind = "sand"})
  /\ Then(a, <<>>)
  /\ UNCHANGED <<tables, fluids, feet, clicks>>

-----------------------------------------------------------------------------
(* What players do. *)

Clicks(p) == todo[p] = <<>> /\ clicks < MaxClicks /\ clicks' = clicks + 1

\* A handler that has looked and now goes on with these.
Goes(p, ops) ==
  /\ Clicks(p)
  /\ todo' = [todo EXCEPT ![p] = ops]
  /\ UNCHANGED <<world, tables, fluids, feet, history>>

Flipped(c) == Rewrite(c, Turned(world[c], ~world[c].on))

\* try_toggle_lever: look, then write what was seen, turned.
ToggleLever(p) == \E c \in Cell :
  /\ world[c].kind = "lever"
  /\ Goes(p, <<Flipped(c), Do("update", c, None)>>)

\* try_use_door turns both halves, and nothing recomputes.
UseDoor(p) == \E c \in Cell :
  /\ world[c].kind = "door"
  /\ LET other == Ahead(c, world[c].facing, 1)
     IN  Goes(p, <<Flipped(c)>> \o (IF At(world, other).kind = "door" THEN <<Flipped(other)>> ELSE <<>>))

\* try_use_button, unless it is down.
Press(p) == \E c \in Cell :
  /\ world[c].kind = "button" /\ ~world[c].on
  /\ Goes(p, <<Rewrite(c, Turned(world[c], TRUE)), Do("press", c, None), Do("update", c, None)>>)

\* try_bucket: scoop up a source, or pour one out against a block.
Scoop(p) == \E c \in Site :
  /\ world[c].kind \in Fluid /\ world[c].level = 0
  /\ Goes(p, <<Rewrite(c, Air), Do("wet", c, None)>>)
PourOut(p) == \E c \in Site, fluid \in Fluid :
  /\ world[c] = Air
  /\ Goes(p, <<Rewrite(c, Plain(fluid)), Do("wet", c, None)>>)

\* try_flint: prime TNT, or light a fire in the air.
Flint(p) == \E c \in Site :
  \/ world[c].kind = "tnt" /\ Goes(p, <<Change(c, Air), Do("fuse", c, None)>>)
  \/ world[c] = Air /\ Goes(p, <<Change(c, Plain("fire"))>>)

\* try_bonemeal.
Bonemeal(p) == \E c \in Site : \E ops \in Fertilized(c) : Goes(p, ops)

\* break_block and place_block: both set the block at once, whatever is there, tell
\* the fluids and the sand, and recompute if the block that went, or came, is a
\* redstone block.
Replace(p, c, block, checked, reason) ==
  /\ Clicks(p)
  /\ Put(c, block, {"fluid", "sand"} \cup (IF reason \in Redstone THEN {"power"} ELSE {}))
  /\ todo' = [todo EXCEPT ![p] =
       <<Do("wet", c, None), Do("settle", checked, None)>> \o
       (IF reason \in Redstone THEN <<Do("update", c, None)>> ELSE <<>>) \o
       <<Do("notify", c, None)>>]
  /\ sand' = sand + IsSand(block) - IsSand(world[c])
  /\ UNCHANGED <<tables, fluids, feet>>

Break(p) == \E c \in Site : world[c] # Air /\ Replace(p, c, Air, Above(c), world[c].kind)
Place(p) == \E c \in Site, b \in Placeable : world[c] # b /\ Replace(p, c, b, c, b.kind)

\* To no plate or to another; elsewhere the blocks do not see players.
Walk(p) ==
  /\ Clicks(p)
  /\ \E c \in {d \in Cell : world[d].kind = "plate"} \cup {None} :
       c # feet[p] /\ feet' = [feet EXCEPT ![p] = c]
  /\ UNCHANGED <<world, todo, tables, fluids, history>>

-----------------------------------------------------------------------------
(* The game loop.  What it handles in the order of a hash set or a vector is *)
(* handled here in the order of the cells.                                   *)

Each(op, cells, block(_)) ==
  LET chosen == SelectSeq(Scan, LAMBDA c : c \in cells)
  IN  [i \in DOMAIN chosen |-> Do(op, chosen[i], block(chosen[i]))]

Unseen(c) == None

Growing == {c \in Cell : world[c].kind \in {"crop", "sapling", "grass"}}
Fires   == {c \in Cell : world[c].kind = "fire"}

\* What a tick does in order; what has nothing to do is left out.
Agenda ==
  LET now == {c \in Cell : world[c].kind = "plate" /\ \E p \in Player : feet[p] = c}
      due(op, work) == IF work THEN <<Do(op, None, None)>> ELSE <<>>
  IN  due("tnt tick", tnt # <<>>) \o due("fluid tick", queue # <<>>) \o
      Each("raise", now \ plates, Unseen) \o Each("lower", plates \ now, Unseen) \o
      due("button tick", \E c \in Cell : timers[c] > 0) \o
      due("scheduled tick", \E c \in Cell : sched[c] # None) \o
      due("random tick", Growing # {}) \o due("fire tick", Fires # {})

\* A tick: game_loop, with the look of pressure_plate_tick at the players' feet.
Tick ==
  /\ todo[Loop] = <<>>
  /\ plates' = {c \in Cell : world[c].kind = "plate" /\ \E p \in Player : feet[p] = c}
  /\ todo' = [todo EXCEPT ![Loop] = Agenda]
  /\ UNCHANGED <<world, timers, sched, fluids, feet, clicks, history>>

\* tick_tnt counts down and hands over what is due.
TntTick ==
  /\ First(Loop, "tnt tick")
  /\ LET due  == SelectSeq(tnt, LAMBDA t : t[2] = 1)
         left == SelectSeq(tnt, LAMBDA t : t[2] > 1)
     IN  /\ tnt' = [i \in DOMAIN left |-> <<left[i][1], left[i][2] - 1>>]
         /\ Then(Loop, [i \in DOMAIN due |-> Do("boom", due[i][1], None)])
  /\ UNCHANGED <<world, tables, queue, feet, clicks, history>>

\* drain_fluid.
FluidTick ==
  /\ First(Loop, "fluid tick")
  /\ LET n == Min({Drain, Len(queue)})
     IN  /\ queue' = SubSeq(queue, n + 1, Len(queue))
         /\ Then(Loop, [i \in 1..n |-> Do("flow", queue[i], None)])
  /\ UNCHANGED <<world, tables, tnt, feet, clicks, history>>

\* Mutant: it does not count.
Standing(n) == n

CountedDown(n) == Max({n - 1, 0})

\* tick_buttons.
ButtonTick ==
  /\ First(Loop, "button tick")
  /\ timers' = [c \in Cell |-> CountedDown(timers[c])]
  /\ Then(Loop, Each("lower", {c \in Cell : timers[c] = 1}, Unseen))
  /\ UNCHANGED <<world, sched, plates, fluids, feet, clicks, history>>

\* tick_scheduled.
ScheduledTick ==
  /\ First(Loop, "scheduled tick")
  /\ LET due == {c \in Cell : sched[c] # None /\ sched[c].left = 1}
         Target(c) == sched[c].block
     IN  /\ sched' = [c \in Cell |-> IF sched[c] = None \/ c \in due THEN None
                                     ELSE [sched[c] EXCEPT !.left = @ - 1]]
         /\ Then(Loop, Each("apply", due, Target))
  /\ UNCHANGED <<world, timers, plates, fluids, feet, clicks, history>>

\* random_tick and fire_tick sample cells: here each finds one, or nothing happens.
RandomTick ==
  /\ First(Loop, "random tick")
  /\ \E ops \in {<<>>} \cup UNION {Growth(c) : c \in Growing} : Then(Loop, ops)
  /\ UNCHANGED <<world, tables, fluids, feet, clicks, history>>

FireTick ==
  /\ First(Loop, "fire tick")
  /\ \E ops \in {<<>>} \cup UNION {Burned(c) : c \in Fires} : Then(Loop, ops)
  /\ UNCHANGED <<world, tables, fluids, feet, clicks, history>>

\* The server stops after a save and starts again: the blocks come back, the
\* tables do not.
Restart ==
  /\ clicks < MaxClicks /\ clicks' = clicks + 1
  /\ todo' = [a \in Actor |-> <<>>]
  /\ timers' = [c \in Cell |-> 0]
  /\ sched' = [c \in Cell |-> None]
  /\ plates' = {}
  /\ queue' = <<>> /\ tnt' = <<>>
  /\ feet' = [p \in Player |-> None]
  /\ shaken' = Cell
  /\ stuck' = TimedOn(world)
  /\ parched' = Cell /\ floating' = Cell
  /\ sand' = Cardinality({c \in Cell : world[c].kind = "sand"})
  /\ UNCHANGED world

Step(a) == Write(a) \/ Update(a) \/ Notify(a) \/ Fire(a) \/ Arm(a) \/ PressButton(a)
           \/ SetPlatePowered(a) \/ Apply(a) \/ Wet(a) \/ Flow(a) \/ Spread(a) \/ Settle(a)
           \/ Fall(a) \/ Leaf(a) \/ LightFuse(a) \/ Explode(a)
Click(p) == ToggleLever(p) \/ UseDoor(p) \/ Press(p) \/ Walk(p)
Build(p) == Break(p) \/ Place(p) \/ Scoop(p) \/ PourOut(p) \/ Flint(p) \/ Bonemeal(p)
LoopStep == Tick \/ TntTick \/ FluidTick \/ ButtonTick \/ ScheduledTick \/ RandomTick \/ FireTick
            \/ Step(Loop)

Init ==
  /\ world \in Layout
  /\ todo = [a \in Actor |-> <<>>]
  /\ timers = [c \in Cell |-> 0]
  /\ sched = [c \in Cell |-> None]
  /\ plates = {}
  /\ queue = <<>> /\ tnt = <<>>
  /\ feet = [p \in Player |-> None]
  /\ clicks = 0
  /\ shaken = {} /\ stuck = {} /\ parched = {} /\ floating = {}
  /\ sand = Cardinality({c \in Cell : world[c].kind = "sand"})

Next ==
  \/ \E p \in Player : Click(p) \/ Step(p)
  \/ \E p \in Builder : Build(p)
  \/ LoopStep
  \/ Restart

\* The game loop ticks on, and whatever a task has begun it ends: its lock sections
\* are few, and it waits for nothing but locks.  Nobody needs to click.
Spec == Init /\ [][Next]_vars /\ WF_vars(Tick) /\ \A a \in Actor : []<>(todo[a] = <<>>)

-----------------------------------------------------------------------------
(* Properties *)

Owed(c, ops) == \E a \in Actor : \E i \in DOMAIN todo[a] :
                  todo[a][i].at = c /\ todo[a][i].op \in ops

Quiet == /\ \A a \in Actor : \A i \in DOMAIN todo[a] : todo[a][i].at = None
         /\ \A c \in Cell : sched[c] = None

\* What a wire must carry, from what its neighbours do: no flood, but the law the
\* flood is to establish.
Law(c) ==
  LET full == Injected(world, Cell)
      near == {n \in Next6(c) : n \in full \/ IsSource(At(world, n))}
      wires == {n \in Next6(c) : At(world, n).kind = "redstone_wire"}
  IN  Max({0} \cup {Full : f \in {c} \cap full} \cup {Full - 1 : n \in near}
              \cup {world[n].level - 1 : n \in wires})

\* Once nobody has anything left to do and no change is pending, every wire carries
\* the power that reaches it, lamps are lit exactly next to power and repeaters show
\* their input: whatever the order in which tasks wrote and recomputed.  Two reasons
\* to find it otherwise: a change the code does not recompute after (a block shoved by
\* a piston, blown up or covered by another, a restart), and a circuit longer than
\* the box of redstone_update, 12 cells each way where power runs 15, which was
\* recomputed in part.
SettledIsPowered ==
  Quiet =>
    LET power == (Injected(world, Cell) \cup
                   {c \in Cell : world[c].kind = "redstone_wire" /\ world[c].level > 0}) \X {1}
    IN  \A c \in Cell \ shaken :
          /\ world[c].kind = "redstone_wire" => world[c].level = Law(c)
          /\ world[c].kind = "lamp" => world[c].on = Driven(world, power, c)
          /\ world[c].kind \in Logic => world[c].on = Desired(world, power, c)

\* A button that is down, a plate that is pressed, an observer that pulses: each has
\* a countdown or someone under way to start it or to switch it off, unless the
\* countdown was lost when a piston moved it or the server restarted.
PowerIsReleased ==
  \A c \in TimedOn(world) \ stuck :
    \/ world[c].kind = "button" /\ (timers[c] > 0 \/ Owed(c, {"press", "lower"}))
    \/ world[c].kind = "plate" /\ (c \in plates \/ Owed(c, {"lower"}))
    \/ world[c].kind = "observer" /\ (sched[c] # None \/ Owed(c, {"arm", "apply"}))

\* And so a button comes up again and an observer's pulse ends.
ComesUp ==
  \A c \in Cell :
    LET down == world[c].kind \in {"button", "observer"} /\ world[c].on /\ c \notin stuck
    IN  down ~> ~down

\* A fluid that could run on will: the cell waits in the queue, its turn in a tick has
\* come, or someone is about to queue it.  Exceptions are cells that were opened or
\* filled and the fluids not told: by fire, explosions, pistons, falling sand, a
\* restart, a full queue, and a cell that became a source from its neighbours.
FlowsOn ==
  \A c \in {d \in Cell : world[d].kind \in Fluid} \ parched :
    LET below == Below(c)
        open  == IF At(world, below) = Air THEN {below}
                 ELSE {n \in Range(Sideways(c)) : At(world, n) = Air}
        told  == \E d \in {c} \cup Next6(c) : Owed(d, {"wet"})
    IN  world[c].level < FluidRange[world[c].kind] =>
          \A n \in open \ parched :
            \/ c \in Range(queue) \/ Owed(c, {"flow"}) \/ told
            \/ Owed(n, {"spread", "write", "change"})

\* Sand over air is about to fall, unless nobody was told that it came to be there.
SandFalls ==
  \A c \in {d \in Cell : world[d].kind = "sand" /\ At(world, Below(d)) = Air} :
    \/ {c, Below(c)} \cap floating # {}
    \/ Owed(c, {"settle", "fall", "change"})

\* There is as much sand as was placed and not broken or blown up, counting what is
\* about to be written.
SandCounted ==
  LET pending == {ai \in Actor \X (1..Max({Len(todo[a]) : a \in Actor})) :
                    ai[2] \in DOMAIN todo[ai[1]] /\ todo[ai[1]][ai[2]].op \in {"write", "change"}
                    /\ todo[ai[1]][ai[2]].seen # None}
      op(ai) == todo[ai[1]][ai[2]]
  IN  sand = Cardinality({c \in Cell : world[c].kind = "sand"})
             + Cardinality({ai \in pending : op(ai).block.kind = "sand"})
             - Cardinality({ai \in pending : op(ai).seen.kind = "sand"})

\* Sand is never left hanging where someone was told of it, and it is doubled or lost
\* only where a write covered something that had changed since the task looked.
SandKept == SandFalls /\ SandCounted
=============================================================================
