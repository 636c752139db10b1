------------------------------- MODULE Items -------------------------------
(***************************************************************************)
(* Where items are: the players' inventories and the stacks on the ground. *)
(* Inventory of inventory.rs, the drops of drops.rs, death in combat.rs,   *)
(* and of connection.rs everything that uses the held item, and trading.   *)
(*                                                                         *)
(* An inventory has a mutex of its own, and Player::inventory is one lock  *)
(* section, so one step here.  A player's task often needs several: it     *)
(* copies the held stack, decides, takes one off, writes back the stack    *)
(* that is left.  Between these the game loop may hand over what the       *)
(* player stands on, or kill the player and empty the inventory.           *)
(***************************************************************************)
EXTENDS Integers, FiniteSets, SequencesExt

CONSTANTS Player,
          Exposed,       \* bound: the players near mobs and drops; the others trade
          Carried,       \* the inventories they join with
          FillOrder,     \* the slots in the order Inventory::add tries them
          WindowOrder,   \* and in the order Inventory::remove does
          Held,          \* bound: the hotbar slot in hand, always the same
          Item,
          MaxStack,      \* item::max_stack
          Tool,          \* items that wear out
          WrittenBack,   \* items whose handler writes the slot it consumed from
          Remainder,     \* what is given back for a used item, or None
          Offer,         \* a villager's trade: so many of one item for another
          MaxUses,       \* clientbound::MAX_TRADE_USES
          KeepInventory, \* config.world.keep_inventory
          MaxUnits,      \* bound: the world is given no more than this many
          None

Slot  == Range(FillOrder)
Stack == {s \in [id : Item, count : Nat] : s.count \in 1..MaxStack[s.id]}
Empty == [id |-> None, count |-> 0]

ASSUME ItemsAssumption ==
  /\ IsFiniteSet(Player)
  /\ Exposed \subseteq Player
  /\ MaxUses \in Nat \ {0}
  /\ None \notin Item
  /\ FillOrder \in Seq(Slot) /\ WindowOrder \in Seq(Slot) /\ Range(WindowOrder) = Slot
  /\ Held \in Slot
  /\ MaxStack \in [Item -> Nat \ {0}] /\ Remainder \in [Item -> Item \cup {None}]
  /\ Carried \in [Player -> [Slot -> Stack \cup {Empty}]]
  /\ Offer.pay \in Item /\ Offer.get \in Item \ {Offer.pay} /\ {Offer.price, Offer.amount} \subseteq Nat

VARIABLES
  inv,     \* Player.inventory
  ground,  \* Shared.items: how many of each item lie there, in whatever stacks
  dead,    \* PlayerState.dead
  uses,    \* Shared.trade_uses, of the one offer
  task,    \* of each player: where its task is, the stack it copied, and
           \* what it is about to give back
  loop,    \* the game loop: where it is, with whom, and the stack it picked up
  touched, \* history: what the game loop did to the held stack since the
           \* player's task last did anything with it
  ledger   \* history: how many of each item there should be

vars == <<inv, ground, dead, uses, task, loop, touched, ledger>>

Idle    == [at |-> "idle", copy |-> Empty, due |-> None]
Resting == [at |-> "idle", who |-> None, loot |-> Empty]

\* The players whose trade has passed the check of the stock and is not counted yet.
PastCheck == {p \in Player : task[p].at \in {"trading", "counting"}}

Count(stack, i) == IF stack.id = i THEN stack.count ELSE 0
Contained(slots, i) == SumFunction([s \in Slot |-> Count(slots[s], i)])
InHands(i) == SumFunction([p \in Player |-> Contained(inv[p], i)])

\* How many of item i there are.
Total(i) == InHands(i) + ground[i] + Count(loop.loot, i)

-----------------------------------------------------------------------------
(* The inventory *)

Of(i, n) == IF n = 0 THEN Empty ELSE [id |-> i, count |-> n]

\* Of a.left of item i, put into slot s what fits.
Into(a, s, i) ==
  LET moved == Min({MaxStack[i] - a.slots[s].count, a.left})
  IN  [slots |-> [a.slots EXCEPT ![s] = IF moved = 0 THEN @ ELSE Of(i, @.count + moved)],
       left  |-> a.left - moved]

TopUp(a, s, i) == IF a.slots[s].id = i THEN Into(a, s, i) ELSE a
Fill(a, s, i)  == IF a.slots[s] = Empty THEN Into(a, s, i) ELSE a

\* Add n of item i: top up the stacks of i, then fill empty slots.  The result has
\* the slots and how many did not fit.
ToppedUp(a, i) == FoldLeft(LAMBDA b, s : TopUp(b, s, i), a, FillOrder)
FilledUp(a, i) == FoldLeft(LAMBDA b, s : Fill(b, s, i), a, FillOrder)
Add(slots, i, n) == FilledUp(ToppedUp([slots |-> slots, left |-> n], i), i)

Has(slots, i, n) == Contained(slots, i) >= n

\* Take what is left to take of item i from slot s.
Take(a, s, i) ==
  LET taken == IF a.slots[s].id = i THEN Min({a.slots[s].count, a.left}) ELSE 0
  IN  [slots |-> [a.slots EXCEPT ![s] = IF taken = 0 THEN @ ELSE Of(i, @.count - taken)],
       left  |-> a.left - taken]

\* The slots without n of item i, which they have.
Drained(a, i) == FoldLeft(LAMBDA b, s : Take(b, s, i), a, WindowOrder)
Spend(slots, i, n) == Drained([slots |-> slots, left |-> n], i).slots

\* A stack with one less, as consume_held leaves it.
Less(stack) == IF stack = Empty THEN Empty ELSE Of(stack.id, stack.count - 1)

-----------------------------------------------------------------------------
(* What the history remembers of a step. *)

Nothing == [i \in Item |-> 0]

\* A step is meant to change the number of items by so much, and goes into the
\* ledger as that.  What there is too much of when the held stack was emptied
\* under the task's hands, and what is missing when it was filled or there was no
\* room, is written off: the ledger takes up what there really is.
Book(change, why) ==
  ledger' = [i \in Item |->
    LET due   == ledger[i] + change[i]
        there == Total(i)'
    IN  IF \/ "emptied" \in why /\ there > due
           \/ why \cap {"filled", "overflow"} # {} /\ there < due
        THEN there ELSE due]

\* The task of p does something with the held stack itself.
Handles(p) == touched' = [touched EXCEPT ![p] = {}]

\* The loop gives p the inventory new.
LoopSets(p, new, how) ==
  /\ inv' = [inv EXCEPT ![p] = new]
  /\ touched' = [touched EXCEPT ![p] = IF new[Held] = inv[p][Held] THEN @ ELSE @ \cup {how}]

\* The bound on what the world is given.
Plenty(n) == SumFunction(ledger) + n <= MaxUnits

Goto(p, at, copy, due) == task' = [task EXCEPT ![p] = [at |-> at, copy |-> copy, due |-> due]]

-----------------------------------------------------------------------------
(* The held item in use: place_block, try_eat, try_drink, try_bucket,       *)
(* interact_entity, try_bonemeal, damage_held_tool.                        *)

\* A handler copies the held stack and acts on what it is: on the block, the
\* animal or the player's food, which is none of this module's business.
Read(p) ==
  /\ task[p].at = "idle"
  /\ inv[p][Held] # Empty
  /\ Goto(p, IF inv[p][Held].id \in Tool THEN "wearing" ELSE "using", inv[p][Held], None)
  /\ Handles(p)
  /\ UNCHANGED <<inv, ground, dead, uses, loop, ledger>>

\* What is left to do is to give back due.
Owing(p, due) == IF due = None THEN task' = [task EXCEPT ![p] = Idle]
                               ELSE Goto(p, "giving", Empty, due)

\* Then it takes one off the held stack, whatever that is by now.  Blocks, food
\* and potions leave it at that; buckets, feed and bone meal keep a copy of the
\* stack that is left.
Consume(p) ==
  /\ task[p].at = "using"
  /\ LET used == task[p].copy.id
         left == Less(inv[p][Held])
     IN  /\ inv' = [inv EXCEPT ![p][Held] = left]
         /\ IF used \in WrittenBack THEN Goto(p, "writing", left, Remainder[used])
                                   ELSE Owing(p, Remainder[used])
         /\ UNCHANGED <<ground, dead, uses, loop>>
         /\ Book([Nothing EXCEPT ![used] = -1], IF "emptied" \in touched[p] THEN touched[p] ELSE {})
  /\ Handles(p)

\* set_slot puts the copy back into the slot.
WriteBack(p) ==
  /\ task[p].at = "writing"
  /\ inv' = [inv EXCEPT ![p][Held] = task[p].copy]
  /\ Owing(p, task[p].due)
  /\ UNCHANGED <<ground, dead, uses, loop>>
  /\ Book(Nothing, touched[p])
  /\ Handles(p)

\* Player::give adds what fits and forgets the rest.
Gain(p, i, n) ==
  LET added == Add(inv[p], i, n)
  IN  /\ inv' = [inv EXCEPT ![p] = added.slots]
      /\ UNCHANGED <<ground, dead, uses, loop>>
      /\ Book([Nothing EXCEPT ![i] = n], IF added.left > 0 THEN {"overflow"} ELSE {})
      /\ Handles(p)

GiveBack(p) ==
  /\ task[p].at = "giving"
  /\ Gain(p, task[p].due, 1)
  /\ task' = [task EXCEPT ![p] = Idle]

\* damage_held_tool writes back its copy, a little more worn, or nothing when
\* the tool has broken.
WearOut(p) ==
  /\ task[p].at = "wearing"
  /\ LET copy == task[p].copy
     IN  \E rest \in {copy, Empty} :
           /\ inv' = [inv EXCEPT ![p][Held] = rest]
           /\ UNCHANGED <<ground, dead, uses, loop>>
           /\ Book([Nothing EXCEPT ![copy.id] = rest.count - copy.count], touched[p])
  /\ task' = [task EXCEPT ![p] = Idle]
  /\ Handles(p)

\* The command /give.
Give(p) ==
  /\ task[p].at = "idle"
  /\ \E n \in 1..MaxUnits : Plenty(n) /\ \E i \in Item : Gain(p, i, n)
  /\ UNCHANGED task

-----------------------------------------------------------------------------
(* do_trade *)

\* Mutant: one use too many.
CheckStockLate(p) ==
  /\ task[p].at = "idle"
  /\ uses <= MaxUses
  /\ Goto(p, "trading", Empty, None)
  /\ UNCHANGED <<inv, ground, dead, uses, loop, touched, ledger>>

\* The stock is checked in one lock section,
CheckStock(p) ==
  /\ task[p].at = "idle"
  /\ uses < MaxUses
  /\ Goto(p, "trading", Empty, None)
  /\ UNCHANGED <<inv, ground, dead, uses, loop, touched, ledger>>

\* the items change hands in a second,
Swap(p) ==
  /\ task[p].at = "trading"
  /\ UNCHANGED <<ground, dead, uses, loop>>
  /\ IF Has(inv[p], Offer.pay, Offer.price)
     THEN LET added == Add(Spend(inv[p], Offer.pay, Offer.price), Offer.get, Offer.amount)
          IN  /\ inv' = [inv EXCEPT ![p] = added.slots]
              /\ Book([Nothing EXCEPT ![Offer.pay] = -Offer.price, ![Offer.get] = Offer.amount],
                      IF added.left > 0 THEN {"overflow"} ELSE {})
              /\ Goto(p, "counting", Empty, None)
              /\ Handles(p)
     ELSE /\ task' = [task EXCEPT ![p] = Idle]
          /\ UNCHANGED <<inv, touched, ledger>>

\* and the use is counted in a third.
UseTrade(p) ==
  /\ task[p].at = "counting"
  /\ uses' = uses + 1
  /\ task' = [task EXCEPT ![p] = Idle]
  /\ UNCHANGED <<inv, ground, dead, loop, touched, ledger>>

\* restock_trades, from the game loop.
Restock ==
  /\ loop.at = "idle"
  /\ uses' = 0
  /\ UNCHANGED <<inv, ground, dead, task, loop, touched, ledger>>

-----------------------------------------------------------------------------
(* Drops.  Spawning only ever adds to the ground, and the game loop alone    *)
(* takes from it, so that a drop joins the step before it.                 *)

\* A broken block, a killed mob or a shorn sheep leaves something behind.
Drop ==
  /\ Plenty(1)
  /\ UNCHANGED <<inv, dead, uses, task, loop, touched>>
  /\ \E i \in Item : ground' = [ground EXCEPT ![i] = @ + 1] /\ Book([Nothing EXCEPT ![i] = 1], {})

\* tick_items, the part under the lock of the items: a stack has lain there too
\* long, or lies at the feet of a living player.  As only the loop takes from the
\* ground, a pass over several stacks is a pass over each of them.
TickItems ==
  /\ loop.at = "idle"
  /\ UNCHANGED <<inv, dead, uses, task, touched>>
  /\ \E i \in Item : \E n \in 1..ground[i] :
       /\ n <= MaxStack[i]
       /\ ground' = [ground EXCEPT ![i] = @ - n]
       /\ \/ loop' = loop /\ Book([Nothing EXCEPT ![i] = -n], {})
          \/ /\ \E p \in Exposed : ~dead[p] /\ loop' = [at |-> "handing", who |-> p, loot |-> Of(i, n)]
             /\ UNCHANGED ledger

\* Mutant: what does not fit is gone, as in Player::give.
HandOverAndForget ==
  /\ loop.at = "handing"
  /\ LoopSets(loop.who, Add(inv[loop.who], loop.loot.id, loop.loot.count).slots, "filled")
  /\ loop' = Resting
  /\ UNCHANGED <<ground, dead, uses, task, ledger>>

\* Then the stack goes into the inventory, and what does not fit back to the ground.
HandOver ==
  /\ loop.at = "handing"
  /\ LET i == loop.loot.id
         added == Add(inv[loop.who], i, loop.loot.count)
     IN  /\ LoopSets(loop.who, added.slots, "filled")
         /\ ground' = [ground EXCEPT ![i] = @ + added.left]
  /\ loop' = Resting
  /\ UNCHANGED <<dead, uses, task, ledger>>

-----------------------------------------------------------------------------
(* Death: damage_player *)

\* The player dies under the lock of the state.  KeepInventory ends it there.
Die(p) == ~dead[p] /\ dead' = [dead EXCEPT ![p] = TRUE]

\* The inventory is emptied under its own.
Emptied == [s \in Slot |-> Empty]
Spilled(p) == [i \in Item |-> ground[i] + Contained(inv[p], i)]

\* By a mob, an arrow, hunger: the game loop.
Kill(p) ==
  /\ loop.at = "idle"
  /\ Plenty(0)
  /\ Die(p)
  /\ loop' = IF KeepInventory THEN loop ELSE [at |-> "killing", who |-> p, loot |-> Empty]
  /\ UNCHANGED <<inv, ground, uses, task, touched, ledger>>

TakeAll ==
  /\ loop.at = "killing"
  /\ LoopSets(loop.who, Emptied, "emptied")
  /\ ground' = Spilled(loop.who)
  /\ loop' = Resting
  /\ UNCHANGED <<dead, uses, task, ledger>>

\* By a fall or the command /kill: the player's own task.
Fall(p) ==
  /\ task[p].at = "idle"
  /\ Plenty(0)
  /\ Die(p)
  /\ IF KeepInventory THEN UNCHANGED task ELSE Goto(p, "dying", Empty, None)
  /\ UNCHANGED <<inv, ground, uses, loop, touched, ledger>>

DropAll(p) ==
  /\ task[p].at = "dying"
  /\ inv' = [inv EXCEPT ![p] = Emptied]
  /\ ground' = Spilled(p)
  /\ task' = [task EXCEPT ![p] = Idle]
  /\ Handles(p)
  /\ UNCHANGED <<dead, uses, loop, ledger>>

\* respawn_player
Respawn(p) ==
  /\ task[p].at = "idle"
  /\ dead[p]
  /\ dead' = [dead EXCEPT ![p] = FALSE]
  /\ UNCHANGED <<inv, ground, uses, task, loop, touched, ledger>>

-----------------------------------------------------------------------------
Init ==
  /\ inv = Carried
  /\ ground = Nothing
  /\ dead = [p \in Player |-> FALSE]
  /\ uses = 0
  /\ task = [p \in Player |-> Idle]
  /\ loop = Resting
  /\ touched = [p \in Player |-> {}]
  /\ ledger = [i \in Item |-> Total(i)]

Next ==
  \/ \E p \in Player : CheckStock(p) \/ Swap(p) \/ UseTrade(p)
  \/ \E p \in Exposed : \/ Read(p) \/ Consume(p) \/ WriteBack(p) \/ GiveBack(p)
                        \/ WearOut(p) \/ Give(p)
                        \/ Kill(p) \/ Fall(p) \/ DropAll(p) \/ Respawn(p)
  \/ Drop \/ TickItems \/ HandOver \/ TakeAll \/ Restock

Spec == Init /\ [][Next]_vars

-----------------------------------------------------------------------------
(* There are as many of each item as should be: items move between inventories,
   the ground and the game loop's hands, and none appears or vanishes in between,
   whatever the loop does between two steps of a task.  There are three exceptions,
   which are written off as they happen.  A task that works with a stack which a
   death has emptied meanwhile uses it for nothing or brings it back a second time; one
   that writes back over a stack the game loop has added to, or into a slot it
   has filled, destroys that; and what Player::give and do_trade find no room for
   is lost.  (place_block, try_bucket, damage_held_tool, do_trade, tick_items,
   damage_player) *)
Accounted == \A i \in Item : ledger[i] = Total(i)

(* An offer is used no more often between two restocks than it has uses, but for
   the other players who passed the check at the same time. (do_trade checks the
   stock and counts the use in two lock sections.) *)
StockNearlyKept == uses + Cardinality(PastCheck) <= MaxUses + Cardinality(Player) - 1
=============================================================================
