------------------------------ MODULE Windows ------------------------------
(***************************************************************************)
(* Windows: chests, furnaces, brewing stands, crafting tables, anvils and   *)
(* the player's own grid; the windows of connection.rs, furnace.rs,         *)
(* brewing.rs, the block entities of state.rs and recipe.rs.                *)
(*                                                                         *)
(* A client works on what it sees: a click changes its picture of a slot   *)
(* and what its cursor holds at once, and the server, when the click gets  *)
(* there, writes the stack the client asks for, whatever the slot holds by *)
(* then.  The cursor exists in the client only.  Packets to a client       *)
(* arrive as they are sent: what a client does before one arrives, it may  *)
(* as well have done before it was sent, as its own messages take their    *)
(* time.                                                                   *)
(***************************************************************************)
EXTENDS Integers, FiniteSets, SequencesExt

CONSTANTS Player, Dim, Spot,
          Overworld,  \* the dimension explosions take place in
          HomeDim,    \* bound: the dimension each player stays in
          Scenes,     \* the states of blocks and slots it may start from
          Item, MaxStack,
          Smelted,    \* recipe::smelt: of each item what it smelts to, or None
          FuelTicks,  \* recipe::fuel_ticks
          Brewed,     \* of each bottle what it is once brewed, or None
          Brewing,    \* the ingredients with an item::brew_result
          Recipe,     \* recipe::crafting_table: need, id and count
          Mended,     \* items two of which the anvil makes one
          CookTime, BrewTime,
          MaxSent,    \* bound: messages of a client under way
          Throwing,   \* bound: whose deeds it counts as to throw something out
          None

Stack == {s \in [id : Item, count : Nat] : s.count \in 1..MaxStack[s.id]}
Empty == [id |-> None, count |-> 0]

\* The slots of each kind of window, in the order of their indices.  The numbers
\* of like slots are bounds.
Part(kind) == CASE kind = "chest"   -> <<"a">>
                [] kind = "furnace" -> <<"in", "fuel", "out">>
                [] kind = "stand"   -> <<"bottle", "ingredient", "fuel">>
                [] kind = "table"   -> <<"out", "a", "b">>
                [] kind = "anvil"   -> <<"a", "b", "out">>
                [] kind = "own"     -> <<"out", "a">>
                [] kind = "pack"    -> <<"x", "y">>

Shared   == {"chest", "furnace", "stand"}
Personal == {"table", "anvil", "own"}

\* A window is a kind with the position or the player it belongs to; a slot is
\* named by kind, owner and part.
Names(w) == [i \in DOMAIN Part(w[1]) |-> <<w[1], w[2], Part(w[1])[i]>>]
Pack(p)  == Names(<<"pack", p>>)
Layout(w, p) == Names(w) \o Pack(p)

SharedName == UNION {Range(Names(w)) : w \in Shared \X Spot}
OwnName(p) == UNION {Range(Names(<<k, p>>)) : k \in Personal \cup {"pack"}}
Name       == SharedName \cup UNION {OwnName(p) : p \in Player}

\* The slots whose contents follow from others: nothing is kept in those of a table
\* or an anvil, and none of them holds items that exist.
Output == {n \in Name : n[1] \in Personal /\ n[3] = "out"}
\* What a client lays in the fuel slot of a brewing stand, the server ignores.
Ignored == {n \in SharedName : n[1] = "stand" /\ n[3] = "fuel"}
Grid(w) == {n \in Range(Names(w)) : n[3] # "out"}

ASSUME WindowsAssumption ==
  /\ HomeDim \in [Player -> Dim] /\ Overworld \in Dim
  /\ CookTime \in Nat \ {0} /\ BrewTime \in Nat \ {0}
  /\ None \notin Item \cup Spot

VARIABLES
  block,    \* the worlds, as far as windows go
  entry,    \* Shared.containers, furnaces, brewing: the block entities there are
  slots,    \* their slots, Player.inventory, craft_grid, anvil_in
  heat,     \* Furnace.burn and cook, Brewing.brew_time
  flags,    \* PlayerState.open_furnace, open_brewing, open_container, open_crafting, open_anvil
  task,     \* of each player: the step of a handler its task is before
  loop,     \* the game loop: a snapshot it is about to send
  ground,   \* how many of each item were spilled
  sent,     \* messages of each client under way
  screen, view, cursor, \* of each client: its window, what it shows, what it holds
  doubt,    \* history: the slots a client may well show wrong
  mixed,    \* history: windows opened and closed over each other
  ledger,   \* history: how many of each item there should be
  deeds     \* bound: how much each client may still do, Throwing, and None for explosions

clients == <<screen, view, cursor>>
vars == <<block, entry, slots, heat, flags, task, loop, ground, sent, screen, view, cursor,
          doubt, mixed, ledger, deeds>>

Closed == [furnace |-> None, stand |-> None, chest |-> None, table |-> FALSE, anvil |-> FALSE]
Idle   == [at |-> "idle", kind |-> "own", spot |-> None, copy |-> <<>>, old |-> {}]
Resting == [at |-> "idle", kind |-> "own", spot |-> None, copy |-> <<>>, old |-> {}]
NoScreen == <<"none", None>>

Message(op, at, w, i, was, now, sure) ==
  [op |-> op, spot |-> at, window |-> w, index |-> i, was |-> was, now |-> now, sure |-> sure]
Plain(op, at) == Message(op, at, NoScreen, 0, Empty, Empty, TRUE)

\* The slot a click is meant for.
Meant(m, p) == Layout(m.window, p)[m.index]
Clicks(p)   == {k \in DOMAIN sent[p] : sent[p][k].op = "click"}
Pending(p)  == {Meant(sent[p][k], p) : k \in Clicks(p)}

Count(stack, i) == IF stack.id = i THEN stack.count ELSE 0
Sum(S, f(_)) == MapThenSumSet(f, S)

\* How many of item i there are: in slots, in cursors, spilled, and on the way
\* from a cursor to a slot or back.
Full == {n \in Name \ Output : slots[n] # Empty}

Total(i) ==
  Sum(Full, LAMBDA n : Count(slots[n], i)) + ground[i]
  + Sum(Player, LAMBDA p : Count(cursor[p], i)
        + Sum(Clicks(p), LAMBDA k : Count(sent[p][k].now, i) - Count(sent[p][k].was, i)))

-----------------------------------------------------------------------------
(* recipe.rs, anvil_result, Inventory::add *)

Of(i, n) == IF n = 0 THEN Empty ELSE [id |-> i, count |-> n]
Less(stack) == Of(stack.id, stack.count - 1)

\* match_grid, and what it makes: the items that lie in the grid are exactly those a
\* recipe needs, in whatever cells.
Crafted(cells) ==
  LET have == [i \in Item |-> Cardinality({n \in DOMAIN cells : cells[n].id = i})]
      fit  == {r \in Recipe : r.need = have}
  IN  IF fit = {} THEN Empty ELSE LET r == CHOOSE r \in fit : TRUE IN Of(r.id, r.count)

\* Two of one kind are made into one.
AnvilResult(a, b) == IF a # Empty /\ a.id = b.id /\ a.id \in Mended THEN Of(a.id, 1) ELSE Empty

\* What an output slot shows for these slots.
Result(sl, w) ==
  IF w[1] = "anvil" THEN AnvilResult(sl[<<"anvil", w[2], "a">>], sl[<<"anvil", w[2], "b">>])
                    ELSE Crafted([n \in Grid(w) |-> sl[n]])

\* The contents of a slot, which for a table and an anvil is worked out for the answer.
Holds(n) == IF n \in Output /\ n[1] # "own" THEN Result(slots, <<n[1], n[2]>>) ELSE slots[n]

\* Top up, then fill; what does not fit is lost.
Added(sl, p, stack) ==
  LET Into(a, n) ==
        LET moved == Min({MaxStack[stack.id] - a.sl[n].count, a.left})
        IN  IF moved = 0 THEN a
            ELSE [sl |-> [a.sl EXCEPT ![n] = Of(stack.id, @.count + moved)], left |-> a.left - moved]
      TopUp(a, n) == IF a.sl[n].id = stack.id THEN Into(a, n) ELSE a
      Fill(a, n)  == IF a.sl[n] = Empty THEN Into(a, n) ELSE a
  IN  IF stack = Empty THEN sl
      ELSE FoldLeft(Fill, FoldLeft(TopUp, [sl |-> sl, left |-> stack.count], Pack(p)), Pack(p)).sl

-----------------------------------------------------------------------------
(* What the history remembers of a step. *)

Nothing == [i \in Item |-> 0]

\* The step changes the number of items by so much.
Book(change) == ledger' = [i \in Item |-> ledger[i] + change[i]]

\* The write-off: whatever there is by now.
WriteOff == ledger' = [i \in Item |-> Total(i)']

\* Slots S are no more what others think: not their clicks under way (in the
\* queues q), not the copies about to be sent, not what the clients D show.
Unsure(q, S) ==
  [p \in Player |-> [k \in DOMAIN q[p] |->
     IF q[p][k].op = "click" /\ Meant(q[p][k], p) \in S THEN [q[p][k] EXCEPT !.sure = FALSE]
                                                        ELSE q[p][k]]]
Aged(t, S)    == IF t.at \in {"showing", "telling"} THEN [t EXCEPT !.old = @ \cup S] ELSE t
AgedTasks(ts, S) == [p \in Player |-> Aged(ts[p], S)]
Doubted(S, D) == [p \in Player |-> IF p \in D THEN doubt[p] \cup S ELSE doubt[p]]

\* Client p is told the contents of slots: it believes them, but for those which
\* are old, or which it has clicked at meanwhile.
Believed(p, old, q, told, doubtful) ==
  LET meant == {Meant(q[k], p) : k \in {j \in DOMAIN q : q[j].op = "click"}}
      open  == meant \cup UNION {Range(Names(<<n[1], n[2]>>)) : n \in {m \in meant : m[1] \in Personal}}
  IN  (doubtful \ told) \cup (told \cap (old \cup open))

-----------------------------------------------------------------------------
(* The clients *)

Spend(who) == deeds[who] > 0 /\ deeds' = [deeds EXCEPT ![who] = @ - 1]

Send(p, m) == /\ Len(sent[p]) < MaxSent
              /\ sent' = [sent EXCEPT ![p] = Append(@, m)]

Reach(p) == screen[p] = NoScreen

\* A block is clicked that is there as yet.
There(p) == {s \in Spot : block[<<HomeDim[p], s>>] # "air"}

Use(p) ==
  /\ Reach(p)
  /\ Spend(p) /\ \E s \in There(p) : Send(p, Plain("use", s))
  /\ UNCHANGED <<block, entry, slots, heat, flags, task, loop, ground, clients, doubt, mixed, ledger>>

Dig(p) ==
  /\ Reach(p)
  /\ Spend(p) /\ \E s \in There(p) : Send(p, Plain("dig", s))
  /\ UNCHANGED <<block, entry, slots, heat, flags, task, loop, ground, clients, doubt, mixed, ledger>>

\* The player's own window opens without the server.
OpenOwn(p) ==
  /\ Reach(p)
  /\ screen' = [screen EXCEPT ![p] = <<"own", p>>]
  /\ UNCHANGED <<block, entry, slots, heat, flags, task, loop, ground, sent, view, cursor, doubt,
                 mixed, ledger, deeds>>

\* What a click makes of the slot and the cursor: a stack is taken or laid down,
\* whole or in part, or they are exchanged.
Clicked(n, slot, hand) ==
  IF n[3] = "out"
  THEN {c \in {[slot |-> Empty, hand |-> Of(slot.id, slot.count + hand.count)]} :
          slot # Empty /\ hand.id \in {slot.id, None} /\ slot.count + hand.count <= MaxStack[slot.id]}
  ELSE CASE hand = Empty /\ slot # Empty -> {[slot |-> Empty, hand |-> slot]}
         [] hand # Empty /\ slot.id \in {None, hand.id} ->
              {[slot |-> Of(hand.id, slot.count + k), hand |-> Of(hand.id, hand.count - k)] :
                 k \in {j \in 1..hand.count : slot.count + j <= MaxStack[hand.id]}}
         [] hand # Empty /\ slot.id \notin {None, hand.id} -> {[slot |-> hand, hand |-> slot]}
         [] OTHER -> {}

\* The slots the server will change besides the one clicked, or that one if it
\* ignores it.
Reacting(w, n) == IF n \in Ignored THEN {n}
                  ELSE IF w[1] \notin Personal \/ n \notin Range(Names(w)) THEN {}
                  ELSE IF n \in Output THEN Range(Names(w)) ELSE Range(Names(w)) \cap Output

Click(p) ==
  /\ screen[p] # NoScreen
  /\ LET w == screen[p]
         l == Layout(w, p)
     IN  \E i \in DOMAIN l : \E c \in Clicked(l[i], view[p][l[i]], cursor[p]) :
           /\ Spend(p)
           /\ Send(p, Message("click", None, w, i, view[p][l[i]], c.slot, l[i] \notin doubt[p] /\ ~mixed[p]))
           /\ view' = [view EXCEPT ![p][l[i]] = c.slot]
           /\ cursor' = [cursor EXCEPT ![p] = c.hand]
           /\ doubt' = [doubt EXCEPT ![p] = @ \cup Reacting(w, l[i])]
  /\ UNCHANGED <<block, entry, slots, heat, flags, task, loop, ground, screen, mixed, ledger>>

\* Thrown out: what a slot holds, or what the cursor does, at a click outside the
\* window.  The client lets go of it, and nobody picks that up.
Gone(stack, k) == Book([i \in Item |-> IF i = stack.id THEN -k ELSE 0])

ThrowOut(p) ==
  /\ screen[p] # NoScreen /\ cursor[p] = Empty
  /\ LET w == screen[p]
         l == Layout(w, p)
         shown(i) == view[p][l[i]]
     IN  \E i \in {j \in DOMAIN l : shown(j) # Empty} :
         \E k \in {shown(i).count} \cup (IF l[i][3] = "out" THEN {} ELSE {1}) :
           LET rest == Of(shown(i).id, shown(i).count - k)
           IN  /\ Spend(Throwing)
               /\ Send(p, Message("click", None, w, i, shown(i), rest, l[i] \notin doubt[p] /\ ~mixed[p]))
               /\ view' = [view EXCEPT ![p][l[i]] = rest]
               /\ doubt' = [doubt EXCEPT ![p] = @ \cup Reacting(w, l[i])]
               /\ Gone(shown(i), k)
  /\ UNCHANGED <<block, entry, slots, heat, flags, task, loop, ground, screen, cursor, mixed>>

ClickOutside(p) ==
  /\ screen[p] # NoScreen /\ cursor[p] # Empty
  /\ \E k \in {1, cursor[p].count} :
       /\ Spend(Throwing)
       /\ Send(p, Message("outside", None, screen[p], 0, Empty, Empty, TRUE))
       /\ cursor' = [cursor EXCEPT ![p] = Of(@.id, @.count - k)]
       /\ Gone(cursor[p], k)
  /\ UNCHANGED <<block, entry, slots, heat, flags, task, loop, ground, screen, view, doubt, mixed>>

\* A client that closes a window lets go of what its cursor holds, and nobody
\* picks that up.
LetGo(p) == [i \in Item |-> -Count(cursor[p], i)]

Close(p) ==
  /\ screen[p] # NoScreen
  /\ Spend(p) /\ Send(p, Plain("close", None))
  /\ screen' = [screen EXCEPT ![p] = NoScreen]
  /\ cursor' = [cursor EXCEPT ![p] = Empty]
  /\ Book(LetGo(p))
  /\ UNCHANGED <<block, entry, slots, heat, flags, task, loop, ground, view, doubt, mixed>>

-----------------------------------------------------------------------------
(* The players' tasks *)

\* The task takes up the next message.
Next1(p, op) == task[p].at = "idle" /\ sent[p] # <<>> /\ Head(sent[p]).op = op
Rest(p) == [sent EXCEPT ![p] = Tail(@)]

\* try_open_container and the others: which block is it?  (A block that opens
\* nothing is the business of place_block.)
LookAt(p) ==
  /\ Next1(p, "use")
  /\ sent' = Rest(p)
  /\ LET kind == block[<<HomeDim[p], Head(sent[p]).spot>>]
     IN  task' = IF kind = "air" THEN task
                 ELSE [task EXCEPT ![p] = [Idle EXCEPT !.at = "opening", !.kind = kind,
                                                       !.spot = Head(sent[p]).spot]]
  /\ UNCHANGED <<block, entry, slots, heat, flags, loop, ground, clients, doubt, mixed, ledger, deeds>>

\* Then the block entity is made sure of, the window noted as open, over those
\* that are open already, and the slots copied.
Window(t, p) == <<t.kind, IF t.kind \in Shared THEN t.spot ELSE p>>

Open(p) ==
  LET t == task[p]
      w == Window(t, p)
      fresh == IF t.kind \in {"table", "anvil"}
               THEN [n \in Grid(w) |-> Empty] @@ slots ELSE slots
  IN  /\ t.at = "opening"
      /\ entry' = IF t.kind \in Shared THEN entry \cup {w} ELSE entry
      /\ flags' = [flags EXCEPT ![p] = [@ EXCEPT ![t.kind] = IF t.kind \in Shared THEN t.spot ELSE TRUE]]
      /\ slots' = fresh
      /\ task' = [task EXCEPT ![p].at = "showing",
                              ![p].copy = [n \in Range(Layout(w, p)) \ Output |-> fresh[n]]]
      /\ UNCHANGED <<block, heat, loop, ground, sent, clients, doubt, mixed, ledger, deeds>>

\* And the copy is sent.  The client forgets what its cursor holds.  From now on
\* its clicks may go astray, if it has opened or closed another window meanwhile.
Astray(p) == screen[p] \notin {NoScreen, <<"own", p>>}
             \/ \E k \in DOMAIN sent[p] : sent[p][k].op \in {"use", "close"}

Show(p) ==
  LET t == task[p]
      w == Window(t, p)
      told == Range(Layout(w, p))
  IN  /\ t.at = "showing"
      /\ screen' = [screen EXCEPT ![p] = w]
      /\ view' = [view EXCEPT ![p] = t.copy @@ [n \in told |-> Empty] @@ @]
      /\ cursor' = [cursor EXCEPT ![p] = Empty]
      /\ mixed' = [mixed EXCEPT ![p] = @ \/ Astray(p)]
      /\ doubt' = [doubt EXCEPT ![p] = IF mixed'[p] THEN Name ELSE Believed(p, t.old, sent[p], told, @)]
      /\ task' = [task EXCEPT ![p] = Idle]
      /\ Book(LetGo(p))
      /\ UNCHANGED <<block, entry, slots, heat, flags, loop, ground, sent, deeds>>

\* apply_window_click: the windows that are noted as open are asked in this order,
\* whichever window was clicked; and without any, the inventory.
Route(p, w) ==
  CASE w[1] = "own"              -> w
    [] w[1] # "own" /\ flags[p].furnace # None -> <<"furnace", flags[p].furnace>>
    [] OTHER -> IF flags[p].stand # None THEN <<"stand", flags[p].stand>>
                ELSE IF flags[p].table THEN <<"table", p>>
                ELSE IF flags[p].anvil THEN <<"anvil", p>>
                ELSE IF flags[p].chest # None THEN <<"chest", flags[p].chest>>
                ELSE <<"own", p>>

\* The slots after the stack is written to the slot of that index, if there is one
\* (outside the window there is none), and if its block entity is still there.
\* Nothing is kept in the outputs of a table and an anvil, and where it is ignored.
Written(w, p, i, stack) ==
  LET l == Layout(w, p)
  IN  IF \/ i \notin DOMAIN l
         \/ l[i] \in Output /\ w[1] # "own"
         \/ l[i] \in Ignored
         \/ l[i] \in SharedName /\ w \notin entry
      THEN slots
      ELSE [slots EXCEPT ![l[i]] = stack]

\* Taking the output uses up the grid, if it makes anything.
UsedUp(sl, w) ==
  IF w[1] = "anvil" THEN [n \in Grid(w) |-> Empty] @@ sl
                    ELSE [n \in {m \in Grid(w) : sl[m] # Empty} |-> Less(sl[n])] @@ sl

\* craft_window_click, anvil_window_click and update_crafting_grid, after the slots
\* are written.
Reacted(sl, w, took) ==
  LET spent == IF took /\ Result(sl, w) # Empty THEN UsedUp(sl, w) ELSE sl
  IN  IF w[1] = "own" THEN [spent EXCEPT ![<<"own", w[2], "out">>] = Result(spent, w)] ELSE spent

\* What the answer tells: the output, and the grid if it was used up.
Answer(sl, w, took) ==
  LET out == CHOOSE n \in Range(Names(w)) : n \in Output
  IN  (out :> Result(Reacted(sl, w, took), w))
      @@ (IF took /\ Result(sl, w) # Empty THEN [n \in Grid(w) |-> Reacted(sl, w, took)[n]] ELSE <<>>)

\* How many items crafting makes and uses.
Made(sl, w, took) ==
  [i \in Item |-> IF took /\ Result(sl, w) # Empty
                  THEN Count(Result(sl, w), i)
                       + Sum(Grid(w), LAMBDA n : Count(UsedUp(sl, w)[n], i) - Count(sl[n], i))
                  ELSE 0]

\* The client hears it, if it still has that window on its screen.
Hears(p, w) == w[1] = "own" \/ screen[p][1] = w[1]

\* How many items are lost, or come back, as the click is at a slot that is ignored.
Dropped(m, p) ==
  [i \in Item |-> IF m.op = "click" /\ Meant(m, p) \in Ignored
                  THEN Count(m.was, i) - Count(m.now, i) ELSE 0]

ApplyClick(p) ==
  /\ Next1(p, "click") \/ Next1(p, "outside")
  /\ LET m == Head(sent[p])
         w == Route(p, m.window)
         l == Layout(w, p)
         written == Written(w, p, m.index, m.now)
         reacts == w[1] \in Personal
         took == reacts /\ m.index \in DOMAIN l /\ l[m.index] \in Output
         new == IF reacts THEN Reacted(written, w, took) ELSE written
         answer == IF reacts THEN Answer(written, w, took) ELSE <<>>
         clicked == IF m.op = "click" THEN {Meant(m, p)} \ Ignored ELSE {}
         changed == {n \in Name : new[n] # slots[n]} \cup clicked
         besides == {n \in changed : new[n] # written[n]}
         queue == Unsure(Rest(p), besides)
     IN  /\ slots' = new
         /\ sent' = [q \in Player |-> IF q = p THEN queue[p] ELSE Unsure(Rest(p), changed)[q]]
         /\ view' = IF Hears(p, w) THEN [view EXCEPT ![p] = answer @@ @] ELSE view
         /\ doubt' = [Doubted(changed, Player \ {p}) EXCEPT
              ![p] = IF ~mixed[p] /\ Hears(p, w) THEN Believed(p, {}, Tail(sent[p]), DOMAIN answer, @)
                     ELSE @ \cup DOMAIN answer]
         /\ task' = AgedTasks(task, changed)
         /\ loop' = Aged(loop, changed)
         /\ UNCHANGED <<block, entry, heat, flags, ground, screen, cursor, mixed, deeds>>
         /\ IF m.sure /\ ~mixed[p]
            THEN Book([i \in Item |-> Made(written, w, took)[i] + Dropped(m, p)[i]])
            ELSE WriteOff

\* Mutant: close_crafting without clearing the grid.
HandedBackTwice(p) == FoldLeft(LAMBDA sl, n : Added(sl, p, sl[n]), slots,
                               SelectSeq(Names(<<"table", p>>), LAMBDA n : flags[p].table /\ n \notin Output))

\* close_crafting and close_anvil put what lies in the grid into the inventory, as
\* far as it has room.
HandedBack(p) ==
  LET back == SelectSeq(Names(<<"table", p>>), LAMBDA n : flags[p].table /\ n \notin Output)
              \o SelectSeq(Names(<<"anvil", p>>), LAMBDA n : flags[p].anvil /\ n \notin Output)
  IN  [n \in Range(back) |-> Empty] @@ FoldLeft(LAMBDA sl, n : Added(sl, p, sl[n]), slots, back)

\* There is a free slot for each stack handed back.
Fits(p) == Cardinality({n \in Grid(<<"table", p>>) \cup Grid(<<"anvil", p>>) : slots[n] # Empty})
           <= Cardinality({n \in Range(Pack(p)) : slots[n] = Empty})

\* Then every window counts as closed.  After a table or an anvil the client is
\* told its inventory.
CloseWindow(p) ==
  /\ Next1(p, "close")
  /\ LET new == HandedBack(p)
         synced == flags[p].table \/ flags[p].anvil
         mine == Range(Names(<<"own", p>>) \o Pack(p))
         changed == {n \in mine : new[n] # slots[n]}
         tuned == screen[p] \in {NoScreen, <<"own", p>>}
                  /\ \A k \in 2..Len(sent[p]) : sent[p][k].op \notin {"use", "close"}
     IN  /\ slots' = new
         /\ flags' = [flags EXCEPT ![p] = Closed]
         /\ sent' = Unsure(Rest(p), changed)
         /\ view' = IF synced THEN [view EXCEPT ![p] = [n \in mine |-> new[n]] @@ @] ELSE view
         /\ mixed' = [mixed EXCEPT ![p] = IF tuned THEN FALSE ELSE @]
         /\ doubt' = [doubt EXCEPT ![p] = IF synced /\ ~mixed[p]
                                          THEN Believed(p, {}, Tail(sent[p]), mine, @) ELSE @]
         /\ UNCHANGED <<block, entry, heat, task, loop, ground, screen, cursor, deeds>>
         /\ IF ~synced \/ Fits(p) THEN Book(Nothing) ELSE WriteOff

\* break_block: the block is gone first, and what was in it spilled after.
Break(p) ==
  /\ Next1(p, "dig")
  /\ sent' = Rest(p)
  /\ LET at == <<HomeDim[p], Head(sent[p]).spot>>
     IN  /\ block' = [block EXCEPT ![at] = "air"]
         /\ task' = IF <<block[at], at[2]>> \notin Shared \X Spot THEN task
                    ELSE [task EXCEPT ![p] = [Idle EXCEPT !.at = "spilling", !.kind = block[at], !.spot = at[2]]]
  /\ UNCHANGED <<entry, slots, heat, flags, loop, ground, clients, doubt, mixed, ledger, deeds>>

Cold(s, kind) == [heat EXCEPT ![s] = IF kind = "furnace" THEN [@ EXCEPT !.burn = 0, !.cook = 0]
                                     ELSE IF kind = "stand" THEN [@ EXCEPT !.brew = 0] ELSE @]

Spill(p) ==
  /\ task[p].at = "spilling"
  /\ LET w == <<task[p].kind, task[p].spot>>
         gone == Range(Names(w))
     IN  /\ entry' = entry \ {w}
         /\ ground' = [i \in Item |-> ground[i] + Sum(gone, LAMBDA n : Count(slots[n], i))]
         /\ slots' = [n \in gone |-> Empty] @@ slots
         /\ heat' = Cold(w[2], w[1])
         /\ sent' = Unsure(sent, gone)
         /\ doubt' = Doubted(gone, Player)
         /\ task' = AgedTasks([task EXCEPT ![p] = Idle], gone)
         /\ loop' = Aged(loop, gone)
  /\ UNCHANGED <<block, flags, clients, mixed, ledger, deeds>>

\* A player leaves, and joins again later: what lies in its grids and in its
\* cursor is gone, as are its clicks that were under way.
Lost(p) ==
  [i \in Item |->
     - Count(cursor[p], i)
     - Sum(Clicks(p), LAMBDA k : Count(sent[p][k].now, i) - Count(sent[p][k].was, i))
     - Sum(Grid(<<"table", p>>) \cup Grid(<<"anvil", p>>), LAMBDA n : Count(slots[n], i))]

Leave(p) ==
  /\ task[p].at = "idle"
  /\ Spend(p)
  /\ LET grids == Grid(<<"table", p>>) \cup Grid(<<"anvil", p>>)
         mine  == Range(Names(<<"own", p>>) \o Pack(p))
         new   == [n \in grids |-> Empty] @@ slots
     IN  /\ slots' = new
         /\ flags' = [flags EXCEPT ![p] = Closed]
         /\ sent' = [sent EXCEPT ![p] = <<>>]
         /\ screen' = [screen EXCEPT ![p] = NoScreen]
         /\ cursor' = [cursor EXCEPT ![p] = Empty]
         /\ view' = [view EXCEPT ![p] = [n \in mine |-> new[n]] @@ @]
         /\ doubt' = [doubt EXCEPT ![p] = Name \ mine]
         /\ mixed' = [mixed EXCEPT ![p] = FALSE]
  /\ Book(Lost(p))
  /\ UNCHANGED <<block, entry, heat, task, loop, ground>>

-----------------------------------------------------------------------------
(* The game loop *)

Cooled(n) == IF n > 2 THEN n - 2 ELSE 0

\* Fuel is lit when nothing burns.
LitUp(f, h) ==
  LET lights == h.burn = 0 /\ f.fuel # Empty /\ FuelTicks[f.fuel.id] > 0
  IN  [fuel |-> IF lights THEN Less(f.fuel) ELSE f.fuel,
       burn |-> IF lights THEN FuelTicks[f.fuel.id] ELSE h.burn]

CanSmelt(f) ==
  /\ f.in # Empty /\ Smelted[f.in.id] # None
  /\ \/ f.out = Empty
     \/ f.out.id = Smelted[f.in.id] /\ f.out.count < MaxStack[f.out.id]

\* step: the furnace after one step, and whether it has smelted.
Stepped(f, h) ==
  LET can == CanSmelt(f)
      lit == IF can THEN LitUp(f, h) ELSE [fuel |-> f.fuel, burn |-> h.burn]
      cooks == lit.burn > 0 /\ can
      done == cooks /\ h.cook + 1 >= CookTime
  IN  [in   |-> IF done THEN Less(f.in) ELSE f.in,
       fuel |-> lit.fuel,
       out  |-> IF done THEN Of(Smelted[f.in.id], f.out.count + 1) ELSE f.out,
       burn |-> IF lit.burn > 0 THEN lit.burn - 1 ELSE 0,
       cook |-> IF done THEN 0 ELSE IF cooks THEN h.cook + 1 ELSE Cooled(h.cook)]

\* What the loop changes, and is about to tell those who look at it.
LoopSets(w, new, h) ==
  LET changed == {n \in DOMAIN new : new[n] # slots[n]}
  IN  /\ slots' = new @@ slots
      /\ heat' = [heat EXCEPT ![w[2]] = h]
      /\ loop' = [at |-> "telling", kind |-> w[1], spot |-> w[2], copy |-> new, old |-> {}]
      /\ sent' = Unsure(sent, changed)
      /\ task' = AgedTasks(task, changed)
      /\ doubt' = Doubted(changed, Player)
      /\ Book([i \in Item |-> Sum(DOMAIN new, LAMBDA n : Count(new[n], i) - Count(slots[n], i))])
      /\ UNCHANGED <<block, entry, flags, ground, clients, mixed, deeds>>

FurnaceStep(s) ==
  /\ loop.at = "idle" /\ <<"furnace", s>> \in entry
  /\ LET w == <<"furnace", s>>
         f == [in |-> slots[Names(w)[1]], fuel |-> slots[Names(w)[2]], out |-> slots[Names(w)[3]]]
         g == Stepped(f, heat[s])
     IN  LoopSets(w, Names(w)[1] :> g.in @@ Names(w)[2] :> g.fuel @@ Names(w)[3] :> g.out,
                  [heat[s] EXCEPT !.burn = g.burn, !.cook = g.cook])

BrewStep(s) ==
  /\ loop.at = "idle" /\ <<"stand", s>> \in entry
  /\ LET w == <<"stand", s>>
         bottle == slots[Names(w)[1]]
         ing == slots[Names(w)[2]]
         brews == ing # Empty /\ ing.id \in Brewing /\ bottle # Empty /\ Brewed[bottle.id] # None
         done == brews /\ heat[s].brew + 1 >= BrewTime
     IN  LoopSets(w, Names(w)[1] :> (IF done THEN [bottle EXCEPT !.id = Brewed[@]] ELSE bottle)
                     @@ Names(w)[2] :> (IF done THEN Less(ing) ELSE ing),
                  [heat[s] EXCEPT !.brew = IF brews /\ ~done THEN @ + 1 ELSE 0])

\* Mutant: the output is not told.
TellInputs ==
  LET looking == {p \in Player : flags[p][loop.kind] = loop.spot}
      told == DOMAIN loop.copy
      heard == {n \in told : n[3] # "out"}
  IN  /\ loop.at = "telling"
      /\ view' = [p \in Player |-> IF p \in looking /\ screen[p][1] = loop.kind
                                   THEN [n \in heard |-> loop.copy[n]] @@ view[p] ELSE view[p]]
      /\ doubt' = [p \in Player |-> IF p \in looking /\ screen[p][1] = loop.kind /\ ~mixed[p]
                                    THEN Believed(p, loop.old, sent[p], told, doubt[p]) ELSE doubt[p]]
      /\ loop' = Resting
      /\ UNCHANGED <<block, entry, slots, heat, flags, task, ground, sent, screen, cursor, mixed,
                     ledger, deeds>>

\* Everyone whose window is noted as open there is told the slots.
Tell ==
  LET looking == {p \in Player : flags[p][loop.kind] = loop.spot}
      told == DOMAIN loop.copy
  IN  /\ loop.at = "telling"
      /\ view' = [p \in Player |-> IF p \in looking /\ screen[p][1] = loop.kind
                                   THEN loop.copy @@ view[p] ELSE view[p]]
      /\ doubt' = [p \in Player |-> IF p \in looking /\ screen[p][1] = loop.kind /\ ~mixed[p]
                                    THEN Believed(p, loop.old, sent[p], told, doubt[p]) ELSE doubt[p]]
      /\ loop' = Resting
      /\ UNCHANGED <<block, entry, slots, heat, flags, task, ground, sent, screen, cursor, mixed,
                     ledger, deeds>>

\* An explosion takes a block of the overworld and leaves the block entity.
Explode ==
  /\ Spend(None)
  /\ \E s \in Spot : block[<<Overworld, s>>] # "air" /\ block' = [block EXCEPT ![<<Overworld, s>>] = "air"]
  /\ UNCHANGED <<entry, slots, heat, flags, task, loop, ground, sent, clients, doubt, mixed, ledger>>

-----------------------------------------------------------------------------
Init ==
  /\ \E scene \in Scenes :
       /\ block = scene.block
       /\ slots = scene.slots @@ [n \in Name |-> Empty]
       /\ entry = scene.entry
       /\ deeds = scene.deeds
  /\ heat = [s \in Spot |-> [burn |-> 0, cook |-> 0, brew |-> 0]]
  /\ flags = [p \in Player |-> Closed]
  /\ task = [p \in Player |-> Idle]
  /\ loop = Resting
  /\ ground = Nothing
  /\ sent = [p \in Player |-> <<>>]
  /\ screen = [p \in Player |-> NoScreen]
  /\ view = [p \in Player |-> slots]
  /\ cursor = [p \in Player |-> Empty]
  /\ doubt = [p \in Player |-> Name \ OwnName(p)]
  /\ mixed = [p \in Player |-> FALSE]
  /\ ledger = [i \in Item |-> Sum(Name, LAMBDA n : Count(slots[n], i))]

Next ==
  \/ \E p \in Player : \/ Use(p) \/ Dig(p) \/ OpenOwn(p) \/ Click(p) \/ ThrowOut(p)
                       \/ ClickOutside(p) \/ Close(p)
                       \/ LookAt(p) \/ Open(p) \/ Show(p) \/ ApplyClick(p) \/ CloseWindow(p)
                       \/ Break(p) \/ Spill(p) \/ Leave(p)
  \/ \E s \in Spot : FurnaceStep(s) \/ BrewStep(s)
  \/ Tell \/ Explode

Spec == Init /\ [][Next]_vars

-----------------------------------------------------------------------------
(* Items move between slots, cursors and the ground, are crafted, smelted and
   brewed, and otherwise none appears or vanishes, whatever is in flight between
   the clients and the server.  The exceptions are written off as they happen: a
   click at a slot that another player, the game loop or the answer to an earlier
   click has changed meanwhile, or that the client shows wrong since; clicks while
   windows were opened over each other; a grid for which the inventory has no
   room; what a cursor holds when its window is closed; what is thrown out of a
   window, which the server drops nowhere; what is laid in the fuel slot of a
   brewing stand, which the server ignores; and the grids of a player who leaves.
   (apply_window_click, furnace::click and tick, brewing::click, break_block,
   close_crafting) *)
ItemsKept == \A i \in Item : Total(i) = ledger[i]

(* A client shows the slots of its window as they are, once its clicks at them have
   arrived and the answers come back, but for a slot somebody else has changed
   since it was told, and for a brewing stand's fuel slot once it has clicked there,
   until the window is shown again. (furnace::tick and brewing::tick tell whoever has the window
   open, craft_window_click answers with the output and the grid, and
   sync_inventory follows close_crafting and close_anvil.) *)
ViewIsTrue ==
  \A p \in Player : screen[p] # NoScreen =>
    \A n \in Range(Layout(screen[p], p)) \ (doubt[p] \cup Pending(p)) : view[p][n] = Holds(n)
=============================================================================
